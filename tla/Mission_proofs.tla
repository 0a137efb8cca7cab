---------------------------- MODULE Mission_proofs ----------------------------
(***************************************************************************)
(* Proofs about Mission, for any time-outs and any bounds.                 *)
(*                                                                         *)
(* That following ends up off outside a trip is a fact about the whole     *)
(* queue: what counts is the last request not yet sent, else the last one  *)
(* on its way, else what the follow node does.  A request is dropped       *)
(* unsent only when its service was missing for its whole time, and then   *)
(* the follow node has died and starts with following off; the one moment  *)
(* the service is missing although the node drives is right after a        *)
(* restart of the mission node, and then GraphInv says that its first      *)
(* disable is still in time.                                               *)
(***************************************************************************)
EXTENDS Mission, SequenceTheorems, TLAPS

-----------------------------------------------------------------------------
(* The inductive invariant.                                                *)

CallRecord == [want : BOOLEAN, left : (-1 .. EnableTimeout) \cup (-1 .. CallTimeout)]

MachineOK ==
  /\ state \in States /\ entered \in 0 .. StopTimeout + 1
  /\ okAge \in -1 .. Fallback /\ retry \in -1 .. RetryAfter
  /\ odomAge \in -1 .. OdomStale + 1 /\ stillFor \in -1 .. Hold
  /\ aborting \in BOOLEAN /\ pending \in BOOLEAN

QueueOK ==
  /\ calls \in Seq(CallRecord)
  /\ fut \in {"none", "sent", "served", "ok"} /\ (fut # "none" => calls # <<>>)
  /\ pc \in {"spin", "pump", "pumpTick"}

FollowOK ==
  /\ on \in BOOLEAN /\ alive \in BOOLEAN /\ ready \in BOOLEAN
  /\ wire \in Seq(BOOLEAN) /\ unseen \in 0 .. DiscoverMax
  /\ inputs \in Nat /\ deaths \in Nat

MissionTypes == MachineOK /\ QueueOK /\ FollowOK

\* The follow node is off and nothing is on its way to it.
Quiet == wire = <<>> /\ ~on

\* A dead node is quiet, and so is one that is not on the graph, except right
\* after a restart, when the disable of __init__() is waiting and still in time.
GraphInv ==
  /\ ~alive => Quiet
  /\ ~ready => Quiet \/ /\ fut = "none" /\ calls # <<>> /\ ~Head1.want
                        /\ Head1.left + unseen >= CallTimeout

\* A stop without a confirmed disable has one queued or a retry to come.
StopInv ==
  state = "cancelling" /\ okAge = -1 =>
    retry # -1 \/ \E i \in DOMAIN calls : ~calls[i].want

\* tick() has looked at the time-outs since the last unit of time.
TimeoutInv ==
  pc # "pumpTick" => /\ state = "starting" => entered <= EnableTimeout
                     /\ state = "cancelling" => entered <= StopTimeout

MissionInv ==
  MissionTypes /\ GraphInv /\ StopInv /\ TimeoutInv /\ OffOutsideTrips

-----------------------------------------------------------------------------
(* Lemmas about constants, calls and the queue.                            *)

LEMMA TimeFacts ==
  /\ EnableTimeout \in Nat /\ CallTimeout \in Nat /\ RetryAfter \in Nat
  /\ StopTimeout \in Nat /\ Fallback \in Nat /\ Hold \in Nat /\ OdomStale \in Nat
  /\ TerminalHold \in Nat /\ DiscoverMax \in Nat /\ MaxInputs \in Nat /\ MaxFaults \in Nat
  /\ DiscoverMax <= CallTimeout
BY TimeAssumption

LEMMA Rigid ==
  /\ CallRecord' = CallRecord /\ States' = States /\ TripStates' = TripStates
  /\ Moving' = Moving /\ \A want : Call(want)' = Call(want)
BY DEF CallRecord, States, TripStates, Moving, Call

LEMMA CallFacts ==
  ASSUME NEW want \in BOOLEAN
  PROVE  /\ Call(want) \in CallRecord /\ Call(want).want = want
         /\ Call(want).left = IF want THEN EnableTimeout ELSE CallTimeout
BY TimeFacts DEF Call, CallRecord

LEMMA DisableFacts ==
  /\ Call(TRUE) \in CallRecord /\ Call(FALSE) \in CallRecord
  /\ ~Call(FALSE).want /\ Call(FALSE).left = CallTimeout
BY CallFacts

\* Joining the queue.
LEMMA PushFacts ==
  ASSUME NEW S, NEW s \in Seq(S), NEW b \in S
  PROVE  /\ Len(s) \in Nat /\ Append(s, b) \in Seq(S)
         /\ Len(Append(s, b)) = Len(s) + 1 /\ Append(s, b) # <<>>
         /\ \A k \in 1 .. Len(s) : Append(s, b)[k] = s[k]
         /\ Append(s, b)[Len(s) + 1] = b
         /\ s # <<>> => Head(Append(s, b)) = Head(s)
BY AppendProperties, LenProperties, EmptySeq

\* Alone in it.
LEMMA OneFacts ==
  ASSUME NEW S, NEW b \in S
  PROVE  /\ <<b>> \in Seq(S) /\ <<b>> # <<>> /\ Head(<<b>>) = b /\ Len(<<b>>) = 1
         /\ <<b>>[1] = b
OBVIOUS

\* Leaving it.
LEMMA PopFacts ==
  ASSUME NEW S, NEW s \in Seq(S), s # <<>>
  PROVE  /\ Len(s) \in Nat \ {0} /\ Head(s) = s[1] /\ Head(s) \in S
         /\ Tail(s) \in Seq(S) /\ Len(Tail(s)) = Len(s) - 1
         /\ \A k \in 1 .. Len(Tail(s)) : Tail(s)[k] = s[k + 1]
         /\ Tail(s) = <<>> <=> Len(s) = 1
<1>1. Len(s) \in Nat \ {0}  BY EmptySeq
<1>2. Head(s) \in S /\ Tail(s) \in Seq(S) /\ Len(Tail(s)) = Len(s) - 1
      /\ \A k \in 1 .. Len(Tail(s)) : Tail(s)[k] = s[k + 1]
  BY HeadTailProperties
<1>3. Tail(s) = <<>> <=> Len(Tail(s)) = 0  BY <1>2, EmptySeq
<1> QED  BY <1>1, <1>2, <1>3

\* Waiting in it for a unit of time.
LEMMA WaitFacts ==
  ASSUME NEW c \in Seq(CallRecord), NEW d,
         d = [i \in DOMAIN c |-> [c[i] EXCEPT !.left = TimeLeft(@)]]
  PROVE  /\ d \in Seq(CallRecord) /\ Len(d) = Len(c) /\ (d = <<>> <=> c = <<>>)
         /\ \A i \in 1 .. Len(c) :
              d[i].want = c[i].want /\ d[i].left = TimeLeft(c[i].left)
<1>1. Len(c) \in Nat /\ DOMAIN c = 1 .. Len(c)  BY LenProperties
<1>2. \A i \in 1 .. Len(c) :
        /\ [c[i] EXCEPT !.left = TimeLeft(@)] \in CallRecord
        /\ [c[i] EXCEPT !.left = TimeLeft(@)].want = c[i].want
        /\ [c[i] EXCEPT !.left = TimeLeft(@)].left = TimeLeft(c[i].left)
  <2> SUFFICES ASSUME NEW i \in 1 .. Len(c)
               PROVE  /\ [c[i] EXCEPT !.left = TimeLeft(@)] \in CallRecord
                      /\ [c[i] EXCEPT !.left = TimeLeft(@)].want = c[i].want
                      /\ [c[i] EXCEPT !.left = TimeLeft(@)].left = TimeLeft(c[i].left)
    OBVIOUS
  <2>1. c[i] \in CallRecord  BY <1>1, ElementOfSeq
  <2>2. TimeLeft(c[i].left) \in (-1 .. EnableTimeout) \cup (-1 .. CallTimeout)
    BY <2>1, TimeFacts DEF CallRecord, TimeLeft
  <2> QED  BY <2>1, <2>2 DEF CallRecord
<1>3. d \in [1 .. Len(c) -> CallRecord]  BY <1>1, <1>2
<1>4. d \in Seq(CallRecord) /\ Len(d) = Len(c)  BY <1>1, <1>3, IsASeq, LenProperties
<1> QED  BY <1>1, <1>2, <1>4, EmptySeq

\* What is not yet sent, by length and last element.
LEMMA UnsentFacts ==
  ASSUME NEW S, NEW c \in Seq(S), NEW n \in BOOLEAN, c # <<>> \/ n
  PROVE  LET u == IF n THEN c ELSE Tail(c)
         IN  /\ u \in Seq(S) /\ Len(u) = (IF n THEN Len(c) ELSE Len(c) - 1)
             /\ u # <<>> <=> Len(u) > 0
             /\ u # <<>> => u[Len(u)] = c[Len(c)]
<1>1. CASE n
  BY <1>1, EmptySeq, LenProperties
<1>2. CASE ~n
  <2>1. c # <<>>  BY <1>2
  <2>2. /\ Tail(c) \in Seq(S) /\ Len(c) \in Nat /\ Len(Tail(c)) = Len(c) - 1
        /\ \A k \in 1 .. Len(Tail(c)) : Tail(c)[k] = c[k + 1]
    BY <2>1, PopFacts
  <2>3. Tail(c) # <<>> <=> Len(Tail(c)) > 0  BY <2>2, EmptySeq
  <2> QED  BY <1>2, <2>2, <2>3
<1> QED  BY <1>1, <1>2

-----------------------------------------------------------------------------
(* What the machine does to the queue.                                     *)

\* start(), cancel(), abort() and tick(): nothing is asked, or a disable, or a
\* trip begins with an enable; nothing but leaving a trip needs a disable.
LEMMA MachineAsks ==
  ASSUME Start \/ Cancel \/ Abort \/ Tick
  PROVE  \/ calls' = calls /\ (state' \notin Moving => state \notin Moving)
         \/ calls' = Append(calls, Call(FALSE))
         \/ calls' = Append(calls, Call(TRUE)) /\ state' \in Moving
<1>1. CASE Start  BY <1>1 DEF Start, missionVars, Enter, Moving
<1>2. CASE Cancel
  BY <1>2 DEF Cancel, BeginStop, RequestDisable, Moving
<1>3. CASE Abort  BY <1>3 DEF Abort, BeginStop, RequestDisable
<1>4. CASE Tick
  BY <1>4 DEF Tick, TickStarting, TickStopped, TickUnconfirmed, TickRetry, TickIdle,
              TickNothing, RequestDisable, Enter, Moving
<1> QED  BY <1>1, <1>2, <1>3, <1>4

\* enable_result() and disable_result() likewise, on the queue without its head.
LEMMA ResultAsks ==
  ASSUME NEW q, NEW ok \in BOOLEAN, EnableResult(q, ok) \/ DisableResult(q, ok)
  PROVE  \/ calls' = q /\ (state' \notin Moving => state \notin Moving)
         \/ calls' = Append(q, Call(FALSE))
<1>1. CASE EnableResult(q, ok)
  BY <1>1 DEF EnableResult, RequestDisable, Enter, Moving
<1>2. CASE DisableResult(q, ok)
  BY <1>2 DEF DisableResult
<1> QED  BY <1>1, <1>2

-----------------------------------------------------------------------------
(* Type correctness.                                                       *)

LEMMA SpanFacts ==
  /\ -1 \in -1 .. Fallback /\ 0 \in -1 .. Fallback
  /\ -1 \in -1 .. RetryAfter /\ RetryAfter \in -1 .. RetryAfter
  /\ -1 \in -1 .. OdomStale + 1 /\ -1 \in -1 .. Hold
  /\ 0 \in 0 .. StopTimeout + 1
BY TimeFacts

LEMMA MachineKept ==
  ASSUME MachineOK, UNCHANGED missionVars
  PROVE  MachineOK'
BY Rigid DEF MachineOK, missionVars, stopVars, odomVars

LEMMA MachineTypes ==
  ASSUME MachineOK, Start \/ Cancel \/ Abort \/ Tick
  PROVE  MachineOK'
<1> USE TimeFacts DEF MachineOK, States, TripStates, Moving, stopVars, odomVars, Enter
<1>1. CASE Start
  <2>1. CASE UNCHANGED missionVars  BY <2>1, MachineKept
  <2>2. CASE Enter("starting") /\ aborting' = FALSE /\ UNCHANGED <<stopVars, odomVars>>
    BY <2>2, SpanFacts
  <2> QED  BY <1>1, <2>1, <2>2 DEF Start
<1>2. CASE Cancel \/ Abort
  <2>1. state' \in States /\ entered' \in 0 .. StopTimeout + 1
    BY <1>2 DEF Cancel, Abort, BeginStop
  <2>2. okAge' \in {okAge, -1} /\ retry' \in {retry, -1} /\ odomAge' = odomAge
        /\ stillFor' \in {stillFor, -1}
    BY <1>2 DEF Cancel, Abort, BeginStop, RequestDisable
  <2>3. aborting' \in BOOLEAN  BY <1>2 DEF Cancel, Abort
  <2>4. pending' \in BOOLEAN  BY <1>2 DEF Cancel, Abort, BeginStop, RequestDisable
  <2> QED  BY <2>1, <2>2, <2>3, <2>4, SpanFacts
<1>3. CASE Tick
  <2> USE <1>3 DEF Tick, TickStarting, TickStopped, TickUnconfirmed, TickRetry, TickIdle,
                   TickNothing
  <2>1. state' \in States /\ entered' \in 0 .. StopTimeout + 1
    BY DEF StopEndsIn
  <2>2. retry' \in {retry, -1} /\ UNCHANGED <<okAge, odomAge, stillFor>>
    BY DEF RequestDisable
  <2>3. aborting' \in BOOLEAN  OBVIOUS
  <2>4. pending' \in BOOLEAN  BY DEF RequestDisable
  <2> QED  BY <2>1, <2>2, <2>3, <2>4, SpanFacts
<1> QED  BY <1>1, <1>2, <1>3

LEMMA ResultTypes ==
  ASSUME MachineOK, NEW q, NEW ok \in BOOLEAN, EnableResult(q, ok) \/ DisableResult(q, ok)
  PROVE  MachineOK'
<1> USE TimeFacts DEF MachineOK, States, TripStates, Moving, stopVars, odomVars, Enter
<1>1. CASE EnableResult(q, ok)
  <2>1. state' \in States /\ entered' \in 0 .. StopTimeout + 1
    BY <1>1 DEF EnableResult
  <2>2. retry' \in {retry, -1} /\ UNCHANGED <<okAge, odomAge, stillFor>>
    BY <1>1 DEF EnableResult, RequestDisable
  <2>3. aborting' \in BOOLEAN  BY <1>1 DEF EnableResult
  <2>4. pending' \in BOOLEAN  BY <1>1 DEF EnableResult, RequestDisable
  <2> QED  BY <2>1, <2>2, <2>3, <2>4, SpanFacts
<1>2. CASE DisableResult(q, ok)
  <2>1. state' \in States /\ entered' \in 0 .. StopTimeout + 1
    BY <1>2 DEF DisableResult
  <2>2. okAge' \in {okAge, 0} /\ retry' \in {retry, RetryAfter}
        /\ UNCHANGED <<odomAge, stillFor>>
    BY <1>2 DEF DisableResult
  <2>3. aborting' \in BOOLEAN /\ pending' \in BOOLEAN  BY <1>2 DEF DisableResult
  <2> QED  BY <2>1, <2>2, <2>3, SpanFacts
<1> QED  BY <1>1, <1>2

LEMMA FollowKept ==
  ASSUME FollowOK, UNCHANGED <<followVars, bounds>>
  PROVE  FollowOK'
BY DEF FollowOK, followVars, bounds

\* The queue keeps its type when calls join it behind a head that stays.
LEMMA QueueGrows ==
  ASSUME QueueOK, fut' = fut, pc' \in {"spin", "pump", "pumpTick"},
         \/ calls' = calls
         \/ calls' = Append(calls, Call(FALSE))
         \/ calls' = Append(calls, Call(TRUE))
  PROVE  QueueOK'
<1>1. calls' \in Seq(CallRecord) /\ (calls # <<>> => calls' # <<>>)
  <2>1. CASE calls' = calls  BY <2>1 DEF QueueOK
  <2>2. CASE calls' = Append(calls, Call(FALSE))
    BY <2>2, CallFacts, PushFacts DEF QueueOK
  <2>3. CASE calls' = Append(calls, Call(TRUE))
    BY <2>3, CallFacts, PushFacts DEF QueueOK
  <2> QED  BY <2>1, <2>2, <2>3
<1> QED  BY <1>1, Rigid DEF QueueOK

LEMMA BootTypes ==
  ASSUME FollowOK, Boot
  PROVE  /\ MachineOK' /\ QueueOK'
         /\ ready' = FALSE /\ unseen' = 0 /\ fut' = "none" /\ pc' = "pump"
         /\ state' = "idle" /\ calls' # <<>> /\ Head(calls') = Call(FALSE)
         /\ Len(calls') = 1 /\ calls'[1] = Call(FALSE)
<1> USE TimeFacts
<1>1. calls' = <<Call(FALSE)>> /\ Call(FALSE) \in CallRecord  BY CallFacts DEF Boot
<1>2. /\ calls' \in Seq(CallRecord) /\ calls' # <<>> /\ Head(calls') = Call(FALSE)
      /\ Len(calls') = 1 /\ calls'[1] = Call(FALSE)
  BY <1>1, OneFacts
<1>3. aborting' \in BOOLEAN /\ pending' \in BOOLEAN  BY DEF Boot
<1>4. MachineOK'  BY <1>3 DEF Boot, MachineOK, States
<1>5. QueueOK'  BY <1>2, Rigid DEF Boot, QueueOK
<1> QED  BY <1>2, <1>4, <1>5 DEF Boot

LEMMA InitTypes == Init => MissionTypes
<1> SUFFICES ASSUME Init PROVE MissionTypes  OBVIOUS
<1> USE TimeFacts
<1>1. calls = <<Call(FALSE)>> /\ Call(FALSE) \in CallRecord  BY CallFacts DEF Init
<1>2. calls \in Seq(CallRecord)  BY <1>1, OneFacts
<1>3. aborting \in BOOLEAN /\ pending \in BOOLEAN  BY DEF Init
<1>4. MachineOK  BY <1>3 DEF Init, MachineOK, States
<1>5. QueueOK  BY <1>2 DEF Init, QueueOK
<1>6. wire \in Seq(BOOLEAN)  BY EmptySeq DEF Init
<1>7. on \in BOOLEAN /\ alive \in BOOLEAN /\ ready \in BOOLEAN  BY DEF Init
<1>8. FollowOK  BY <1>6, <1>7 DEF Init, FollowOK
<1> QED  BY <1>4, <1>5, <1>8 DEF MissionTypes

\* The callbacks.
LEMMA InputTypes ==
  ASSUME MissionTypes, OnTripStart \/ OnTripCancel \/ OnSafetyStop \/ OnOdom
  PROVE  MissionTypes'
<1>1. CASE OnTripStart \/ OnTripCancel \/ OnSafetyStop
  <2>1. /\ Start \/ Cancel \/ Abort
        /\ inputs' = inputs + 1 /\ pc' = "pump" /\ UNCHANGED <<fut, followVars, deaths>>
    BY <1>1 DEF OnTripStart, OnTripCancel, OnSafetyStop, Input
  <2>2. MachineOK'  BY <2>1, MachineTypes DEF MissionTypes
  <2>3. QueueOK'  BY <2>1, MachineAsks, QueueGrows DEF MissionTypes
  <2>4. FollowOK'  BY <2>1 DEF MissionTypes, FollowOK, followVars
  <2> QED  BY <2>2, <2>3, <2>4 DEF MissionTypes
<1>2. CASE OnOdom
  <2>1. PICK still \in BOOLEAN : Odom(still)  BY <1>2 DEF OnOdom
  <2>2. MachineOK'
    <3>1. odomAge' \in -1 .. OdomStale + 1 /\ stillFor' \in -1 .. Hold
      BY <2>1, TimeFacts DEF Odom, MissionTypes, MachineOK
    <3>2. UNCHANGED <<state, entered, aborting, stopVars>>  BY <1>2 DEF OnOdom
    <3> QED  BY <3>1, <3>2, Rigid DEF MissionTypes, MachineOK, stopVars
  <2>3. QueueOK'  BY <1>2, QueueGrows DEF OnOdom, MissionTypes, QueueOK
  <2>4. FollowOK'  BY <1>2, FollowKept DEF OnOdom, MissionTypes
  <2> QED  BY <2>2, <2>3, <2>4 DEF MissionTypes
<1> QED  BY <1>1, <1>2

LEMMA OnTickTypes ==
  ASSUME MissionTypes, OnTick
  PROVE  MissionTypes'
<1> USE TimeFacts
<1>1. MachineOK'
  <2>1. /\ entered' \in 0 .. StopTimeout + 1 /\ okAge' \in -1 .. Fallback
        /\ retry' \in -1 .. RetryAfter
        /\ odomAge' \in -1 .. OdomStale + 1 /\ stillFor' \in -1 .. Hold
    BY DEF OnTick, MissionTypes, MachineOK, UpTo, IfSet
  <2>2. UNCHANGED <<state, aborting, pending>>  BY DEF OnTick
  <2> QED  BY <2>1, <2>2, Rigid DEF MissionTypes, MachineOK
<1>2. QueueOK'
  <2>1. /\ fut' = fut /\ pc' = "pumpTick"
        /\ calls' = [i \in DOMAIN calls |-> [calls[i] EXCEPT !.left = TimeLeft(@)]]
    BY DEF OnTick
  <2>2. calls' \in Seq(CallRecord) /\ (calls' = <<>> <=> calls = <<>>)
    BY <2>1, WaitFacts DEF MissionTypes, QueueOK
  <2> QED  BY <2>1, <2>2, Rigid DEF MissionTypes, QueueOK
<1>3. FollowOK'
  <2>1. unseen' \in 0 .. DiscoverMax  BY DEF OnTick, MissionTypes, FollowOK
  <2> QED  BY <2>1 DEF OnTick, MissionTypes, FollowOK, bounds
<1> QED  BY <1>1, <1>2, <1>3 DEF MissionTypes

LEMMA PumpTypes ==
  ASSUME MissionTypes, Pump
  PROVE  MissionTypes'
<1>1. MachineOK /\ QueueOK /\ FollowOK  BY DEF MissionTypes
<1>2. CASE PumpSend
  <2>1. Head1 \in CallRecord  BY <1>1, <1>2, PopFacts DEF PumpSend, QueueOK, Head1
  <2>2. wire' \in Seq(BOOLEAN)
    <3>1. Head1.want \in BOOLEAN  BY <2>1 DEF CallRecord
    <3>2. wire' = wire \/ wire' = Append(wire, Head1.want)  BY <1>2 DEF PumpSend
    <3> QED  BY <1>1, <3>1, <3>2, PushFacts DEF FollowOK
  <2>3. FollowOK'  BY <1>1, <1>2, <2>2 DEF PumpSend, FollowOK, bounds
  <2>4. MachineOK'  BY <1>1, <1>2, MachineKept DEF PumpSend
  <2>5. QueueOK'  BY <1>1, <1>2, Rigid DEF PumpSend, QueueOK
  <2> QED  BY <2>3, <2>4, <2>5 DEF MissionTypes
<1>3. CASE PumpPop
  <2>1. /\ EnableResult(Tail(calls), fut = "ok") \/ DisableResult(Tail(calls), fut = "ok")
        /\ calls # <<>> /\ fut' = "none" /\ pc' = pc
    BY <1>3 DEF PumpPop
  <2>2. MachineOK'  BY <1>1, <2>1, ResultTypes
  <2>3. calls' = Tail(calls) \/ calls' = Append(Tail(calls), Call(FALSE))
    BY <2>1, ResultAsks
  <2>4. Tail(calls) \in Seq(CallRecord)  BY <1>1, <2>1, PopFacts DEF QueueOK
  <2>5. calls' \in Seq(CallRecord)  BY <2>3, <2>4, CallFacts, PushFacts
  <2>6. QueueOK'  BY <1>1, <2>1, <2>5, Rigid DEF QueueOK
  <2>7. FollowOK'  BY <1>1, <1>3, FollowKept DEF PumpPop
  <2> QED  BY <2>2, <2>6, <2>7 DEF MissionTypes
<1>4. CASE PumpDone
  <2>1. /\ fut' = fut /\ pc' \in {"spin", "pump"}
        /\ Tick \/ UNCHANGED <<missionVars, calls>>
    BY <1>4 DEF PumpDone
  <2>2. MachineOK'  BY <1>1, <2>1, MachineTypes, MachineKept
  <2>3. QueueOK'  BY <1>1, <2>1, MachineAsks, QueueGrows
  <2>4. FollowOK'  BY <1>1, <1>4, FollowKept DEF PumpDone
  <2> QED  BY <2>2, <2>3, <2>4 DEF MissionTypes
<1> QED  BY <1>2, <1>3, <1>4 DEF Pump

LEMMA DeathTypes ==
  ASSUME MissionTypes, Crash \/ Exit
  PROVE  MissionTypes'
<1>1. /\ Boot /\ UNCHANGED <<on, alive, inputs>> /\ deaths' = deaths + 1
      /\ wire' = wire \/ wire' = Append(wire, FALSE)
  BY DEF Crash, Exit
<1>2. MachineOK' /\ QueueOK' /\ ready' = FALSE /\ unseen' = 0
  BY <1>1, BootTypes DEF MissionTypes
<1>3. wire' \in Seq(BOOLEAN)  BY <1>1, PushFacts DEF MissionTypes, FollowOK
<1>4. ready' \in BOOLEAN  BY <1>2
<1>5. FollowOK'  BY <1>1, <1>2, <1>3, <1>4, TimeFacts DEF MissionTypes, FollowOK
<1> QED  BY <1>2, <1>5 DEF MissionTypes

\* The follow node and the graph.
LEMMA FollowTypes ==
  ASSUME MissionTypes, Serve \/ Respond \/ FollowDies \/ FollowStarts \/ Discover
  PROVE  MissionTypes'
<1>1. MachineOK /\ QueueOK /\ FollowOK  BY DEF MissionTypes
<1>2. UNCHANGED <<missionVars, calls, pc>>
  BY DEF Serve, Respond, FollowDies, FollowStarts, Discover
<1>3. MachineOK'  BY <1>1, <1>2, MachineKept
<1>4. QueueOK'
  <2>1. fut' \in {"none", "sent", "served", "ok"} /\ (fut' # "none" => fut # "none")
    BY <1>1 DEF Serve, Respond, FollowDies, FollowStarts, Discover, QueueOK
  <2> QED  BY <1>1, <1>2, <2>1, Rigid DEF QueueOK
<1>5. FollowOK'
  <2>1. CASE Serve
    <3>1. Head(wire) \in BOOLEAN /\ Tail(wire) \in Seq(BOOLEAN)
      BY <1>1, <2>1, PopFacts DEF Serve, FollowOK
    <3> QED  BY <1>1, <2>1, <3>1 DEF Serve, FollowOK, bounds
  <2>2. CASE Respond  BY <1>1, <2>2, FollowKept DEF Respond
  <2>3. CASE FollowDies
    <3>1. wire' \in Seq(BOOLEAN)  BY <2>3, EmptySeq DEF FollowDies
    <3>2. on' \in BOOLEAN /\ alive' \in BOOLEAN  BY <2>3 DEF FollowDies
    <3> QED  BY <1>1, <2>3, <3>1, <3>2 DEF FollowDies, FollowOK
  <2>4. CASE FollowStarts  BY <1>1, <2>4 DEF FollowStarts, FollowOK, bounds
  <2>5. CASE Discover  BY <1>1, <2>5, TimeFacts DEF Discover, FollowOK, bounds
  <2> QED  BY <2>1, <2>2, <2>3, <2>4, <2>5
<1> QED  BY <1>3, <1>4, <1>5 DEF MissionTypes

LEMMA TypeStep == MissionTypes /\ [Next]_vars => MissionTypes'
<1>1. MissionTypes /\ UNCHANGED vars => MissionTypes'
  BY MachineKept, FollowKept, QueueGrows DEF MissionTypes, vars, QueueOK
<1> QED
  BY <1>1, InputTypes, OnTickTypes, PumpTypes, DeathTypes, FollowTypes DEF Next

-----------------------------------------------------------------------------
(* The graph.                                                              *)

\* Calls that join the queue do not change its head.
LEMMA HeadStays ==
  ASSUME QueueOK, calls # <<>>,
         \/ calls' = calls
         \/ calls' = Append(calls, Call(FALSE))
         \/ calls' = Append(calls, Call(TRUE))
  PROVE  calls' # <<>> /\ Head1' = Head1
<1>1. CASE calls' = calls  BY <1>1 DEF Head1
<1>2. ASSUME NEW b \in CallRecord, calls' = Append(calls, b)
      PROVE  calls' # <<>> /\ Head1' = Head1
  BY <1>2, PushFacts DEF QueueOK, Head1
<1> QED  BY <1>1, <1>2, DisableFacts

LEMMA GraphByMachine ==
  ASSUME QueueOK, GraphInv, UNCHANGED <<fut, followVars>>,
         \/ calls' = calls
         \/ calls' = Append(calls, Call(FALSE))
         \/ calls' = Append(calls, Call(TRUE))
  PROVE  GraphInv'
BY HeadStays DEF GraphInv, Quiet, followVars

LEMMA GraphStep == MissionTypes /\ GraphInv /\ [Next]_vars => GraphInv'
<1> SUFFICES ASSUME MissionTypes, GraphInv, [Next]_vars PROVE GraphInv'  OBVIOUS
<1>1. QueueOK /\ FollowOK  BY DEF MissionTypes
<1>2. CASE OnTripStart \/ OnTripCancel \/ OnSafetyStop \/ OnOdom \/ PumpDone \/ UNCHANGED vars
  <2>1. /\ UNCHANGED <<fut, followVars>>
        /\ Start \/ Cancel \/ Abort \/ Tick \/ calls' = calls
    BY <1>2 DEF OnTripStart, OnTripCancel, OnSafetyStop, Input, OnOdom, PumpDone, vars
  <2> QED  BY <1>1, <2>1, MachineAsks, GraphByMachine
<1>3. CASE OnTick
  <2>1. /\ UNCHANGED <<fut, on, alive, wire, ready>>
        /\ unseen' = IF alive /\ ~ready THEN unseen + 1 ELSE 0
        /\ alive /\ ~ready => unseen < DiscoverMax
    BY <1>3 DEF OnTick
  <2>2. /\ calls' # <<>> <=> calls # <<>>
        /\ calls # <<>> => /\ Head1'.want = Head1.want
                           /\ Head1'.left = TimeLeft(Head1.left) /\ Head1 \in CallRecord
    <3>1. calls' = [i \in DOMAIN calls |-> [calls[i] EXCEPT !.left = TimeLeft(@)]]
      BY <1>3 DEF OnTick
    <3>2. /\ calls' \in Seq(CallRecord) /\ Len(calls') = Len(calls)
          /\ (calls' = <<>> <=> calls = <<>>)
          /\ \A i \in 1 .. Len(calls) :
               calls'[i].want = calls[i].want /\ calls'[i].left = TimeLeft(calls[i].left)
      BY <1>1, <3>1, WaitFacts DEF QueueOK
    <3>3. ASSUME calls # <<>>
          PROVE  Head1 = calls[1] /\ Head1' = calls'[1] /\ 1 \in 1 .. Len(calls)
                 /\ Head1 \in CallRecord
      BY <1>1, <3>2, <3>3, PopFacts DEF QueueOK, Head1
    <3> QED  BY <3>2, <3>3
  <2>3. Quiet' <=> Quiet  BY <2>1 DEF Quiet
  <2>4. ASSUME ~ready, ~Quiet PROVE Head1'.left + unseen' >= CallTimeout
    <3>1. alive /\ calls # <<>> /\ Head1.left + unseen >= CallTimeout  BY <2>4 DEF GraphInv
    <3>2. unseen' = unseen + 1 /\ unseen < DiscoverMax /\ unseen \in Nat
      BY <1>1, <2>1, <2>4, <3>1, TimeFacts DEF FollowOK
    <3>3. Head1.left \in Int /\ Head1'.left = TimeLeft(Head1.left)
      BY <2>2, <3>1, TimeFacts DEF CallRecord
    <3>4. Head1.left > -1  BY <3>1, <3>2, <3>3, TimeFacts
    <3>5. Head1'.left = Head1.left - 1  BY <3>3, <3>4 DEF TimeLeft
    <3> QED  BY <3>1, <3>2, <3>3, <3>5, TimeFacts
  <2> QED  BY <2>1, <2>2, <2>3, <2>4 DEF GraphInv
<1>4. CASE PumpSend
  <2>1. /\ ready' = ready /\ alive' = alive /\ on' = on /\ ready
        /\ ~alive => wire' = wire
    BY <1>4 DEF PumpSend
  <2> QED  BY <2>1 DEF GraphInv, Quiet
<1>5. CASE PumpPop
  <2>1. UNCHANGED followVars  BY <1>5 DEF PumpPop
  <2>2. ASSUME ~ready PROVE Quiet
    <3> SUFFICES ASSUME ~Quiet PROVE FALSE  OBVIOUS
    <3>1. fut = "none" /\ calls # <<>> /\ Head1.left + unseen >= CallTimeout
      BY <2>2 DEF GraphInv
    <3>2. Head1.left = -1  BY <1>5, <3>1 DEF PumpPop, Late
    <3>3. unseen \in Nat /\ unseen <= DiscoverMax  BY <1>1, TimeFacts DEF FollowOK
    <3> QED  BY <3>1, <3>2, <3>3, TimeFacts
  <2> QED  BY <2>1, <2>2 DEF GraphInv, Quiet, followVars
<1>6. CASE Crash \/ Exit
  <2>1. Boot /\ UNCHANGED <<on, alive>> /\ (~alive => wire' = wire)
    BY <1>6 DEF Crash, Exit
  <2>2. /\ ready' = FALSE /\ unseen' = 0 /\ fut' = "none" /\ calls' # <<>>
        /\ Head1' = Call(FALSE)
    BY <1>1, <2>1, BootTypes DEF Head1
  <2>3. ~Head1'.want /\ Head1'.left + unseen' >= CallTimeout
    <3>1. ~Head1'.want /\ Head1'.left = CallTimeout  BY <2>2, DisableFacts, Zenon
    <3>2. CallTimeout + unseen' >= CallTimeout  BY <2>2, TimeFacts
    <3> QED  BY <3>1, <3>2, Zenon
  <2> QED  BY <2>1, <2>2, <2>3 DEF GraphInv, Quiet
<1>7. CASE Serve
  <2>1. /\ alive /\ wire # <<>> /\ UNCHANGED <<calls, alive, ready, unseen>>
        /\ fut = "none" => fut' = "none"
    BY <1>7 DEF Serve
  <2>2. ~Quiet  BY <2>1 DEF Quiet
  <2> QED  BY <2>1, <2>2 DEF GraphInv, Head1
<1>8. CASE Respond
  <2>1. fut = "served" /\ UNCHANGED <<followVars>>  BY <1>8 DEF Respond
  <2> QED  BY <2>1 DEF GraphInv, Quiet, followVars
<1>9. CASE FollowDies  BY <1>9 DEF FollowDies, GraphInv, Quiet
<1>10. CASE FollowStarts
  <2>1. ~alive /\ UNCHANGED <<on, wire, ready>>  BY <1>10 DEF FollowStarts
  <2> QED  BY <2>1 DEF GraphInv, Quiet
<1>11. CASE Discover
  <2>1. ready' = alive /\ UNCHANGED <<on, alive, wire>>  BY <1>11 DEF Discover
  <2> QED  BY <2>1 DEF GraphInv, Quiet
<1> QED
  BY <1>2, <1>3, <1>4, <1>5, <1>6, <1>7, <1>8, <1>9, <1>10, <1>11 DEF Next, Pump

-----------------------------------------------------------------------------
(* Where following settles.                                                *)

\* Settles over the queue c, the future f, the requests w and the node's state o.
Waiting(c, f) == IF f = "none" THEN Len(c) ELSE Len(c) - 1
Goal(c, f, w, o) ==
  IF Waiting(c, f) > 0 THEN c[Len(c)].want
  ELSE IF w # <<>> THEN w[Len(w)] ELSE o

LEMMA SettlesFacts ==
  /\ QueueOK => (Settles <=> Goal(calls, fut, wire, on))
  /\ QueueOK' => (Settles' <=> Goal(calls', fut', wire', on'))
<1>1. ASSUME QueueOK PROVE Settles <=> Goal(calls, fut, wire, on)
  <2> DEFINE n == fut = "none"
  <2>1. calls \in Seq(CallRecord) /\ n \in BOOLEAN /\ (calls # <<>> \/ n)
    BY <1>1 DEF QueueOK
  <2>2. Unsent = IF n THEN calls ELSE Tail(calls)  BY DEF Unsent
  <2>3. /\ Len(Unsent) = Waiting(calls, fut) /\ (Unsent # <<>> <=> Len(Unsent) > 0)
        /\ Unsent # <<>> => Unsent[Len(Unsent)] = calls[Len(calls)]
    <3> HIDE DEF n
    <3>1. /\ Len(Unsent) = (IF n THEN Len(calls) ELSE Len(calls) - 1)
          /\ (Unsent # <<>> <=> Len(Unsent) > 0)
          /\ Unsent # <<>> => Unsent[Len(Unsent)] = calls[Len(calls)]
      BY <2>1, <2>2, UnsentFacts
    <3> QED  BY <3>1 DEF n, Waiting
  <2> QED  BY <2>3 DEF Settles, Goal
<1>2. ASSUME QueueOK' PROVE Settles' <=> Goal(calls', fut', wire', on')
  <2> DEFINE n == fut' = "none"
  <2>1. calls' \in Seq(CallRecord) /\ n \in BOOLEAN /\ (calls' # <<>> \/ n)
    BY <1>2, Rigid DEF QueueOK
  <2>2. Unsent' = IF n THEN calls' ELSE Tail(calls')  BY DEF Unsent
  <2>3. /\ Len(Unsent') = Waiting(calls', fut') /\ (Unsent' # <<>> <=> Len(Unsent') > 0)
        /\ Unsent' # <<>> => Unsent'[Len(Unsent')] = calls'[Len(calls')]
    <3> HIDE DEF n
    <3>1. /\ Len(Unsent') = (IF n THEN Len(calls') ELSE Len(calls') - 1)
          /\ (Unsent' # <<>> <=> Len(Unsent') > 0)
          /\ Unsent' # <<>> => Unsent'[Len(Unsent')] = calls'[Len(calls')]
      BY <2>1, <2>2, UnsentFacts
    <3> QED  BY <3>1 DEF n, Waiting
  <2> QED  BY <2>3 DEF Settles, Goal
<1> QED  BY <1>1, <1>2

\* A disable that has just been asked for settles it.
LEMMA DisableSettles ==
  ASSUME NEW c \in Seq(CallRecord), NEW d, d = Append(c, Call(FALSE)),
         NEW f, NEW w, NEW o, c # <<>> \/ f = "none"
  PROVE  ~Goal(d, f, w, o)
<1>1. Len(c) \in Nat /\ Len(d) = Len(c) + 1 /\ d[Len(c) + 1] = Call(FALSE)
  BY CallFacts, PushFacts
<1>2. c # <<>> => Len(c) > 0  BY <1>1, EmptySeq
<1>3. Waiting(d, f) > 0  BY <1>1, <1>2 DEF Waiting
<1> QED  BY <1>1, <1>3, CallFacts DEF Goal

\* The callbacks and tick(): what they ask settles it, or they ask nothing.
LEMMA OffByMachine ==
  ASSUME QueueOK, QueueOK', OffOutsideTrips, UNCHANGED <<fut, wire, on>>,
         \/ calls' = calls /\ (state' \notin Moving => state \notin Moving)
         \/ calls' = Append(calls, Call(FALSE))
         \/ calls' = Append(calls, Call(TRUE)) /\ state' \in Moving
  PROVE  OffOutsideTrips'
<1> SUFFICES ASSUME state' \notin Moving PROVE ~Goal(calls', fut', wire', on')
  BY SettlesFacts, Rigid DEF OffOutsideTrips
<1>1. CASE calls' = calls /\ (state' \notin Moving => state \notin Moving)
  BY <1>1, SettlesFacts DEF OffOutsideTrips
<1>2. CASE calls' = Append(calls, Call(FALSE))
  BY <1>2, DisableSettles DEF QueueOK
<1> QED  BY <1>1, <1>2

LEMMA OffStep ==
  ASSUME MissionTypes, MissionTypes', GraphInv, OffOutsideTrips, [Next]_vars
  PROVE  OffOutsideTrips'
<1>1. QueueOK /\ FollowOK /\ QueueOK' /\ FollowOK'  BY DEF MissionTypes
<1>2. state \notin Moving => ~Goal(calls, fut, wire, on)
  BY <1>1, SettlesFacts DEF OffOutsideTrips
<1>3. (state' \notin Moving => ~Goal(calls', fut', wire', on')) => OffOutsideTrips'
  BY <1>1, SettlesFacts, Rigid DEF OffOutsideTrips
<1>4. CASE OnTripStart \/ OnTripCancel \/ OnSafetyStop \/ OnOdom \/ PumpDone \/ UNCHANGED vars
  <2>1. /\ UNCHANGED <<fut, wire, on>>
        /\ Start \/ Cancel \/ Abort \/ Tick \/ UNCHANGED <<calls, state>>
    BY <1>4 DEF OnTripStart, OnTripCancel, OnSafetyStop, Input, OnOdom, PumpDone, vars,
                followVars, missionVars
  <2> QED  BY <1>1, <2>1, MachineAsks, OffByMachine
<1>5. CASE OnTick
  <2>1. /\ UNCHANGED <<state, fut, wire, on>>
        /\ calls' = [i \in DOMAIN calls |-> [calls[i] EXCEPT !.left = TimeLeft(@)]]
    BY <1>5 DEF OnTick
  <2>2. /\ Len(calls') = Len(calls) /\ Len(calls) \in Nat
        /\ \A i \in 1 .. Len(calls) : calls'[i].want = calls[i].want
    BY <1>1, <2>1, WaitFacts, LenProperties DEF QueueOK
  <2>3. Waiting(calls', fut') = Waiting(calls, fut)  BY <2>1, <2>2 DEF Waiting
  <2>4. Waiting(calls, fut) > 0 => Len(calls) \in 1 .. Len(calls)  BY <2>2 DEF Waiting
  <2>5. Goal(calls', fut', wire', on') = Goal(calls, fut, wire, on)
    BY <2>1, <2>2, <2>3, <2>4 DEF Goal
  <2> QED  BY <1>2, <1>3, <2>1, <2>5
<1>6. CASE PumpSend
  <2>1. /\ calls # <<>> /\ fut = "none" /\ fut' = "sent" /\ UNCHANGED <<state, calls, on, alive>>
        /\ wire' = IF alive THEN Append(wire, Head1.want) ELSE wire
    BY <1>6 DEF PumpSend, missionVars
  <2> SUFFICES ASSUME state' \notin Moving PROVE ~Goal(calls', fut', wire', on')
    BY <1>3
  <2>2. Len(calls) \in Nat \ {0} /\ Head1 = calls[1] /\ Head1 \in CallRecord
    BY <1>1, <2>1, PopFacts DEF QueueOK, Head1
  <2>3. ~calls[Len(calls)].want  BY <1>2, <2>1, <2>2 DEF Goal, Waiting
  <2>4. CASE Len(calls) > 1
    BY <2>1, <2>2, <2>3, <2>4 DEF Goal, Waiting
  <2>5. CASE Len(calls) = 1
    <3>1. ~Head1.want /\ Head1.want \in BOOLEAN  BY <2>2, <2>3, <2>5 DEF CallRecord
    <3>2. Goal(calls', fut', wire', on') = IF wire' # <<>> THEN wire'[Len(wire')] ELSE on'
      BY <2>1, <2>5 DEF Goal, Waiting
    <3>3. CASE alive
      <4>1. /\ wire' = Append(wire, Head1.want) /\ wire' # <<>>
            /\ wire'[Len(wire')] = Head1.want
        BY <1>1, <2>1, <3>1, <3>3, PushFacts DEF FollowOK
      <4> QED  BY <3>1, <3>2, <4>1
    <3>4. CASE ~alive
      <4>1. wire' = <<>> /\ ~on'  BY <2>1, <3>4 DEF GraphInv, Quiet
      <4> QED  BY <3>2, <4>1
    <3> QED  BY <3>3, <3>4
  <2> QED  BY <2>2, <2>4, <2>5
<1>7. CASE PumpPop
  <2>1. /\ calls # <<>> /\ fut' = "none" /\ UNCHANGED <<wire, on, ready>>
        /\ fut # "none" \/ (~ready /\ Late)
        /\ EnableResult(Tail(calls), fut = "ok") \/ DisableResult(Tail(calls), fut = "ok")
    BY <1>7 DEF PumpPop, followVars
  <2> SUFFICES ASSUME state' \notin Moving PROVE ~Goal(calls', fut', wire', on')
    BY <1>3
  <2>2. /\ Len(calls) \in Nat \ {0} /\ Tail(calls) \in Seq(CallRecord)
        /\ Len(Tail(calls)) = Len(calls) - 1
        /\ \A k \in 1 .. Len(Tail(calls)) : Tail(calls)[k] = calls[k + 1]
    BY <1>1, <2>1, PopFacts DEF QueueOK
  <2>3. \/ calls' = Tail(calls) /\ state \notin Moving
        \/ calls' = Append(Tail(calls), Call(FALSE))
    BY <2>1, ResultAsks
  <2>4. CASE calls' = Append(Tail(calls), Call(FALSE))
    BY <2>1, <2>2, <2>4, DisableSettles
  <2>5. CASE calls' = Tail(calls) /\ state \notin Moving
    <3>1. ~Goal(calls, fut, wire, on)  BY <1>2, <2>5
    <3>2. CASE Len(calls) > 1
      <4>1. Waiting(calls, fut) > 0 /\ Waiting(calls', fut') > 0
        BY <2>1, <2>2, <2>5, <3>2 DEF Waiting
      <4>2. calls'[Len(calls')] = calls[Len(calls)]  BY <2>2, <2>5, <3>2
      <4> QED  BY <3>1, <4>1, <4>2 DEF Goal
    <3>3. CASE Len(calls) = 1
      <4>1. Goal(calls', fut', wire', on') = IF wire # <<>> THEN wire[Len(wire)] ELSE on
        BY <2>1, <2>2, <2>5, <3>3 DEF Goal, Waiting
      <4>2. CASE fut # "none"
        <5>1. Waiting(calls, fut) = 0  BY <3>3, <4>2 DEF Waiting
        <5> QED  BY <3>1, <4>1, <5>1 DEF Goal
      <4>3. CASE fut = "none" /\ ~ready /\ Late
        <5>1. Quiet
          <6> SUFFICES ASSUME ~Quiet PROVE FALSE  OBVIOUS
          <6>1. Head1.left + unseen >= CallTimeout  BY <4>3 DEF GraphInv
          <6>2. Head1.left = -1  BY <4>3 DEF Late
          <6>3. unseen \in Nat /\ unseen <= DiscoverMax  BY <1>1, TimeFacts DEF FollowOK
          <6> QED  BY <6>1, <6>2, <6>3, TimeFacts
        <5> QED  BY <4>1, <5>1 DEF Quiet
      <4> QED  BY <2>1, <4>2, <4>3
    <3> QED  BY <2>2, <3>2, <3>3
  <2> QED  BY <2>3, <2>4, <2>5
<1>8. CASE Crash \/ Exit
  <2>1. Boot  BY <1>8 DEF Crash, Exit
  <2>2. fut' = "none" /\ Len(calls') = 1 /\ calls'[1] = Call(FALSE)
    BY <1>1, <2>1, BootTypes
  <2>3. Waiting(calls', fut') > 0 /\ calls'[Len(calls')] = Call(FALSE)
    BY <2>2 DEF Waiting
  <2>4. ~Goal(calls', fut', wire', on')  BY <2>3, DisableFacts, Zenon DEF Goal
  <2> QED  BY <1>3, <2>4
<1>9. CASE Serve
  <2>1. /\ wire # <<>> /\ on' = Head(wire) /\ wire' = Tail(wire) /\ UNCHANGED <<state, calls>>
        /\ fut' = "none" <=> fut = "none"
    BY <1>9 DEF Serve, missionVars
  <2> SUFFICES ASSUME state' \notin Moving PROVE ~Goal(calls', fut', wire', on')
    BY <1>3
  <2>2. Waiting(calls', fut') = Waiting(calls, fut)  BY <2>1 DEF Waiting
  <2>3. /\ Len(wire) \in Nat \ {0} /\ Head(wire) = wire[1]
        /\ Len(wire') = Len(wire) - 1 /\ (wire' = <<>> <=> Len(wire) = 1)
        /\ \A k \in 1 .. Len(wire') : wire'[k] = wire[k + 1]
    BY <1>1, <2>1, PopFacts DEF FollowOK
  <2>4. (IF wire' # <<>> THEN wire'[Len(wire')] ELSE on') = wire[Len(wire)]
    BY <2>1, <2>3
  <2> QED  BY <1>2, <2>1, <2>2, <2>4 DEF Goal
<1>10. CASE Respond
  <2>1. fut # "none" /\ fut' # "none" /\ UNCHANGED <<state, calls, wire, on>>
    BY <1>10 DEF Respond, missionVars, followVars
  <2>2. Goal(calls', fut', wire', on') = Goal(calls, fut, wire, on)
    BY <2>1 DEF Goal, Waiting
  <2> QED  BY <1>2, <1>3, <2>1, <2>2
<1>11. CASE FollowDies
  <2>1. on' = FALSE /\ wire' = <<>> /\ UNCHANGED <<state, calls, fut>>
    BY <1>11 DEF FollowDies, missionVars
  <2> QED  BY <1>2, <1>3, <2>1 DEF Goal
<1>12. CASE FollowStarts \/ Discover
  <2>1. UNCHANGED <<state, calls, fut, wire, on>>
    BY <1>12 DEF FollowStarts, Discover, missionVars
  <2> QED  BY <1>2, <1>3, <2>1
<1> QED
  BY <1>4, <1>5, <1>6, <1>7, <1>8, <1>9, <1>10, <1>11, <1>12 DEF Next, Pump

-----------------------------------------------------------------------------
(* Stops.                                                                  *)

\* A disable in the queue stays there while calls join.
LEMMA DisableStays ==
  ASSUME QueueOK,
         \/ calls' = calls
         \/ calls' = Append(calls, Call(FALSE))
         \/ calls' = Append(calls, Call(TRUE)),
         NEW i \in DOMAIN calls, ~calls[i].want
  PROVE  \E j \in DOMAIN calls' : ~calls'[j].want
<1>1. CASE calls' = calls  BY <1>1
<1>2. ASSUME NEW b \in CallRecord, calls' = Append(calls, b)
      PROVE  i \in DOMAIN calls' /\ calls'[i] = calls[i]
  <2>1. Len(calls) \in Nat /\ DOMAIN calls = 1 .. Len(calls)  BY LenProperties DEF QueueOK
  <2>2. /\ calls' \in Seq(CallRecord) /\ Len(calls') = Len(calls) + 1
        /\ \A k \in 1 .. Len(calls) : calls'[k] = calls[k]
    BY <1>2, PushFacts DEF QueueOK
  <2>3. DOMAIN calls' = 1 .. Len(calls')  BY <2>2, LenProperties
  <2> QED  BY <2>1, <2>2, <2>3
<1> QED  BY <1>1, <1>2, DisableFacts

\* One that has joined it is there.
LEMMA DisableJoins ==
  ASSUME NEW c \in Seq(CallRecord), NEW d, d = Append(c, Call(FALSE))
  PROVE  \E j \in DOMAIN d : ~d[j].want
<1>1. /\ Len(c) \in Nat /\ Len(d) = Len(c) + 1 /\ d[Len(c) + 1] = Call(FALSE)
      /\ d \in Seq(CallRecord)
  BY DisableFacts, PushFacts
<1>2. DOMAIN d = 1 .. Len(d)  BY <1>1, LenProperties
<1>3. Len(c) + 1 \in DOMAIN d  BY <1>1, <1>2
<1> QED  BY <1>1, <1>3, DisableFacts

\* start(), cancel(), abort() and tick(): a stop begins, or a retry is made, with a
\* disable; nothing else touches the age of the confirmation or the retry.
LEMMA MachineStops ==
  ASSUME Start \/ Cancel \/ Abort \/ Tick, state' = "cancelling"
  PROVE  \/ calls' = Append(calls, Call(FALSE))
         \/ UNCHANGED <<state, okAge, retry, calls>>
<1>1. CASE Start  BY <1>1 DEF Start, missionVars, stopVars, Enter
<1>2. CASE Cancel
  BY <1>2 DEF Cancel, BeginStop, RequestDisable, stopVars
<1>3. CASE Abort  BY <1>3 DEF Abort, BeginStop, RequestDisable
<1>4. CASE Tick
  BY <1>4 DEF Tick, TickStarting, TickStopped, TickUnconfirmed, TickRetry, TickIdle,
              TickNothing, RequestDisable, Enter, StopEndsIn, stopVars
<1> QED  BY <1>1, <1>2, <1>3, <1>4

LEMMA StopStep == MissionTypes /\ StopInv /\ [Next]_vars => StopInv'
<1> SUFFICES ASSUME MissionTypes, StopInv, [Next]_vars,
                    state' = "cancelling", okAge' = -1
             PROVE  retry' # -1 \/ \E i \in DOMAIN calls' : ~calls'[i].want
  BY DEF StopInv
<1>1. MachineOK /\ QueueOK  BY DEF MissionTypes
<1>2. CASE OnTripStart \/ OnTripCancel \/ OnSafetyStop \/ OnOdom \/ PumpDone \/ UNCHANGED vars
  <2>1. Start \/ Cancel \/ Abort \/ Tick \/ UNCHANGED <<calls, state, okAge, retry>>
    BY <1>2 DEF OnTripStart, OnTripCancel, OnSafetyStop, Input, OnOdom, PumpDone, vars,
                missionVars, stopVars
  <2>2. \/ calls' = Append(calls, Call(FALSE))
        \/ UNCHANGED <<state, okAge, retry, calls>>
    BY <2>1, MachineStops
  <2> QED  BY <1>1, <2>2, DisableJoins DEF StopInv, QueueOK
<1>3. CASE OnTick
  <2>1. /\ state' = state /\ okAge' = IfSet(okAge, Fallback)
        /\ retry' = IF retry > 0 THEN retry - 1 ELSE retry
        /\ calls' = [i \in DOMAIN calls |-> [calls[i] EXCEPT !.left = TimeLeft(@)]]
    BY <1>3 DEF OnTick
  <2>2. okAge = -1 /\ (retry' = -1 => retry = -1)
    BY <1>1, <2>1, TimeFacts DEF MachineOK, IfSet, UpTo
  <2>3. ASSUME NEW i \in DOMAIN calls, ~calls[i].want
        PROVE  i \in DOMAIN calls' /\ ~calls'[i].want
    <3>1. DOMAIN calls = 1 .. Len(calls)  BY <1>1, LenProperties DEF QueueOK
    <3> QED  BY <1>1, <2>1, <2>3, <3>1, WaitFacts DEF QueueOK
  <2> QED  BY <2>1, <2>2, <2>3 DEF StopInv
<1>4. CASE PumpPop
  <2>1. /\ calls # <<>>
        /\ IF Head1.want THEN EnableResult(Tail(calls), fut = "ok")
                         ELSE DisableResult(Tail(calls), fut = "ok")
    BY <1>4 DEF PumpPop
  <2>2. /\ Len(calls) \in Nat \ {0} /\ Head1 = calls[1] /\ Tail(calls) \in Seq(CallRecord)
        /\ Len(Tail(calls)) = Len(calls) - 1
        /\ \A k \in 1 .. Len(Tail(calls)) : Tail(calls)[k] = calls[k + 1]
    BY <1>1, <2>1, PopFacts DEF QueueOK, Head1
  <2>3. DOMAIN calls = 1 .. Len(calls) /\ DOMAIN Tail(calls) = 1 .. Len(Tail(calls))
    BY <1>1, <2>2, LenProperties DEF QueueOK
  <2>4. CASE Head1.want /\ EnableResult(Tail(calls), fut = "ok")
    <3>1. \/ calls' = Append(Tail(calls), Call(FALSE))
          \/ calls' = Tail(calls) /\ UNCHANGED <<state, okAge, retry>>
      BY <2>4 DEF EnableResult, RequestDisable, Enter, stopVars
    <3>2. CASE calls' = Append(Tail(calls), Call(FALSE))
      BY <2>2, <3>2, DisableJoins
    <3>3. CASE calls' = Tail(calls) /\ UNCHANGED <<state, okAge, retry>>
      <4> SUFFICES ASSUME NEW i \in DOMAIN calls, ~calls[i].want
                   PROVE  \E j \in DOMAIN calls' : ~calls'[j].want
        BY <3>3 DEF StopInv
      <4>1. i # 1 /\ i \in 1 .. Len(calls)  BY <2>2, <2>3, <2>4
      <4>2. i - 1 \in 1 .. Len(Tail(calls)) /\ (i - 1) + 1 = i  BY <2>2, <4>1
      <4>3. Tail(calls)[i - 1] = calls[i]  BY <2>2, <4>2
      <4> QED  BY <2>3, <3>3, <4>2, <4>3
    <3> QED  BY <3>1, <3>2, <3>3
  <2>5. CASE DisableResult(Tail(calls), fut = "ok")
    <3>1. state = "cancelling"  BY <2>5 DEF DisableResult
    <3>2. okAge = -1 /\ fut # "ok"  BY <2>5, <3>1 DEF DisableResult
    <3>3. retry' = RetryAfter  BY <2>5, <3>1, <3>2 DEF DisableResult
    <3> QED  BY <3>3, TimeFacts
  <2> QED  BY <2>1, <2>4, <2>5
<1>5. CASE Crash \/ Exit
  <2>1. state' = "idle"  BY <1>5 DEF Crash, Exit, Boot
  <2> QED  BY <2>1
<1>6. CASE PumpSend \/ Serve \/ Respond \/ FollowDies \/ FollowStarts \/ Discover
  <2>1. UNCHANGED <<state, okAge, retry, calls>>
    BY <1>6 DEF PumpSend, Serve, Respond, FollowDies, FollowStarts, Discover, missionVars,
                stopVars
  <2> QED  BY <2>1 DEF StopInv
<1> QED  BY <1>2, <1>3, <1>4, <1>5, <1>6 DEF Next, Pump

-----------------------------------------------------------------------------
(* Time-outs.                                                              *)

LEMMA TimeoutStep == MissionTypes /\ TimeoutInv /\ [Next]_vars => TimeoutInv'
<1> SUFFICES ASSUME MissionTypes, TimeoutInv, [Next]_vars, pc' # "pumpTick"
             PROVE  /\ state' = "starting" => entered' <= EnableTimeout
                    /\ state' = "cancelling" => entered' <= StopTimeout
  BY DEF TimeoutInv
<1> USE TimeFacts
<1>1. entered \in Nat  BY DEF MissionTypes, MachineOK
<1>2. CASE OnTripStart \/ OnTripCancel \/ OnSafetyStop
  <2>1. (Start \/ Cancel \/ Abort) /\ pc = "spin"
    BY <1>2 DEF OnTripStart, OnTripCancel, OnSafetyStop, Input
  <2>2. entered' = 0 \/ UNCHANGED <<state, entered>>
    BY <2>1 DEF Start, Cancel, Abort, BeginStop, Enter, missionVars
  <2> QED  BY <2>1, <2>2 DEF TimeoutInv
<1>3. CASE OnTick  BY <1>3 DEF OnTick
<1>4. CASE PumpDone
  <2>1. CASE pc = "pumpTick"
    <3>1. Tick  BY <1>4, <2>1 DEF PumpDone
    <3>2. CASE TickStarting \/ TickStopped \/ TickUnconfirmed \/ TickIdle
      <4>1. state' \notin {"starting", "cancelling"}
        BY <3>2 DEF TickStarting, TickStopped, TickUnconfirmed, TickIdle, Enter, StopEndsIn
      <4> QED  BY <4>1
    <3>3. CASE TickRetry
      BY <3>3 DEF TickRetry, RetryDue
    <3>4. CASE TickNothing
      <4>1. UNCHANGED <<state, entered>>  BY <3>4 DEF TickNothing
      <4>2. state = "starting" => entered <= EnableTimeout  BY <3>4 DEF TickNothing
      <4>3. state = "cancelling" => ~Unconfirmed  BY <3>4 DEF TickNothing
      <4> QED  BY <1>1, <4>1, <4>2, <4>3 DEF Unconfirmed
    <3> QED  BY <3>1, <3>2, <3>3, <3>4 DEF Tick
  <2>2. CASE pc # "pumpTick"
    BY <1>4, <2>2 DEF PumpDone, missionVars, TimeoutInv
  <2> QED  BY <2>1, <2>2
<1>5. CASE PumpPop
  <2>1. /\ pc' = pc
        /\ EnableResult(Tail(calls), fut = "ok") \/ DisableResult(Tail(calls), fut = "ok")
    BY <1>5 DEF PumpPop
  <2>2. entered' = 0 \/ UNCHANGED <<state, entered>>
    BY <2>1 DEF EnableResult, DisableResult, Enter
  <2> QED  BY <2>1, <2>2 DEF TimeoutInv
<1>6. CASE Crash \/ Exit  BY <1>6 DEF Crash, Exit, Boot
<1>7. CASE OnOdom \/ PumpSend \/ Serve \/ Respond \/ FollowDies \/ FollowStarts \/ Discover
           \/ UNCHANGED vars
  <2>1. UNCHANGED <<state, entered, pc>>
    BY <1>7 DEF OnOdom, PumpSend, Serve, Respond, FollowDies, FollowStarts, Discover, vars,
                missionVars
  <2> QED  BY <2>1 DEF TimeoutInv
<1> QED  BY <1>2, <1>3, <1>4, <1>5, <1>6, <1>7 DEF Next, Pump

-----------------------------------------------------------------------------
(* Theorems.                                                               *)

\* The strengthening the safety properties rest on: the queue, the requests under
\* way, the follow node and the graph together with the state of the trip.
THEOREM MissionInvariant == Spec => []MissionInv
<1>1. Init => MissionInv
  <2> SUFFICES ASSUME Init PROVE MissionInv  OBVIOUS
  <2>1. MissionTypes  BY InitTypes
  <2>2. GraphInv  BY DEF Init, GraphInv, Quiet
  <2>3. StopInv /\ TimeoutInv  BY DEF Init, StopInv, TimeoutInv
  <2>4. OffOutsideTrips
    <3>1. calls = <<Call(FALSE)>> /\ fut = "none"  BY DEF Init
    <3>2. Len(calls) = 1 /\ calls[1] = Call(FALSE)  BY <3>1, DisableFacts, OneFacts
    <3>3. Waiting(calls, fut) > 0 /\ calls[Len(calls)] = Call(FALSE)
      BY <3>1, <3>2 DEF Waiting
    <3>4. ~Goal(calls, fut, wire, on)  BY <3>3, DisableFacts, Zenon DEF Goal
    <3> QED  BY <2>1, <3>4, SettlesFacts DEF OffOutsideTrips, MissionTypes
  <2> QED  BY <2>1, <2>2, <2>3, <2>4 DEF MissionInv
<1>2. MissionInv /\ [Next]_vars => MissionInv'
  BY TypeStep, GraphStep, StopStep, TimeoutStep, OffStep DEF MissionInv
<1> QED  BY <1>1, <1>2, PTL DEF Spec

\* Every variable of the mission node and of the follow node's side keeps its type:
\* ages and deadlines stay within their time-outs, an unanswered call is queued.
THEOREM MissionTypeOK == Spec => []TypeOK
<1>1. MissionInv => TypeOK
  <2> SUFFICES ASSUME MissionInv PROVE TypeOK  OBVIOUS
  <2>1. MachineOK /\ QueueOK /\ FollowOK  BY DEF MissionInv, MissionTypes
  <2>2. {aborting, pending, on, alive, ready} \subseteq BOOLEAN
    BY <2>1 DEF MachineOK, FollowOK
  <2> QED  BY <2>1, <2>2 DEF TypeOK, MachineOK, QueueOK, FollowOK, CallRecord
<1> QED  BY <1>1, MissionInvariant, PTL

\* _request_disable(), enable_result() and _pump(): outside a trip everything asked
\* of the follow node so far ends with following off, for any time-outs with which
\* a live service is discovered before the first call gives up, however calls are
\* delayed or lost, and whenever either node dies.
THEOREM FollowingEndsOff == Spec => []OffOutsideTrips
<1>1. MissionInv => OffOutsideTrips  BY DEF MissionInv
<1> QED  BY <1>1, MissionInvariant, PTL

\* disable_result() and tick(): a stop that waits for its first confirmed disable
\* always has one under way or a retry to come, and neither passing state outlives
\* its time-out.
THEOREM StopsNeverStall == Spec => []StopProgresses
<1>1. MissionInv => StopProgresses
  BY DEF MissionInv, StopInv, TimeoutInv, StopProgresses
<1> QED  BY <1>1, MissionInvariant, PTL

\* abort() and tick(): a stop the safety chain asked for, and no cancel of the user
\* took over, ends in `error' unless the node itself dies.
THEOREM SafetyStopsEndInError == Spec => SafetyStopIsError
<1> DEFINE Ends == state = "cancelling" /\ aborting /\ state' # "cancelling"
                     => state' = "error" \/ deaths' # deaths
<1>1. MissionInv /\ [Next]_vars => [Ends]_vars
  <2> SUFFICES ASSUME MissionInv, Next, state = "cancelling", aborting,
                      state' # "cancelling"
               PROVE  state' = "error" \/ deaths' # deaths
    OBVIOUS
  <2>1. CASE OnTripStart \/ OnTripCancel \/ OnSafetyStop
    BY <2>1 DEF OnTripStart, OnTripCancel, OnSafetyStop, Input, Start, Cancel, Abort,
                BeginStop, Enter, missionVars, TripStates, Moving
  <2>2. CASE PumpDone
    BY <2>2 DEF PumpDone, Tick, TickStarting, TickStopped, TickUnconfirmed, TickRetry,
                TickIdle, TickNothing, Enter, StopEndsIn, missionVars
  <2>3. CASE PumpPop
    BY <2>3 DEF PumpPop, EnableResult, DisableResult
  <2>4. CASE Crash \/ Exit
    <3>1. deaths \in Nat /\ deaths' = deaths + 1
      BY <2>4 DEF Crash, Exit, MissionInv, MissionTypes, FollowOK
    <3> QED  BY <3>1
  <2>5. CASE OnOdom \/ OnTick \/ PumpSend \/ Serve \/ Respond \/ FollowDies \/ FollowStarts
             \/ Discover
    BY <2>5 DEF OnOdom, OnTick, PumpSend, Serve, Respond, FollowDies, FollowStarts,
                Discover, missionVars
  <2> QED  BY <2>1, <2>2, <2>3, <2>4, <2>5 DEF Next, Pump
<1>2. Spec => [][Ends]_vars  BY <1>1, MissionInvariant, PTL DEF Spec
<1> QED  BY <1>2 DEF SafetyStopIsError
=============================================================================

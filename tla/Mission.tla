------------------------------- MODULE Mission -------------------------------
(***************************************************************************)
(* The mission node of the Raspberry Pi: the trip state machine            *)
(* (machine.py), the queue of calls to the follow node's enable service    *)
(* that node.py sends one at a time, and the follow node's side of that    *)
(* service (follow_node.py, on_enable).                                    *)
(*                                                                         *)
(* The node is a single-threaded executor: a callback runs to its end, but *)
(* the follow node and the ROS graph move on meanwhile, so _pump() is one  *)
(* step per turn of its loop.  OnTick is the 50 ms timer and the passing   *)
(* of one unit of time; every stamp is kept as an age, every deadline as   *)
(* the time that is left, -1 standing for None and for a deadline passed.  *)
(*                                                                         *)
(* Left out: trip and place ids, error texts and the marker status, which  *)
(* only appear in what is published; a refused SetBool (on_enable always   *)
(* answers success).                                                       *)
(***************************************************************************)
EXTENDS Integers, Sequences

CONSTANTS
  EnableTimeout,   \* enable_timeout_s, of the call and of `starting'
  CallTimeout,     \* DISABLE_CALL_TIMEOUT_S
  RetryAfter,      \* disable_retry_s
  StopTimeout,     \* stop_timeout_s
  Fallback,        \* stop_fallback_s
  Hold,            \* stop_hold_s
  OdomStale,       \* odom_stale_s
  TerminalHold,    \* terminal_hold_s
  DiscoverMax,     \* longest time a live service stays undiscovered
  MaxInputs,       \* bound on trip commands and safety stops
  MaxFaults        \* bound on deaths of the follow node and of this one

ASSUME TimeAssumption ==
  /\ {EnableTimeout, CallTimeout, RetryAfter, StopTimeout, Fallback, Hold,
      OdomStale, TerminalHold, DiscoverMax, MaxInputs, MaxFaults} \subseteq Nat
  /\ DiscoverMax <= CallTimeout

VARIABLES
  \* Mission
  state, entered, aborting, okAge, pending, retry, odomAge, stillFor,
  \* MissionNode: queue of calls, the future of the head, the callback at work
  calls, fut, pc,
  \* the follow node, requests on their way to it, and the ROS graph
  on, alive, wire, ready, unseen,
  inputs, deaths

stopVars == <<okAge, pending, retry>>
odomVars == <<odomAge, stillFor>>
missionVars == <<state, entered, aborting, stopVars, odomVars>>
followVars == <<on, alive, wire, ready, unseen>>
bounds == <<inputs, deaths>>
vars == <<missionVars, calls, fut, pc, followVars, bounds>>

Moving == {"starting", "active"}
TripStates == Moving \cup {"cancelling"}
States == TripStates \cup {"idle", "cancelled", "error"}

UpTo(n, cap) == IF n < cap THEN n + 1 ELSE n           \* an age, saturating
IfSet(n, cap) == IF n = -1 THEN -1 ELSE UpTo(n, cap)   \* the age of an optional stamp
Unfloored(n) == n - 1
TimeLeft(n) == IF n > -1 THEN n - 1 ELSE n

-----------------------------------------------------------------------------
(* machine.py                                                              *)

\* A call as _execute() queues it, with the time left to its deadline.
Call(want) == [want |-> want, left |-> IF want THEN EnableTimeout ELSE CallTimeout]

\* _set()
Enter(s) == state' = s /\ entered' = 0

\* _request_disable(), on the queue q
DropDisable(q) == calls' = q /\ pending' = TRUE /\ retry' = -1
RequestDisable(q) ==
  /\ calls' = Append(q, Call(FALSE))
  /\ pending' = TRUE
  /\ retry' = -1

\* start()
Start ==
  IF state \in TripStates
  THEN UNCHANGED <<missionVars, calls>>
  ELSE /\ Enter("starting")
       /\ aborting' = FALSE
       /\ calls' = Append(calls, Call(TRUE))
       /\ UNCHANGED <<stopVars, odomVars>>

\* The part of cancel() and abort() that begins a stop.
BeginStop ==
  /\ Enter("cancelling")
  /\ okAge' = -1 /\ stillFor' = -1
  /\ RequestDisable(calls)
  /\ UNCHANGED odomAge

\* cancel(): never refused, whatever the state.
Cancel ==
  /\ aborting' = FALSE
  /\ \/ state = "cancelling" /\ UNCHANGED <<state, entered, stopVars, odomVars, calls>>
     \/ state \in {"starting", "active", "error"} /\ BeginStop
     \/ /\ state \in {"idle", "cancelled"} /\ RequestDisable(calls)
        /\ UNCHANGED <<state, entered, okAge, odomVars>>

\* abort(): a safety stop, only during a trip.
Abort == state \in Moving /\ aborting' = TRUE /\ BeginStop

\* enable_result() after the call has left the queue, which is now q.
EnableResult(q, ok) ==
  /\ IF state = "starting"
     THEN IF ok THEN Enter("active") /\ calls' = q /\ UNCHANGED stopVars
                ELSE Enter("error") /\ RequestDisable(q) /\ UNCHANGED okAge
     ELSE /\ IF ok THEN RequestDisable(q) /\ UNCHANGED okAge
                   ELSE calls' = q /\ UNCHANGED stopVars
          /\ UNCHANGED <<state, entered>>
  /\ UNCHANGED <<aborting, odomVars>>
ForgetFailure(q, ok) ==
  /\ calls' = q
  /\ pending' = FALSE
  /\ okAge' = IF ok /\ state = "cancelling" /\ okAge = -1 THEN 0 ELSE okAge
  /\ UNCHANGED <<state, entered, aborting, retry, odomVars>>
DisableResult(q, ok) ==
  /\ calls' = q
  /\ pending' = FALSE
  /\ okAge' = IF ok /\ state = "cancelling" /\ okAge = -1 THEN 0 ELSE okAge
  /\ retry' = IF ~ok /\ state = "cancelling" THEN RetryAfter ELSE retry
  /\ UNCHANGED <<state, entered, aborting, odomVars>>

\* odom(): a message that shows the robot still, or moving.
Odom(still) ==
  /\ odomAge' = 0
  /\ stillFor' = IF ~still THEN -1 ELSE IF stillFor = -1 THEN 0 ELSE stillFor

\* _stopped(): by odometry while it is fresh, else by time.
Stopped ==
  IF odomAge \in 0 .. OdomStale THEN stillFor >= Hold ELSE okAge >= Fallback

\* tick(), with the disable the time-out of `starting' and a retry ask for.
TickStarting ==
  /\ state = "starting" /\ entered > EnableTimeout
  /\ Enter("error") /\ RequestDisable(calls)
  /\ UNCHANGED <<aborting, okAge>>
AlwaysCancelled == "cancelled"
StopEndsIn == IF aborting THEN "error" ELSE "cancelled"
TickStopped ==
  /\ state = "cancelling" /\ okAge # -1 /\ Stopped
  /\ Enter(StopEndsIn)
  /\ aborting' = FALSE
  /\ UNCHANGED <<stopVars, calls>>
NeverUnconfirmed == FALSE
Unconfirmed == entered > StopTimeout
TickUnconfirmed ==
  /\ state = "cancelling" /\ ~(okAge # -1 /\ Stopped) /\ Unconfirmed
  /\ Enter("error") /\ aborting' = FALSE
  /\ UNCHANGED <<stopVars, calls>>
RetryDue ==
  /\ state = "cancelling" /\ okAge = -1 /\ entered <= StopTimeout
  /\ ~pending /\ retry = 0
TickRetry ==
  /\ RetryDue
  /\ RequestDisable(calls)
  /\ UNCHANGED <<state, entered, aborting, okAge>>
TickIdle ==
  /\ state = "cancelled" /\ entered > TerminalHold
  /\ Enter("idle")
  /\ UNCHANGED <<aborting, stopVars, calls>>
TickNothing ==
  /\ CASE state = "starting" -> entered <= EnableTimeout
       [] state = "cancelling" -> ~(okAge # -1 /\ Stopped) /\ ~Unconfirmed /\ ~RetryDue
       [] state = "cancelled" -> entered <= TerminalHold
       [] OTHER -> TRUE
  /\ UNCHANGED <<state, entered, aborting, stopVars, calls>>
Tick ==
  /\ TickStarting \/ TickStopped \/ TickUnconfirmed \/ TickRetry \/ TickIdle \/ TickNothing
  /\ UNCHANGED odomVars

-----------------------------------------------------------------------------
(* node.py: callbacks and the call queue.                                  *)

\* on_trip(), _stop() and on_odom().  The first two end in _execute().
Input(op) ==
  /\ pc = "spin" /\ inputs < MaxInputs
  /\ inputs' = inputs + 1
  /\ op
  /\ pc' = "pump"
  /\ UNCHANGED <<fut, followVars, deaths>>
OnTripStart == Input(Start)
OnTripCancel == Input(Cancel)
OnSafetyStop == Input(Abort)
OnOdom ==
  /\ pc = "spin"
  /\ \E still \in BOOLEAN : Odom(still)
  /\ UNCHANGED <<state, entered, aborting, stopVars, calls, fut, pc, followVars, bounds>>

Head1 == Head(calls)
Pumping == pc \in {"pump", "pumpTick"}
Late == Head1.left = -1

\* _pump(): the head is sent as soon as the service is there.  A request to a
\* node that has died, which the graph does not know yet, is lost.
PumpSend ==
  /\ Pumping /\ calls # <<>> /\ fut = "none" /\ ready
  /\ fut' = "sent"
  /\ wire' = IF alive THEN Append(wire, Head1.want) ELSE wire
  /\ UNCHANGED <<missionVars, calls, pc, on, alive, ready, unseen, bounds>>

\* _pump(): the head is answered, or given up unsent or unanswered; _result()
\* hands the outcome to the machine, whose requests join the same queue.
PumpPop ==
  /\ Pumping /\ calls # <<>>
  /\ \/ fut = "ok"
     \/ fut = "none" /\ ~ready /\ Late
     \/ fut \in {"sent", "served"} /\ Late
  /\ fut' = "none"
  /\ IF Head1.want THEN EnableResult(Tail(calls), fut = "ok")
                   ELSE DisableResult(Tail(calls), fut = "ok")
  /\ UNCHANGED <<pc, followVars, bounds>>

\* _pump() returns: nothing to do, or the head has to wait.  on_tick() goes on
\* with tick(), whose requests are pumped in turn.
PumpDone ==
  /\ Pumping
  /\ calls # <<>> => ~Late /\ (fut = "none" => ~ready) /\ fut # "ok"
  /\ IF pc = "pumpTick" THEN Tick /\ pc' = "pump"
                        ELSE pc' = "spin" /\ UNCHANGED <<missionVars, calls>>
  /\ UNCHANGED <<fut, followVars, bounds>>

\* One unit of time, at the end of which on_tick() runs.
OnTick ==
  /\ pc = "spin"
  /\ alive /\ ~ready => unseen < DiscoverMax
  /\ unseen' = IF alive /\ ~ready THEN unseen + 1 ELSE 0
  /\ entered' = UpTo(entered, StopTimeout + 1)
  /\ okAge' = IfSet(okAge, Fallback)
  /\ retry' = IF retry > 0 THEN retry - 1 ELSE retry
  /\ odomAge' = IfSet(odomAge, OdomStale + 1)
  /\ stillFor' = IfSet(stillFor, Hold)
  /\ calls' = [i \in DOMAIN calls |-> [calls[i] EXCEPT !.left = TimeLeft(@)]]
  /\ pc' = "pumpTick"
  /\ UNCHANGED <<state, aborting, pending, fut, on, alive, wire, ready, bounds>>

\* MissionNode.__init__(): follow is switched off once; the service has to be
\* discovered first.
Boot ==
  /\ state' = "idle" /\ entered' = 0 /\ aborting' = FALSE
  /\ okAge' = -1 /\ pending' = FALSE /\ retry' = -1 /\ odomAge' = -1 /\ stillFor' = -1
  /\ calls' = <<Call(FALSE)>> /\ fut' = "none" /\ pc' = "pump"
  /\ ready' = FALSE /\ unseen' = 0

\* The process dies, in a callback or between two, and systemd restarts it.
Crash ==
  /\ deaths < MaxFaults /\ deaths' = deaths + 1
  /\ Boot
  /\ UNCHANGED <<on, alive, wire, inputs>>

\* A requested exit: disable_on_exit() sends a disable of its own during a trip.
\* It then spins for up to a second; what callbacks might still send in it, a Crash
\* leaves behind as well.
Exit ==
  /\ deaths < MaxFaults /\ deaths' = deaths + 1
  /\ pc = "spin"
  /\ wire' = IF state \in TripStates /\ ready /\ alive THEN Append(wire, FALSE) ELSE wire
  /\ Boot
  /\ UNCHANGED <<on, alive, inputs>>

-----------------------------------------------------------------------------
(* The follow node and the ROS graph.                                      *)

\* on_enable() of the oldest request.  The newest belongs to the waiting call.
Serve ==
  /\ alive /\ wire # <<>>
  /\ on' = Head(wire)
  /\ wire' = Tail(wire)
  /\ fut' = IF fut = "sent" /\ Len(wire) = 1 THEN "served" ELSE fut
  /\ UNCHANGED <<missionVars, calls, pc, alive, ready, unseen, bounds>>

\* The executor takes the answer, which completes the future.
Respond ==
  /\ pc = "spin" /\ fut = "served"
  /\ fut' = "ok"
  /\ UNCHANGED <<missionVars, calls, pc, followVars, bounds>>

\* The follow node dies with its requests; it starts with following off.
FollowDies ==
  /\ alive /\ deaths < MaxFaults /\ deaths' = deaths + 1
  /\ alive' = FALSE /\ on' = FALSE /\ wire' = <<>>
  /\ UNCHANGED <<missionVars, calls, fut, pc, ready, unseen, inputs>>
FollowStarts ==
  /\ ~alive /\ alive' = TRUE
  /\ UNCHANGED <<missionVars, calls, fut, pc, on, wire, ready, unseen, bounds>>

\* The graph learns that the service is there, or gone.
Discover ==
  /\ ready # alive /\ ready' = alive /\ unseen' = 0
  /\ UNCHANGED <<missionVars, calls, fut, pc, on, alive, wire, bounds>>

-----------------------------------------------------------------------------

Init ==
  /\ state = "idle" /\ entered = 0 /\ aborting = FALSE
  /\ okAge = -1 /\ pending = FALSE /\ retry = -1 /\ odomAge = -1 /\ stillFor = -1
  /\ calls = <<Call(FALSE)>> /\ fut = "none" /\ pc = "pump"
  /\ on = FALSE /\ alive \in BOOLEAN /\ wire = <<>> /\ ready = FALSE /\ unseen = 0
  /\ inputs = 0 /\ deaths = 0

Pump == PumpSend \/ PumpPop \/ PumpDone
Next ==
  \/ OnTripStart \/ OnTripCancel \/ OnSafetyStop \/ OnOdom \/ OnTick \/ Pump
  \/ Crash \/ Exit
  \/ Serve \/ Respond \/ FollowDies \/ FollowStarts \/ Discover

Spec == Init /\ [][Next]_vars

\* The executor runs its callbacks, the timer among them; the follow node
\* answers, comes back when it dies, and is discovered.
Fairness ==
  /\ WF_vars(Pump) /\ WF_vars(OnTick) /\ WF_vars(Serve) /\ WF_vars(Respond)
  /\ WF_vars(FollowStarts) /\ WF_vars(Discover)
FairSpec == Spec /\ Fairness

-----------------------------------------------------------------------------
(* Properties.                                                             *)

\* Every variable has its type.
TypeOK ==
  /\ state \in States /\ entered \in 0 .. StopTimeout + 1
  /\ okAge \in -1 .. Fallback /\ retry \in -1 .. RetryAfter
  /\ odomAge \in -1 .. OdomStale + 1 /\ stillFor \in -1 .. Hold
  /\ calls \in Seq([want : BOOLEAN, left : (-1 .. EnableTimeout) \cup (-1 .. CallTimeout)])
  /\ fut \in {"none", "sent", "served", "ok"} /\ (fut # "none" => calls # <<>>)
  /\ pc \in {"spin", "pump", "pumpTick"}
  /\ wire \in Seq(BOOLEAN) /\ unseen \in 0 .. DiscoverMax
  /\ {aborting, pending, on, alive, ready} \subseteq BOOLEAN

Unsent == IF fut = "none" THEN calls ELSE Tail(calls)

\* Where following settles once every request made so far has been carried out.
Settles ==
  IF Unsent # <<>> THEN Unsent[Len(Unsent)].want
  ELSE IF wire # <<>> THEN wire[Len(wire)]
  ELSE on

\* Outside a trip everything asked of the follow node so far ends with following
\* off, whichever calls timed out, were answered late or were lost with a node.
OffOutsideTrips == state \notin Moving => ~Settles

\* A stop is never refused: outside a trip following goes off, unless a new
\* trip starts.
StopIsCarriedOut == (state \notin Moving) ~> (~on \/ state \in Moving)

\* A passing state is never stuck: while a stop waits for its first confirmed
\* disable one is under way or a retry is to come, whatever became of the calls
\* before it, and both states end by their time-outs at the next tick
\* (disable_result(), tick()).
StopProgresses ==
  /\ state = "cancelling" /\ okAge = -1 =>
       retry # -1 \/ \E i \in DOMAIN calls : ~calls[i].want
  /\ pc = "spin" => /\ state = "starting" => entered <= EnableTimeout
                    /\ state = "cancelling" => entered <= StopTimeout

\* A safety stop ends in `error', unless the user's own cancel came in between:
\* it is never reported as a trip the user cancelled, and never resumed.
SafetyStopIsError ==
  [][state = "cancelling" /\ aborting /\ state' # "cancelling"
       => state' = "error" \/ deaths' # deaths]_vars

(* What a comment of the source says and the code does not do.             *)

AsksDisable ==
  /\ Len(Unsent') = Len(Unsent) + 1
  /\ ~Unsent'[Len(Unsent')].want

\* machine.py, enable_result(): a late enable is switched off again when the
\* trip is "already cancelled, in error or idle".
LateEnableIsOffTrip == [][AsksDisable => state' # "active"]_vars
=============================================================================

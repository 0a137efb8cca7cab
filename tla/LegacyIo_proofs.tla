---------------------------- MODULE LegacyIo_proofs ----------------------------
(***************************************************************************)
(* Proofs about LegacyIo, for any frames the host sends, any capacities    *)
(* and bounds, whatever may fail, and with or without obeyed priorities    *)
(* where the property does not depend on them.                             *)
(*                                                                         *)
(* That no command is spliced together is a fact about the whole way a     *)
(* byte takes: StreamInv says that as long as no receive fault is pending  *)
(* the line being collected, the ring, the data register and the wire are  *)
(* one unbroken piece of what the host sends.  What an answer says rests   *)
(* on AnswerInv, which follows a command through the two mailboxes by its  *)
(* sequence number, and, for the motors, on DriveInv, which says what may  *)
(* come between ControlTask's result and the answer when priorities hold.  *)
(***************************************************************************)
EXTENDS LegacyIo, SequenceTheorems, TLAPS

-----------------------------------------------------------------------------
(* Types.                                                                  *)

Byte == [f : Frames, i : Nat \ {0}, nl : BOOLEAN, bad : BOOLEAN]
Commands == Frames \cup {NONE, Spliced}

WireOK ==
  /\ host \in Nat \X (Nat \ {0})
  /\ armed \in BOOLEAN /\ overrun \in BOOLEAN /\ failIsr \in BOOLEAN
  /\ held \in Seq(Byte) /\ Len(held) <= 1
  /\ ring \in Seq(Byte) /\ Len(ring) <= RingCap
  /\ epoch \in Nat /\ seen \in 0 .. epoch

Places == {"sync", "rearm", "poll", "pop", "check", "post", "wait", "decide",
           "replyErr", "status"}

TaskOK ==
  /\ pc \in Places
  /\ line \in Seq(Byte) /\ Len(line) <= LineCap /\ poisoned \in BOOLEAN
  /\ failRun \in 0 .. RearmLimit /\ cur \in Commands
  /\ seq \in Nat /\ got \in [seq : 0 .. seq, kind : {"NONE", "OK", "REJECTED"}]
  /\ acked \in [Frames -> {"none", "ok", "err"}]

BoxOK ==
  /\ cmdBox \in [seq : 0 .. seq, f : Commands]
  /\ resBox \in [seq : 0 .. seq, kind : {"NONE", "OK", "REJECTED"}]
  /\ bits \subseteq {"COMMAND", "FAULT"} /\ serving \subseteq {"COMMAND", "FAULT"}
  /\ pend \subseteq {"TX", "RX_REARM"} /\ faulted \subseteq {"TX", "RX_REARM"}
  /\ drive \in Commands /\ moe \in BOOLEAN /\ expired \in BOOLEAN

IoTypes == WireOK /\ TaskOK /\ BoxOK

-----------------------------------------------------------------------------
(* The inductive invariant.                                                *)

\* Where a byte stands in what the host sends, and the place after it.
Pos(b) == <<b.f, b.i>>
After(b) == IF b.i > FrameLen[b.f] THEN <<b.f + 1, 1>> ELSE <<b.f, b.i + 1>>
Clean(b) ==
  ~b.bad /\ b.i <= FrameLen[b.f] + 1 /\ (b.nl <=> b.i > FrameLen[b.f])

\* The place of the next byte the interrupt can take.
Frontier == IF held = <<>> THEN host ELSE Pos(Head(held))
\* The place of the next byte the task can take.
Upcoming == IF ring = <<>> THEN Frontier ELSE Pos(Head(ring))

\* The data register holds the byte before the wire's next, unless it says so.
HeldInv ==
  /\ Sending => host[2] <= FrameLen[host[1]] + 1
  /\ held = <<>> => ~overrun
  /\ held # <<>> =>
       /\ ~overrun => host = After(Head(held))
       /\ ~Head(held).bad => Clean(Head(held))

\* The ring is one piece that ends at the frontier.
RingInv ==
  \A k \in 1 .. Len(ring) :
    /\ Clean(ring[k])
    /\ After(ring[k]) = IF k < Len(ring) THEN Pos(ring[k + 1]) ELSE Frontier

\* The line is the beginning of a frame that goes on with the upcoming byte.
LineInv ==
  /\ Upcoming[2] = Len(line) + 1
  /\ \A j \in 1 .. Len(line) :
       line[j] = [f |-> Upcoming[1], i |-> j, nl |-> FALSE, bad |-> FALSE]

StreamInv ==
  /\ HeldInv
  /\ poisoned => line = <<>>
  /\ ~rxFaultPending => RingInv /\ (~poisoned => LineInv)

\* A spliced line gets no further than the check of command_accept().
CommandInv ==
  /\ pc = "check" /\ cur = Spliced => rxFaultPending
  /\ pc \in {"post", "wait", "decide"} => cur # Spliced
  /\ NoSplicedCommand

\* The command in hand and its result, found again by the sequence number.
AnswerInv ==
  /\ pc \in {"wait", "decide"} => seq > 0
  /\ pc = "wait" /\ cmdBox.seq = seq => cmdBox.f = cur
  /\ pc = "wait" /\ resBox.seq = seq =>
       cmdBox = NoCommand /\ (resBox.kind = "OK" => cur \in applied)
  /\ pc = "decide" /\ got.seq = seq =>
       cmdBox = NoCommand /\ (got.kind = "OK" => cur \in applied)
  /\ OkIsTrue

\* The result of the command in hand says it was applied.
AppliedOk ==
  \/ pc = "wait" /\ resBox.seq = seq /\ resBox.kind = "OK"
  \/ pc = "decide" /\ got.seq = seq /\ got.kind = "OK"

\* With priorities obeyed only a receive fault comes between the result and the
\* answer.
DriveInv ==
  /\ pend # {} => "FAULT" \in bits \cup serving
  /\ moe \/ pend # {} \/ faulted # {}
  /\ pc \in {"wait", "decide"} /\ ~rxFaultPending => "FAULT" \notin bits \cup serving
  /\ AppliedOk /\ ~rxFaultPending /\ cur \in Frames /\ FrameKind[cur] = "drive" =>
       moe /\ (drive = cur \/ expired)

IoInv ==
  /\ IoTypes /\ StreamInv /\ CommandInv /\ AnswerInv
  /\ Preemptive => DriveInv

-----------------------------------------------------------------------------
(* Lemmas about constants and sequences.                                   *)

LEMMA Rigid ==
  /\ Byte' = Byte /\ Commands' = Commands /\ Spliced' = Spliced /\ NONE' = NONE
  /\ NoCommand' = NoCommand /\ NoResult' = NoResult
BY DEF Byte, Commands, Spliced, NONE, NoCommand, NoResult

LEMMA ConstantFacts ==
  /\ \A f \in Frames : f \in Nat \ {0} /\ FrameLen[f] \in Nat \ {0}
  /\ Spliced \in Nat \ {0} /\ Spliced \notin Frames /\ NONE \notin Frames /\ NONE = 0
  /\ RingCap \in Nat \ {0} /\ LineCap \in Nat \ {0} /\ RearmLimit \in Nat \ {0}
  /\ Preemptive \in BOOLEAN
<1>1. Len(FrameLen) \in Nat /\ FrameLen \in [1 .. Len(FrameLen) -> Nat \ {0}]
  BY FrameAssumption, LenProperties
<1>2. Frames = 1 .. Len(FrameLen)  BY FrameAssumption
<1> QED  BY <1>1, <1>2, FrameAssumption DEF Spliced, NONE

\* Taking a byte from the front.
LEMMA PopFacts ==
  ASSUME NEW S, NEW s \in Seq(S), s # <<>>
  PROVE  /\ Len(s) \in Nat \ {0} /\ Head(s) = s[1] /\ Head(s) \in S
         /\ Tail(s) \in Seq(S) /\ Len(Tail(s)) = Len(s) - 1
         /\ \A k \in 1 .. Len(Tail(s)) : Tail(s)[k] = s[k + 1]
         /\ Tail(s) = <<>> <=> Len(s) = 1
<1>1. Len(s) \in Nat \ {0}  BY EmptySeq
<1>2. Head(s) \in S /\ Tail(s) \in Seq(S) /\ Len(Tail(s)) = Len(s) - 1
      /\ \A k \in 1 .. Len(Tail(s)) : Tail(s)[k] = s[k + 1]
  BY HeadTailProperties
<1>3. Tail(s) = <<>> <=> Len(Tail(s)) = 0  BY <1>2, EmptySeq
<1> QED  BY <1>1, <1>2, <1>3

\* Putting one behind.
LEMMA PushFacts ==
  ASSUME NEW S, NEW s \in Seq(S), NEW b \in S
  PROVE  /\ Len(s) \in Nat /\ Append(s, b) \in Seq(S)
         /\ Len(Append(s, b)) = Len(s) + 1 /\ Append(s, b) # <<>>
         /\ \A k \in 1 .. Len(s) : Append(s, b)[k] = s[k]
         /\ Append(s, b)[Len(s) + 1] = b
BY AppendProperties, LenProperties, EmptySeq

LEMMA OneByte ==
  ASSUME NEW b \in Byte
  PROVE  <<b>> \in Seq(Byte) /\ Len(<<b>>) = 1 /\ <<b>> # <<>> /\ Head(<<b>>) = b
OBVIOUS

LEMMA ByteRecord ==
  ASSUME NEW f \in Frames, NEW i \in Nat \ {0}, NEW nl \in BOOLEAN, NEW bad \in BOOLEAN
  PROVE  [f |-> f, i |-> i, nl |-> nl, bad |-> bad] \in Byte
BY DEF Byte

\* The next byte on the wire, damaged or not.
LEMMA NextByteFacts ==
  ASSUME WireOK, Sending, NEW bad \in BOOLEAN, NEW nl \in BOOLEAN
  PROVE  LET b == NextByte(nl, bad)
         IN  /\ b \in Byte /\ b.f = host[1] /\ b.i = host[2] /\ b.nl = nl /\ b.bad = bad
             /\ Pos(b) = host
             /\ AtNewline <=> b.i > FrameLen[b.f]
<1> DEFINE b == NextByte(nl, bad)
<1>1. host[1] \in Frames /\ host[2] \in Nat \ {0} /\ host = <<host[1], host[2]>>
  BY DEF WireOK, Sending
<1>2. b = [f |-> host[1], i |-> host[2], nl |-> nl, bad |-> bad]  BY DEF NextByte
<1>3. b.f = host[1] /\ b.i = host[2] /\ b.nl = nl /\ b.bad = bad  BY <1>2
<1>4. b \in Byte  BY <1>1, ByteRecord DEF NextByte
<1> QED  BY <1>1, <1>3, <1>4 DEF Pos, AtNewline

-----------------------------------------------------------------------------
(* Type correctness.                                                       *)

LEMMA InitTypes == Init => IoTypes
<1> SUFFICES ASSUME Init PROVE IoTypes  OBVIOUS
<1> USE ConstantFacts
<1>1. <<>> \in Seq(Byte) /\ Len(<<>>) = 0  BY EmptySeq
<1>2. WireOK
  <2>1. host \in Nat \X (Nat \ {0})  BY DEF Init
  <2>2. armed \in BOOLEAN /\ overrun \in BOOLEAN /\ failIsr \in BOOLEAN  BY DEF Init
  <2> QED  BY <1>1, <2>1, <2>2 DEF Init, WireOK
<1>3. TaskOK
  <2>1. got \in [seq : 0 .. seq, kind : {"NONE", "OK", "REJECTED"}]
    BY DEF Init, NoResult
  <2>2. acked \in [Frames -> {"none", "ok", "err"}]  BY DEF Init
  <2>3. poisoned \in BOOLEAN  BY DEF Init
  <2> QED  BY <1>1, <2>1, <2>2, <2>3 DEF Init, TaskOK, Commands, Places
<1>4. BoxOK
  <2>1. cmdBox \in [seq : 0 .. seq, f : Commands]  BY DEF Init, NoCommand, Commands
  <2>2. resBox \in [seq : 0 .. seq, kind : {"NONE", "OK", "REJECTED"}]
    BY DEF Init, NoResult
  <2>3. moe \in BOOLEAN /\ expired \in BOOLEAN  BY DEF Init
  <2> QED  BY <2>1, <2>2, <2>3 DEF Init, BoxOK, Commands
<1> QED  BY <1>2, <1>3, <1>4 DEF IoTypes

LEMMA WireKept ==
  ASSUME WireOK, UNCHANGED <<wireVars, ring, epoch, failIsr, seen>>
  PROVE  WireOK'
BY Rigid DEF WireOK, wireVars

LEMMA TaskKept ==
  ASSUME TaskOK, UNCHANGED <<pc, line, poisoned, failRun, cur, seq, got, acked>>
  PROVE  TaskOK'
BY Rigid DEF TaskOK, Places

LEMMA BoxKept ==
  ASSUME BoxOK, seq' = seq,
         UNCHANGED <<cmdBox, resBox, bits, serving, pend, faulted, drive, moe, expired>>
  PROVE  BoxOK'
BY Rigid DEF BoxOK

\* A transmission, whether it fails or not.
LEMMA SendTypes ==
  ASSUME BoxOK, SendLine
  PROVE  /\ drive' \in Commands /\ moe' \in BOOLEAN
         /\ bits \subseteq bits' /\ bits' \subseteq bits \cup {"FAULT"}
         /\ pend \subseteq pend' /\ pend' \subseteq {"TX", "RX_REARM"}
<1>1. CASE UNCHANGED <<moe, drive, pend, bits>>  BY <1>1 DEF BoxOK
<1>2. CASE TxMayFail /\ moe' = FALSE /\ drive' = NONE /\ UrgentStop({"TX"})
  BY <1>2 DEF BoxOK, UrgentStop, Commands
<1> QED  BY <1>1, <1>2 DEF SendLine

\* What a transmission leaves of the types.
LEMMA SendBox ==
  ASSUME BoxOK, SendLine, seq' = seq, UNCHANGED <<cmdBox, resBox, serving, faulted, expired>>
  PROVE  BoxOK'
<1>1. cmdBox' \in [seq : 0 .. seq', f : Commands']  BY Rigid DEF BoxOK
<1>2. resBox' \in [seq : 0 .. seq', kind : {"NONE", "OK", "REJECTED"}]  BY DEF BoxOK
<1>3. bits' \subseteq {"COMMAND", "FAULT"} /\ serving' \subseteq {"COMMAND", "FAULT"}
      /\ pend' \subseteq {"TX", "RX_REARM"} /\ faulted' \subseteq {"TX", "RX_REARM"}
  BY SendTypes DEF BoxOK
<1>4. drive' \in Commands' /\ moe' \in BOOLEAN /\ expired' \in BOOLEAN
  BY SendTypes, Rigid, Zenon DEF BoxOK
<1> QED  BY <1>1, <1>2, <1>3, <1>4, Zenon DEF BoxOK

LEMMA AckTypes ==
  ASSUME TaskOK, NEW how \in {"ok", "err"}, Acknowledge(how)
  PROVE  acked' \in [Frames -> {"none", "ok", "err"}]
BY DEF TaskOK, Acknowledge

LEMMA SyncTypes ==
  ASSUME IoTypes, SyncRxFaults, epoch' = epoch
  PROVE  /\ ring' \in Seq(Byte) /\ Len(ring') <= RingCap /\ seen' \in 0 .. epoch'
         /\ line' \in Seq(Byte) /\ Len(line') <= LineCap /\ poisoned' \in BOOLEAN
         /\ pend' = pend /\ bits' = bits \cup {"FAULT"}
<1>1. <<>> \in Seq(Byte) /\ Len(<<>>) = 0  BY EmptySeq
<1>2. ring' = <<>> /\ line' = <<>> /\ poisoned' = TRUE /\ seen' = epoch
      /\ pend' = pend /\ bits' = bits \cup {"FAULT"}
  BY DEF SyncRxFaults, UrgentStop
<1>3. epoch \in Nat  BY DEF IoTypes, WireOK
<1> QED  BY <1>1, <1>2, <1>3, ConstantFacts

\* The wire and the receive interrupt.
LEMMA WireByteTypes == IoTypes /\ WireByte => IoTypes'
<1> SUFFICES ASSUME IoTypes, WireByte PROVE IoTypes'  OBVIOUS
<1>1. PICK bad \in BOOLEAN, nl \in BOOLEAN : WireByte!(bad, nl)
  BY DEF WireByte
<1>2. WireOK /\ TaskOK /\ BoxOK  BY DEF IoTypes
<1>3. TaskOK'  BY <1>1, <1>2, TaskKept DEF taskVars
<1>4. BoxOK'  BY <1>1, <1>2, BoxKept DEF taskVars, ctrlVars
<1>5. host' \in Nat \X (Nat \ {0})
  BY <1>1, <1>2 DEF HostAdvances, WireOK
<1>6. held' \in Seq(Byte) /\ Len(held') <= 1
  <2>1. CASE held = <<>>
    BY <1>1, <1>2, <2>1, NextByteFacts, OneByte
  <2>2. CASE held # <<>>
    BY <1>1, <1>2, <2>2 DEF WireOK
  <2> QED  BY <2>1, <2>2
<1>7. overrun' \in BOOLEAN  BY <1>1, <1>2 DEF WireOK
<1>8. UNCHANGED <<armed, ring, epoch, failIsr, seen>>  BY <1>1 DEF taskVars
<1>9. WireOK'  BY <1>2, <1>5, <1>6, <1>7, <1>8, Rigid DEF WireOK
<1> QED  BY <1>3, <1>4, <1>9 DEF IoTypes

LEMMA RxIsrTypes == IoTypes /\ RxIsr => IoTypes'
<1> SUFFICES ASSUME IoTypes, RxIsr PROVE IoTypes'  OBVIOUS
<1>1. WireOK /\ TaskOK /\ BoxOK  BY DEF IoTypes
<1>2. TaskOK'  BY <1>1, TaskKept DEF RxIsr, taskVars
<1>3. Head(held) \in Byte  BY <1>1, PopFacts DEF RxIsr, WireOK
<1>4. ring' \in Seq(Byte) /\ Len(ring') <= RingCap
  <2>1. CASE Len(ring) < RingCap
    <3>1. ring' = Append(ring, Head(held))  BY <2>1 DEF RxIsr, OnRxByte
    <3> QED  BY <1>1, <1>3, <2>1, <3>1, PushFacts, ConstantFacts DEF WireOK
  <2>2. CASE ~(Len(ring) < RingCap)
    BY <1>1, <2>2 DEF RxIsr, OnRxByte, WireOK
  <2> QED  BY <2>1, <2>2
<1>5. epoch' \in Nat /\ epoch' >= epoch /\ bits' \subseteq bits \cup {"FAULT"}
  BY <1>1 DEF RxIsr, OnRxByte, WireOK
<1>6. /\ host' = host /\ held' = <<>> /\ overrun' = FALSE /\ seen' = seen
      /\ armed' \in BOOLEAN /\ failIsr' \in BOOLEAN
  BY <1>1 DEF RxIsr, WireOK, taskVars
<1>7. WireOK'
  <2>1. <<>> \in Seq(Byte) /\ Len(<<>>) = 0  BY EmptySeq
  <2>2. seen' \in 0 .. epoch'  BY <1>1, <1>5, <1>6 DEF WireOK
  <2>3. held' \in Seq(Byte) /\ Len(held') <= 1  BY <1>6, <2>1
  <2>4. host' \in Nat \X (Nat \ {0})  BY <1>1, <1>6 DEF WireOK
  <2>5. armed' \in BOOLEAN /\ overrun' \in BOOLEAN /\ failIsr' \in BOOLEAN  BY <1>6, Zenon
  <2> QED  BY <1>4, <1>5, <2>2, <2>3, <2>4, <2>5, Rigid, Zenon DEF WireOK
<1>8. BoxOK'
  <2>1. bits' \subseteq {"COMMAND", "FAULT"}  BY <1>1, <1>5 DEF BoxOK
  <2> QED  BY <1>1, <2>1, Rigid DEF RxIsr, BoxOK, taskVars, ctrlVars
<1> QED  BY <1>2, <1>7, <1>8 DEF IoTypes

\* The steps of LegacyIoTask.
LEMMA StepSyncTypes == IoTypes /\ (StepSync \/ PollHead) => IoTypes'
<1> SUFFICES ASSUME IoTypes, StepSync \/ PollHead PROVE IoTypes'  OBVIOUS
<1>1. WireOK /\ TaskOK /\ BoxOK  BY DEF IoTypes
<1>2. /\ UNCHANGED <<host, armed, held, overrun, epoch, failIsr, failRun, cur, seq, got,
                     acked, cmdBox, resBox, serving, drive, faulted, moe, expired>>
      /\ pc' \in Places
      /\ SyncRxFaults \/ UNCHANGED <<ring, seen, poisoned, line, pend, bits>>
  BY DEF StepSync, PollHead, wireVars, ctrlVars, Places
<1>3. CASE SyncRxFaults
  <2>1. WireOK'  BY <1>1, <1>2, <1>3, SyncTypes, Rigid DEF WireOK
  <2>2. TaskOK'  BY <1>1, <1>2, <1>3, SyncTypes, Rigid DEF TaskOK, Places
  <2>3. BoxOK'
    <3>1. bits' \subseteq {"COMMAND", "FAULT"}  BY <1>1, <1>2, <1>3, SyncTypes DEF BoxOK
    <3> QED  BY <1>1, <1>2, <1>3, <3>1, SyncTypes, Rigid DEF BoxOK
  <2> QED  BY <2>1, <2>2, <2>3 DEF IoTypes
<1>4. CASE UNCHANGED <<ring, seen, poisoned, line, pend, bits>>
  <2>1. WireOK'  BY <1>1, <1>2, <1>4, WireKept DEF wireVars
  <2>2. TaskOK'  BY <1>1, <1>2, <1>4, Rigid DEF TaskOK, Places
  <2>3. BoxOK'  BY <1>1, <1>2, <1>4, BoxKept
  <2> QED  BY <2>1, <2>2, <2>3 DEF IoTypes
<1> QED  BY <1>2, <1>3, <1>4

LEMMA StepRearmTypes == IoTypes /\ StepRearm => IoTypes'
<1> SUFFICES ASSUME IoTypes, StepRearm PROVE IoTypes'  OBVIOUS
<1>1. WireOK /\ TaskOK /\ BoxOK  BY DEF IoTypes
<1>2. /\ UNCHANGED <<host, held, overrun, ring, epoch, seen, line, poisoned, cur, seq,
                     got, acked, cmdBox, resBox, serving, faulted, expired>>
      /\ pc' \in Places /\ failIsr' = FALSE
  BY DEF StepRearm, Places
<1>3. failRun' \in 0 .. RearmLimit
  BY ConstantFacts, <1>1 DEF StepRearm, TaskOK
<1>4. armed' \in BOOLEAN  BY <1>1 DEF StepRearm, WireOK
<1>5. /\ drive' \in Commands /\ moe' \in BOOLEAN
      /\ bits' \subseteq {"COMMAND", "FAULT"} /\ pend' \subseteq {"TX", "RX_REARM"}
  <2>1. CASE UNCHANGED <<moe, drive, pend, bits>>  BY <1>1, <2>1 DEF BoxOK
  <2>2. CASE moe' = FALSE /\ drive' = NONE /\ UrgentStop({"RX_REARM"})
    BY <1>1, <2>2 DEF BoxOK, UrgentStop, Commands
  <2> QED  BY <2>1, <2>2 DEF StepRearm
<1>6. WireOK'  BY <1>1, <1>2, <1>4, Rigid DEF WireOK
<1>7. TaskOK'  BY <1>1, <1>2, <1>3, Rigid DEF TaskOK, Places
<1>8. BoxOK'  BY <1>1, <1>2, <1>5, Rigid DEF BoxOK
<1> QED  BY <1>6, <1>7, <1>8 DEF IoTypes

LEMMA PopTypes == IoTypes /\ (PopEmpty \/ PushByte) => IoTypes'
<1> SUFFICES ASSUME IoTypes, PopEmpty \/ PushByte PROVE IoTypes'  OBVIOUS
<1>1. WireOK /\ TaskOK /\ BoxOK  BY DEF IoTypes
<1>2. CASE PopEmpty
  <2>1. WireOK'  BY <1>1, <1>2, WireKept DEF PopEmpty
  <2>2. TaskOK'  BY <1>1, <1>2, Rigid DEF PopEmpty, TaskOK, Places
  <2>3. BoxOK'  BY <1>1, <1>2, BoxKept DEF PopEmpty, ctrlVars
  <2> QED  BY <2>1, <2>2, <2>3 DEF IoTypes
<1>3. CASE PushByte
  <2>1. Head(ring) \in Byte /\ Tail(ring) \in Seq(Byte) /\ Len(Tail(ring)) <= RingCap
    BY <1>1, <1>3, PopFacts, ConstantFacts DEF PushByte, WireOK
  <2>2. WireOK'  BY <1>1, <1>3, <2>1, Rigid DEF PushByte, WireOK, wireVars
  <2>3. line' \in Seq(Byte) /\ Len(line') <= LineCap /\ poisoned' \in BOOLEAN
    <3>1. CASE Head(ring).nl \/ poisoned
      BY <1>1, <1>3, <3>1 DEF PushByte, TaskOK
    <3>2. CASE ~(Head(ring).nl \/ poisoned) /\ Len(line) >= LineCap
      <4>1. line' = <<>> /\ poisoned' = TRUE  BY <1>3, <3>2 DEF PushByte
      <4> QED  BY <4>1, EmptySeq, ConstantFacts
    <3>3. CASE ~(Head(ring).nl \/ poisoned) /\ ~(Len(line) >= LineCap)
      <4>1. line' = Append(line, Head(ring)) /\ poisoned' = poisoned
        BY <1>3, <3>3 DEF PushByte
      <4> QED  BY <1>1, <2>1, <3>3, <4>1, PushFacts, ConstantFacts DEF TaskOK
    <3> QED  BY <3>1, <3>2, <3>3
  <2>4. TaskOK'  BY <1>1, <1>3, <2>3, Rigid DEF PushByte, TaskOK, Places
  <2>5. BoxOK'  BY <1>1, <1>3, BoxKept DEF PushByte, ctrlVars
  <2> QED  BY <2>2, <2>4, <2>5 DEF IoTypes
<1> QED  BY <1>2, <1>3

\* What the parser hands on is a command, or nothing.
LEMMA ParsesTypes ==
  ASSUME NEW l, NEW b \in Byte, NEW f \in Parses(l, b)
  PROVE  f \in Commands /\ (f = Spliced => ~Whole(l, b))
<1>1. b.f \in Frames  BY DEF Byte
<1> QED  BY <1>1, ConstantFacts DEF Parses, Commands

LEMMA PushNewlineTypes == IoTypes /\ PushNewline => IoTypes'
<1> SUFFICES ASSUME IoTypes, PushNewline PROVE IoTypes'  OBVIOUS
<1>1. WireOK /\ TaskOK /\ BoxOK  BY DEF IoTypes
<1>2. Head(ring) \in Byte /\ Tail(ring) \in Seq(Byte) /\ Len(Tail(ring)) <= RingCap
  BY <1>1, PopFacts, ConstantFacts DEF PushNewline, WireOK
<1>3. WireOK'  BY <1>1, <1>2, Rigid DEF PushNewline, WireOK, wireVars
<1>4. cur' \in Commands /\ pc' \in Places
  <2>1. PICK f \in IF poisoned THEN {NONE} ELSE Parses(line, Head(ring)) :
          (f = NONE /\ pc' = "poll" /\ UNCHANGED cur /\ SendLine)
          \/ (f # NONE /\ pc' = "check" /\ cur' = f /\ UNCHANGED <<moe, drive, pend, bits>>)
    BY DEF PushNewline
  <2>2. f \in Commands  BY <1>2, ParsesTypes DEF Commands
  <2> QED  BY <1>1, <2>1, <2>2 DEF TaskOK, Places
<1>5. TaskOK'
  <2>1. line' \in Seq(Byte) /\ Len(line') <= LineCap /\ poisoned' \in BOOLEAN
    <3>1. line' = <<>> /\ poisoned' = FALSE  BY DEF PushNewline
    <3>2. line' \in Seq(Byte) /\ Len(line') <= LineCap
      BY <3>1, EmptySeq, ConstantFacts
    <3> QED  BY <3>1, <3>2
  <2> QED  BY <1>1, <1>4, <2>1, Rigid DEF PushNewline, TaskOK, Places
<1>6. BoxOK'
  <2>1. /\ SendLine \/ UNCHANGED <<moe, drive, pend, bits>>
        /\ seq' = seq /\ UNCHANGED <<cmdBox, resBox, serving, faulted, expired>>
    BY DEF PushNewline
  <2>2. CASE SendLine  BY <1>1, <2>1, <2>2, SendBox
  <2>3. CASE UNCHANGED <<moe, drive, pend, bits>>  BY <1>1, <2>1, <2>3, BoxKept
  <2> QED  BY <2>1, <2>2, <2>3
<1> QED  BY <1>3, <1>5, <1>6 DEF IoTypes

LEMMA StepCheckTypes == IoTypes /\ StepCheck => IoTypes'
<1> SUFFICES ASSUME IoTypes, StepCheck PROVE IoTypes'  OBVIOUS
<1>1. WireOK /\ TaskOK /\ BoxOK  BY DEF IoTypes
<1>2. UNCHANGED <<host, armed, held, overrun, epoch, failIsr, failRun, cur, seq, got,
                  cmdBox, resBox, serving, faulted, expired>>
  BY DEF StepCheck, wireVars
<1>3. CASE rxFaultPending
  <2>1. SyncRxFaults /\ pc' = "replyErr" /\ UNCHANGED <<moe, drive, acked>>
    BY <1>3 DEF StepCheck, CheckAccept
  <2>2. WireOK'  BY <1>1, <1>2, <2>1, SyncTypes, Rigid DEF WireOK
  <2>3. TaskOK'  BY <1>1, <1>2, <2>1, SyncTypes, Rigid DEF TaskOK, Places
  <2>4. BoxOK'
    <3>1. bits' \subseteq {"COMMAND", "FAULT"}  BY <1>1, <1>2, <2>1, SyncTypes DEF BoxOK
    <3> QED  BY <1>1, <1>2, <2>1, <3>1, SyncTypes, Rigid DEF BoxOK
  <2> QED  BY <2>2, <2>3, <2>4 DEF IoTypes
<1>4. CASE ~rxFaultPending
  <2>1. /\ UNCHANGED <<ring, seen, poisoned, line>>
        /\ \/ pc' = "poll" /\ SendLine /\ Acknowledge("ok")
           \/ pc' = "post" /\ UNCHANGED <<moe, drive, pend, bits, acked>>
    BY <1>4 DEF StepCheck, CheckAccept
  <2>2. WireOK'  BY <1>1, <1>2, <2>1, WireKept DEF wireVars
  <2>3. acked' \in [Frames -> {"none", "ok", "err"}]  BY <1>1, <2>1, AckTypes DEF TaskOK
  <2>4. TaskOK'  BY <1>1, <1>2, <2>1, <2>3, Rigid DEF TaskOK, Places
  <2>5. BoxOK'
    <3>1. CASE SendLine  BY <1>1, <1>2, <3>1, SendBox
    <3>2. CASE UNCHANGED <<moe, drive, pend, bits>>  BY <1>1, <1>2, <3>2, BoxKept
    <3> QED  BY <2>1, <3>1, <3>2
  <2> QED  BY <2>2, <2>4, <2>5 DEF IoTypes
<1> QED  BY <1>3, <1>4

LEMMA PostWaitTypes == IoTypes /\ (StepPost \/ StepWait) => IoTypes'
<1> SUFFICES ASSUME IoTypes, StepPost \/ StepWait PROVE IoTypes'  OBVIOUS
<1>1. WireOK /\ TaskOK /\ BoxOK  BY DEF IoTypes
<1>2. CASE StepPost
  <2>1. WireOK'  BY <1>1, <1>2, WireKept DEF StepPost
  <2>2. seq' = seq + 1 /\ got' = got /\ seq' \in Nat
        /\ got' \in [seq : 0 .. seq', kind : {"NONE", "OK", "REJECTED"}]
    BY <1>1, <1>2 DEF StepPost, TaskOK
  <2>3. TaskOK'  BY <1>1, <1>2, <2>2, Rigid DEF StepPost, TaskOK, Places
  <2>4. cmdBox' \in [seq : 0 .. seq', f : Commands]  BY <1>1, <1>2, <2>2 DEF StepPost, TaskOK
  <2>5. resBox' \in [seq : 0 .. seq', kind : {"NONE", "OK", "REJECTED"}]
    BY <1>1, <1>2, <2>2 DEF StepPost, TaskOK, BoxOK
  <2>6. bits' \subseteq {"COMMAND", "FAULT"}  BY <1>1, <1>2 DEF StepPost, BoxOK
  <2>7. UNCHANGED <<serving, pend, faulted, drive, moe, expired>>
    BY <1>2 DEF StepPost, ctrlVars
  <2>8. BoxOK'  BY <1>1, <2>4, <2>5, <2>6, <2>7, Rigid DEF BoxOK
  <2> QED  BY <2>1, <2>3, <2>8 DEF IoTypes
<1>3. CASE StepWait
  <2>1. WireOK'  BY <1>1, <1>3, WireKept DEF StepWait
  <2>2. NoResult \in [seq : 0 .. seq, kind : {"NONE", "OK", "REJECTED"}]
    BY <1>1 DEF NoResult, TaskOK
  <2>3. /\ got' \in {got, resBox, NoResult} /\ resBox' \in {resBox, NoResult}
        /\ pc' \in {"decide", pc} /\ seq' = seq
    BY <1>3 DEF StepWait
  <2>4. got' \in [seq : 0 .. seq', kind : {"NONE", "OK", "REJECTED"}]
    BY <1>1, <2>2, <2>3 DEF TaskOK, BoxOK
  <2>5. resBox' \in [seq : 0 .. seq', kind : {"NONE", "OK", "REJECTED"}]
    BY <1>1, <2>2, <2>3 DEF BoxOK
  <2>6. TaskOK'  BY <1>1, <1>3, <2>3, <2>4, Rigid DEF StepWait, TaskOK, Places
  <2>7. UNCHANGED <<cmdBox, bits, serving, pend, faulted, drive, moe, expired>>
    BY <1>3 DEF StepWait, ctrlVars
  <2>8. BoxOK'  BY <1>1, <2>3, <2>5, <2>7, Rigid DEF BoxOK
  <2> QED  BY <2>1, <2>6, <2>8 DEF IoTypes
<1> QED  BY <1>2, <1>3

\* Every step that may send an answer and touches nothing else of the types.
LEMMA ReplyTypes == IoTypes /\ (StepDecide \/ StepReplyErr \/ StepStatus) => IoTypes'
<1> SUFFICES ASSUME IoTypes, StepDecide \/ StepReplyErr \/ StepStatus PROVE IoTypes'
  OBVIOUS
<1>1. WireOK /\ TaskOK /\ BoxOK  BY DEF IoTypes
<1>2. /\ UNCHANGED <<host, armed, held, overrun, ring, epoch, failIsr, seen, failRun, line,
                     poisoned, cur, seq, got, cmdBox, resBox, serving, faulted, expired>>
      /\ pc' \in Places
      /\ SendLine \/ UNCHANGED <<moe, drive, pend, bits>>
  BY DEF StepDecide, StepReplyErr, StepStatus, wireVars, Places
<1>3. acked' = acked \/ Acknowledge("ok") \/ Acknowledge("err")
  BY DEF StepDecide, StepReplyErr, StepStatus
<1>4. acked' \in [Frames -> {"none", "ok", "err"}]  BY <1>1, <1>3, AckTypes DEF TaskOK
<1>5. WireOK'  BY <1>1, <1>2, WireKept DEF wireVars
<1>6. TaskOK'  BY <1>1, <1>2, <1>4, Rigid DEF TaskOK, Places
<1>7. BoxOK'
  <2>1. CASE SendLine  BY <1>1, <1>2, <2>1, SendBox
  <2>2. CASE UNCHANGED <<moe, drive, pend, bits>>  BY <1>1, <1>2, <2>2, BoxKept
  <2> QED  BY <1>2, <2>1, <2>2
<1> QED  BY <1>5, <1>6, <1>7 DEF IoTypes

\* The steps of ControlTask.
LEMMA ControlTypes == IoTypes /\ (ControlTask \/ CtrlExpire) => IoTypes'
<1> SUFFICES ASSUME IoTypes, ControlTask \/ CtrlExpire PROVE IoTypes'  OBVIOUS
<1>1. WireOK /\ TaskOK /\ BoxOK  BY DEF IoTypes
<1>2. UNCHANGED <<wireVars, ring, epoch, failIsr, seen, line, poisoned, pc, failRun, cur,
                  seq, got, acked>>
  BY DEF ControlTask, CtrlWake, CtrlCommand, CtrlFault, CtrlExpire, taskVars
<1>3. WireOK'  BY <1>1, <1>2, WireKept
<1>4. TaskOK'  BY <1>1, <1>2, TaskKept
<1>5. CASE CtrlWake
  <2>1. BoxOK'  BY <1>1, <1>2, <1>5, Rigid DEF CtrlWake, BoxOK
  <2> QED  BY <1>3, <1>4, <2>1 DEF IoTypes
<1>6. CASE CtrlCommand
  <2>1. UNCHANGED <<bits, pend, faulted, moe>> /\ seq' = seq  BY <1>2, <1>6 DEF CtrlCommand
  <2>2. cmdBox' \in [seq : 0 .. seq', f : Commands]
    BY <1>1, <1>6, <2>1 DEF CtrlCommand, NoCommand, TaskOK, Commands
  <2>3. resBox' \in [seq : 0 .. seq', kind : {"NONE", "OK", "REJECTED"}]
    BY <1>1, <1>6, <2>1 DEF CtrlCommand, BoxOK
  <2>4. drive' \in Commands
    BY <1>1, <1>6 DEF CtrlCommand, BoxOK, Commands
  <2>5. expired' \in BOOLEAN  BY <1>1, <1>6 DEF CtrlCommand, BoxOK
  <2>6. serving' \subseteq {"COMMAND", "FAULT"}  BY <1>1, <1>6 DEF CtrlCommand, BoxOK
  <2>7. BoxOK'  BY <1>1, <2>1, <2>2, <2>3, <2>4, <2>5, <2>6, Rigid DEF BoxOK
  <2> QED  BY <1>3, <1>4, <2>7 DEF IoTypes
<1>7. CASE CtrlFault
  <2>1. UNCHANGED <<bits, cmdBox, resBox, expired>> /\ seq' = seq  BY <1>2, <1>7 DEF CtrlFault
  <2>2. /\ serving' \subseteq {"COMMAND", "FAULT"} /\ drive' \in Commands
        /\ pend' \subseteq {"TX", "RX_REARM"} /\ faulted' \subseteq {"TX", "RX_REARM"}
    BY <1>1, <1>7 DEF CtrlFault, BoxOK, Commands
  <2>3. moe' \in BOOLEAN  BY <1>7 DEF CtrlFault
  <2>4. BoxOK'  BY <1>1, <2>1, <2>2, <2>3, Rigid DEF BoxOK
  <2> QED  BY <1>3, <1>4, <2>4 DEF IoTypes
<1>8. CASE CtrlExpire
  <2>1. UNCHANGED <<bits, serving, cmdBox, resBox, pend, faulted, moe>> /\ seq' = seq
    BY <1>2, <1>8 DEF CtrlExpire
  <2>2. drive' \in Commands /\ expired' \in BOOLEAN  BY <1>8 DEF CtrlExpire, Commands
  <2>3. BoxOK'  BY <1>1, <2>1, <2>2, Rigid DEF BoxOK
  <2> QED  BY <1>3, <1>4, <2>3 DEF IoTypes
<1> QED  BY <1>5, <1>6, <1>7, <1>8 DEF ControlTask

LEMMA TypeStep == IoTypes /\ [Next]_vars => IoTypes'
<1>1. IoTypes /\ UNCHANGED vars => IoTypes'
  BY WireKept, TaskKept, BoxKept DEF IoTypes, vars, taskVars, ctrlVars
<1> QED
  BY <1>1, WireByteTypes, RxIsrTypes, StepSyncTypes, StepRearmTypes, PopTypes,
     PushNewlineTypes, StepCheckTypes, PostWaitTypes, ReplyTypes, ControlTypes
  DEF Next, Isr, IoTask

LEMMA TypesHold == IoTypes => TypeOK
<1> SUFFICES ASSUME IoTypes PROVE TypeOK  OBVIOUS
<1>1. WireOK /\ TaskOK /\ BoxOK  BY DEF IoTypes
<1>2. {armed, overrun, failIsr, poisoned, moe, expired} \subseteq BOOLEAN
  BY <1>1 DEF WireOK, TaskOK, BoxOK
<1>3. /\ cmdBox.f \in Commands /\ cmdBox.seq \in 0 .. seq
      /\ resBox.seq \in 0 .. seq /\ got.seq \in 0 .. seq
  BY <1>1 DEF TaskOK, BoxOK
<1> QED  BY <1>1, <1>2, <1>3 DEF TypeOK, WireOK, TaskOK, BoxOK, Commands

-----------------------------------------------------------------------------
(* The stream of bytes.                                                    *)

LEMMA StreamInit == Init => StreamInv
<1> SUFFICES ASSUME Init PROVE StreamInv  OBVIOUS
<1>1. host = <<1, 1>> /\ held = <<>> /\ ~overrun /\ ring = <<>> /\ line = <<>>
  BY DEF Init
<1>2. Len(<<>>) = 0  BY EmptySeq
<1>3. HeldInv  BY <1>1, ConstantFacts DEF HeldInv, Sending
<1>4. RingInv  BY <1>1, <1>2 DEF RingInv
<1>5. LineInv  BY <1>1, <1>2 DEF LineInv, Upcoming, Frontier
<1> QED  BY <1>1, <1>3, <1>4, <1>5 DEF StreamInv

\* Most steps touch none of it.
LEMMA StreamKept ==
  ASSUME StreamInv, UNCHANGED <<host, held, overrun, ring, epoch, seen, line, poisoned>>
  PROVE  StreamInv'
BY DEF StreamInv, HeldInv, RingInv, LineInv, Upcoming, Frontier, rxFaultPending, Sending,
       Pos, After, Clean

\* The ring and the line depend on the wire through the frontier only.
LEMMA FrontierKept ==
  ASSUME StreamInv, HeldInv', Frontier' = Frontier,
         UNCHANGED <<ring, epoch, seen, line, poisoned>>
  PROVE  StreamInv'
<1>1. Upcoming' = Upcoming  BY DEF Upcoming, Pos
<1>2. RingInv => RingInv'  BY DEF RingInv, Pos, After, Clean
<1>3. LineInv => LineInv'  BY <1>1 DEF LineInv
<1> QED  BY <1>2, <1>3 DEF StreamInv, rxFaultPending

LEMMA WireByteStream == IoTypes /\ StreamInv /\ WireByte => StreamInv'
<1> SUFFICES ASSUME IoTypes, StreamInv, WireByte PROVE StreamInv'  OBVIOUS
<1>1. PICK bad \in BOOLEAN, nl \in BOOLEAN : WireByte!(bad, nl)  BY DEF WireByte
<1>2. WireOK /\ HeldInv  BY DEF IoTypes, StreamInv
<1> DEFINE b == NextByte(nl, bad)
<1>3. /\ b \in Byte /\ b.f = host[1] /\ b.i = host[2] /\ b.nl = nl /\ b.bad = bad
      /\ Pos(b) = host /\ (AtNewline <=> b.i > FrameLen[b.f])
  BY <1>1, <1>2, NextByteFacts
<1>4. UNCHANGED <<ring, epoch, seen, line, poisoned>>  BY <1>1 DEF taskVars
<1>5. Sending' => host'[2] <= FrameLen[host'[1]] + 1
  BY <1>1, <1>2, ConstantFacts DEF HostAdvances, HeldInv, Sending, AtNewline, WireOK
<1>6. CASE held = <<>>
  <2>1. held' = <<b>> /\ overrun' = overrun  BY <1>1, <1>6
  <2>2. held' # <<>> /\ Head(held') = b  BY <1>3, <2>1, OneByte
  <2>3. host' = After(b)  BY <1>1, <1>3 DEF HostAdvances, After
  <2>4. ~b.bad => Clean(b)
    <3> SUFFICES ASSUME ~b.bad PROVE Clean(b)  OBVIOUS
    <3>1. b.nl <=> b.i > FrameLen[b.f]  BY <1>1, <1>3
    <3>2. b.i <= FrameLen[b.f] + 1  BY <1>1, <1>2, <1>3 DEF HeldInv
    <3> QED  BY <3>1, <3>2 DEF Clean
  <2>5. HeldInv'
    <3> HIDE DEF b
    <3> QED  BY <1>5, <2>2, <2>3, <2>4 DEF HeldInv, After, Clean
  <2>6. Frontier' = Frontier  BY <1>3, <1>6, <2>2 DEF Frontier, Pos
  <2> QED  BY <1>4, <2>5, <2>6, FrontierKept
<1>7. CASE held # <<>>
  <2>1. held' = held /\ overrun' = TRUE  BY <1>1, <1>7
  <2>2. HeldInv'  BY <1>2, <1>5, <1>7, <2>1 DEF HeldInv, Clean
  <2>3. Frontier' = Frontier  BY <1>7, <2>1 DEF Frontier, Pos
  <2> QED  BY <1>4, <2>2, <2>3, FrontierKept
<1> QED  BY <1>6, <1>7

LEMMA RxIsrStream == IoTypes /\ StreamInv /\ RxIsr => StreamInv'
<1> SUFFICES ASSUME IoTypes, StreamInv, RxIsr PROVE StreamInv'  OBVIOUS
<1>1. WireOK /\ HeldInv  BY DEF IoTypes, StreamInv
<1> DEFINE b == Head(held)
<1>2. /\ held # <<>> /\ held' = <<>> /\ overrun' = FALSE /\ host' = host
      /\ UNCHANGED <<seen, line, poisoned>>
  BY DEF RxIsr, taskVars
<1>3. b \in Byte  BY <1>1, <1>2, PopFacts DEF WireOK
<1>4. HeldInv'  BY <1>1, <1>2 DEF HeldInv, Sending
<1>5. CASE b.bad \/ overrun \/ Len(ring) = RingCap
  <2>1. epoch' = epoch + 1  BY <1>5 DEF RxIsr, OnRxByte
  <2>2. rxFaultPending'  BY <1>1, <1>2, <2>1 DEF rxFaultPending, WireOK
  <2> QED  BY <1>2, <1>4, <2>2 DEF StreamInv
<1>6. CASE ~(b.bad \/ overrun \/ Len(ring) = RingCap)
  <2>1. Len(ring) < RingCap  BY <1>1, <1>6, ConstantFacts, LenProperties DEF WireOK
  <2>2. ring' = Append(ring, b) /\ epoch' = epoch  BY <1>6, <2>1 DEF RxIsr, OnRxByte
  <2>3. /\ Len(ring) \in Nat /\ Len(ring') = Len(ring) + 1 /\ ring' # <<>>
        /\ \A k \in 1 .. Len(ring) : ring'[k] = ring[k]
        /\ ring'[Len(ring) + 1] = b
        /\ ring' \in Seq(Byte)
    BY <1>1, <1>3, <2>2, PushFacts DEF WireOK
  <2>4. Frontier = Pos(b) /\ Frontier' = host /\ host = After(b) /\ Clean(b)
    BY <1>1, <1>2, <1>6 DEF Frontier, HeldInv
  <2>5. RingInv => RingInv'
    <3> SUFFICES ASSUME RingInv, NEW k \in 1 .. Len(ring')
                 PROVE  /\ Clean(ring'[k])
                        /\ After(ring'[k]) = IF k < Len(ring') THEN Pos(ring'[k + 1])
                                             ELSE Frontier'
      BY DEF RingInv, Clean, After, Pos
    <3> HIDE DEF b
    <3>1. CASE k < Len(ring)
      BY <2>3, <3>1 DEF RingInv
    <3>2. CASE k = Len(ring)
      BY <2>3, <2>4, <3>2 DEF RingInv
    <3>3. CASE k = Len(ring) + 1
      BY <2>3, <2>4, <3>3
    <3> QED  BY <2>3, <3>1, <3>2, <3>3
  <2>6. Upcoming' = Upcoming
    <3>1. Upcoming' = Pos(Head(ring'))  BY <2>3 DEF Upcoming, Pos
    <3>2. CASE ring = <<>>
      <4>1. Head(ring') = b  BY <2>3, <3>2, EmptySeq, PopFacts
      <4> QED  BY <2>4, <3>1, <3>2, <4>1 DEF Upcoming
    <3>3. CASE ring # <<>>
      <4>1. Len(ring) \in Nat \ {0} /\ Head(ring) = ring[1] /\ Head(ring') = ring'[1]
        BY <1>1, <2>3, <3>3, PopFacts DEF WireOK
      <4>2. Head(ring') = Head(ring)  BY <2>3, <4>1
      <4> QED  BY <3>1, <3>3, <4>2 DEF Upcoming
    <3> QED  BY <3>2, <3>3
  <2>7. LineInv => LineInv'  BY <1>2, <2>6 DEF LineInv
  <2> QED  BY <1>2, <1>4, <2>2, <2>5, <2>7 DEF StreamInv, rxFaultPending
<1> QED  BY <1>5, <1>6

\* Emptying the ring asks nothing of what was in it.
LEMMA SyncStream ==
  ASSUME StreamInv, SyncRxFaults, UNCHANGED <<host, held, overrun, epoch>>
  PROVE  StreamInv'
<1>1. ring' = <<>> /\ line' = <<>> /\ poisoned' = TRUE  BY DEF SyncRxFaults
<1>2. HeldInv'  BY DEF StreamInv, HeldInv, Sending, After, Clean
<1>3. RingInv'
  <2>1. Len(ring') = 0  BY <1>1, EmptySeq
  <2> QED  BY <2>1 DEF RingInv
<1> QED  BY <1>1, <1>2, <1>3 DEF StreamInv

\* Taking a byte from the ring moves the upcoming place one on.
LEMMA PopStream ==
  ASSUME IoTypes, StreamInv, ~rxFaultPending, ring # <<>>, ring' = Tail(ring),
         UNCHANGED <<host, held, overrun, epoch, seen>>
  PROVE  /\ RingInv' /\ Upcoming' = After(Head(ring))
         /\ Upcoming = Pos(Head(ring)) /\ Clean(Head(ring)) /\ Head(ring) \in Byte
<1>1. WireOK /\ RingInv  BY DEF IoTypes, StreamInv
<1>2. /\ Len(ring) \in Nat \ {0} /\ Head(ring) = ring[1] /\ Head(ring) \in Byte
      /\ ring' \in Seq(Byte) /\ Len(ring') = Len(ring) - 1
      /\ \A k \in 1 .. Len(ring') : ring'[k] = ring[k + 1]
      /\ ring' = <<>> <=> Len(ring) = 1
  BY <1>1, PopFacts DEF WireOK
<1>3. Frontier' = Frontier  BY DEF Frontier, Pos
<1>4. /\ Clean(ring[1])
      /\ After(ring[1]) = IF 1 < Len(ring) THEN Pos(ring[2]) ELSE Frontier
  <2>1. 1 \in 1 .. Len(ring)  BY <1>2
  <2> QED  BY <1>1, <2>1 DEF RingInv
<1>5. RingInv'
  <2> SUFFICES ASSUME NEW k \in 1 .. Len(ring')
               PROVE  /\ Clean(ring'[k])
                      /\ After(ring'[k]) = IF k < Len(ring') THEN Pos(ring'[k + 1])
                                           ELSE Frontier'
    BY DEF RingInv, Clean, After, Pos
  <2>1. k + 1 \in 1 .. Len(ring) /\ ring'[k] = ring[k + 1]  BY <1>2
  <2>2. /\ Clean(ring[k + 1])
        /\ After(ring[k + 1]) = IF k + 1 < Len(ring) THEN Pos(ring[(k + 1) + 1])
                                ELSE Frontier
    BY <1>1, <2>1 DEF RingInv
  <2>3. k < Len(ring') => ring'[k + 1] = ring[(k + 1) + 1]  BY <1>2
  <2>4. k < Len(ring') <=> k + 1 < Len(ring)  BY <1>2
  <2> QED  BY <1>3, <2>1, <2>2, <2>3, <2>4
<1>6. Upcoming' = After(Head(ring))
  <2>1. CASE Len(ring) = 1
    BY <1>2, <1>3, <1>4, <2>1 DEF Upcoming
  <2>2. CASE Len(ring) # 1
    <3>1. ring' # <<>> /\ Len(ring') \in Nat \ {0} /\ 1 < Len(ring)  BY <1>2, <2>2
    <3>2. Head(ring') = ring'[1]  BY <1>2, <3>1, PopFacts
    <3>3. Head(ring') = ring[2]  BY <1>2, <3>1, <3>2
    <3>4. Upcoming' = Pos(Head(ring'))  BY <3>1 DEF Upcoming, Pos
    <3> QED  BY <1>2, <1>4, <3>1, <3>3, <3>4
  <2> QED  BY <2>1, <2>2
<1>7. Upcoming = Pos(Head(ring))  BY DEF Upcoming
<1> QED  BY <1>2, <1>4, <1>5, <1>6, <1>7

LEMMA HeldKept ==
  ASSUME HeldInv, UNCHANGED <<host, held, overrun>>
  PROVE  HeldInv'
BY DEF HeldInv, Sending, After, Clean

LEMMA PushByteStream == IoTypes /\ StreamInv /\ PushByte => StreamInv'
<1> SUFFICES ASSUME IoTypes, StreamInv, PushByte PROVE StreamInv'  OBVIOUS
<1> DEFINE b == Head(ring)
<1>1. /\ ring # <<>> /\ ring' = Tail(ring) /\ ~(b.nl /\ (poisoned \/ line # <<>>))
      /\ UNCHANGED <<host, held, overrun, epoch, seen>>
      /\ IF b.nl \/ poisoned THEN UNCHANGED <<line, poisoned>>
         ELSE IF Len(line) >= LineCap THEN line' = <<>> /\ poisoned' = TRUE
         ELSE line' = Append(line, b) /\ UNCHANGED poisoned
  BY DEF PushByte, wireVars
<1>2. HeldInv'  BY <1>1, HeldKept DEF StreamInv
<1>3. poisoned' => line' = <<>>
  <2>1. CASE b.nl \/ poisoned  BY <1>1, <2>1 DEF StreamInv
  <2>2. CASE ~(b.nl \/ poisoned) /\ Len(line) >= LineCap  BY <1>1, <2>2
  <2>3. CASE ~(b.nl \/ poisoned) /\ ~(Len(line) >= LineCap)  BY <1>1, <2>3
  <2> QED  BY <2>1, <2>2, <2>3
<1>4. ASSUME ~rxFaultPending PROVE RingInv' /\ (~poisoned' => LineInv')
  <2>1. /\ RingInv' /\ Upcoming' = After(b)
        /\ Upcoming = Pos(b) /\ Clean(b) /\ b \in Byte
    BY <1>1, <1>4, PopStream
  <2> SUFFICES ASSUME ~poisoned' PROVE LineInv'  BY <2>1
  <2>2. ~poisoned /\ LineInv
    <3>1. ~poisoned  BY <1>1
    <3> QED  BY <1>4, <3>1 DEF StreamInv
  <2>3. b.i = Len(line) + 1 /\ b.f = Upcoming[1]  BY <2>1, <2>2 DEF LineInv, Pos
  <2>4. line \in Seq(Byte) /\ Len(line) \in Nat  BY LenProperties DEF IoTypes, TaskOK
  <2>5. ~b.nl
    <3> SUFFICES ASSUME b.nl PROVE FALSE  OBVIOUS
    <3>1. Len(line) = 0  BY <1>1, <2>2, EmptySeq
    <3>2. b.i = 1 /\ b.i > FrameLen[b.f] /\ b.f \in Frames
      BY <2>1, <2>3, <3>1 DEF Clean, Byte
    <3> QED  BY <3>2, ConstantFacts
  <2>6. line' = Append(line, b)  BY <1>1, <2>2, <2>5
  <2>7. /\ Len(line') = Len(line) + 1 /\ line'[Len(line) + 1] = b
        /\ \A k \in 1 .. Len(line) : line'[k] = line[k]
    BY <2>1, <2>4, <2>6, PushFacts
  <2>8. Upcoming'[1] = b.f /\ Upcoming'[2] = b.i + 1
    <3>1. ~(b.i > FrameLen[b.f])  BY <2>1, <2>5 DEF Clean
    <3> QED  BY <2>1, <3>1 DEF After
  <2>9. b = [f |-> b.f, i |-> b.i, nl |-> FALSE, bad |-> FALSE]
    <3>1. ~b.bad  BY <2>1 DEF Clean
    <3> QED  BY <2>1, <2>5, <3>1 DEF Byte
  <2>10. \A j \in 1 .. Len(line') :
           line'[j] = [f |-> Upcoming'[1], i |-> j, nl |-> FALSE, bad |-> FALSE]
    <3> SUFFICES ASSUME NEW j \in 1 .. Len(line')
                 PROVE  line'[j] = [f |-> Upcoming'[1], i |-> j, nl |-> FALSE, bad |-> FALSE]
      OBVIOUS
    <3>1. CASE j \in 1 .. Len(line)
      BY <2>2, <2>3, <2>7, <2>8, <3>1 DEF LineInv
    <3>2. CASE j = Len(line) + 1
      BY <2>3, <2>7, <2>8, <2>9, <3>2
    <3> QED  BY <2>4, <2>7, <3>1, <3>2
  <2>11. Upcoming'[2] = Len(line') + 1  BY <2>3, <2>4, <2>7, <2>8
  <2> QED  BY <2>10, <2>11 DEF LineInv
<1> QED  BY <1>1, <1>2, <1>3, <1>4 DEF StreamInv, rxFaultPending

LEMMA PushNewlineStream == IoTypes /\ StreamInv /\ PushNewline => StreamInv'
<1> SUFFICES ASSUME IoTypes, StreamInv, PushNewline PROVE StreamInv'  OBVIOUS
<1> DEFINE b == Head(ring)
<1>1. /\ ring # <<>> /\ ring' = Tail(ring) /\ b.nl
      /\ UNCHANGED <<host, held, overrun, epoch, seen>>
      /\ poisoned' = FALSE /\ line' = <<>>
  BY DEF PushNewline, wireVars
<1>2. HeldInv'  BY <1>1, HeldKept DEF StreamInv
<1>3. ASSUME ~rxFaultPending PROVE RingInv' /\ LineInv'
  <2>1. RingInv' /\ Upcoming' = After(b) /\ Clean(b)  BY <1>1, <1>3, PopStream
  <2>2. Upcoming'[2] = 1  BY <1>1, <2>1 DEF After, Clean
  <2>3. Len(line') = 0  BY <1>1, EmptySeq
  <2> QED  BY <2>1, <2>2, <2>3 DEF LineInv
<1> QED  BY <1>1, <1>2, <1>3 DEF StreamInv, rxFaultPending

LEMMA StreamStep == IoTypes /\ StreamInv /\ [Next]_vars => StreamInv'
<1> SUFFICES ASSUME IoTypes, StreamInv, [Next]_vars PROVE StreamInv'  OBVIOUS
<1>1. CASE WireByte  BY <1>1, WireByteStream
<1>2. CASE RxIsr  BY <1>2, RxIsrStream
<1>3. CASE PushByte  BY <1>3, PushByteStream
<1>4. CASE PushNewline  BY <1>4, PushNewlineStream
<1>5. CASE StepSync \/ PollHead \/ StepCheck
  <2>1. /\ UNCHANGED <<host, held, overrun, epoch>>
        /\ SyncRxFaults \/ UNCHANGED <<ring, seen, poisoned, line>>
    BY <1>5 DEF StepSync, PollHead, StepCheck, CheckAccept, wireVars
  <2> QED  BY <2>1, SyncStream, StreamKept
<1>6. CASE StepRearm \/ PopEmpty \/ StepPost \/ StepWait \/ StepDecide \/ StepReplyErr
           \/ StepStatus
  <2>1. UNCHANGED <<host, held, overrun, ring, epoch, seen, line, poisoned>>
    BY <1>6 DEF StepRearm, PopEmpty, StepPost, StepWait, StepDecide, StepReplyErr,
                StepStatus, wireVars
  <2> QED  BY <2>1, StreamKept
<1>7. CASE ControlTask \/ CtrlExpire
  <2>1. UNCHANGED <<host, held, overrun, ring, epoch, seen, line, poisoned>>
    BY <1>7 DEF ControlTask, CtrlWake, CtrlCommand, CtrlFault, CtrlExpire, wireVars, taskVars
  <2> QED  BY <2>1, StreamKept
<1>8. CASE UNCHANGED vars
  BY <1>8, StreamKept DEF vars, wireVars, taskVars
<1> QED  BY <1>1, <1>2, <1>3, <1>4, <1>5, <1>6, <1>7, <1>8 DEF Next, Isr, IoTask

-----------------------------------------------------------------------------
(* Commands.                                                               *)

\* A newline that comes up with no fault pending ends exactly one frame.
LEMMA NewlineEndsFrame ==
  ASSUME IoTypes, StreamInv, ~rxFaultPending, ring # <<>>, Head(ring).nl, ~poisoned
  PROVE  Whole(line, Head(ring))
<1> DEFINE b == Head(ring)
<1>1. RingInv /\ LineInv /\ ring \in Seq(Byte) /\ line \in Seq(Byte)
  BY DEF StreamInv, IoTypes, WireOK, TaskOK
<1>2. Len(ring) \in Nat \ {0} /\ b = ring[1] /\ b \in Byte  BY <1>1, PopFacts
<1>3. Clean(b)
  <2>1. 1 \in 1 .. Len(ring)  BY <1>2
  <2> QED  BY <1>1, <1>2, <2>1 DEF RingInv
<1>4. Upcoming = Pos(b)  BY DEF Upcoming
<1>5. b.i = Len(line) + 1 /\ b.f = Upcoming[1]  BY <1>1, <1>4 DEF LineInv, Pos
<1>6. Len(line) \in Nat /\ DOMAIN line = 1 .. Len(line)  BY <1>1, LenProperties
<1>7. Len(line) = FrameLen[b.f]
  <2>1. FrameLen[b.f] \in Nat  BY <1>2, ConstantFacts DEF Byte
  <2>2. b.i <= FrameLen[b.f] + 1 /\ b.i > FrameLen[b.f]  BY <1>3 DEF Clean
  <2> QED  BY <1>5, <1>6, <2>1, <2>2
<1>8. ~b.bad  BY <1>3 DEF Clean
<1> QED  BY <1>1, <1>5, <1>6, <1>7, <1>8 DEF Whole, LineInv

\* A fault the task has not seen stays pending while it does not look.
LEMMA PendingStays ==
  ASSUME IoTypes, seen' = seen, epoch' \in {epoch, epoch + 1}, rxFaultPending
  PROVE  rxFaultPending'
BY DEF IoTypes, WireOK, rxFaultPending

LEMMA CommandStep == IoTypes /\ StreamInv /\ CommandInv /\ [Next]_vars => CommandInv'
<1> SUFFICES ASSUME IoTypes, StreamInv, CommandInv, [Next]_vars PROVE CommandInv'
  OBVIOUS
<1> USE DEF CommandInv, NoSplicedCommand
<1>1. Spliced' = Spliced /\ NONE # Spliced  BY Rigid, ConstantFacts DEF Commands
<1>2. CASE WireByte
  BY <1>1, <1>2 DEF WireByte, taskVars, ctrlVars, rxFaultPending
<1>3. CASE RxIsr
  <2>1. UNCHANGED <<seen, pc, cur, cmdBox, drive>> /\ epoch' \in {epoch, epoch + 1}
    BY <1>3 DEF RxIsr, OnRxByte, taskVars, ctrlVars
  <2> QED  BY <1>1, <2>1, PendingStays
<1>4. CASE StepSync \/ PollHead
  <2>1. pc' \in {"rearm", "status", "pop"} /\ UNCHANGED <<cmdBox, drive>>
    BY <1>4 DEF StepSync, PollHead, ctrlVars
  <2> QED  BY <1>1, <2>1
<1>5. CASE StepRearm
  <2>1. pc' = "poll" /\ cmdBox' = cmdBox /\ drive' \in {drive, NONE}
    BY <1>5 DEF StepRearm
  <2> QED  BY <1>1, <2>1
<1>6. CASE PopEmpty \/ PushByte
  <2>1. pc' \in {"status", "poll"} /\ UNCHANGED <<cmdBox, drive>>
    BY <1>6 DEF PopEmpty, PushByte, ctrlVars
  <2> QED  BY <1>1, <2>1
<1>7. CASE PushNewline
  <2>1. PICK f \in IF poisoned THEN {NONE} ELSE Parses(line, Head(ring)) :
          (f = NONE /\ pc' = "poll" /\ UNCHANGED cur /\ SendLine)
          \/ (f # NONE /\ pc' = "check" /\ cur' = f /\ UNCHANGED <<moe, drive, pend, bits>>)
    BY <1>7 DEF PushNewline
  <2>2. cmdBox' = cmdBox /\ drive' \in {drive, NONE} /\ pc' \in {"poll", "check"}
    BY <1>7, <2>1 DEF PushNewline, SendLine
  <2>3. pc' = "check" /\ cur' = Spliced => rxFaultPending'
    <3> SUFFICES ASSUME pc' = "check", cur' = Spliced PROVE rxFaultPending'
      BY <1>1
    <3>1. f = Spliced /\ ~poisoned  BY <1>1, <2>1
    <3>2. ring # <<>> /\ Head(ring).nl /\ UNCHANGED <<epoch, seen>>
      BY <1>7 DEF PushNewline
    <3>3. Head(ring) \in Byte  BY <3>2, PopFacts DEF IoTypes, WireOK
    <3>4. ~Whole(line, Head(ring))  BY <2>1, <3>1, <3>3, ParsesTypes
    <3> QED  BY <3>1, <3>2, <3>4, NewlineEndsFrame DEF rxFaultPending
  <2> QED  BY <1>1, <2>2, <2>3
<1>8. CASE StepCheck
  <2>1. cmdBox' = cmdBox /\ cur' = cur /\ drive' \in {drive, NONE} /\ pc = "check"
        /\ pc' \in {"replyErr", "poll", "post"}
    BY <1>8 DEF StepCheck, CheckAccept, SendLine, At
  <2>2. pc' = "post" => ~rxFaultPending
    BY <1>8 DEF StepCheck, CheckAccept
  <2> QED  BY <1>1, <2>1, <2>2
<1>9. CASE StepPost
  <2>1. pc = "post" /\ pc' = "wait" /\ cur' = cur /\ drive' = drive /\ cmdBox'.f = cur
    BY <1>9 DEF StepPost, At, ctrlVars
  <2> QED  BY <1>1, <2>1
<1>10. CASE StepWait
  <2>1. pc = "wait" /\ pc' \in {"wait", "decide"} /\ UNCHANGED <<cur, drive, cmdBox>>
    BY <1>10 DEF StepWait, At, ctrlVars
  <2> QED  BY <1>1, <2>1
<1>11. CASE StepDecide \/ StepReplyErr \/ StepStatus
  <2>1. cmdBox' = cmdBox /\ drive' \in {drive, NONE} /\ pc' \in {"poll", "replyErr", "sync"}
    BY <1>11 DEF StepDecide, StepReplyErr, StepStatus, SendLine
  <2> QED  BY <1>1, <2>1
<1>12. CASE ControlTask \/ CtrlExpire
  <2>1. /\ UNCHANGED <<epoch, seen, pc, cur>>
        /\ drive' \in {drive, NONE, cmdBox.f} /\ cmdBox' \in {cmdBox, NoCommand}
    BY <1>12 DEF ControlTask, CtrlWake, CtrlCommand, CtrlFault, CtrlExpire, taskVars
  <2>2. cmdBox'.f # Spliced  BY <1>1, <2>1 DEF NoCommand
  <2> QED  BY <1>1, <2>1, <2>2 DEF rxFaultPending
<1>13. CASE UNCHANGED vars
  BY <1>1, <1>13 DEF vars, taskVars, ctrlVars, rxFaultPending
<1> QED
  BY <1>2, <1>3, <1>4, <1>5, <1>6, <1>7, <1>8, <1>9, <1>10, <1>11, <1>12, <1>13
  DEF Next, Isr, IoTask

-----------------------------------------------------------------------------
(* Answers.                                                                *)

\* AnswerInv survives a step that leaves the exchange alone, and one that ends it.
LEMMA AnswerKept ==
  ASSUME AnswerInv, acked' = acked, applied' = applied, UNCHANGED <<cur, seq, got>>,
         \/ UNCHANGED <<pc, cmdBox, resBox>>
         \/ pc' \notin {"wait", "decide"}
  PROVE  AnswerInv'
BY DEF AnswerInv, OkIsTrue, NoCommand

LEMMA AnswerStep == IoTypes /\ AnswerInv /\ [Next]_vars => AnswerInv'
<1> SUFFICES ASSUME IoTypes, AnswerInv, [Next]_vars PROVE AnswerInv'  OBVIOUS
<1>1. TaskOK /\ BoxOK  BY DEF IoTypes
<1>2. CASE Isr \/ UNCHANGED vars
  <2>1. UNCHANGED <<pc, cur, seq, got, cmdBox, resBox, acked, applied>>
    BY <1>2 DEF Isr, WireByte, RxIsr, vars, taskVars, ctrlVars
  <2> QED  BY <2>1, AnswerKept
<1>3. CASE StepSync \/ StepRearm \/ PollHead \/ PopEmpty \/ PushByte \/ StepStatus
  <2>1. pc' \notin {"wait", "decide"} /\ UNCHANGED <<cur, seq, got, acked, applied>>
    BY <1>3 DEF StepSync, StepRearm, PollHead, PopEmpty, PushByte, StepStatus, ctrlVars
  <2> QED  BY <2>1, AnswerKept
<1>4. CASE PushNewline
  <2>1. pc' \notin {"wait", "decide"} /\ acked' = acked /\ applied' = applied
    BY <1>4 DEF PushNewline
  <2> QED  BY <2>1 DEF AnswerInv, OkIsTrue
<1>5. CASE StepCheck
  <2>1. pc' \notin {"wait", "decide"} /\ applied' = applied
    BY <1>5 DEF StepCheck, CheckAccept
  <2>2. acked' = acked
        \/ (cur \in Frames /\ FrameKind[cur] = "spd" /\ acked' = [acked EXCEPT ![cur] = "ok"])
    BY <1>5 DEF StepCheck, CheckAccept, Acknowledge
  <2>3. OkIsTrue'  BY <1>1, <2>1, <2>2 DEF AnswerInv, OkIsTrue, TaskOK
  <2> QED  BY <2>1, <2>3 DEF AnswerInv
<1>6. CASE StepPost
  <2>1. /\ pc' = "wait" /\ seq' = seq + 1 /\ cmdBox'.f = cur /\ cur' = cur
        /\ UNCHANGED <<resBox, acked, applied>>
    BY <1>6 DEF StepPost, ctrlVars
  <2>2. seq \in Nat /\ resBox.seq \in 0 .. seq  BY <1>1 DEF TaskOK, BoxOK
  <2>3. resBox'.seq # seq' /\ seq' > 0  BY <2>1, <2>2
  <2> QED  BY <2>1, <2>3 DEF AnswerInv, OkIsTrue
<1>7. CASE StepWait
  <2>1. /\ pc = "wait" /\ UNCHANGED <<cur, seq, cmdBox, acked, applied>>
        /\ \/ pc' = "wait" /\ resBox' = NoResult
           \/ pc' = "decide" /\ got' \in {resBox, NoResult}
    BY <1>7 DEF StepWait, At, ctrlVars
  <2>2. seq > 0 /\ NoResult.seq = 0  BY <2>1 DEF AnswerInv, NoResult
  <2>3. seq \in Nat  BY <1>1 DEF TaskOK
  <2> QED  BY <2>1, <2>2, <2>3 DEF AnswerInv, OkIsTrue, NoCommand
<1>8. CASE StepDecide
  <2>1. pc = "decide" /\ pc' \in {"poll", "replyErr"} /\ applied' = applied
    BY <1>8 DEF StepDecide, At
  <2>2. acked' = acked
        \/ (AckOk /\ cur \in Frames /\ acked' = [acked EXCEPT ![cur] = "ok"])
    BY <1>8 DEF StepDecide, Acknowledge
  <2>3. AckOk => cur \in applied  BY <2>1 DEF AckOk, AnswerInv
  <2>4. OkIsTrue'  BY <1>1, <2>1, <2>2, <2>3 DEF AnswerInv, OkIsTrue, TaskOK
  <2> QED  BY <2>1, <2>4 DEF AnswerInv
<1>9. CASE StepReplyErr
  <2>1. pc' = "poll" /\ applied' = applied
        /\ (acked' = acked \/ acked' = [acked EXCEPT ![cur] = "err"])
    BY <1>9 DEF StepReplyErr, Acknowledge
  <2>2. OkIsTrue'  BY <1>1, <2>1 DEF AnswerInv, OkIsTrue, TaskOK
  <2> QED  BY <2>1, <2>2 DEF AnswerInv
<1>10. CASE CtrlWake \/ CtrlFault \/ CtrlExpire
  <2>1. UNCHANGED <<pc, cur, seq, got, cmdBox, resBox, acked, applied>>
    BY <1>10 DEF CtrlWake, CtrlFault, CtrlExpire, taskVars
  <2> QED  BY <2>1, AnswerKept
<1>11. CASE CtrlCommand
  <2>1. UNCHANGED <<pc, cur, seq, got, acked>> /\ cmdBox' = NoCommand
        /\ applied \subseteq applied'
    BY <1>11 DEF CtrlCommand, taskVars
  <2>2. \/ resBox' = resBox
        \/ /\ cmdBox # NoCommand /\ resBox'.seq = cmdBox.seq
           /\ resBox'.kind = "OK" => cmdBox.f \in applied'
    BY <1>11 DEF CtrlCommand
  <2>3. NoCommand.seq = 0 /\ seq \in Nat  BY <1>1 DEF NoCommand, TaskOK
  <2>4. OkIsTrue'  BY <2>1 DEF AnswerInv, OkIsTrue
  <2>5. pc' = "wait" /\ cmdBox'.seq = seq' => cmdBox'.f = cur'
    BY <2>1, <2>3 DEF AnswerInv
  <2>6. pc' = "wait" /\ resBox'.seq = seq' =>
          cmdBox' = NoCommand /\ (resBox'.kind = "OK" => cur' \in applied')
    BY <2>1, <2>2 DEF AnswerInv
  <2>7. pc' = "decide" /\ got'.seq = seq' =>
          cmdBox' = NoCommand /\ (got'.kind = "OK" => cur' \in applied')
    BY <2>1 DEF AnswerInv
  <2>8. pc' \in {"wait", "decide"} => seq' > 0  BY <2>1 DEF AnswerInv
  <2> QED  BY <2>4, <2>5, <2>6, <2>7, <2>8, Rigid DEF AnswerInv
<1> QED
  BY <1>2, <1>3, <1>4, <1>5, <1>6, <1>7, <1>8, <1>9, <1>10, <1>11
  DEF Next, IoTask, ControlTask

-----------------------------------------------------------------------------
(* The motors, when priorities are obeyed.                                 *)

\* A fault a step reports to ControlTask is accounted for, and outside the
\* exchange nothing else is asked of it.
LEMMA DriveByTask ==
  ASSUME DriveInv, serving' = serving, faulted' = faulted, bits \subseteq bits',
         pc' \notin {"wait", "decide"},
         \/ pend' = pend /\ moe' = moe
         \/ pend \subseteq pend' /\ pend' # {} /\ "FAULT" \in bits'
  PROVE  DriveInv'
BY DEF DriveInv, AppliedOk

LEMMA SendAccounted ==
  ASSUME SendLine
  PROVE  /\ bits \subseteq bits'
         /\ \/ pend' = pend /\ moe' = moe
            \/ pend \subseteq pend' /\ pend' # {} /\ "FAULT" \in bits'
BY DEF SendLine, UrgentStop

LEMMA SyncAccounted ==
  ASSUME SyncRxFaults
  PROVE  bits \subseteq bits' /\ pend' = pend
BY DEF SyncRxFaults, UrgentStop

\* The exchange goes on, with the same outcome or none yet.
LEMMA DriveKept ==
  ASSUME DriveInv, UNCHANGED <<bits, serving, pend, faulted, moe, cur, epoch, seen>>,
         pc' \in {"wait", "decide"} => pc \in {"wait", "decide"},
         AppliedOk' => AppliedOk,
         \/ drive' = drive /\ expired' = expired
         \/ expired' = TRUE
  PROVE  DriveInv'
BY DEF DriveInv, rxFaultPending

LEMMA DriveStep ==
  ASSUME IoTypes, AnswerInv, DriveInv, [Next]_vars, Preemptive
  PROVE  DriveInv'
<1>1. TaskOK /\ BoxOK  BY DEF IoTypes
<1>2. CASE WireByte \/ UNCHANGED vars
  <2>1. UNCHANGED <<bits, serving, pend, faulted, moe, cur, epoch, seen, pc, seq, got,
                    resBox, drive, expired>>
    BY <1>2 DEF WireByte, vars, taskVars, ctrlVars
  <2> QED  BY <2>1, DriveKept DEF AppliedOk
<1>3. CASE RxIsr
  <2>1. /\ UNCHANGED <<serving, pend, faulted, moe, cur, seen, pc, seq, got, resBox, drive,
                       expired>>
        /\ \/ epoch' = epoch /\ bits' = bits
           \/ epoch' = epoch + 1 /\ bits \subseteq bits'
    BY <1>3 DEF RxIsr, OnRxByte, taskVars, ctrlVars
  <2>2. CASE epoch' = epoch /\ bits' = bits
    BY <2>1, <2>2, DriveKept DEF AppliedOk
  <2>3. CASE epoch' = epoch + 1 /\ bits \subseteq bits'
    <3>1. rxFaultPending'  BY <2>1, <2>3 DEF IoTypes, WireOK, rxFaultPending
    <3> QED  BY <2>1, <2>3, <3>1 DEF DriveInv
  <2> QED  BY <2>1, <2>2, <2>3
<1>4. CASE StepSync \/ PollHead
  <2>1. /\ serving' = serving /\ faulted' = faulted /\ moe' = moe
        /\ pc' \notin {"wait", "decide"}
        /\ SyncRxFaults \/ UNCHANGED <<pend, bits>>
    BY <1>4 DEF StepSync, PollHead, ctrlVars
  <2> QED  BY <2>1, SyncAccounted, DriveByTask
<1>5. CASE StepRearm
  <2>1. serving' = serving /\ faulted' = faulted /\ pc' \notin {"wait", "decide"}
    BY <1>5 DEF StepRearm
  <2>2. \/ UNCHANGED <<moe, pend, bits>>
        \/ UrgentStop({"RX_REARM"})
    BY <1>5 DEF StepRearm
  <2> QED  BY <2>1, <2>2, DriveByTask DEF UrgentStop
<1>6. CASE PopEmpty \/ PushByte
  <2>1. UNCHANGED <<serving, faulted, moe, pend, bits>> /\ pc' \notin {"wait", "decide"}
    BY <1>6 DEF PopEmpty, PushByte, ctrlVars
  <2> QED  BY <2>1, DriveByTask
<1>7. CASE PushNewline
  <2>1. /\ serving' = serving /\ faulted' = faulted /\ pc' \notin {"wait", "decide"}
        /\ SendLine \/ UNCHANGED <<moe, pend, bits>>
    BY <1>7 DEF PushNewline
  <2> QED  BY <2>1, SendAccounted, DriveByTask
<1>8. CASE StepCheck
  <2>1. /\ serving' = serving /\ faulted' = faulted /\ pc' \notin {"wait", "decide"}
        /\ (SyncRxFaults /\ moe' = moe) \/ SendLine \/ UNCHANGED <<moe, pend, bits>>
    BY <1>8 DEF StepCheck, CheckAccept
  <2> QED  BY <2>1, SyncAccounted, SendAccounted, DriveByTask
<1>9. CASE StepPost
  <2>1. /\ bits = {} /\ serving = {} /\ bits' = {"COMMAND"} /\ pc' = "wait"
        /\ seq' = seq + 1
        /\ UNCHANGED <<serving, pend, faulted, moe, resBox>>
    BY <1>9 DEF StepPost, At, TaskRuns, ctrlVars
  <2>2. resBox'.seq # seq'
    <3>1. seq \in Nat /\ resBox.seq \in 0 .. seq  BY <1>1 DEF TaskOK, BoxOK
    <3> QED  BY <2>1, <3>1
  <2>3. ~AppliedOk'  BY <2>1, <2>2 DEF AppliedOk
  <2>4. pend = {} /\ (moe \/ faulted # {})  BY <2>1 DEF DriveInv
  <2> QED  BY <2>1, <2>3, <2>4 DEF DriveInv
<1>10. CASE StepWait
  <2>1. /\ pc = "wait"
        /\ UNCHANGED <<bits, serving, pend, faulted, moe, cur, epoch, seen, drive, expired,
                       seq>>
        /\ \/ pc' = "wait" /\ resBox' = NoResult
           \/ pc' = "decide" /\ got' \in {resBox, NoResult}
    BY <1>10 DEF StepWait, At, ctrlVars
  <2>2. AppliedOk' => AppliedOk  BY <2>1 DEF AppliedOk, NoResult
  <2> QED  BY <2>1, <2>2, DriveKept
<1>11. CASE StepDecide \/ StepReplyErr \/ StepStatus
  <2>1. /\ serving' = serving /\ faulted' = faulted /\ pc' \notin {"wait", "decide"}
        /\ SendLine \/ UNCHANGED <<moe, pend, bits>>
    BY <1>11 DEF StepDecide, StepReplyErr, StepStatus
  <2> QED  BY <2>1, SendAccounted, DriveByTask
<1>12. CASE CtrlWake
  <2>1. /\ serving = {} /\ serving' = bits /\ bits' = {}
        /\ UNCHANGED <<pend, faulted, moe, drive, expired, epoch, seen, pc, cur, seq, got,
                       resBox>>
    BY <1>12 DEF CtrlWake, taskVars
  <2>2. bits' \cup serving' = bits \cup serving  BY <2>1
  <2> QED  BY <2>1, <2>2 DEF DriveInv, AppliedOk, rxFaultPending
<1>13. CASE CtrlCommand
  <2>1. /\ UNCHANGED <<bits, pend, faulted, moe, epoch, seen, pc, cur, seq, got>>
        /\ serving' = serving \ {"COMMAND"}
    BY <1>13 DEF CtrlCommand, taskVars
  <2>2. "FAULT" \in bits' \cup serving' <=> "FAULT" \in bits \cup serving  BY <2>1
  <2>3. /\ pend' # {} => "FAULT" \in bits' \cup serving'
        /\ moe' \/ pend' # {} \/ faulted' # {}
        /\ pc' \in {"wait", "decide"} /\ ~rxFaultPending' => "FAULT" \notin bits' \cup serving'
    BY <2>1, <2>2 DEF DriveInv, rxFaultPending
  <2>4. ASSUME AppliedOk', ~rxFaultPending', cur' \in Frames, FrameKind[cur'] = "drive"
        PROVE  moe' /\ (drive' = cur' \/ expired')
    <3>1. ~rxFaultPending /\ cur \in Frames /\ FrameKind[cur] = "drive"
          /\ pc \in {"wait", "decide"}
      BY <2>1, <2>4 DEF rxFaultPending, AppliedOk
    <3>2. "FAULT" \notin bits \cup serving /\ pend = {}  BY <3>1 DEF DriveInv
    <3>3. CASE cmdBox = NoCommand
      <4>1. UNCHANGED <<drive, resBox, expired>>  BY <1>13, <3>3 DEF CtrlCommand
      <4>2. AppliedOk  BY <2>1, <2>4, <4>1 DEF AppliedOk
      <4> QED  BY <2>1, <3>1, <4>1, <4>2 DEF DriveInv
    <3>4. CASE cmdBox # NoCommand
      <4>1. pc = "wait"  BY <2>1, <2>4, <3>4 DEF AnswerInv, AppliedOk
      <4>2. resBox'.seq = seq /\ resBox'.kind = "OK"
        BY <2>1, <2>4, <4>1 DEF AppliedOk
      <4>3. /\ faulted = {} /\ resBox'.seq = cmdBox.seq
            /\ drive' = IF cmdBox.f = Spliced \/ FrameKind[cmdBox.f] = "drive"
                        THEN cmdBox.f ELSE NONE
        BY <1>13, <3>4, <4>2 DEF CtrlCommand
      <4>4. cmdBox.f = cur  BY <4>1, <4>2, <4>3 DEF AnswerInv
      <4>5. moe  BY <3>2, <4>3 DEF DriveInv
      <4> QED  BY <2>1, <3>1, <4>3, <4>4, <4>5
    <3> QED  BY <3>3, <3>4
  <2> QED  BY <2>3, <2>4 DEF DriveInv
<1>14. CASE CtrlFault
  <2>1. /\ "FAULT" \in serving /\ pend' = {} /\ faulted' = faulted \cup pend
        /\ moe' = (moe /\ faulted' = {})
        /\ UNCHANGED <<bits, epoch, seen, pc, cur, seq, got, resBox>>
    BY <1>14 DEF CtrlFault, taskVars
  <2>2. ~(pc \in {"wait", "decide"} /\ ~rxFaultPending)  BY <2>1 DEF DriveInv
  <2>3. moe' \/ faulted' # {}  BY <2>1 DEF DriveInv
  <2> QED  BY <2>1, <2>2, <2>3 DEF DriveInv, AppliedOk, rxFaultPending
<1>15. CASE CtrlExpire
  <2>1. /\ UNCHANGED <<bits, serving, pend, faulted, moe, cur, epoch, seen, pc, seq, got,
                       resBox>>
        /\ expired' = TRUE
    BY <1>15 DEF CtrlExpire, taskVars
  <2> QED  BY <2>1, DriveKept DEF AppliedOk
<1> QED
  BY <1>2, <1>3, <1>4, <1>5, <1>6, <1>7, <1>8, <1>9, <1>10, <1>11, <1>12, <1>13, <1>14, <1>15
  DEF Next, Isr, IoTask, ControlTask

-----------------------------------------------------------------------------
(* Theorems.                                                               *)

\* The strengthening the safety properties rest on: what the bytes under way, the
\* command in hand and its result have to do with each other at every moment.
THEOREM IoInvariant == Spec => []IoInv
<1>1. Init => IoInv
  <2> SUFFICES ASSUME Init PROVE IoInv  OBVIOUS
  <2>1. IoTypes /\ StreamInv  BY InitTypes, StreamInit
  <2>2. CommandInv
    BY ConstantFacts DEF Init, CommandInv, NoSplicedCommand, NoCommand
  <2>3. AnswerInv  BY DEF Init, AnswerInv, OkIsTrue
  <2>4. DriveInv  BY DEF Init, DriveInv, AppliedOk
  <2> QED  BY <2>1, <2>2, <2>3, <2>4 DEF IoInv
<1>2. IoInv /\ [Next]_vars => IoInv'
  BY TypeStep, StreamStep, CommandStep, AnswerStep, DriveStep DEF IoInv
<1> QED  BY <1>1, <1>2, PTL DEF Spec

\* Every variable of the command path keeps its type: the ring, the data register
\* and the line never hold more than their capacity, and no mailbox holds a
\* sequence number not yet given.
THEOREM IoTypeOK == Spec => []TypeOK
<1>1. IoInv => TypeOK  BY TypesHold DEF IoInv
<1> QED  BY <1>1, IoInvariant, PTL

\* app_on_rx_byte(), sync_rx_faults(), protocol_push() and command_accept()
\* together: whatever the host sends, however long its frames, whatever the wire
\* damages and wherever the interrupts fall, no line put together from pieces of
\* several frames reaches ControlTask or the motors.
THEOREM NoCommandIsSpliced == Spec => []NoSplicedCommand
<1>1. IoInv => NoSplicedCommand  BY DEF IoInv, CommandInv
<1> QED  BY <1>1, IoInvariant, PTL

\* app_link_wait_applied() and control_ack_decide(): however late ControlTask is,
\* `ok' is said only of a command it applied.
THEOREM OksAreTrue == Spec => []OkIsTrue
<1>1. IoInv => OkIsTrue  BY DEF IoInv, AnswerInv
<1> QED  BY <1>1, IoInvariant, PTL

\* With the priorities of rtos_app.c obeyed, a drive command answered `ok' has its
\* duty in CCR and the output stage powered when the answer is given, unless the
\* watchdog took the duty out meanwhile.  (Without priorities a stop may come
\* between the result and the answer.)
THEOREM OksMeanDriving ==
  ASSUME Preemptive
  PROVE  Spec => OkMeansDriving
<1> DEFINE Said == \A f \in Frames : Answers(f, "ok") /\ FrameKind[f] = "drive"
                                       => moe /\ (drive = f \/ expired)
<1>1. IoInv /\ [Next]_vars => [Said]_vars
  <2> SUFFICES ASSUME IoInv, Next, NEW f \in Frames, Answers(f, "ok"),
                      FrameKind[f] = "drive"
               PROVE  moe /\ (drive = f \/ expired)
    OBVIOUS
  <2>1. TaskOK /\ DriveInv  BY DEF IoInv, IoTypes
  <2>2. acked' # acked  BY DEF Answers
  <2>3. CASE StepCheck
    <3>1. cur \in Frames /\ FrameKind[cur] = "spd" /\ acked' = [acked EXCEPT ![cur] = "ok"]
      BY <2>2, <2>3 DEF StepCheck, CheckAccept, Acknowledge
    <3>2. f = cur  BY <2>1, <3>1 DEF Answers, TaskOK
    <3> QED  BY <3>1, <3>2
  <2>4. CASE StepDecide
    <3>1. /\ AckOk /\ pc = "decide" /\ cur \in Frames
          /\ acked' = [acked EXCEPT ![cur] = "ok"]
      BY <2>2, <2>4 DEF StepDecide, Acknowledge, At
    <3>2. f = cur  BY <2>1, <3>1 DEF Answers, TaskOK
    <3>3. AppliedOk /\ ~rxFaultPending  BY <3>1 DEF AckOk, AppliedOk
    <3> QED  BY <2>1, <3>1, <3>2, <3>3 DEF DriveInv
  <2>5. CASE StepReplyErr
    <3>1. acked' = [acked EXCEPT ![cur] = "err"] /\ cur \in Frames
      BY <2>2, <2>5 DEF StepReplyErr, Acknowledge
    <3> QED  BY <2>1, <3>1 DEF Answers, TaskOK
  <2>6. StepCheck \/ StepDecide \/ StepReplyErr
    BY <2>2 DEF Next, Isr, WireByte, RxIsr, IoTask, StepSync, StepRearm, PollHead, PopEmpty,
                PushByte, PushNewline, StepPost, StepWait, StepStatus, ControlTask,
                CtrlWake, CtrlCommand, CtrlFault, CtrlExpire
  <2> QED  BY <2>3, <2>4, <2>5, <2>6
<1>2. Spec => [][Said]_vars  BY <1>1, IoInvariant, PTL DEF Spec
<1> QED  BY <1>2 DEF OkMeansDriving
=============================================================================

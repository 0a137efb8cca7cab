------------------------------- MODULE LegacyIo -------------------------------
(***************************************************************************)
(* The ASCII command path of the base controller: the USART2 receive and   *)
(* error interrupts, LegacyIoTask (app_main.c: app_step, command_poll,     *)
(* command_accept), the line assembler of protocol_ascii.c, the receive    *)
(* ring, and the mailboxes and notification bits of rtos_app.c through     *)
(* which it reaches ControlTask.                                           *)
(*                                                                         *)
(* Interrupts may fall between any two steps.  ControlTask (priority 5)    *)
(* preempts LegacyIoTask (priority 2); with Preemptive = FALSE it may be   *)
(* late by any amount, which the sequence numbers of the mailboxes are     *)
(* there to survive.                                                       *)
(*                                                                         *)
(* Bytes are abstracted to the frame and position they were sent as, which *)
(* the code never sees: it sees whether a byte is a newline.  A line that  *)
(* is not one whole frame may still parse.  ControlTask is reduced to what *)
(* ControlCore promises: a command drives, a stop or an expiry zeroes, a   *)
(* latched fault refuses.                                                  *)
(***************************************************************************)
EXTENDS Naturals, Sequences

CONSTANTS
  Frames,        \* the lines the host sends, 1 .. n in this order
  FrameLen,      \* bytes of each before its newline
  FrameKind,     \* "drive", "stop", "spd", or "junk" (does not parse)
  RingCap,       \* CMD_RX_RING_SIZE - 1
  LineCap,       \* CMD_LINE_CAP - 1
  PollMaxBytes,  \* CMD_POLL_MAX_BYTES
  PollMaxLines,  \* CMD_POLL_MAX_LINES
  RearmLimit,    \* CMD_RX_REARM_FAIL_LIMIT
  MaxFaults,     \* bound on receive faults
  MaxExpiries,   \* bound on watchdog expiries
  TxMayFail,     \* whether platform_uart_send() may fail
  RearmMayFail,  \* whether HAL_UART_Receive_IT() may fail
  Preemptive     \* whether priorities are obeyed

ASSUME FrameAssumption ==
  /\ FrameLen \in Seq(Nat \ {0}) /\ Frames = 1 .. Len(FrameLen)
  /\ FrameKind \in Seq({"drive", "stop", "spd", "junk"}) /\ Len(FrameKind) = Len(FrameLen)
  /\ {RingCap, LineCap, RearmLimit} \subseteq Nat \ {0}
  /\ {PollMaxBytes, PollMaxLines, MaxFaults, MaxExpiries} \subseteq Nat
  /\ {TxMayFail, RearmMayFail, Preemptive} \subseteq BOOLEAN

NONE == 0      \* no frame: an empty mailbox, motors at rest
Spliced == Len(FrameLen) + 1   \* a line that parses but is not one whole frame

VARIABLES
  host,      \* <<frame, position>> of the next byte on the wire
  armed,                    \* the receive interrupt is armed
  held, overrun,            \* the USART data register and its overrun flag
  ring, epoch,              \* g_rx, g_rx_fault_epoch
  seen, failIsr, failRun,   \* g_rx_fault_seen, g_rx_rearm_fail_isr, _run
  line, poisoned,           \* protocol_t
  pc, bytes, lines, cur, seq,   \* LegacyIoTask: where it is, command in hand
  got,                      \* what app_link_wait_applied() returned
  wdSeen,                   \* g_wd_seq_seen
  bits, serving,            \* ControlTask notification: pending, being served
  cmdBox, resBox, pend,     \* the length-1 mailboxes, s_pending_fault_flags
  drive, faulted, moe, wdSeq,   \* ControlTask: frame in CCR, latch, MOE, expiries
  acked, applied, expired   \* history: replies, frames applied OK, expiry since

wireVars == <<host, armed, held, overrun>>
ctrlVars == <<serving, drive, faulted, moe, wdSeq, applied, expired>>
taskVars == <<seen, failRun, line, poisoned, pc, bytes, lines, cur, seq, got, wdSeen>>
vars == <<wireVars, ring, epoch, failIsr, taskVars, bits, cmdBox, resBox, pend,
          ctrlVars, acked>>

NoCommand == [seq |-> 0, f |-> NONE]
NoResult  == [seq |-> 0, kind |-> "NONE"]

rxFaultPending == epoch # seen

-----------------------------------------------------------------------------
(* The wire and the USART2 interrupts.                                     *)

Sending == host[1] \in Frames
AtNewline == host[2] > FrameLen[host[1]]
NextByte(nl, bad) == [f |-> host[1], i |-> host[2], nl |-> nl, bad |-> bad]
HostAdvances == host' = IF AtNewline THEN <<host[1] + 1, 1>> ELSE <<host[1], host[2] + 1>>

\* A byte reaches the data register, perhaps damaged so that it may look like
\* anything.  If the last one is still there the new one is lost and the overrun
\* flag set: reception was off, or interrupts were masked (USART hardware).
WireByte ==
  \E bad, nl \in BOOLEAN :
    /\ Sending
    /\ bad \/ nl = AtNewline
    /\ bad \/ held # <<>> \/ Len(ring) = RingCap => epoch < MaxFaults
    /\ IF held = <<>>
       THEN held' = <<NextByte(nl, bad)>> /\ UNCHANGED overrun
       ELSE overrun' = TRUE /\ UNCHANGED held
    /\ HostAdvances
    /\ UNCHANGED <<armed, ring, epoch, failIsr, taskVars, bits, cmdBox, resBox,
                   pend, ctrlVars, acked>>

\* app_on_rx_byte(), and app_on_uart_error() of a damaged byte or an overrun,
\* which HAL_UART_IRQHandler() calls after the byte.  A full ring drops the byte
\* and is a receive fault too (two faults of one interrupt count once here).
SilentOverflow(b, damaged) ==
  /\ ring' = IF Len(ring) < RingCap THEN Append(ring, b) ELSE ring
  /\ IF damaged THEN epoch' = epoch + 1 /\ bits' = bits \cup {"FAULT"}
     ELSE UNCHANGED <<epoch, bits>>
OverfullRing(b, damaged) ==
  /\ ring' = IF Len(ring) <= RingCap THEN Append(ring, b) ELSE ring
  /\ IF damaged \/ Len(ring) > RingCap
     THEN epoch' = epoch + 1 /\ bits' = bits \cup {"FAULT"}
     ELSE UNCHANGED <<epoch, bits>>
OnRxByte(b, damaged) ==
  /\ ring' = IF Len(ring) < RingCap THEN Append(ring, b) ELSE ring
  /\ IF damaged \/ Len(ring) = RingCap
     THEN epoch' = epoch + 1 /\ bits' = bits \cup {"FAULT"}
     ELSE UNCHANGED <<epoch, bits>>

\* The USART2 interrupt: HAL_UART_RxCpltCallback(), HAL_UART_ErrorCallback() and
\* HAL_UART_Receive_IT(), whose failure leaves reception off and is counted.
RxIsr ==
  /\ armed /\ held # <<>>
  /\ held' = <<>> /\ overrun' = FALSE
  /\ OnRxByte(Head(held), Head(held).bad \/ overrun)
  /\ \/ UNCHANGED <<armed, failIsr>>
     \/ RearmMayFail /\ armed' = FALSE /\ failIsr' = TRUE
  /\ UNCHANGED <<host, taskVars, cmdBox, resBox, pend, ctrlVars, acked>>

-----------------------------------------------------------------------------
(* LegacyIoTask.                                                           *)

\* A task of priority 2 runs only when ControlTask has nothing to do and no
\* interrupt is waiting.
TaskRuns ==
  /\ Preemptive => bits = {} /\ serving = {}
  /\ ~(armed /\ held # <<>>)

At(l) == TaskRuns /\ pc = l

\* app_link_urgent_stop(flags)
UrgentStop(flags) == pend' = pend \cup flags /\ bits' = bits \cup {"FAULT"}

\* sync_rx_faults(): the ring is emptied and the epoch taken in one critical
\* section, the parser poisoned, the stop repeated.
SyncWithoutPoison ==
  ring' = <<>> /\ seen' = epoch /\ UNCHANGED poisoned /\ line' = <<>> /\ UrgentStop({})
SyncWithoutStop ==
  ring' = <<>> /\ seen' = epoch /\ poisoned' = TRUE /\ line' = <<>> /\ UNCHANGED <<pend, bits>>
SyncRxFaults ==
  /\ ring' = <<>>
  /\ seen' = epoch
  /\ poisoned' = TRUE
  /\ line' = <<>>
  /\ UrgentStop({})

\* send_line(): a failed transmission kills the output at once and latches a
\* fault through ControlTask.
SendLine ==
  \/ UNCHANGED <<moe, drive, pend, bits>>
  \/ /\ TxMayFail
     /\ moe' = FALSE /\ drive' = NONE
     /\ UrgentStop({"TX"})

\* app_step() 1: receive faults first.
StepSync ==
  /\ At("sync")
  /\ IF rxFaultPending THEN SyncRxFaults
     ELSE UNCHANGED <<ring, seen, poisoned, line, pend, bits>>
  /\ pc' = "rearm"
  /\ UNCHANGED <<wireVars, epoch, failIsr, failRun, bytes, lines, cur, seq, got,
                 wdSeen, cmdBox, resBox, ctrlVars, acked>>

\* app_step() 2, rx_rearm_if_needed(): the failure an interrupt reported counts,
\* a successful arming clears the run, RearmLimit failures in a row are fatal.
StepRearm ==
  LET run == failRun + (IF failIsr THEN 1 ELSE 0)
  IN  /\ At("rearm")
      /\ failIsr' = FALSE
      /\ \/ /\ armed /\ failRun' = 0
            /\ UNCHANGED <<armed, moe, drive, pend, bits>>
         \/ /\ ~armed /\ armed' = TRUE /\ failRun' = 0
            /\ UNCHANGED <<moe, drive, pend, bits>>
         \/ /\ ~armed /\ RearmMayFail /\ UNCHANGED armed
            /\ failRun' = IF run + 1 < RearmLimit THEN run + 1 ELSE RearmLimit
            /\ IF run + 1 >= RearmLimit
               THEN moe' = FALSE /\ drive' = NONE /\ UrgentStop({"RX_REARM"})
               ELSE UNCHANGED <<moe, drive, pend, bits>>
      /\ pc' = "poll" /\ bytes' = 0 /\ lines' = 0
      /\ UNCHANGED <<host, held, overrun, ring, epoch, seen, line, poisoned, cur, seq,
                     got, wdSeen, cmdBox, resBox, serving, faulted, wdSeq,
                     applied, expired, acked>>

\* The head of command_poll()'s loop: its two bounds, then sync_rx_faults().
PollHead ==
  /\ At("poll")
  /\ IF bytes < PollMaxBytes /\ lines < PollMaxLines
     THEN IF rxFaultPending
          THEN SyncRxFaults /\ pc' = "status"
          ELSE pc' = "pop" /\ UNCHANGED <<ring, seen, poisoned, line, pend, bits>>
     ELSE pc' = "status" /\ UNCHANGED <<ring, seen, poisoned, line, pend, bits>>
  /\ UNCHANGED <<wireVars, epoch, failIsr, failRun, bytes, lines, cur, seq, got,
                 wdSeen, cmdBox, resBox, ctrlVars, acked>>

\* The line collected is exactly the frame its newline ends.
Whole(l, b) ==
  /\ ~b.bad
  /\ Len(l) = FrameLen[b.f]
  /\ \A j \in DOMAIN l : l[j] = [f |-> b.f, i |-> j, nl |-> FALSE, bad |-> FALSE]

\* What protocol_parse_line() may make of the line that b ends.
Parses(l, b) ==
  IF Whole(l, b)
  THEN IF FrameKind[b.f] = "junk" THEN {NONE} ELSE {b.f}
  ELSE {NONE, Spliced}

PopEmpty ==
  /\ At("pop") /\ ring = <<>>
  /\ pc' = "status"
  /\ UNCHANGED <<wireVars, ring, epoch, failIsr, seen, failRun, line, poisoned,
                 bytes, lines, cur, seq, got, wdSeen, bits, cmdBox, resBox, pend,
                 ctrlVars, acked>>

\* rx_ring_pop() and protocol_push() of a byte that ends no line.
PushByte ==
  LET b == Head(ring)
  IN  /\ At("pop") /\ ring # <<>> /\ ~(b.nl /\ (poisoned \/ line # <<>>))
      /\ ring' = Tail(ring) /\ bytes' = bytes + 1 /\ pc' = "poll"
      /\ IF b.nl \/ poisoned THEN UNCHANGED <<line, poisoned>>
         ELSE IF Len(line) >= LineCap THEN line' = <<>> /\ poisoned' = TRUE
         ELSE line' = Append(line, b) /\ UNCHANGED poisoned
      /\ UNCHANGED <<wireVars, epoch, failIsr, seen, failRun, lines, cur, seq, got,
                     wdSeen, bits, cmdBox, resBox, pend, ctrlVars, acked>>

\* A newline ends a line: a poisoned or unparsable one is answered err, the
\* other is handed to command_accept().
PushNewline ==
  LET b == Head(ring)
  IN  /\ At("pop") /\ ring # <<>> /\ b.nl /\ (poisoned \/ line # <<>>)
      /\ ring' = Tail(ring) /\ bytes' = bytes + 1 /\ lines' = lines + 1
      /\ poisoned' = FALSE /\ line' = <<>>
      /\ \E f \in IF poisoned THEN {NONE} ELSE Parses(line, b) :
           \/ f = NONE /\ pc' = "poll" /\ UNCHANGED cur /\ SendLine
           \/ f # NONE /\ pc' = "check" /\ cur' = f
              /\ UNCHANGED <<moe, drive, pend, bits>>
      /\ UNCHANGED <<wireVars, epoch, failIsr, seen, failRun, seq, got, wdSeen,
                     cmdBox, resBox, serving, faulted, wdSeq, applied, expired, acked>>

Acknowledge(how) == acked' = IF cur \in Frames THEN [acked EXCEPT ![cur] = how] ELSE acked

\* command_accept(), the critical section: a receive fault discards the line.
\* A `spd' line is answered here and never reaches ControlTask.
CheckAccept ==
  /\ At("check")
  /\ IF rxFaultPending
     THEN /\ SyncRxFaults
          /\ pc' = "replyErr"
          /\ UNCHANGED <<moe, drive, acked>>
     ELSE /\ UNCHANGED <<ring, seen, poisoned, line>>
          /\ IF cur \in Frames /\ FrameKind[cur] = "spd"
             THEN pc' = "poll" /\ SendLine /\ Acknowledge("ok")
             ELSE pc' = "post" /\ UNCHANGED <<moe, drive, pend, bits, acked>>
StepCheck ==
  /\ CheckAccept
  /\ UNCHANGED <<wireVars, epoch, failIsr, failRun, bytes, lines, cur, seq, got,
                 wdSeen, cmdBox, resBox, serving, faulted, wdSeq, applied, expired>>

\* app_link_post_command(): overwrite the mailbox, notify.
StepPost ==
  /\ At("post")
  /\ seq' = seq + 1
  /\ cmdBox' = [seq |-> seq + 1, f |-> cur]
  /\ bits' = bits \cup {"COMMAND"}
  /\ pc' = "wait"
  /\ UNCHANGED <<wireVars, ring, epoch, failIsr, seen, failRun, line, poisoned,
                 bytes, lines, cur, got, wdSeen, resBox, pend, ctrlVars, acked>>

\* app_link_wait_applied(): another sequence number is dropped while time is
\* left; at the timeout whatever was received last is returned.
WaitMatches(r) == r.seq = seq
StepWait ==
  /\ At("wait")
  /\ \/ /\ resBox # NoResult
        /\ resBox' = NoResult
        /\ \/ WaitMatches(resBox) /\ got' = resBox /\ pc' = "decide"
           \/ ~WaitMatches(resBox) /\ UNCHANGED <<got, pc>>
           \/ ~WaitMatches(resBox) /\ got' = resBox /\ pc' = "decide"  \* no time left
     \/ /\ resBox = NoResult /\ ~Preemptive
        /\ got' = NoResult /\ pc' = "decide"
        /\ UNCHANGED resBox
  /\ UNCHANGED <<wireVars, ring, epoch, failIsr, seen, failRun, line, poisoned,
                 bytes, lines, cur, seq, wdSeen, bits, cmdBox, pend, ctrlVars, acked>>

\* control_ack_decide()
AckIgnoresSeq == got.kind = "OK" /\ ~rxFaultPending
AckIgnoresRx == got # NoResult /\ got.seq = seq /\ got.kind = "OK"
AckOk == got # NoResult /\ got.seq = seq /\ got.kind = "OK" /\ ~rxFaultPending

StepDecide ==
  /\ At("decide")
  /\ IF AckOk
     THEN pc' = "poll" /\ SendLine /\ Acknowledge("ok")
     ELSE pc' = "replyErr" /\ UNCHANGED <<moe, drive, pend, bits, acked>>
  /\ UNCHANGED <<wireVars, ring, epoch, failIsr, seen, failRun, line, poisoned,
                 bytes, lines, cur, seq, got, wdSeen, cmdBox, resBox, serving,
                 faulted, wdSeq, applied, expired>>

\* send_err() of command_accept()
StepReplyErr ==
  /\ At("replyErr")
  /\ pc' = "poll" /\ SendLine /\ Acknowledge("err")
  /\ UNCHANGED <<wireVars, ring, epoch, failIsr, seen, failRun, line, poisoned,
                 bytes, lines, cur, seq, got, wdSeen, cmdBox, resBox, serving,
                 faulted, wdSeq, applied, expired>>

\* app_step() 4 and 5: a changed wd_seq is announced once, telemetry is due now
\* and then; any of these lines may fail to go out.
StepStatus ==
  /\ At("status")
  /\ pc' = "sync"
  /\ SendLine
  /\ wdSeen' = wdSeq
  /\ UNCHANGED <<wireVars, ring, epoch, failIsr, seen, failRun, line, poisoned,
                 bytes, lines, cur, seq, got, cmdBox, resBox, serving, faulted,
                 wdSeq, applied, expired, acked>>

-----------------------------------------------------------------------------
(* ControlTask: one wake-up serves its bits in this order.                 *)

CtrlWake ==
  /\ serving = {} /\ bits # {}
  /\ serving' = bits /\ bits' = {}
  /\ UNCHANGED <<wireVars, ring, epoch, failIsr, taskVars, cmdBox, resBox, pend,
                 drive, faulted, moe, wdSeq, applied, expired, acked>>

\* CTRL_NOTIFY_COMMAND: drain the mailbox, apply, post the result.  A late
\* ControlTask may find the deadline passed.
CtrlCommand ==
  LET f == cmdBox.f
      drives == f = Spliced \/ FrameKind[f] = "drive"
  IN  /\ "COMMAND" \in serving
      /\ serving' = serving \ {"COMMAND"}
      /\ cmdBox' = NoCommand
      /\ \/ /\ cmdBox # NoCommand /\ faulted = {}
            /\ drive' = IF drives THEN f ELSE NONE
            /\ resBox' = [seq |-> cmdBox.seq, kind |-> "OK"]
            /\ applied' = applied \cup {f} /\ expired' = FALSE
         \/ /\ cmdBox # NoCommand /\ (faulted # {} \/ ~Preemptive)
            /\ resBox' = [seq |-> cmdBox.seq, kind |-> "REJECTED"]
            /\ UNCHANGED <<drive, applied, expired>>
         \/ cmdBox = NoCommand /\ UNCHANGED <<drive, resBox, applied, expired>>
      /\ UNCHANGED <<wireVars, ring, epoch, failIsr, taskVars, bits, pend,
                     faulted, moe, wdSeq, acked>>

\* CTRL_NOTIFY_FAULT: control_core_on_stop(take_pending_faults())
CtrlFault ==
  /\ "FAULT" \in serving /\ "COMMAND" \notin serving
  /\ serving' = serving \ {"FAULT"}
  /\ drive' = NONE
  /\ faulted' = faulted \cup pend /\ pend' = {}
  /\ moe' = (moe /\ faulted' = {})
  /\ UNCHANGED <<wireVars, ring, epoch, failIsr, taskVars, bits, cmdBox, resBox,
                 wdSeq, applied, expired, acked>>

\* CTRL_NOTIFY_TICK: the cycle that finds the last command expired.
CtrlExpire ==
  /\ serving = {} /\ drive # NONE /\ wdSeq < MaxExpiries
  /\ drive' = NONE /\ wdSeq' = wdSeq + 1 /\ expired' = TRUE
  /\ UNCHANGED <<wireVars, ring, epoch, failIsr, taskVars, bits, serving, cmdBox,
                 resBox, pend, faulted, moe, applied, acked>>

-----------------------------------------------------------------------------

\* app_init(), platform_uart_rx_arm() and rtos_app_init()
Init ==
  /\ host = <<1, 1>> /\ armed = TRUE /\ held = <<>> /\ overrun = FALSE
  /\ ring = <<>> /\ epoch = 0 /\ seen = 0 /\ failIsr = FALSE /\ failRun = 0
  /\ line = <<>> /\ poisoned = FALSE
  /\ pc = "sync" /\ bytes = 0 /\ lines = 0 /\ cur = NONE /\ seq = 0 /\ got = NoResult
  /\ wdSeen = 0 /\ bits = {} /\ serving = {} /\ cmdBox = NoCommand
  /\ resBox = NoResult /\ pend = {}
  /\ drive = NONE /\ faulted = {} /\ moe = TRUE /\ wdSeq = 0
  /\ acked = [f \in Frames |-> "none"] /\ applied = {} /\ expired = FALSE

Isr == WireByte \/ RxIsr
IoTask ==
  \/ StepSync \/ StepRearm \/ PollHead \/ PopEmpty \/ PushByte \/ PushNewline
  \/ StepCheck \/ StepPost \/ StepWait \/ StepDecide \/ StepReplyErr \/ StepStatus
ControlTask == CtrlWake \/ CtrlCommand \/ CtrlFault
Next == Isr \/ IoTask \/ ControlTask \/ CtrlExpire

\* Both tasks run: ControlTask is woken by every notification, LegacyIoTask
\* wakes at least every LEGACY_IO_POLL_MS.  A pending interrupt is taken.
\* Nothing is assumed of the host, of errors or of expiry.
Fairness == WF_vars(ControlTask) /\ WF_vars(IoTask) /\ WF_vars(RxIsr)

Spec == Init /\ [][Next]_vars
FairSpec == Spec /\ Fairness

-----------------------------------------------------------------------------
(* Properties.                                                             *)

\* Every variable has its type.
TypeOK ==
  /\ Len(ring) <= RingCap /\ Len(held) <= 1 /\ Len(line) <= LineCap
  /\ epoch \in Nat /\ seen \in 0 .. epoch
  /\ failRun \in 0 .. RearmLimit
  /\ cur \in Frames \cup {NONE, Spliced} /\ drive \in Frames \cup {NONE, Spliced}
  /\ cmdBox.f \in Frames \cup {NONE, Spliced} /\ cmdBox.seq \in 0 .. seq
  /\ resBox.seq \in 0 .. seq /\ got.seq \in 0 .. seq
  /\ bits \subseteq {"COMMAND", "FAULT"} /\ serving \subseteq {"COMMAND", "FAULT"}
  /\ pend \subseteq {"TX", "RX_REARM"} /\ faulted \subseteq {"TX", "RX_REARM"}
  /\ {armed, overrun, failIsr, poisoned, moe, expired} \subseteq BOOLEAN
  /\ acked \in [Frames -> {"none", "ok", "err"}]

\* ControlTask is only ever handed a frame as the host sent it: bytes dropped by
\* a full ring, hit by noise or lost while reception was off never combine with
\* their neighbours into a command, wherever the interrupts fall.
NoSplicedCommand == cmdBox.f # Spliced /\ drive # Spliced

\* `ok' is never said of a command ControlTask did not apply, however late
\* ControlTask is and whatever results are left in the mailbox.
OkIsTrue ==
  \A f \in Frames : acked[f] = "ok" /\ FrameKind[f] # "spd" => f \in applied

Answers(f, how) == acked'[f] = how /\ acked[f] # how

\* When `ok' is said of a drive command its duty is still in CCR, or the
\* watchdog has since taken it out; and the output stage is powered.
OkMeansDriving ==
  [][\A f \in Frames : Answers(f, "ok") /\ FrameKind[f] = "drive"
                        => moe /\ (drive = f \/ expired)]_vars

\* Every receive fault leads to motors at rest with the fault accounted for, also
\* when the interrupt fell between command_accept()'s check and its post, where
\* the interrupt's own stop comes too early to undo the command.
FaultLeadsToRest == rxFaultPending ~> (~rxFaultPending /\ drive = NONE)

\* control_ack.c says of the answer to a receive fault: "applied, but then RX
\* damage made the output 0 again".
RxFaultAnswerMeansZero ==
  [][pc = "decide" /\ pc' = "replyErr" /\ got.seq = seq /\ got.kind = "OK"
       => drive = NONE]_vars
=============================================================================

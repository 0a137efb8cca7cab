-------------------------------- MODULE Uart1 --------------------------------
(***************************************************************************)
(* platform_uart1.c: the circular DMA ring through which MicroRosTask      *)
(* receives.  The DMA writes whether or not anybody reads, and tells       *)
(* nothing when it laps the reader.  A receive error makes the HAL stop    *)
(* reception and abort the DMA; the abort completes in a later interrupt,  *)
(* and reception is started again by the task, in its loop and in          *)
(* transport_read() (micro_ros_app.c).                                     *)
(*                                                                         *)
(* A byte is its position in the stream the agent sends, which the code    *)
(* never sees.  Bytes and interrupts fall between any two steps of the     *)
(* task, any number of them while it does not look at the ring: in WAITING *)
(* it only re-arms, for as long as the back-off, and a write blocks it.    *)
(* Abstracted: the counters of errors, transmission, baud sweeps.          *)
(***************************************************************************)
EXTENDS Integers

CONSTANTS
  Size,         \* UART1_RX_DMA_SIZE
  HighWater,    \* UART1_RX_HIGH_WATER
  MaxRead,      \* the most transport_read() asks for
  Burst,        \* bytes that may arrive from a look at the ring to the end of its copy
  MaxBytes,     \* bound: bytes of a behaviour
  MaxErrors     \* bound: receive errors

\* What fits above the high-water mark: a look below the mark leaves one byte more,
\* since it takes at least one out.
Margin == Size - HighWater + 1

\* A copy does not block, so that what arrives during it fits in the margin; nothing
\* is assumed of what arrives from one look to the next (assumed in MicroRosRing).
MarginOK ==
  /\ Size \in Nat \ {0} /\ HighWater \in 2 .. Size /\ Burst \in 0 .. Margin
  /\ MaxRead \in Nat \ {0} /\ MaxBytes \in Nat /\ MaxErrors \in Nat

VARIABLES
  ring, wpos,   \* s_rx_dma, the position NDTR tells
  dma,          \* state of the stream: "run", "abort", "off"
  armed,        \* RxState is BUSY_RX
  tail,         \* s_rx_tail
  overflows, armFails,  \* rx_overflow_count, rearm_fail_count: not 0
  pc, left,     \* the task: where it is, bytes left to copy
  sent, errors, \* the agent: bytes so far; bound
  fresh,        \* bytes since the ring was looked at
  owed,         \* history: the byte the reader has to get next
  rush          \* history: more than the margin came between two looks, and
                \* nothing has been taken out since

dmaVars == <<ring, wpos, dma, armed>>
taskVars == <<tail, overflows, armFails, pc, left>>
vars == <<dmaVars, taskVars, sent, errors, fresh, owed, rush>>

Index == 0 .. Size - 1

\* platform_uart1_start(), from the task's first lines; the task ignores its result,
\* and the counters are reset after the attempt.
Init ==
  /\ ring = [i \in Index |-> 0] /\ wpos = 0
  /\ dma \in {"run", "off"} /\ armed = (dma = "run")
  /\ tail = 0 /\ overflows = FALSE /\ armFails = FALSE
  /\ pc = "rearm" /\ left = 0
  /\ sent = 0 /\ errors = 0 /\ fresh = 0 /\ owed = 1
  /\ rush = FALSE

-----------------------------------------------------------------------------
(* The line, the DMA and the interrupts                                    *)

Store == ring' = [ring EXCEPT ![wpos] = sent + 1] /\ wpos' = (wpos + 1) % Size

\* Only a copy is short compared with what the line brings.
Arrives == (pc = "copy" => fresh < Burst) /\ fresh' = fresh + 1 /\ Store

\* A byte arrives; with reception off it is lost.
Byte ==
  /\ sent < MaxBytes /\ sent' = sent + 1
  /\ \/ dma = "run" /\ Arrives
     \/ dma # "run" /\ UNCHANGED <<ring, wpos, fresh>>
  /\ UNCHANGED <<dma, armed, taskVars, errors, owed, rush>>

\* A byte arrives with an error, stored or not: HAL_UART_IRQHandler() ends
\* reception and begins to abort the stream.
Error ==
  /\ errors < MaxErrors /\ errors' = errors + 1
  /\ sent < MaxBytes /\ sent' = sent + 1
  /\ dma = "run" /\ dma' = "abort" /\ armed' = FALSE
  /\ Arrives \/ UNCHANGED <<ring, wpos, fresh>>
  /\ UNCHANGED <<taskVars, owed, rush>>

\* The stream is down: UART_DMAAbortOnError(), platform_uart1_on_error_isr().
Aborted ==
  /\ dma = "abort" /\ dma' = "off"
  /\ UNCHANGED <<ring, wpos, armed, taskVars, sent, errors, fresh, owed, rush>>

-----------------------------------------------------------------------------
(* MicroRosTask                                                            *)

\* rx_arm(): the tail goes back first, then HAL_UART_Receive_DMA() starts at the
\* beginning of the ring, or fails while the stream is still being aborted.
\* What was not read is given up.
Arm ==
  /\ tail' = 0
  /\ \/ /\ dma = "off" /\ dma' = "run" /\ armed' = TRUE /\ wpos' = 0
        /\ owed' = sent + 1 /\ fresh' = 0 /\ rush' = FALSE /\ UNCHANGED armFails
     \/ /\ dma # "off" /\ armFails' = TRUE
        /\ UNCHANGED <<dma, armed, wpos, owed, fresh, rush>>

\* platform_uart1_rearm_if_needed(), at each turn of the task, also one that goes on
\* waiting, and before each look at the ring.
NeedsArmOnce == ~armed /\ ~armFails
NeedsArm == ~armed
Rearm ==
  /\ pc = "rearm" /\ pc' \in {"rearm", "read"}
  /\ IF NeedsArm THEN Arm
     ELSE UNCHANGED <<wpos, dma, armed, tail, armFails, owed, fresh, rush>>
  /\ UNCHANGED <<ring, overflows, left, sent, errors>>

\* platform_uart1_read() looks at the ring ...
AboveMark(avail) == avail > HighWater
AtMark(avail) == avail >= HighWater
Read ==
  LET avail == (wpos - tail) % Size IN
  /\ pc = "read"
  /\ overflows' = (overflows \/ AtMark(avail))
  /\ \E max \in 1 .. MaxRead : left' = IF avail < max THEN avail ELSE max
  /\ pc' = IF left' = 0 THEN "rearm" ELSE "copy"
  /\ fresh' = 0 /\ rush' = (rush \/ fresh > Margin)
  /\ UNCHANGED <<dmaVars, tail, armFails, sent, errors, owed>>

\* ... and copies, while the DMA goes on.
Copy ==
  /\ pc = "copy" /\ left' = left - 1
  /\ tail' = (tail + 1) % Size
  /\ owed' = ring[tail] + 1 /\ rush' = FALSE
  /\ pc' = IF left' = 0 THEN "rearm" ELSE "copy"
  /\ UNCHANGED <<dmaVars, overflows, armFails, sent, errors, fresh>>

Task == Rearm \/ Read \/ Copy
Next == Byte \/ Error \/ Aborted \/ Task

Spec == Init /\ [][Next]_vars

\* The task is scheduled and loops; an abort completes.
FairSpec == Spec /\ WF_vars(Rearm) /\ WF_vars(Read \/ Copy) /\ WF_vars(Aborted)

-----------------------------------------------------------------------------
(* Properties                                                              *)

\* However much arrives while nobody looks, and across restarts of reception: as
\* long as neither counter moved the reader gets no byte twice and none out of
\* order, and it misses one only where more than the margin came between two looks,
\* once, at the first byte it takes after that (platform_uart1_read()'s mark,
\* rx_arm()'s tail).
StreamIsHonest ==
  [][Copy => \/ overflows \/ armFails
             \/ ring[tail] = owed
             \/ rush /\ ring[tail] > owed]_vars

\* One receive error does not end reception for good, also when the restart came
\* too early and failed (platform_uart1_rearm_if_needed()).
ReceptionResumes == ~armed ~> armed

(* What comments of the source say and the code does not do.               *)

\* UART1_RX_HIGH_WATER: the DMA gives no sign when it laps the reader, so that what
\* is lost is counted before it is lost.  In WAITING nobody looks.
LapIsAnnounced == [][Copy => ring[tail] = owed \/ overflows \/ armFails]_vars

\* rx_arm(): the tail goes back so that no rubbish is read as valid bytes after a
\* restart.  When the restart fails, the bytes before wpos are read once more.
NothingReadTwice == [][Copy => ring[tail] >= owed \/ overflows]_vars
=============================================================================

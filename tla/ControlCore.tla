----------------------------- MODULE ControlCore -----------------------------
(***************************************************************************)
(* The pure core of ControlTask: control_core.c together with the watchdog *)
(* and fault latch of motor_safety.c, and the two TIM1 registers it        *)
(* decides (duty in CCR, main output enable in MOE).                       *)
(*                                                                         *)
(* Every handler of the core ends in control_commit(): the duty that is    *)
(* written is decided anew each time from the command it remembers, the    *)
(* age of the last accepted command and the fault latch.                   *)
(*                                                                         *)
(* Kept: every branch of the three handlers, the 32-bit millisecond clock  *)
(* (a clock modulo ClockMod) and the modular comparisons made with it, the *)
(* modulo-SeqMod tick counters.  Abstracted: the float PI regulator is any *)
(* duty and integrator it could compute from an arbitrary wheel speed.     *)
(* Left out: encoders and the diagnostic counters urgent_stop_count,       *)
(* stale_command_count and wd_ms.                                          *)
(***************************************************************************)
EXTENDS Integers

CONSTANTS
  Wheel,        \* the driven wheels: left and right
  HalfClock,    \* 2^31: the uint32_t millisecond clock counts modulo twice this
  SeqMod,       \* modulus of the tick, loop and watchdog-edge counters (2^32)
  WatchdogMs,   \* CMD_WATCHDOG_MS
  MaxGap,       \* longest time between two control_commit() calls
  MaxCmdAge,    \* oldest acceptance stamp a posted command can carry
  DutyMax,      \* MOTOR_DUTY_MAX_PM
  VelMax,       \* VEL_TARGET_MAX_TPS
  IMax,         \* SPEED_I_MAX_PM
  Raw,          \* the values a command may ask for, 0 among them
  MaxMerge,     \* most timer interrupts merged into one wake-up
  Seqs,         \* command sequence numbers
  Faults        \* the MOTOR_FAULT_* bits

ClockMod == 2 * HalfClock

ASSUME ClockAssumption ==
  /\ HalfClock \in Nat /\ WatchdogMs \in Nat \ {0} /\ MaxGap \in Nat \ {0}
  /\ MaxCmdAge \in Nat
  /\ WatchdogMs <= HalfClock               \* a deadline is within half a turn
  /\ WatchdogMs + MaxGap <= ClockMod       \* a cycle is never missed for a whole turn
  /\ MaxCmdAge < HalfClock

ASSUME DataAssumption ==
  /\ DutyMax \in Nat /\ VelMax \in Nat /\ IMax \in Nat
  /\ Raw \subseteq Int /\ 0 \in Raw
  /\ MaxMerge \in Nat /\ SeqMod \in Nat \ {0, 1} /\ MaxMerge < SeqMod

VARIABLES
  \* motor_safety_t
  lastCmd, faults, timedOut,
  \* control_core_t: demand
  cmd, target, integ, closedLoop,
  \* control_core_t: what observers see
  outputAllowed, wdSeq, appliedSeq, result,
  \* control_core_t: tick accounting, and the counter the timer ISR advances
  tickSeq, tickSeen, loopCount, loopOverruns,
  \* TIM1
  ccr, moe,
  \* the clock, and two measures of true time no wrap-around can disturb
  now, age, sinceCommit

safetyVars == <<lastCmd, faults, timedOut>>
demandVars == <<cmd, target, integ, closedLoop>>
tickVars   == <<tickSeq, tickSeen, loopCount, loopOverruns>>
timeVars   == <<now, age, sinceCommit>>
vars == <<safetyVars, demandVars, outputAllowed, wdSeq, appliedSeq, result,
          tickVars, ccr, moe, timeVars>>

-----------------------------------------------------------------------------
(* Data and modular arithmetic.                                            *)

Clock == 0 .. ClockMod - 1
Duty  == -DutyMax .. DutyMax
Tps   == -VelMax .. VelMax
Integ == -IMax .. IMax
Kinds == {"STOP", "DUTY", "VEL"}
Zero  == [w \in Wheel |-> 0]

\* age saturates here; beyond it every bound below is already broken.
AgeCap == WatchdogMs + MaxGap

\* uint32_t subtraction and addition of two values of the clock.
ModSub(a, b) == IF a >= b THEN a - b ELSE a - b + ClockMod
ModAdd(a, b) == IF a + b < ClockMod THEN a + b ELSE a + b - ClockMod
SeqAdd(a, b) == IF a + b < SeqMod THEN a + b ELSE a + b - SeqMod
SaturatingSub(a, b) == IF a >= b THEN a - b ELSE 0
SeqSub(a, b) == IF a >= b THEN a - b ELSE a - b + SeqMod

\* motor_clamp_pm() and clamp_i32()
Clamp(v, limit) == IF v > limit THEN limit ELSE IF v < -limit THEN -limit ELSE v
NoClamp(f, limit) == f
ClampAll(f, limit) == [w \in Wheel |-> Clamp(f[w], limit)]

\* control_command_t; deadline_ms is accepted_ms + CMD_WATCHDOG_MS
Commands == [seq : Seqs, kind : Kinds, val : [Wheel -> Raw], accepted : Clock]
Deadline(c) == ModAdd(c.accepted, WatchdogMs)

\* control_apply_result_t
NoResult == [seq |-> 0, kind |-> "NONE", val |-> Zero]

-----------------------------------------------------------------------------
(* motor_safety.c                                                          *)

\* The watchdog comparison of motor_safety_output_allowed().
ExpiredOffByOne(last) == ModSub(now, last) > WatchdogMs
ExpiredEarly(last) == ModSub(now, last) >= WatchdogMs - 1
Expired(last) == ModSub(now, last) >= WatchdogMs

\* motor_safety_latch_fault(): the flag word is only ever OR-ed into.
LatchReplacing(latched, flags) == flags
LatchFault(latched, flags) == latched \cup flags

\* motor_safety_output_allowed()
Allowed(last, flags) == flags = {} /\ ~Expired(last)

-----------------------------------------------------------------------------
(* control_core.c                                                          *)

\* speed_control_set_target(): a sign flip resets the integrator.
KeepIntegrator(old, new, i) == i
SetTarget(old, new, i) ==
  IF (old > 0 /\ new < 0) \/ (old < 0 /\ new > 0) THEN 0 ELSE i

\* speed_control_update() of one wheel: target 0 coasts; otherwise the
\* regulator may ask for any duty, and moves its integrator only on a cycle of
\* exactly one period.
SpeedUpdate(t, i, advance, d, i2) ==
  /\ t = 0 => d = 0 /\ i2 = 0
  /\ t # 0 /\ ~advance => i2 = i

\* What control_commit() leaves of a demand: all of it while output is
\* allowed, nothing (control_coast) otherwise.
LeaveDemand(ok, f) == f
Surviving(ok, f) == IF ok THEN f ELSE Zero

\* The expiry edge of motor_safety_output_allowed(), taken at once by
\* motor_safety_take_notify().
LevelTriggered(ok, flags) == flags = {} /\ ~ok
ExpiryEdge(ok, flags) == flags = {} /\ ~ok /\ ~timedOut

\* platform_motor_kill() through CONTROL_OUT_KILL.
KeepMoe(flags) == moe
CommitMoe(flags) == moe /\ flags = {}

(* control_commit() after a handler that left the watchdog fed at `last',  *)
(* the fault word `flags' and the demand d, t, i.                          *)
Commit(last, flags, d, t, i) ==
  LET ok == Allowed(last, flags)
  IN  /\ lastCmd' = last
      /\ faults' = flags
      /\ timedOut' = ~ok
      /\ outputAllowed' = ok
      /\ wdSeq' = IF ExpiryEdge(ok, flags) THEN SeqAdd(wdSeq, 1) ELSE wdSeq
      /\ cmd' = Surviving(ok, d)
      /\ target' = Surviving(ok, t)
      /\ integ' = Surviving(ok, i)
      /\ ccr' = IF ok THEN d ELSE Zero
      /\ moe' = CommitMoe(flags)
      /\ sinceCommit' = 0

\* control_core_on_tick(): the tick bit was seen; tick_seq may have advanced
\* by any number of merged interrupts, or not at all.
OnTick ==
  LET delta == SeqSub(tickSeq, tickSeen)
  IN  /\ tickSeen' = tickSeq
      /\ loopCount' = IF delta # 0 THEN SeqAdd(loopCount, 1) ELSE loopCount
      /\ loopOverruns' = IF delta > 1 THEN SeqAdd(loopOverruns, delta - 1)
                                      ELSE loopOverruns
      /\ \/ /\ closedLoop /\ delta # 0
            /\ \E d \in [Wheel -> Duty], i \in [Wheel -> Integ] :
                 /\ \A w \in Wheel :
                      SpeedUpdate(target[w], integ[w], delta = 1, d[w], i[w])
                 /\ Commit(lastCmd, faults, d, target, i)
         \/ /\ ~(closedLoop /\ delta # 0)
            /\ Commit(lastCmd, faults, cmd, target, integ)
      /\ UNCHANGED <<closedLoop, appliedSeq, result, tickSeq, now, age>>

\* (int32_t)(now_ms - deadline_ms) >= 0
Stale(c) == ModSub(now, Deadline(c)) < HalfClock

\* The early returns of control_core_on_command(): a latched fault or a
\* deadline that has passed.  The demand is left as it was and committed.
RejectCommand(c) ==
  /\ faults # {} \/ Stale(c)
  /\ Commit(lastCmd, faults, cmd, target, integ)
  /\ result' = [seq |-> c.seq, kind |-> "REJECTED", val |-> Zero]
  /\ UNCHANGED <<closedLoop, appliedSeq, age>>

\* control_apply_result_t, filled in after control_commit(): what was applied,
\* after the clamps, in the unit of the command.
ResultKind == IF outputAllowed' THEN "OK" ELSE "REJECTED"
RawVal(c) == c.val
ResultVal(c) == IF c.kind = "VEL" THEN target' ELSE cmd'

\* motor_safety_feed(accepted_ms), applied_seq, control_commit() and the
\* result, common to the three kinds of command.
Apply(c, d, t, i) ==
  /\ Commit(c.accepted, faults, d, t, i)
  /\ age' = ModSub(now, c.accepted)
  /\ appliedSeq' = c.seq
  /\ result' = [seq |-> c.seq, kind |-> ResultKind, val |-> ResultVal(c)]

DutyWithoutCoast(c) ==
  /\ c.kind = "DUTY"
  /\ closedLoop' = FALSE
  /\ Apply(c, ClampAll(c.val, DutyMax), target, integ)
ApplyDuty(c) ==
  /\ c.kind = "DUTY"
  /\ closedLoop' = FALSE
  /\ Apply(c, ClampAll(c.val, DutyMax), Zero, Zero)

\* Entering closed loop clears what open loop left; a refresh in closed loop
\* keeps the integrator of every wheel whose target keeps its sign.
ApplyVel(c) ==
  LET t0 == IF closedLoop THEN target ELSE Zero
      i0 == IF closedLoop THEN integ ELSE Zero
      t  == ClampAll(c.val, VelMax)
  IN  /\ c.kind = "VEL"
      /\ closedLoop' = TRUE
      /\ \E d \in [Wheel -> Duty], i \in [Wheel -> Integ] :
           /\ \A w \in Wheel :
                SpeedUpdate(t[w], SetTarget(t0[w], t[w], i0[w]), FALSE, d[w], i[w])
           /\ Apply(c, d, t, i)

ApplyStop(c) ==
  /\ c.kind = "STOP"
  /\ UNCHANGED closedLoop
  /\ Apply(c, Zero, Zero, Zero)

\* control_core_on_command()
OnCommand(c) ==
  /\ \/ RejectCommand(c)
     \/ /\ faults = {} /\ ~Stale(c)
        /\ ApplyDuty(c) \/ ApplyVel(c) \/ ApplyStop(c)
  /\ UNCHANGED <<tickVars, now>>

\* control_core_on_stop()
OnStop(flags) ==
  /\ Commit(lastCmd, LatchFault(faults, flags), Zero, Zero, Zero)
  /\ UNCHANGED <<closedLoop, appliedSeq, result, tickVars, now, age>>

-----------------------------------------------------------------------------
(* The environment of the core.                                            *)

\* platform_motor_kill() called directly by another task: MOE off, CCR 0.
MotorKill ==
  /\ moe' = FALSE
  /\ ccr' = Zero
  /\ UNCHANGED <<safetyVars, demandVars, outputAllowed, wdSeq, appliedSeq,
                 result, tickVars, timeVars>>

\* rtos_app_on_control_tick_isr()
TickIsr ==
  /\ SeqSub(tickSeq, tickSeen) < MaxMerge
  /\ tickSeq' = SeqAdd(tickSeq, 1)
  /\ UNCHANGED <<safetyVars, demandVars, outputAllowed, wdSeq, appliedSeq,
                 result, tickSeen, loopCount, loopOverruns, ccr, moe, timeVars>>

\* One millisecond.  ControlTask is the highest-priority task and TIM6 wakes
\* it, so the core commits at least every MaxGap.
Millisecond ==
  /\ sinceCommit < MaxGap
  /\ now' = ModAdd(now, 1)
  /\ sinceCommit' = sinceCommit + 1
  /\ age' = IF age < AgeCap THEN age + 1 ELSE age
  /\ UNCHANGED <<safetyVars, demandVars, outputAllowed, wdSeq, appliedSeq,
                 result, tickVars, ccr, moe>>

\* The commands the posting tasks can build now: stamped at most MaxCmdAge
\* ago, a stop carrying no values.
Recent == {ModSub(now, a) : a \in 0 .. MaxCmdAge}
Postable ==
  [seq : Seqs, kind : {"DUTY", "VEL"}, val : [Wheel -> Raw], accepted : Recent]
    \cup [seq : Seqs, kind : {"STOP"}, val : {Zero}, accepted : Recent]

\* motor_safety_init() and control_core_init(); platform_init() has enabled
\* MOE with every CCR at 0.
Init ==
  /\ now \in Clock
  /\ lastCmd = ModSub(now, WatchdogMs) /\ faults = {} /\ timedOut = TRUE
  /\ cmd = Zero /\ target = Zero /\ integ = Zero /\ closedLoop = FALSE
  /\ outputAllowed = FALSE /\ wdSeq = 0 /\ appliedSeq = 0 /\ result = NoResult
  /\ tickSeq = 0 /\ tickSeen = 0 /\ loopCount = 0 /\ loopOverruns = 0
  /\ ccr = Zero /\ moe = TRUE
  /\ age = AgeCap /\ sinceCommit = 0

Next ==
  \/ OnTick
  \/ \E c \in Postable : OnCommand(c)
  \/ \E flags \in SUBSET Faults : OnStop(flags)
  \/ MotorKill
  \/ TickIsr
  \/ Millisecond

Spec == Init /\ [][Next]_vars

-----------------------------------------------------------------------------
(* Properties.                                                             *)

\* Every variable has its type.
TypeOK ==
  /\ lastCmd \in Clock /\ faults \subseteq Faults /\ timedOut \in BOOLEAN
  /\ cmd \in [Wheel -> Duty] /\ target \in [Wheel -> Tps]
  /\ integ \in [Wheel -> Integ] /\ closedLoop \in BOOLEAN
  /\ outputAllowed \in BOOLEAN /\ wdSeq \in 0 .. SeqMod - 1
  /\ appliedSeq \in Seqs \cup {0}
  /\ result \in [seq : Seqs \cup {0}, kind : {"NONE", "OK", "REJECTED"},
                 val : [Wheel -> Duty \cup Tps]]
  /\ tickSeq \in 0 .. SeqMod - 1 /\ tickSeen \in 0 .. SeqMod - 1
  /\ loopCount \in 0 .. SeqMod - 1 /\ loopOverruns \in 0 .. SeqMod - 1
  /\ ccr \in [Wheel -> Duty] /\ moe \in BOOLEAN
  /\ now \in Clock /\ age \in 0 .. AgeCap /\ sinceCommit \in 0 .. MaxGap

\* The runaway bound, across wrap-around of the millisecond clock: duty is in
\* CCR, or a target or an integrator is remembered, only while the command that
\* asked for it was accepted less than CMD_WATCHDOG_MS of true time before the
\* last commit.
RunawayBound ==
  (ccr # Zero \/ cmd # Zero \/ target # Zero \/ integ # Zero)
    => age < WatchdogMs + sinceCommit

\* Once the watchdog or a fault has closed the output, command, targets, integrators and CCR are 0,
\* so no later permission can bring an old duty back.
NothingSurvivesExpiry ==
  ~outputAllowed => cmd = Zero /\ target = Zero /\ integ = Zero /\ ccr = Zero

\* Open loop keeps no closed-loop state, so changing mode starts from a clean
\* integrator (the status field target_tps is 0 in open loop).
OpenLoopIsClean == ~closedLoop => target = Zero /\ integ = Zero

\* Nothing is left over of a demand: neither after an expiry or a fault, where
\* the next permission would bring it back, nor after a change of mode, where
\* the next target would start from an old integrator (control_commit(),
\* control_core_on_command()).
NothingLeftOver == NothingSurvivesExpiry /\ OpenLoopIsClean

\* A latched fault has cut MOE and CCR, whichever handler committed it.
FaultCutsOutput == faults # {} => ~moe /\ ccr = Zero /\ ~outputAllowed

\* Only an MCU reset undoes the latch and the cut: no sequence of commands,
\* stops and ticks clears a fault bit or raises MOE.
FaultIsFinal == [][faults \subseteq faults' /\ (~moe => ~moe')]_vars

Reverses(w) ==
  \/ target[w] > 0 /\ target'[w] < 0
  \/ target[w] < 0 /\ target'[w] > 0

\* A wheel that reverses starts with an empty integrator.
ReversalResets ==
  [][\A w \in Wheel : Reverses(w) => integ'[w] = 0]_vars

\* Motion starts only at a command: while nothing is demanded, no tick, stop or
\* rejected command, at any reading of the wrapping clock, makes a demand.
Demand == cmd # Zero \/ target # Zero
MotionNeedsCommand ==
  [][~Demand /\ Demand' => age' < WatchdogMs /\ result'.kind = "OK"
                            /\ appliedSeq' = result'.seq]_vars

\* wd_seq moves exactly when permission is lost without a fault: one `wd' line
\* per expiry, none while the expiry lasts, none for a latched fault.
OneEdgePerExpiry ==
  [][(outputAllowed /\ ~outputAllowed' /\ faults' = {}) <=> wdSeq' # wdSeq]_vars

\* Whatever ticks were merged or lost, the cycles run and the cycles counted as
\* overrun add up to the ticks that were seen.
TicksAccounted == SeqAdd(loopCount, loopOverruns) = tickSeen

\* An OK is the truth about the registers at that moment: CCR holds the duty
\* the result names (open loop), a stop left CCR at 0, and the command is the
\* one the watchdog was fed with.
OkIsApplied ==
  [][result' # result /\ result'.kind = "OK" =>
       /\ outputAllowed' /\ faults' = {} /\ appliedSeq' = result'.seq
       /\ (~closedLoop' => ccr' = result'.val)
       /\ (closedLoop' => target' = result'.val)]_vars

\* The core does what Drive promises, whatever the clock reads and whichever mode
\* it is in: a demand and its permission end with the command's watchdog time and not
\* before, at a stop or at a fault; ticks and rejected commands only keep what is there
\* (control_commit(), control_core_on_tick()).
D == INSTANCE Drive WITH Watchdog <- WatchdogMs, demanded <- Demand,
                         allowed <- outputAllowed, powered <- moe, faulted <- faults # {}
Passive == OnTick \/ (result' # result /\ result'.kind = "REJECTED")
ImplementsDrive == D!Spec /\ [][Passive => D!Keep]_vars
=============================================================================

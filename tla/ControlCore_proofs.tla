-------------------------- MODULE ControlCore_proofs --------------------------
(***************************************************************************)
(* What ControlCore guarantees for every clock width, watchdog time, set   *)
(* of wheels and range of values.                                          *)
(***************************************************************************)
EXTENDS ControlCore, ControlChain, TLAPS

USE DEF Clock, Duty, Tps, Integ, Kinds, ClockMod, AgeCap

-----------------------------------------------------------------------------
(* The operators the handlers are built from.                              *)

LEMMA ModSubType ==
  ASSUME NEW a \in Clock, NEW b \in Clock
  PROVE  ModSub(a, b) \in Clock
  BY ClockAssumption DEF ModSub

LEMMA ModAddType ==
  ASSUME NEW a \in Clock, NEW b \in 0 .. ClockMod
  PROVE  ModAdd(a, b) \in Clock
  BY ClockAssumption DEF ModAdd

LEMMA SeqArithmetic ==
  ASSUME NEW a \in 0 .. SeqMod - 1, NEW b \in 0 .. SeqMod - 1
  PROVE  /\ SeqAdd(a, b) \in 0 .. SeqMod - 1
         /\ SeqSub(a, b) \in 0 .. SeqMod - 1
         /\ SeqAdd(a, 1) \in 0 .. SeqMod - 1
  BY DataAssumption DEF SeqAdd, SeqSub

LEMMA ZeroType ==
  Zero \in [Wheel -> Duty] /\ Zero \in [Wheel -> Tps] /\ Zero \in [Wheel -> Integ]
  BY DataAssumption DEF Zero

LEMMA ClampType ==
  ASSUME NEW f \in [Wheel -> Raw], NEW limit \in Nat
  PROVE  ClampAll(f, limit) \in [Wheel -> -limit .. limit]
<1>1. ASSUME NEW v \in Raw
      PROVE  Clamp(v, limit) \in -limit .. limit
  <2>1. v \in Int
    BY DataAssumption
  <2> QED
    BY <2>1 DEF Clamp
<1> QED
  BY <1>1 DEF ClampAll

\* A command as it can be posted is a command, stamped on the clock.
LEMMA PostableType ==
  ASSUME now \in Clock, NEW c \in Postable
  PROVE  /\ c \in Commands
         /\ ModSub(now, c.accepted) \in 0 .. MaxCmdAge
<1>1. ASSUME NEW a \in 0 .. MaxCmdAge
      PROVE  ModSub(now, a) \in Clock /\ ModSub(now, ModSub(now, a)) = a
  BY ClockAssumption DEF ModSub
<1>2. Zero \in [Wheel -> Raw]
  BY DataAssumption DEF Zero
<1>3. c.accepted \in Recent /\ c \in Commands
  BY <1>1, <1>2 DEF Postable, Commands, Recent
<1>4. PICK a \in 0 .. MaxCmdAge : c.accepted = ModSub(now, a)
  BY <1>3 DEF Recent
<1> QED
  BY <1>1, <1>3, <1>4

-----------------------------------------------------------------------------
(* Type correctness.                                                       *)

\* control_commit() keeps the types, whatever typed demand it is handed.
LEMMA CommitType ==
  ASSUME TypeOK,
         NEW last \in Clock, NEW flags \in SUBSET Faults,
         NEW d \in [Wheel -> Duty], NEW t \in [Wheel -> Tps],
         NEW i \in [Wheel -> Integ],
         Commit(last, flags, d, t, i)
  PROVE  /\ lastCmd' \in Clock /\ faults' \subseteq Faults
         /\ timedOut' \in BOOLEAN /\ outputAllowed' \in BOOLEAN
         /\ wdSeq' \in 0 .. SeqMod - 1
         /\ cmd' \in [Wheel -> Duty] /\ target' \in [Wheel -> Tps]
         /\ integ' \in [Wheel -> Integ] /\ ccr' \in [Wheel -> Duty]
         /\ moe' \in BOOLEAN /\ sinceCommit' \in 0 .. MaxGap
<1>1. wdSeq' \in 0 .. SeqMod - 1
  BY SeqArithmetic DEF TypeOK, Commit
<1>2. cmd' \in [Wheel -> Duty] /\ target' \in [Wheel -> Tps]
      /\ integ' \in [Wheel -> Integ] /\ ccr' \in [Wheel -> Duty]
  BY ZeroType DEF Commit, Surviving
<1>3. timedOut' \in BOOLEAN /\ outputAllowed' \in BOOLEAN /\ moe' \in BOOLEAN
  BY DEF Commit, Allowed, CommitMoe, TypeOK
<1>4. sinceCommit' \in 0 .. MaxGap
  BY ClockAssumption DEF Commit
<1> QED
  BY <1>1, <1>2, <1>3, <1>4 DEF Commit

\* An applied command keeps the types.
LEMMA ApplyType ==
  ASSUME TypeOK, NEW c \in Commands, ModSub(now, c.accepted) < WatchdogMs,
         NEW d \in [Wheel -> Duty], NEW t \in [Wheel -> Tps],
         NEW i \in [Wheel -> Integ],
         closedLoop' \in BOOLEAN,
         Apply(c, d, t, i), UNCHANGED <<tickVars, now>>
  PROVE  TypeOK'
<1>1. c.accepted \in Clock /\ c.seq \in Seqs
  BY DEF Commands
<1>2. Commit(c.accepted, faults, d, t, i) /\ faults \in SUBSET Faults
  BY DEF Apply, TypeOK
<1>3. age' \in 0 .. AgeCap
  BY <1>1, ModSubType, ClockAssumption DEF Apply, TypeOK
<1>4. /\ cmd' \in [Wheel -> Duty] /\ target' \in [Wheel -> Tps]
      /\ outputAllowed' \in BOOLEAN
  BY <1>1, <1>2, CommitType
<1>5. result' \in [seq : Seqs \cup {0}, kind : {"NONE", "OK", "REJECTED"},
                  val : [Wheel -> Duty \cup Tps]]
  <2>1. cmd' \in [Wheel -> Duty \cup Tps] /\ target' \in [Wheel -> Duty \cup Tps]
    BY <1>4
  <2> QED
    BY <1>1, <2>1 DEF Apply, ResultKind, ResultVal
<1>6. appliedSeq' \in Seqs \cup {0}
  BY <1>1 DEF Apply
<1>7. /\ lastCmd' \in Clock /\ faults' \subseteq Faults
      /\ timedOut' \in BOOLEAN
      /\ wdSeq' \in 0 .. SeqMod - 1
      /\ integ' \in [Wheel -> Integ] /\ ccr' \in [Wheel -> Duty]
      /\ moe' \in BOOLEAN /\ sinceCommit' \in 0 .. MaxGap
  BY <1>1, <1>2, CommitType
<1> QED
  BY <1>3, <1>4, <1>5, <1>6, <1>7 DEF TypeOK, tickVars

\* A command that is not stale was accepted less than CMD_WATCHDOG_MS ago: the
\* signed comparison with the deadline is exact on the wrapping clock.
LEMMA NotStaleIsFresh ==
  ASSUME now \in Clock, NEW c \in Postable, ~Stale(c)
  PROVE  ModSub(now, c.accepted) < WatchdogMs
<1>1. c.accepted \in Clock /\ ModSub(now, c.accepted) \in 0 .. MaxCmdAge
  BY PostableType DEF Commands
<1> QED
  BY <1>1, ClockAssumption DEF Stale, Deadline, ModSub, ModAdd

LEMMA TypeStep == TypeOK /\ [Next]_vars => TypeOK'
<1> SUFFICES ASSUME TypeOK, [Next]_vars PROVE TypeOK'
  OBVIOUS
<1>a. lastCmd \in Clock /\ faults \in SUBSET Faults /\ now \in Clock
      /\ cmd \in [Wheel -> Duty] /\ target \in [Wheel -> Tps]
      /\ integ \in [Wheel -> Integ]
  BY DEF TypeOK
<1>1. CASE OnTick
  <2>1. tickSeen' \in 0 .. SeqMod - 1 /\ loopCount' \in 0 .. SeqMod - 1
    BY <1>1, SeqArithmetic DEF OnTick, TypeOK
  <2>2. loopOverruns' \in 0 .. SeqMod - 1
    <3> DEFINE delta == SeqSub(tickSeq, tickSeen)
    <3>1. delta \in 0 .. SeqMod - 1
      BY SeqArithmetic DEF TypeOK
    <3>2. delta > 1 => delta - 1 \in 0 .. SeqMod - 1
      BY <3>1, DataAssumption
    <3>3. delta > 1 => SeqAdd(loopOverruns, delta - 1) \in 0 .. SeqMod - 1
      BY <3>2, SeqArithmetic DEF TypeOK
    <3> QED
      BY <1>1, <3>3 DEF OnTick, TypeOK
  <2>3. PICK d \in [Wheel -> Duty], i \in [Wheel -> Integ] :
          Commit(lastCmd, faults, d, target, i)
    BY <1>1, <1>a DEF OnTick
  <2> HIDE DEF Clock, Duty, Tps, Integ, ClockMod, AgeCap
  <2> QED
    BY <1>1, <1>a, <2>1, <2>2, <2>3, CommitType DEF OnTick, TypeOK
<1>2. ASSUME NEW c \in Postable, OnCommand(c) PROVE TypeOK'
  <2>1. c \in Commands /\ c.seq \in Seqs /\ c.val \in [Wheel -> Raw]
    BY <1>a, PostableType DEF Commands
  <2>2. CASE RejectCommand(c)
    <3>1. result' \in [seq : Seqs \cup {0}, kind : {"NONE", "OK", "REJECTED"},
                      val : [Wheel -> Duty \cup Tps]]
      BY <2>1, <2>2, ZeroType DEF RejectCommand
    <3>2. Commit(lastCmd, faults, cmd, target, integ)
      BY <2>2 DEF RejectCommand
    <3> HIDE DEF Clock, Duty, Tps, Integ, ClockMod, AgeCap
    <3> QED
      BY <1>2, <1>a, <2>2, <3>1, <3>2, CommitType
         DEF OnCommand, RejectCommand, TypeOK, tickVars
  <2>3. CASE faults = {} /\ ~Stale(c) /\ (ApplyDuty(c) \/ ApplyVel(c) \/ ApplyStop(c))
    <3>1. ModSub(now, c.accepted) < WatchdogMs
      BY <1>a, <2>3, NotStaleIsFresh
    <3>2. ASSUME ApplyDuty(c) PROVE TypeOK'
      <4>1. ClampAll(c.val, DutyMax) \in [Wheel -> Duty]
        BY <2>1, ClampType, DataAssumption
      <4>2. Apply(c, ClampAll(c.val, DutyMax), Zero, Zero) /\ closedLoop' \in BOOLEAN
        BY <3>2 DEF ApplyDuty
      <4> QED
        BY <1>2, <2>1, <3>1, <4>1, <4>2, ZeroType, ApplyType DEF OnCommand
    <3>3. ASSUME ApplyVel(c) PROVE TypeOK'
      <4>1. ClampAll(c.val, VelMax) \in [Wheel -> Tps]
        BY <2>1, ClampType, DataAssumption
      <4>2. closedLoop' \in BOOLEAN
        BY <3>3 DEF ApplyVel
      <4>3. PICK d \in [Wheel -> Duty], i \in [Wheel -> Integ] :
              Apply(c, d, ClampAll(c.val, VelMax), i)
        BY <3>3 DEF ApplyVel
      <4> QED
        BY <1>2, <2>1, <3>1, <4>1, <4>2, <4>3, ApplyType DEF OnCommand
    <3>4. ASSUME ApplyStop(c) PROVE TypeOK'
      BY <1>2, <2>1, <3>1, <3>4, ZeroType, ApplyType DEF OnCommand, ApplyStop, TypeOK
    <3> QED
      BY <2>3, <3>2, <3>3, <3>4
  <2> QED
    BY <1>2, <2>2, <2>3 DEF OnCommand
<1>3. ASSUME NEW flags \in SUBSET Faults, OnStop(flags) PROVE TypeOK'
  <2>1. LatchFault(faults, flags) \in SUBSET Faults
    BY <1>a DEF LatchFault
  <2>2. Commit(lastCmd, LatchFault(faults, flags), Zero, Zero, Zero)
    BY <1>3 DEF OnStop
  <2> HIDE DEF Clock, Duty, Tps, Integ, ClockMod, AgeCap
  <2> QED
    BY <1>3, <1>a, <2>1, <2>2, ZeroType, CommitType DEF OnStop, TypeOK, tickVars
<1>4. CASE MotorKill
  BY <1>4, ZeroType DEF MotorKill, TypeOK, safetyVars, demandVars, tickVars, timeVars
<1>5. CASE TickIsr
  BY <1>5, SeqArithmetic DEF TickIsr, TypeOK, safetyVars, demandVars, timeVars
<1>6. CASE Millisecond
  <2>1. now' \in Clock
    BY <1>6, <1>a, ClockAssumption, ModAddType DEF Millisecond
  <2>2. age' \in 0 .. AgeCap /\ sinceCommit' \in 0 .. MaxGap
    BY <1>6, ClockAssumption DEF Millisecond, TypeOK
  <2> QED
    BY <1>6, <2>1, <2>2 DEF Millisecond, TypeOK, safetyVars, demandVars, tickVars
<1>7. CASE UNCHANGED vars
  BY <1>7 DEF vars, TypeOK, safetyVars, demandVars, tickVars, timeVars
<1> QED
  BY <1>1, <1>2, <1>3, <1>4, <1>5, <1>6, <1>7 DEF Next

\* Every reachable state of the control core is well typed: clocks and counters
\* stay within their width, duties, targets and integrators within their clamps.
THEOREM TypeCorrect == Spec => []TypeOK
<1>1. Init => TypeOK
  <2> SUFFICES ASSUME Init PROVE TypeOK
    OBVIOUS
  <2>1. lastCmd \in Clock /\ age \in 0 .. AgeCap /\ sinceCommit \in 0 .. MaxGap
    BY ClockAssumption, ModSubType DEF Init
  <2>2. result \in [seq : Seqs \cup {0}, kind : {"NONE", "OK", "REJECTED"},
                   val : [Wheel -> Duty \cup Tps]]
    BY ZeroType DEF Init, NoResult
  <2>3. 0 \in 0 .. SeqMod - 1
    BY DataAssumption
  <2> HIDE DEF Clock, Duty, Tps, Integ, ClockMod, AgeCap
  <2> QED
    BY <2>1, <2>2, <2>3, ZeroType DEF Init, TypeOK
<1> QED
  BY <1>1, TypeStep, PTL DEF Spec

-----------------------------------------------------------------------------
(* The safety invariant.                                                   *)

(* RunawayBound speaks of true time, the code of a clock that wraps.  They *)
(* agree while the true age is below AgeCap, which is why the clock may    *)
(* wrap only because a demand is cleared at the first commit after expiry: *)
(* the two halves need each other, and the conjunction is inductive.       *)
ClockAgrees == age < AgeCap => ModSub(now, lastCmd) = age

SafetyInv ==
  /\ ClockAgrees
  /\ RunawayBound
  /\ NothingSurvivesExpiry
  /\ FaultCutsOutput
  /\ OpenLoopIsClean
  /\ TicksAccounted
  /\ timedOut = ~outputAllowed

\* control_commit() re-establishes the safety invariant from a demand that is
\* all zero, or was fed with a stamp of true age a < AgeCap.
LEMMA CommitSafe ==
  ASSUME TypeOK,
         NEW last \in Clock, NEW flags \in SUBSET Faults,
         NEW d \in [Wheel -> Duty], NEW t \in [Wheel -> Tps],
         NEW i \in [Wheel -> Integ],
         Commit(last, flags, d, t, i), now' = now,
         age' \in 0 .. AgeCap,
         age' < AgeCap => ModSub(now, last) = age',
         (d = Zero /\ t = Zero /\ i = Zero) \/ age' < AgeCap
  PROVE  /\ ClockAgrees' /\ RunawayBound'
         /\ NothingSurvivesExpiry' /\ FaultCutsOutput'
         /\ timedOut' = ~outputAllowed'
<1>1. ClockAgrees'
  BY DEF Commit, ClockAgrees, ModSub
<1>2. NothingSurvivesExpiry'
  BY DEF Commit, NothingSurvivesExpiry, Surviving
<1>3. FaultCutsOutput'
  BY DEF Commit, FaultCutsOutput, CommitMoe, Allowed
<1>4. RunawayBound'
  <2> SUFFICES ASSUME ~(ccr' = Zero /\ cmd' = Zero /\ target' = Zero /\ integ' = Zero)
               PROVE  age' < WatchdogMs + sinceCommit'
    BY DEF RunawayBound
  <2>1. Allowed(last, flags)
    BY DEF Commit, Surviving
  <2>2. age' < AgeCap
    BY DEF Commit, Surviving
  <2>3. age' < WatchdogMs /\ sinceCommit' = 0
    BY <2>1, <2>2, ClockAssumption DEF Commit, Allowed, Expired
  <2> QED
    BY <2>3, ClockAssumption
<1>5. timedOut' = ~outputAllowed'
  BY DEF Commit
<1> QED
  BY <1>1, <1>2, <1>3, <1>4, <1>5

\* A demand that is remembered is younger than AgeCap, so the clock tells its
\* age exactly.
LEMMA LiveIsYoung ==
  ASSUME TypeOK, SafetyInv
  PROVE  (ccr # Zero \/ cmd # Zero \/ target # Zero \/ integ # Zero) => age < AgeCap
  BY ClockAssumption DEF TypeOK, SafetyInv, RunawayBound

LEMMA SafetyStep == TypeOK /\ TypeOK' /\ SafetyInv /\ [Next]_vars => SafetyInv'
<1> SUFFICES ASSUME TypeOK, TypeOK', SafetyInv, [Next]_vars PROVE SafetyInv'
  OBVIOUS
<1> HIDE DEF Duty, Tps, Integ, ClockMod, AgeCap
<1>a. /\ lastCmd \in Clock /\ faults \in SUBSET Faults /\ now \in Clock
      /\ cmd \in [Wheel -> Duty] /\ target \in [Wheel -> Tps]
      /\ integ \in [Wheel -> Integ] /\ age \in 0 .. AgeCap /\ age' \in 0 .. AgeCap
  BY DEF TypeOK
<1>b. age < AgeCap => ModSub(now, lastCmd) = age
  BY DEF SafetyInv, ClockAgrees
<1>c. (cmd = Zero /\ target = Zero /\ integ = Zero) \/ age < AgeCap
  BY LiveIsYoung
<1>1. CASE OnTick
  <2>1. PICK d \in [Wheel -> Duty], i \in [Wheel -> Integ] :
          /\ Commit(lastCmd, faults, d, target, i)
          /\ \/ /\ closedLoop
                /\ \A w \in Wheel : target[w] = 0 => d[w] = 0 /\ i[w] = 0
             \/ d = cmd /\ i = integ
    BY <1>1, <1>a DEF OnTick, SpeedUpdate
  <2>2. now' = now /\ age' = age /\ closedLoop' = closedLoop
    BY <1>1 DEF OnTick
  <2>3. target = Zero => \A w \in Wheel : target[w] = 0
    BY DEF Zero
  <2>4. (d = Zero /\ target = Zero /\ i = Zero) \/ age < AgeCap
    BY <1>a, <1>c, <2>1, <2>3 DEF Zero
  <2>5. ClockAgrees' /\ RunawayBound' /\ NothingSurvivesExpiry' /\ FaultCutsOutput'
        /\ timedOut' = ~outputAllowed'
    BY <1>a, <1>b, <2>1, <2>2, <2>4, CommitSafe
  <2>6. OpenLoopIsClean'
    BY <2>1, <2>2 DEF SafetyInv, OpenLoopIsClean, Commit, Surviving
  <2>7. TicksAccounted'
    <3> USE DEF SeqAdd, SeqSub
    <3> QED
      BY <1>1, DataAssumption DEF OnTick, TypeOK, SafetyInv, TicksAccounted
  <2> QED
    BY <2>5, <2>6, <2>7 DEF SafetyInv
<1>2. ASSUME NEW c \in Postable, OnCommand(c) PROVE SafetyInv'
  <2>1. now' = now /\ TicksAccounted'
    BY <1>2 DEF OnCommand, SafetyInv, TicksAccounted, tickVars
  <2>2. CASE RejectCommand(c)
    <3>1. Commit(lastCmd, faults, cmd, target, integ) /\ age' = age
          /\ closedLoop' = closedLoop
      BY <2>2 DEF RejectCommand
    <3>2. ClockAgrees' /\ RunawayBound' /\ NothingSurvivesExpiry' /\ FaultCutsOutput'
          /\ timedOut' = ~outputAllowed'
      BY <1>a, <1>b, <1>c, <2>1, <3>1, CommitSafe
    <3>3. OpenLoopIsClean'
      BY <3>1 DEF SafetyInv, OpenLoopIsClean, Commit, Surviving
    <3> QED
      BY <2>1, <3>2, <3>3 DEF SafetyInv
  <2>3. CASE ~Stale(c) /\ (ApplyDuty(c) \/ ApplyVel(c) \/ ApplyStop(c))
    <3>1. c.accepted \in Clock /\ c.val \in [Wheel -> Raw]
      BY <1>a, PostableType DEF Commands
    <3>2. PICK d \in [Wheel -> Duty], t \in [Wheel -> Tps], i \in [Wheel -> Integ] :
            /\ Apply(c, d, t, i)
            /\ ~closedLoop' => t = Zero /\ i = Zero
      <4>1. ClampAll(c.val, DutyMax) \in [Wheel -> Duty]
            /\ ClampAll(c.val, VelMax) \in [Wheel -> Tps]
        BY <3>1, ClampType, DataAssumption DEF Duty, Tps
      <4> QED
        BY <2>3, <4>1, ZeroType DEF ApplyDuty, ApplyVel, ApplyStop
    <3>3. age' = ModSub(now, c.accepted) /\ age' < AgeCap
      BY <1>a, <2>3, <3>2, NotStaleIsFresh, <3>1, ModSubType, ClockAssumption
         DEF Apply, AgeCap, ClockMod
    <3>4. Commit(c.accepted, faults, d, t, i)
      BY <3>2 DEF Apply
    <3>5. ClockAgrees' /\ RunawayBound' /\ NothingSurvivesExpiry' /\ FaultCutsOutput'
          /\ timedOut' = ~outputAllowed'
      BY <1>a, <2>1, <3>1, <3>3, <3>4, CommitSafe
    <3>6. OpenLoopIsClean'
      BY <3>2, <3>4 DEF OpenLoopIsClean, Commit, Surviving
    <3> QED
      BY <2>1, <3>5, <3>6 DEF SafetyInv
  <2> QED
    BY <1>2, <2>2, <2>3 DEF OnCommand
<1>3. ASSUME NEW flags \in SUBSET Faults, OnStop(flags) PROVE SafetyInv'
  <2>1. Commit(lastCmd, LatchFault(faults, flags), Zero, Zero, Zero)
        /\ now' = now /\ age' = age /\ LatchFault(faults, flags) \in SUBSET Faults
    BY <1>3, <1>a DEF OnStop, LatchFault
  <2>2. ClockAgrees' /\ RunawayBound' /\ NothingSurvivesExpiry' /\ FaultCutsOutput'
        /\ timedOut' = ~outputAllowed'
    BY <1>a, <1>b, <2>1, ZeroType, CommitSafe
  <2>3. OpenLoopIsClean'
    BY <2>1 DEF OpenLoopIsClean, Commit, Surviving
  <2>4. TicksAccounted'
    BY <1>3 DEF OnStop, SafetyInv, TicksAccounted, tickVars
  <2> QED
    BY <2>2, <2>3, <2>4 DEF SafetyInv
<1>4. CASE MotorKill
  BY <1>4 DEF MotorKill, SafetyInv, ClockAgrees, RunawayBound, NothingSurvivesExpiry,
     FaultCutsOutput, OpenLoopIsClean, TicksAccounted, safetyVars, demandVars,
     tickVars, timeVars
<1>5. CASE TickIsr
  BY <1>5 DEF TickIsr, SafetyInv, ClockAgrees, RunawayBound, NothingSurvivesExpiry,
     FaultCutsOutput, OpenLoopIsClean, TicksAccounted, safetyVars, demandVars, timeVars
<1>6. CASE Millisecond
  <2>1. /\ UNCHANGED <<safetyVars, demandVars, outputAllowed, tickVars, ccr, moe>>
        /\ sinceCommit' = sinceCommit + 1
        /\ age' = IF age < AgeCap THEN age + 1 ELSE age
    BY <1>6 DEF Millisecond
  <2>2. ClockAgrees'
    BY <1>6, <1>a, <1>b, <2>1, ClockAssumption
       DEF ClockAgrees, Millisecond, ModSub, ModAdd, AgeCap, ClockMod, safetyVars
  <2>3. RunawayBound'
    BY <1>a, <1>c, <2>1, LiveIsYoung, ClockAssumption
       DEF SafetyInv, RunawayBound, TypeOK, demandVars
  <2>4. NothingSurvivesExpiry' /\ FaultCutsOutput' /\ OpenLoopIsClean' /\ TicksAccounted'
        /\ timedOut' = ~outputAllowed'
    BY <2>1 DEF SafetyInv, NothingSurvivesExpiry, FaultCutsOutput, OpenLoopIsClean,
       TicksAccounted, safetyVars, demandVars, tickVars
  <2> QED
    BY <2>2, <2>3, <2>4 DEF SafetyInv
<1>7. CASE UNCHANGED vars
  BY <1>7 DEF vars, SafetyInv, ClockAgrees, RunawayBound, NothingSurvivesExpiry,
     FaultCutsOutput, OpenLoopIsClean, TicksAccounted, safetyVars, demandVars,
     tickVars, timeVars
<1> QED
  BY <1>1, <1>2, <1>3, <1>4, <1>5, <1>6, <1>7 DEF Next

LEMMA SafetyInit == Init => SafetyInv
<1> SUFFICES ASSUME Init PROVE SafetyInv
  OBVIOUS
<1>1. ClockAgrees /\ RunawayBound /\ NothingSurvivesExpiry /\ FaultCutsOutput
      /\ OpenLoopIsClean /\ TicksAccounted
  BY DataAssumption, ClockAssumption DEF Init, ClockAgrees, RunawayBound,
     NothingSurvivesExpiry, FaultCutsOutput, OpenLoopIsClean, TicksAccounted, SeqAdd
<1>2. timedOut = ~outputAllowed
  BY Zenon DEF Init
<1> QED
  BY <1>1, <1>2 DEF SafetyInv

LEMMA SafetyInvariant == Spec => [](TypeOK /\ SafetyInv)
  BY TypeCorrect, SafetyInit, SafetyStep, PTL DEF Spec

-----------------------------------------------------------------------------
(* The theorems a reader should know of.                                   *)

\* Whatever the clock's width and however often it wraps: CCR holds duty only
\* while the command it came from is younger, in true time, than
\* CMD_WATCHDOG_MS plus the time since the last control cycle.
THEOREM RunawayIsBounded == Spec => []RunawayBound
  BY SafetyInvariant, PTL DEF SafetyInv

\* No demand outlives its permission (control_commit()), and open loop holds no
\* closed-loop state.
THEOREM DemandIsForgotten == Spec => []NothingLeftOver
  BY SafetyInvariant, PTL DEF SafetyInv, NothingLeftOver

\* A latched fault has cut MOE and CCR, whichever handler committed it.
THEOREM FaultsCutOutput == Spec => []FaultCutsOutput
  BY SafetyInvariant, PTL DEF SafetyInv

\* Cycles run and cycles counted as overrun add up to the ticks seen, however
\* the interrupts merged.
THEOREM TicksAreAccounted == Spec => []TicksAccounted
  BY SafetyInvariant, PTL DEF SafetyInv

\* No handler of the core clears a fault bit or raises MOE again.
THEOREM FaultsAreFinal == Spec => FaultIsFinal
<1>1. [Next]_vars => [faults \subseteq faults' /\ (~moe => ~moe')]_vars
  <2> SUFFICES ASSUME Next PROVE faults \subseteq faults' /\ (~moe => ~moe')
    OBVIOUS
  <2>1. ASSUME NEW last, NEW flags, NEW d, NEW t, NEW i,
               Commit(last, flags, d, t, i), faults \subseteq flags
        PROVE  faults \subseteq faults' /\ (~moe => ~moe')
    BY <2>1 DEF Commit, CommitMoe
  <2>2. CASE OnTick
    BY <2>1, <2>2 DEF OnTick
  <2>3. ASSUME NEW c \in Postable, OnCommand(c)
        PROVE  faults \subseteq faults' /\ (~moe => ~moe')
    BY <2>1, <2>3 DEF OnCommand, RejectCommand, ApplyDuty, ApplyVel, ApplyStop, Apply
  <2>4. ASSUME NEW flags \in SUBSET Faults, OnStop(flags)
        PROVE  faults \subseteq faults' /\ (~moe => ~moe')
    <3>1. faults \subseteq LatchFault(faults, flags)
      BY DEF LatchFault
    <3> QED
      BY <2>1, <2>4, <3>1 DEF OnStop
  <2>5. CASE MotorKill
    BY <2>5 DEF MotorKill, safetyVars
  <2>6. CASE TickIsr \/ Millisecond
    BY <2>6 DEF TickIsr, Millisecond, safetyVars
  <2> QED
    BY <2>2, <2>3, <2>4, <2>5, <2>6 DEF Next
<1> QED
  BY <1>1, PTL DEF Spec, FaultIsFinal

\* The action properties below look at one step from a state that satisfies the
\* safety invariant.
MotionStep ==
  ~Demand /\ Demand' => age' < WatchdogMs /\ result'.kind = "OK"
                        /\ appliedSeq' = result'.seq
EdgeStep ==
  (outputAllowed /\ ~outputAllowed' /\ faults' = {}) <=> wdSeq' # wdSeq
OkStep ==
  result' # result /\ result'.kind = "OK" =>
    /\ outputAllowed' /\ faults' = {} /\ appliedSeq' = result'.seq
    /\ (~closedLoop' => ccr' = result'.val)
    /\ (closedLoop' => target' = result'.val)

\* Applying a command is the only step that makes a demand, and its OK tells
\* the truth about the registers.
LEMMA ApplyTells ==
  ASSUME TypeOK, NEW c \in Postable, faults = {}, ~Stale(c),
         ApplyDuty(c) \/ ApplyVel(c) \/ ApplyStop(c)
  PROVE  MotionStep /\ OkStep
<1>1. ModSub(now, c.accepted) < WatchdogMs
  BY NotStaleIsFresh DEF TypeOK
<1>2. PICK d, t, i : Apply(c, d, t, i)
  BY DEF ApplyDuty, ApplyVel, ApplyStop
<1>3. age' < WatchdogMs /\ appliedSeq' = result'.seq
  BY <1>1, <1>2 DEF Apply
<1>4. outputAllowed' => result'.kind = "OK"
  BY <1>2 DEF Apply, ResultKind
<1>5. ~outputAllowed' => ~Demand' /\ result'.kind # "OK"
  BY <1>2 DEF Apply, ResultKind, Commit, Surviving, Demand
<1>6. faults' = {} /\ outputAllowed' \in BOOLEAN
  BY <1>2 DEF Apply, Commit, Allowed
<1>7. outputAllowed' => (~closedLoop' => ccr' = result'.val)
                        /\ (closedLoop' => target' = result'.val)
  <2>1. CASE ApplyDuty(c)
    BY <2>1 DEF ApplyDuty, Apply, ResultVal, Commit, Surviving
  <2>2. CASE ApplyVel(c)
    BY <2>2 DEF ApplyVel, Apply, ResultVal, Commit, Surviving
  <2>3. CASE ApplyStop(c)
    BY <2>3 DEF ApplyStop, Apply, ResultVal, Commit, Surviving
  <2> QED
    BY <2>1, <2>2, <2>3
<1> QED
  BY <1>3, <1>4, <1>5, <1>6, <1>7 DEF MotionStep, OkStep

\* wd_seq counts the losses of permission that are not faults.
LEMMA CommitEdge ==
  ASSUME TypeOK, timedOut = ~outputAllowed,
         NEW last, NEW flags, NEW d, NEW t, NEW i, Commit(last, flags, d, t, i)
  PROVE  EdgeStep
<1>1. SeqAdd(wdSeq, 1) # wdSeq
  BY DataAssumption DEF TypeOK, SeqAdd
<1>2. outputAllowed' = Allowed(last, flags) /\ faults' = flags
  BY DEF Commit
<1>3. wdSeq' # wdSeq <=> flags = {} /\ ~Allowed(last, flags) /\ ~timedOut
  BY <1>1 DEF Commit, ExpiryEdge
<1>4. outputAllowed \in BOOLEAN
  BY DEF TypeOK
<1> QED
  BY <1>2, <1>3, <1>4, Zenon DEF EdgeStep

LEMMA ActionStep ==
  TypeOK /\ SafetyInv /\ [Next]_vars => [MotionStep /\ EdgeStep /\ OkStep]_vars
<1> SUFFICES ASSUME TypeOK, SafetyInv, Next PROVE MotionStep /\ EdgeStep /\ OkStep
  OBVIOUS
<1>a. timedOut = ~outputAllowed
  BY DEF SafetyInv
<1>1. CASE OnTick
  <2>1. PICK d \in [Wheel -> Duty], i \in [Wheel -> Integ] :
          /\ Commit(lastCmd, faults, d, target, i)
          /\ \/ \A w \in Wheel : target[w] = 0 => d[w] = 0
             \/ d = cmd
    BY <1>1 DEF OnTick, SpeedUpdate, TypeOK
  <2>2. ~Demand => ~Demand'
    <3> SUFFICES ASSUME cmd = Zero, target = Zero PROVE cmd' = Zero /\ target' = Zero
      BY DEF Demand
    <3>1. d = Zero
      BY <2>1 DEF Zero
    <3> QED
      BY <2>1, <3>1 DEF Commit, Surviving
  <2>3. result' = result
    BY <1>1 DEF OnTick
  <2>4. EdgeStep
    BY <1>a, <2>1, CommitEdge
  <2> QED
    BY <2>2, <2>3, <2>4 DEF MotionStep, OkStep
<1>2. ASSUME NEW c \in Postable, OnCommand(c) PROVE MotionStep /\ EdgeStep /\ OkStep
  <2>1. CASE RejectCommand(c)
    <3>1. Commit(lastCmd, faults, cmd, target, integ) /\ result'.kind # "OK"
      BY <2>1 DEF RejectCommand
    <3>2. ~Demand => ~Demand'
      BY <3>1 DEF Demand, Commit, Surviving
    <3> QED
      BY <1>a, <3>1, <3>2, CommitEdge DEF MotionStep, OkStep
  <2>2. CASE faults = {} /\ ~Stale(c) /\ (ApplyDuty(c) \/ ApplyVel(c) \/ ApplyStop(c))
    <3>1. PICK d, t, i : Commit(c.accepted, faults, d, t, i)
      BY <2>2 DEF ApplyDuty, ApplyVel, ApplyStop, Apply
    <3> QED
      BY <1>a, <2>2, <3>1, CommitEdge, ApplyTells
  <2> QED
    BY <1>2, <2>1, <2>2 DEF OnCommand
<1>3. ASSUME NEW flags \in SUBSET Faults, OnStop(flags)
      PROVE  MotionStep /\ EdgeStep /\ OkStep
  <2>1. Commit(lastCmd, LatchFault(faults, flags), Zero, Zero, Zero) /\ result' = result
    BY <1>3 DEF OnStop
  <2>2. ~Demand'
    BY <2>1 DEF Demand, Commit, Surviving
  <2> QED
    BY <1>a, <2>1, <2>2, CommitEdge DEF MotionStep, OkStep
<1>4. CASE MotorKill \/ TickIsr \/ Millisecond
  <2>1. UNCHANGED <<cmd, target, outputAllowed, wdSeq, result>>
    BY <1>4 DEF MotorKill, TickIsr, Millisecond, demandVars
  <2> QED
    BY <2>1 DEF MotionStep, EdgeStep, OkStep, Demand
<1> QED
  BY <1>1, <1>2, <1>3, <1>4 DEF Next

\* Motion starts only when a command is applied, for every clock width: an idle
\* robot stays idle through ticks, stops, rejected commands and wrap-around.
THEOREM MotionIsCommanded == Spec => MotionNeedsCommand
  BY SafetyInvariant, ActionStep, PTL DEF Spec, MotionNeedsCommand, MotionStep

\* One watchdog notification per expiry.
THEOREM ExpiryIsCountedOnce == Spec => OneEdgePerExpiry
  BY SafetyInvariant, ActionStep, PTL DEF Spec, OneEdgePerExpiry, EdgeStep

\* A result OK is true of CCR, the target and the watchdog when it is posted.
THEOREM OkIsTruthful == Spec => OkIsApplied
  BY SafetyInvariant, ActionStep, PTL DEF Spec, OkIsApplied, OkStep

\* A wheel whose target changes sign starts with an empty integrator: in closed
\* loop by speed_control_set_target(), from open loop because nothing was there.
THEOREM ReversalIsClean == Spec => ReversalResets
<1>1. TypeOK /\ SafetyInv /\ [Next]_vars
        => [\A w \in Wheel : Reverses(w) => integ'[w] = 0]_vars
  <2> SUFFICES ASSUME TypeOK, SafetyInv, Next, NEW w \in Wheel, Reverses(w)
               PROVE  integ'[w] = 0
    OBVIOUS
  <2> HIDE DEF Tps, Duty, Integ
  <2>a. target[w] \in Int
    BY DataAssumption DEF TypeOK, Tps
  <2>b. target' # target /\ target' # Zero
    BY <2>a DEF Reverses, Zero
  <2>1. CASE \E c \in Postable : ApplyVel(c)
    <3>1. PICK c \in Postable : ApplyVel(c)
      BY <2>1
    <3> DEFINE t0 == IF closedLoop THEN target ELSE Zero
               i0 == IF closedLoop THEN integ ELSE Zero
               t  == ClampAll(c.val, VelMax)
    <3>2. PICK d \in [Wheel -> Duty], i \in [Wheel -> Integ] :
            /\ SpeedUpdate(t[w], SetTarget(t0[w], t[w], i0[w]), FALSE, d[w], i[w])
            /\ Apply(c, d, t, i)
      BY <3>1 DEF ApplyVel
    <3>3. target' = t /\ integ' = i
      BY <2>b, <3>2 DEF Apply, Commit, Surviving
    <3>4. t0 = target
      BY DEF SafetyInv, OpenLoopIsClean
    <3>5. SetTarget(t0[w], t[w], i0[w]) = 0
      BY <3>3, <3>4 DEF SetTarget, Reverses
    <3>6. i[w] = 0
      BY <3>2, <3>5 DEF SpeedUpdate
    <3> QED
      BY <3>3, <3>6
  <2>2. CASE ~\E c \in Postable : ApplyVel(c)
    <3>1. ASSUME NEW last, NEW flags, NEW d, NEW t, NEW i,
                 Commit(last, flags, d, t, i), t = target \/ t = Zero
          PROVE  FALSE
      BY <2>b, <3>1 DEF Commit, Surviving
    <3>2. ~OnTick
      BY <3>1 DEF OnTick
    <3>3. ASSUME NEW c \in Postable PROVE ~OnCommand(c)
      BY <2>2, <3>1 DEF OnCommand, RejectCommand, ApplyDuty, ApplyStop, Apply
    <3>4. ASSUME NEW flags \in SUBSET Faults PROVE ~OnStop(flags)
      BY <3>1 DEF OnStop
    <3>5. ~MotorKill /\ ~TickIsr /\ ~Millisecond
      BY <2>b DEF MotorKill, TickIsr, Millisecond, demandVars
    <3> QED
      BY <3>2, <3>3, <3>4, <3>5 DEF Next
  <2> QED
    BY <2>1, <2>2
<1> QED
  BY <1>1, SafetyInvariant, PTL DEF Spec, ReversalResets

-----------------------------------------------------------------------------
(***************************************************************************)
(* ControlCore implements Drive.  What is added to the safety invariant is *)
(* that closed loop demands of a wheel nothing its target does not: a duty *)
(* that outlived its target would end at the next tick, before its time.   *)
(***************************************************************************)
FollowsTarget == closedLoop => \A w \in Wheel : target[w] = 0 => cmd[w] = 0

CoreInv == TypeOK /\ SafetyInv /\ FollowsTarget

\* A tick leaves the target as it is and demands as much as there was, in a
\* duty that follows the target again.
LEMMA TickKeepsDemand ==
  ASSUME CoreInv, OnTick
  PROVE  \E d, i : /\ Commit(lastCmd, faults, d, target, i)
                   /\ (d # Zero \/ target # Zero) <=> Demand
                   /\ closedLoop => \A w \in Wheel : target[w] = 0 => d[w] = 0
<1> USE DEF CoreInv
<1>1. CASE closedLoop /\ SeqSub(tickSeq, tickSeen) # 0
  <2>1. PICK d \in [Wheel -> Duty], i \in [Wheel -> Integ] :
          /\ Commit(lastCmd, faults, d, target, i)
          /\ \A w \in Wheel : target[w] = 0 => d[w] = 0
    BY <1>1 DEF OnTick, SpeedUpdate
  <2>2. target = Zero => d = Zero /\ cmd = Zero
    BY <1>1, <2>1 DEF TypeOK, FollowsTarget, Zero
  <2> QED
    BY <2>1, <2>2 DEF Demand
<1>2. CASE ~(closedLoop /\ SeqSub(tickSeq, tickSeen) # 0)
  BY <1>2 DEF OnTick, Demand, FollowsTarget
<1> QED
  BY <1>1, <1>2

\* The same of an accepted command: c's demand follows its target.
LEMMA ApplyFollows ==
  ASSUME NEW c \in Postable, ApplyDuty(c) \/ ApplyVel(c) \/ ApplyStop(c)
  PROVE  \E d, t, i : /\ Apply(c, d, t, i)
                      /\ closedLoop' => \A w \in Wheel : t[w] = 0 => d[w] = 0
<1>1. CASE ApplyDuty(c)
  BY <1>1 DEF ApplyDuty
<1>2. CASE ApplyVel(c)
  BY <1>2 DEF ApplyVel, SpeedUpdate
<1>3. CASE ApplyStop(c)
  BY <1>3 DEF ApplyStop, Zero
<1> QED
  BY <1>1, <1>2, <1>3

LEMMA FollowsStep == CoreInv /\ [Next]_vars => FollowsTarget'
<1> SUFFICES ASSUME CoreInv, [Next]_vars PROVE FollowsTarget'
  OBVIOUS
<1> USE DEF CoreInv
<1>0. ASSUME NEW last, NEW flags, NEW d, NEW t, NEW i, Commit(last, flags, d, t, i),
             closedLoop' => \A w \in Wheel : t[w] = 0 => d[w] = 0
      PROVE  FollowsTarget'
  BY <1>0 DEF Commit, Surviving, FollowsTarget, Zero
<1>1. CASE OnTick
  <2>1. closedLoop' = closedLoop
    BY <1>1 DEF OnTick
  <2> QED
    BY <1>0, <1>1, <2>1, TickKeepsDemand
<1>2. ASSUME NEW c \in Postable, OnCommand(c) PROVE FollowsTarget'
  <2>1. CASE RejectCommand(c)
    BY <1>0, <2>1 DEF RejectCommand, FollowsTarget
  <2>2. CASE ApplyDuty(c) \/ ApplyVel(c) \/ ApplyStop(c)
    BY <1>0, <2>2, ApplyFollows DEF Apply
  <2> QED
    BY <1>2, <2>1, <2>2 DEF OnCommand
<1>3. ASSUME NEW flags \in SUBSET Faults, OnStop(flags) PROVE FollowsTarget'
  BY <1>0, <1>3 DEF OnStop, Zero
<1>4. CASE MotorKill \/ TickIsr \/ Millisecond \/ UNCHANGED vars
  BY <1>4 DEF MotorKill, TickIsr, Millisecond, vars, demandVars, FollowsTarget
<1> QED
  BY <1>1, <1>2, <1>3, <1>4 DEF Next

LEMMA CoreInvariant == Spec => []CoreInv
<1>1. Init => FollowsTarget
  BY DEF Init, FollowsTarget
<1>2. FollowsTarget /\ TypeOK /\ SafetyInv /\ [Next]_vars => FollowsTarget'
  BY FollowsStep DEF CoreInv
<1> QED
  BY <1>1, <1>2, SafetyInvariant, PTL DEF Spec, CoreInv

\* While the true age is below AgeCap the clock tells it, so a commit of the same
\* command shows the permission exactly.
LEMMA CommitPermits ==
  ASSUME CoreInv, NEW d, NEW t, NEW i, Commit(lastCmd, faults, d, t, i)
  PROVE  D!Permit
<1>1. outputAllowed' = Allowed(lastCmd, faults)
  BY DEF Commit
<1>2. Allowed(lastCmd, faults) \in BOOLEAN /\ (faults # {} => ~Allowed(lastCmd, faults))
  BY DEF Allowed
<1>3. age < D!AgeCap => Allowed(lastCmd, faults) = (age < WatchdogMs /\ ~(faults # {}))
  <2> SUFFICES ASSUME age < AgeCap
               PROVE Allowed(lastCmd, faults) = (age < WatchdogMs /\ ~(faults # {}))
    BY DEF D!AgeCap
  <2>1. ModSub(now, lastCmd) = age /\ age \in Int
    BY DEF CoreInv, SafetyInv, ClockAgrees, TypeOK
  <2>2. Expired(lastCmd) <=> ~(age < WatchdogMs)
    BY <2>1, ClockAssumption DEF Expired
  <2> QED
    BY <2>2 DEF Allowed
<1> QED
  BY <1>1, <1>2, <1>3 DEF D!Permit

\* A commit of what is demanded already is Drive's Keep: as long as there is a
\* demand the wrapping clock tells its true age.
LEMMA CommitIsKeep ==
  ASSUME CoreInv, NEW d, NEW t, NEW i, Commit(lastCmd, faults, d, t, i),
         (d # Zero \/ t # Zero) <=> Demand, age' = age
  PROVE  D!Keep
<1> USE DEF CoreInv
<1>1. Demand => /\ Allowed(lastCmd, faults) <=> age < WatchdogMs
                /\ faults = {}
  <2> SUFFICES ASSUME Demand
               PROVE (Allowed(lastCmd, faults) <=> age < WatchdogMs) /\ faults = {}
    OBVIOUS
  <2>1. faults = {} /\ age < AgeCap
    BY LiveIsYoung DEF Demand, SafetyInv, NothingSurvivesExpiry, FaultCutsOutput
  <2>2. ModSub(now, lastCmd) = age /\ age \in Int
    BY <2>1 DEF SafetyInv, ClockAgrees, TypeOK
  <2> QED
    BY <2>1, <2>2, ClockAssumption DEF Allowed, Expired
<1>2. Demand' <=> Allowed(lastCmd, faults) /\ Demand
  BY DEF Commit, Surviving, Demand
<1>3. moe' = moe /\ faults' = faults /\ sinceCommit' = 0
  BY DEF Commit, CommitMoe, SafetyInv, FaultCutsOutput, TypeOK
<1>4. Demand' = (Demand /\ age < WatchdogMs)
  <2>1. Demand \in BOOLEAN /\ Demand' \in BOOLEAN
    BY DEF Demand
  <2> QED
    BY <1>1, <1>2, <2>1
<1> QED
  BY <1>3, <1>4, CommitPermits DEF D!Keep

\* Ticks and rejected commands keep what is there.
LEMMA PassiveKeeps == CoreInv /\ Next /\ Passive => D!Keep
<1> SUFFICES ASSUME CoreInv, Next, Passive PROVE D!Keep
  OBVIOUS
<1>1. CASE OnTick
  <2>1. age' = age
    BY <1>1 DEF OnTick
  <2> QED
    BY <1>1, <2>1, TickKeepsDemand, CommitIsKeep
<1>2. ASSUME NEW c \in Postable, RejectCommand(c) PROVE D!Keep
  BY <1>2, CommitIsKeep DEF RejectCommand, Demand
<1>3. ASSUME NEW c \in Postable, faults = {}, ~Stale(c), result'.kind = "REJECTED",
             ApplyDuty(c) \/ ApplyVel(c) \/ ApplyStop(c)
      PROVE  FALSE
  <2>1. PICK d, t, i : Apply(c, d, t, i)
    BY <1>3, ApplyFollows
  <2>2. ModSub(now, c.accepted) < WatchdogMs /\ ModSub(now, c.accepted) \in Int
    BY <1>3, NotStaleIsFresh, PostableType DEF CoreInv, TypeOK
  <2>3. Allowed(c.accepted, faults)
    BY <1>3, <2>2, ClockAssumption DEF Allowed, Expired
  <2> QED
    BY <1>3, <2>1, <2>3 DEF Apply, ResultKind, Commit
<1>4. result' # result => \E c \in Postable : OnCommand(c)
  <2>1. ~OnTick /\ ~(\E c \in Postable : OnCommand(c)) => result' = result
    BY DEF Next, OnStop, MotorKill, TickIsr, Millisecond
  <2>2. OnTick => result' = result
    BY DEF OnTick
  <2> QED
    BY <2>1, <2>2
<1> QED
  BY <1>1, <1>2, <1>3, <1>4 DEF Passive, OnCommand

LEMMA DriveStep == CoreInv /\ [Next]_vars => [D!Next]_(D!vars)
<1> SUFFICES ASSUME CoreInv, [Next]_vars PROVE [D!Next]_(D!vars)
  OBVIOUS
<1> USE DEF CoreInv
<1>b. Demand' \in BOOLEAN
  BY DEF Demand
<1>1. CASE OnTick
  <2>1. D!Keep
    BY <1>1, PassiveKeeps DEF Next, Passive
  <2> QED
    BY <2>1 DEF D!Next
<1>2. ASSUME NEW c \in Postable, OnCommand(c) PROVE [D!Next]_(D!vars)
  <2>1. CASE RejectCommand(c)
    <3>1. D!Keep
      BY <2>1, CommitIsKeep DEF RejectCommand, Demand
    <3> QED
      BY <3>1 DEF D!Next
  <2>2. CASE faults = {} /\ ~Stale(c) /\ (ApplyDuty(c) \/ ApplyVel(c) \/ ApplyStop(c))
    <3>1. PICK d, t, i : Apply(c, d, t, i)
      BY <2>2, ApplyFollows
    <3>2. ModSub(now, c.accepted) \in 0 .. WatchdogMs - 1
      <4>1. ModSub(now, c.accepted) \in 0 .. MaxCmdAge
        BY PostableType DEF TypeOK
      <4>2. ModSub(now, c.accepted) < WatchdogMs
        BY <2>2, NotStaleIsFresh DEF TypeOK
      <4> QED
        BY <4>1, <4>2, ClockAssumption
    <3>3. age' \in 0 .. WatchdogMs - 1 /\ sinceCommit' = 0 /\ faults' = faults
      BY <3>1, <3>2 DEF Apply, Commit
    <3>4. moe' = moe
      BY <2>2, <3>1 DEF Apply, Commit, CommitMoe, TypeOK
    <3>a. outputAllowed' = TRUE
      <4>1. Allowed(c.accepted, faults)
        BY <2>2, <3>2, ClockAssumption DEF Allowed, Expired
      <4> QED
        BY <3>1, <4>1 DEF Apply, Commit
    <3>5. D!Accept
      BY <1>b, <2>2, <3>3, <3>4, <3>a DEF D!Accept
    <3> QED
      BY <3>5 DEF D!Next
  <2> QED
    BY <1>2, <2>1, <2>2 DEF OnCommand
<1>3. ASSUME NEW flags \in SUBSET Faults, OnStop(flags) PROVE [D!Next]_(D!vars)
  <2>1. /\ ~Demand' /\ sinceCommit' = 0 /\ age' = age
        /\ faults' = LatchFault(faults, flags) /\ moe' = CommitMoe(faults')
    BY <1>3 DEF OnStop, Commit, Surviving, Demand
  <2>2. CASE faults' = faults
    <3>1. moe' = moe
      BY <2>1, <2>2 DEF CommitMoe, SafetyInv, FaultCutsOutput, TypeOK
    <3>a. D!Permit
      BY <1>3, <2>1, <2>2, CommitPermits DEF OnStop
    <3>2. D!Stop
      BY <1>b, <2>1, <2>2, <3>1, <3>a DEF D!Stop
    <3> QED
      BY <3>2 DEF D!Next
  <2>3. CASE faults' # faults
    <3>1. faults' # {}
      BY <2>1, <2>3 DEF LatchFault
    <3>2. moe' = FALSE /\ outputAllowed' = FALSE
      BY <1>3, <2>1, <3>1 DEF OnStop, Commit, CommitMoe, Allowed
    <3>3. D!Latch
      BY <1>b, <2>1, <3>1, <3>2 DEF D!Latch
    <3> QED
      BY <3>3 DEF D!Next
  <2> QED
    BY <2>2, <2>3
<1>4. CASE MotorKill
  <2>1. D!Kill
    BY <1>4 DEF MotorKill, D!Kill, safetyVars, demandVars, timeVars, Demand
  <2> QED
    BY <2>1 DEF D!Next
<1>5. CASE Millisecond
  <2>1. D!Elapse
    BY <1>5 DEF Millisecond, D!Elapse, D!AgeCap, safetyVars, demandVars, Demand
  <2> QED
    BY <2>1 DEF D!Next
<1>6. CASE TickIsr \/ UNCHANGED vars
  BY <1>6 DEF TickIsr, vars, D!vars, safetyVars, demandVars, timeVars, Demand
<1> QED
  BY <1>1, <1>2, <1>3, <1>4, <1>5, <1>6 DEF Next

\* Handler by handler the core does what Drive promises, for every clock width: a
\* demand ends with its command's watchdog time in true time, never earlier and
\* never later than the next commit, unless a stop or a fault ends it.
THEOREM CoreImplementsDrive == Spec => ImplementsDrive
<1>1. Init => D!Init
  <2>1. Init => (Demand = FALSE) /\ ((faults # {}) = FALSE)
    BY DEF Init, Demand
  <2> QED
    BY <2>1 DEF Init, D!Init, D!AgeCap
<1>2. CoreInv /\ [Next]_vars => [Passive => D!Keep]_vars
  BY PassiveKeeps
<1> QED
  BY <1>1, <1>2, DriveStep, CoreInvariant, PTL DEF Spec, ImplementsDrive, D!Spec

-----------------------------------------------------------------------------
(***************************************************************************)
(* The chain around the core (SafetyChain, as ControlChain has it), for    *)
(* every choice of the periods and limits that LimitsAssumption admits.    *)
(*                                                                         *)
(* Its properties are not inductive: they speak of the age of a command or *)
(* of MOE, while what keeps them true is how far the heartbeat can be      *)
(* behind, given HealthTask's release phase (`due'), the observations it   *)
(* has missed and the time since the last refresh.  ChainInv states that.  *)
(***************************************************************************)

LEMMA ChainFacts ==
  /\ Watchdog \in Nat \ {0} /\ HealthPeriod \in Nat \ {0}
  /\ StallPeriods \in Nat \ {0} /\ MaxLate \in Nat
  /\ DogMin \in Nat /\ DogMax \in Nat /\ DogMin <= DogMax
  /\ HealthPeriod + MaxLate < DogMin
  /\ MaxLate + 1 < C!StallLimit
  BY LimitsAssumption DEF C!LimitsOK

\* A duty is at most a watchdog time older than the last tick.
DriveFollowsTick == drive => cmdAge < Watchdog + sinceHb

\* What HealthTask's phase says of the heartbeat, from above and from below.
PhaseInv ==
  health /\ ~fatal =>
    /\ fresh => sinceHb <= HealthPeriod - due
    /\ ~fresh => /\ sinceHb <= missed * HealthPeriod + 2 * HealthPeriod - due
                 /\ sinceHb >= missed * HealthPeriod + HealthPeriod - due - MaxLate

\* The IWDG is refreshed only on evidence that is not too old.
DogInv == sinceHb <= C!StallLimit + MaxLate + dogAge

\* Outputs still powered mean that the stall limit was not reached.
PoweredInv == powered => ~fatal /\ (health => missed < StallPeriods)

\* While nothing has failed the heartbeat is at most one period old, and the
\* last turn of HealthTask refreshed the IWDG.
HealthyInv ==
  ~wounded =>
    /\ tim /\ ctrl /\ health /\ ~fatal /\ powered
    /\ sinceHb <= 1 /\ (ran => sinceHb = 0)
    /\ dogAge <= HealthPeriod - due

ChainInv == C!TypeOK /\ DriveFollowsTick /\ PhaseInv /\ DogInv /\ PoweredInv /\ HealthyInv

-----------------------------------------------------------------------------
(* Products of the period.                                                 *)

LEMMA ProductStep ==
  ASSUME NEW m \in Nat, NEW h \in Nat
  PROVE  m * h \in Nat /\ (m + 1) * h = m * h + h
  OBVIOUS

LEMMA ProductMono ==
  ASSUME NEW m \in Nat, NEW n \in Nat, NEW h \in Nat, m <= n
  PROVE  m * h <= n * h
<1>1. PICK d \in Nat : n = m + d  BY n - m \in Nat
<1>2. n * h = m * h + d * h  BY <1>1
<1>3. d * h \in Nat  BY <1>1, ProductStep
<1> QED  BY <1>2, <1>3, ProductStep

LEMMA LimitFacts == C!StallLimit \in Nat /\ HealthPeriod <= C!StallLimit /\ C!AgeCap \in Nat
<1>1. C!StallLimit \in Nat  BY ChainFacts, ProductStep DEF C!StallLimit
<1>2. 1 * HealthPeriod <= StallPeriods * HealthPeriod
  BY ProductMono, ChainFacts
<1> QED  BY <1>1, <1>2, ChainFacts DEF C!StallLimit, C!AgeCap

-----------------------------------------------------------------------------
(* The inductive invariant.                                                *)

\* The two halves of its types.
BoolOK ==
  /\ tim \in BOOLEAN /\ ctrl \in BOOLEAN /\ health \in BOOLEAN /\ fatal \in BOOLEAN
  /\ ran \in BOOLEAN /\ drive \in BOOLEAN /\ powered \in BOOLEAN /\ fresh \in BOOLEAN
  /\ wounded \in BOOLEAN
NumOK ==
  /\ cmdAge \in 0 .. C!AgeCap /\ missed \in Nat /\ sinceHb \in Nat
  /\ due \in -MaxLate .. HealthPeriod /\ dogAge \in 0 .. DogMax

LEMMA BoolStep == BoolOK /\ [C!Next]_(C!vars) => BoolOK'
<1> SUFFICES ASSUME BoolOK, [C!Next]_(C!vars) PROVE BoolOK'  OBVIOUS
<1> USE DEF BoolOK
<1>1. CASE C!ControlCycle  BY <1>1 DEF C!ControlCycle, C!parts
<1>2. CASE C!Command  BY <1>2 DEF C!Command, C!parts, C!monitor
<1>3. CASE C!HealthTurn  BY <1>3 DEF C!HealthTurn, C!Released, C!Kill
<1>4. CASE C!TimFails \/ C!CtrlFails \/ C!HealthFails
  BY <1>4 DEF C!TimFails, C!CtrlFails, C!HealthFails, C!Fail, C!output, C!monitor
<1>5. CASE C!FatalHook  BY <1>5 DEF C!FatalHook, C!Kill, C!monitor
<1>6. CASE C!Tick  BY <1>6 DEF C!Tick, C!parts
<1>7. CASE C!Reset  BY <1>7, Zenon DEF C!Reset
<1>8. CASE UNCHANGED C!vars  BY <1>8 DEF C!vars, C!parts, C!output, C!monitor
<1> QED  BY <1>1, <1>2, <1>3, <1>4, <1>5, <1>6, <1>7, <1>8 DEF C!Next

LEMMA NumStep == NumOK /\ [C!Next]_(C!vars) => NumOK'
<1> SUFFICES ASSUME NumOK, [C!Next]_(C!vars) PROVE NumOK'  OBVIOUS
<1> USE ChainFacts, LimitFacts DEF NumOK
<1>1. CASE C!ControlCycle  BY <1>1 DEF C!ControlCycle, C!parts
<1>2. CASE C!Command
  <2>1. \A a \in 0 .. Watchdog - 1 : a \in 0 .. C!AgeCap  BY DEF C!AgeCap
  <2> QED  BY <1>2, <2>1 DEF C!Command, C!parts, C!monitor
<1>3. CASE C!HealthTurn
  <2>1. missed' \in Nat  BY <1>3 DEF C!HealthTurn, C!Released, C!Missed
  <2>2. dogAge' \in 0 .. DogMax  BY <1>3 DEF C!HealthTurn
  <2> QED  BY <1>3, <2>1, <2>2 DEF C!HealthTurn, C!Released
<1>4. CASE C!TimFails \/ C!CtrlFails \/ C!HealthFails
  BY <1>4 DEF C!TimFails, C!CtrlFails, C!HealthFails, C!Fail, C!output, C!monitor
<1>5. CASE C!FatalHook  BY <1>5 DEF C!FatalHook, C!Kill, C!monitor
<1>6. CASE C!Tick
  <2>1. due' \in -MaxLate .. HealthPeriod  BY <1>6 DEF C!Tick
  <2>2. cmdAge' \in 0 .. C!AgeCap  BY <1>6 DEF C!Tick
  <2> QED  BY <1>6, <2>1, <2>2 DEF C!Tick
<1>7. CASE C!Reset  BY <1>7 DEF C!Reset
<1>8. CASE UNCHANGED C!vars  BY <1>8 DEF C!vars, C!parts, C!output, C!monitor
<1> QED  BY <1>1, <1>2, <1>3, <1>4, <1>5, <1>6, <1>7, <1>8 DEF C!Next

LEMMA ChainTypeStep == C!TypeOK /\ [C!Next]_(C!vars) => C!TypeOK'
<1>1. C!TypeOK <=> BoolOK /\ NumOK  BY DEF C!TypeOK, BoolOK, NumOK
<1>2. C!TypeOK' <=> BoolOK' /\ NumOK'  BY DEF C!TypeOK, BoolOK, NumOK
<1> QED  BY <1>1, <1>2, BoolStep, NumStep

LEMMA InitChain == C!Init => ChainInv
<1> SUFFICES ASSUME C!Init PROVE ChainInv  OBVIOUS
<1>1. 0 * HealthPeriod = 0  BY ChainFacts
<1>2. BoolOK  BY Zenon DEF C!Init, BoolOK
<1>3. NumOK  BY ChainFacts, LimitFacts DEF C!Init, NumOK
<1>4. DriveFollowsTick /\ PhaseInv /\ DogInv /\ PoweredInv /\ HealthyInv
  BY <1>1, ChainFacts, LimitFacts
  DEF C!Init, DriveFollowsTick, PhaseInv, DogInv, PoweredInv, HealthyInv
<1> QED  BY <1>2, <1>3, <1>4 DEF ChainInv, C!TypeOK, BoolOK, NumOK

\* What a turn of HealthTask finds: the bounds on the heartbeat at that moment.
LEMMA TurnFacts ==
  ASSUME ChainInv, C!HealthTurn
  PROVE  /\ C!MayRefresh(C!Missed) => sinceHb <= C!StallLimit + MaxLate
         /\ ~C!MayRefresh(C!Missed) => ~fresh /\ sinceHb >= C!StallLimit - MaxLate
         /\ C!Missed \in Nat
<1> USE ChainFacts, LimitFacts DEF ChainInv, C!TypeOK
<1>1. health /\ ~fatal /\ due <= 0  BY DEF C!HealthTurn, C!Released
<1>2. CASE fresh  BY <1>1, <1>2 DEF PhaseInv, C!MayRefresh, C!Missed
<1>3. CASE ~fresh
  <2>1. C!Missed = missed + 1 /\ missed \in Nat  BY <1>3 DEF C!Missed
  <2>2. missed * HealthPeriod \in Nat
        /\ (missed + 1) * HealthPeriod = missed * HealthPeriod + HealthPeriod
        /\ (missed + 2) * HealthPeriod = missed * HealthPeriod + 2 * HealthPeriod
    BY <2>1, ProductStep
  <2>3. sinceHb <= (missed + 2) * HealthPeriod - due
        /\ sinceHb >= (missed + 1) * HealthPeriod - due - MaxLate
    BY <1>1, <1>3, <2>2 DEF PhaseInv
  <2>4. missed + 2 <= StallPeriods => (missed + 2) * HealthPeriod <= C!StallLimit
    BY <2>1, ProductMono DEF C!StallLimit
  <2>5. StallPeriods <= missed + 1 => C!StallLimit <= (missed + 1) * HealthPeriod
    BY <2>1, ProductMono DEF C!StallLimit
  <2>6. (missed + 1) * HealthPeriod \in Nat /\ (missed + 2) * HealthPeriod \in Nat
    BY <2>2
  <2>7. CASE C!MayRefresh(C!Missed)
    <3>1. missed + 2 <= StallPeriods  BY <2>1, <2>7 DEF C!MayRefresh
    <3> QED  BY <3>1, <2>1, <2>3, <2>4, <2>6, <2>7, <1>1
  <2>8. CASE ~C!MayRefresh(C!Missed)
    <3>1. StallPeriods <= missed + 1  BY <2>1, <2>8 DEF C!MayRefresh
    <3> QED  BY <3>1, <2>1, <2>3, <2>5, <2>6, <2>8, <1>1, <1>3
  <2> QED  BY <2>7, <2>8
<1> QED  BY <1>2, <1>3

LEMMA ChainStep == ChainInv /\ [C!Next]_(C!vars) => ChainInv'
<1> SUFFICES ASSUME ChainInv, [C!Next]_(C!vars) PROVE ChainInv'  OBVIOUS
<1>t. C!TypeOK /\ C!TypeOK'  BY ChainTypeStep DEF ChainInv
<1> USE ChainFacts, LimitFacts
<1>m. missed \in Nat /\ missed * HealthPeriod \in Nat  BY <1>t, ProductStep DEF C!TypeOK
<1>1. CASE C!ControlCycle
  BY <1>1, <1>t, <1>m DEF C!ControlCycle, C!parts, ChainInv, C!TypeOK, DriveFollowsTick, PhaseInv,
     DogInv, PoweredInv, HealthyInv
<1>2. CASE C!Command
  BY <1>2, <1>t, <1>m DEF C!Command, C!parts, C!monitor, ChainInv, C!TypeOK, DriveFollowsTick,
     PhaseInv, DogInv, PoweredInv, HealthyInv
<1>3. CASE C!HealthTurn
  <2>0. /\ health /\ ~fatal /\ due <= 0 /\ due' = due + HealthPeriod /\ ~fresh'
        /\ missed' = C!Missed /\ health' = health /\ sinceHb' = sinceHb /\ cmdAge' = cmdAge
        /\ ran' = ran /\ tim' = tim /\ ctrl' = ctrl
    BY <1>3, <1>t DEF C!HealthTurn, C!Released, C!TypeOK
  <2>1. /\ C!MayRefresh(C!Missed) => sinceHb <= C!StallLimit + MaxLate
        /\ ~C!MayRefresh(C!Missed) => ~fresh /\ sinceHb >= C!StallLimit - MaxLate
        /\ C!Missed \in Nat
    BY <1>3, TurnFacts
  <2>2. DriveFollowsTick'
    BY <1>3, <2>0, <1>t DEF C!HealthTurn, C!Released, C!Kill, ChainInv, DriveFollowsTick, C!TypeOK
  <2>3. PhaseInv'
    <3>1. CASE fresh
      <4>1. C!Missed = 0 /\ 0 * HealthPeriod = 0  BY <3>1 DEF C!Missed
      <4> QED  BY <4>1, <3>1, <2>0, <1>t DEF ChainInv, PhaseInv, C!TypeOK
    <3>2. CASE ~fresh
      <4>1. C!Missed * HealthPeriod = missed * HealthPeriod + HealthPeriod
        BY <3>2, <1>m, ProductStep DEF C!Missed
      <4> QED  BY <4>1, <3>2, <2>0, <1>t, <1>m DEF ChainInv, PhaseInv, C!TypeOK
    <3> QED  BY <3>1, <3>2
  <2>4. DogInv'
    <3>1. dogAge' = dogAge \/ (dogAge' = 0 /\ C!MayRefresh(C!Missed))  BY <1>3 DEF C!HealthTurn
    <3>2. sinceHb <= C!StallLimit + MaxLate + dogAge  BY DEF ChainInv, DogInv
    <3>3. sinceHb \in Nat /\ dogAge \in Nat  BY <1>t DEF C!TypeOK
    <3> QED  BY <3>1, <3>2, <3>3, <2>0, <2>1 DEF DogInv
  <2>5. PoweredInv'
    BY <1>3, <2>0, <2>1, <1>t DEF C!HealthTurn, C!Released, C!Kill, C!MayRefresh, ChainInv, PoweredInv, C!TypeOK
  <2>6. HealthyInv'
    BY <1>3, <2>0, <2>1, <1>t DEF C!HealthTurn, C!Released, C!Kill, ChainInv, HealthyInv, C!TypeOK
  <2> QED  BY <2>2, <2>3, <2>4, <2>5, <2>6, <1>t DEF ChainInv
<1>4. CASE C!TimFails \/ C!CtrlFails \/ C!HealthFails
  BY <1>4, <1>t, <1>m DEF C!TimFails, C!CtrlFails, C!HealthFails, C!Fail, C!output, C!monitor, ChainInv,
     C!TypeOK, DriveFollowsTick, PhaseInv, DogInv, PoweredInv, HealthyInv
<1>5. CASE C!FatalHook
  BY <1>5, <1>t, <1>m DEF C!FatalHook, C!Kill, C!monitor, ChainInv, C!TypeOK, DriveFollowsTick,
     PhaseInv, DogInv, PoweredInv, HealthyInv
<1>6. CASE C!Tick
  <2>1. sinceHb' = sinceHb + 1
    BY <1>6, LimitFacts, ChainFacts DEF C!Tick, ChainInv, C!TypeOK, DogInv, C!HbCap
  <2>2. C!TypeOK' /\ DriveFollowsTick' /\ PoweredInv'
    BY <1>6, <2>1, <1>t, <1>m DEF C!Tick, C!parts, ChainInv, C!TypeOK, DriveFollowsTick, PoweredInv
  <2>3. PhaseInv' /\ DogInv' /\ HealthyInv'
    BY <1>6, <2>1, <1>t, <1>m DEF C!Tick, C!parts, ChainInv, C!TypeOK, PhaseInv, DogInv, HealthyInv
  <2> QED  BY <2>2, <2>3 DEF ChainInv
<1>7. CASE C!Reset
  <2>1. 0 * HealthPeriod = 0  OBVIOUS
  <2> QED
    BY <1>7, <1>t, <2>1 DEF C!Reset, ChainInv, C!TypeOK, DriveFollowsTick, PhaseInv, DogInv,
       PoweredInv, HealthyInv
<1>8. CASE UNCHANGED C!vars
  BY <1>8, <1>t DEF C!vars, C!parts, C!output, C!monitor, ChainInv, DriveFollowsTick, PhaseInv,
     DogInv, PoweredInv, HealthyInv
<1> QED  BY <1>1, <1>2, <1>3, <1>4, <1>5, <1>6, <1>7, <1>8 DEF C!Next

-----------------------------------------------------------------------------
(* The theorems.                                                           *)

\* The invariant that carries all the others.
THEOREM ChainInvariant == ChainSpec => []ChainInv
<1>1. C!Init => ChainInv  BY InitChain
<1>2. ChainInv /\ [C!Next]_(C!vars) => ChainInv'  BY ChainStep
<1> QED  BY <1>1, <1>2, PTL DEF ChainSpec, C!Spec

\* Type correctness, with the bounds on HealthTask's phase and the IWDG's age.
THEOREM ChainTypeCorrect == ChainSpec => []C!TypeOK
<1>1. ChainInv => C!TypeOK  BY DEF ChainInv
<1> QED  BY <1>1, ChainInvariant, PTL

LEMMA BoundFollows == ChainInv => PoweredDriveBound
<1> SUFFICES ASSUME ChainInv, powered, drive PROVE cmdAge < Watchdog + C!Reaction
  BY DEF PoweredDriveBound, C!PoweredDriveBound
<1> USE ChainFacts, LimitFacts DEF ChainInv, C!TypeOK
<1>1. cmdAge < Watchdog + sinceHb /\ ~fatal  BY DEF DriveFollowsTick, PoweredInv
<1>2. CASE ~health  BY <1>1, <1>2 DEF DogInv, C!Reaction
<1>3. CASE health
  <2>1. missed + 1 <= StallPeriods  BY <1>3 DEF PoweredInv
  <2>2. (missed + 1) * HealthPeriod <= C!StallLimit  BY <2>1, ProductMono DEF C!StallLimit
  <2>3. missed * HealthPeriod + HealthPeriod <= C!StallLimit /\ missed * HealthPeriod \in Nat
    BY <2>2, ProductStep
  <2>4. sinceHb <= C!StallLimit + HealthPeriod + MaxLate
    BY <1>1, <1>3, <2>3 DEF PhaseInv
  <2> QED  BY <1>1, <1>3, <2>4 DEF C!Reaction
<1> QED  BY <1>2, <1>3

\* A duty never stays on powered outputs beyond the chain's reaction time,
\* whichever of TIM6, ControlTask and HealthTask stop and in whatever order.
THEOREM PoweredDriveIsBounded == ChainSpec => []PoweredDriveBound
  BY ChainInvariant, BoundFollows, PTL

\* A board on which nothing failed is neither cut off nor reset.
THEOREM HealthyBoardStaysUp == ChainSpec => []HealthyStaysUp
<1>1. ChainInv => HealthyStaysUp
  BY ChainFacts DEF ChainInv, HealthyInv, HealthyStaysUp, C!HealthyStaysUp, C!TypeOK
<1> QED  BY <1>1, ChainInvariant, PTL

\* HealthTask cuts the output only when the heartbeat really stood still.
THEOREM KillsAreDeserved == ChainSpec => KillIsDeserved
<1>1. ChainInv /\ [C!Next]_(C!vars)
        => [powered /\ ~powered' /\ ~fatal' => sinceHb >= C!StallLimit - MaxLate]_(C!vars)
  <2> SUFFICES ASSUME ChainInv, [C!Next]_(C!vars), powered, ~powered', ~fatal'
               PROVE sinceHb >= C!StallLimit - MaxLate
    OBVIOUS
  <2>1. CASE C!HealthTurn
    <3>1. ~C!MayRefresh(C!Missed)  BY <2>1 DEF C!HealthTurn
    <3> QED  BY <2>1, <3>1, TurnFacts
  <2>2. ~C!ControlCycle /\ ~C!Command /\ ~C!Tick /\ ~C!Reset /\ ~UNCHANGED C!vars /\ ~C!FatalHook
        /\ ~C!TimFails /\ ~C!CtrlFails /\ ~C!HealthFails
    BY DEF C!ControlCycle, C!Command, C!Tick, C!Reset, C!FatalHook, C!TimFails, C!CtrlFails,
       C!HealthFails, C!Fail, C!output, C!vars
  <2> QED  BY <2>1, <2>2 DEF C!Next
<1> QED  BY <1>1, ChainInvariant, PTL DEF ChainSpec, C!Spec, KillIsDeserved, C!KillIsDeserved
=============================================================================

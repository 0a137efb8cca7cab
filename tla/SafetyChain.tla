----------------------------- MODULE SafetyChain -----------------------------
(***************************************************************************)
(* The chain that cuts a live duty when the control loop itself fails: the *)
(* TIM6 tick, ControlTask's heartbeat, HealthTask's stall monitor          *)
(* (health_policy.c), the independent watchdog and the fatal hook.         *)
(*                                                                         *)
(* Time passes in control periods.  ControlTask is ControlCore reduced to  *)
(* a duty that is present or absent and the age of the command behind it.  *)
(* TIM6, ControlTask and HealthTask may each stop, TIM6 and ControlTask    *)
(* may also come back; a reset brings everything back.                     *)
(***************************************************************************)
EXTENDS Integers

CONSTANTS
  Watchdog,      \* CMD_WATCHDOG_MS, in control periods
  HealthPeriod,  \* HEALTH_PERIOD_MS, in control periods
  StallPeriods,  \* HEALTH_HEARTBEAT_STALL_MS / HEALTH_PERIOD_MS
  DogMin,        \* the IWDG may reset this long after a refresh (fast LSI) ...
  DogMax,        \* ... and has reset by then (slow LSI)
  MaxLate        \* longest time a released HealthTask waits for the CPU

StallLimit == StallPeriods * HealthPeriod

\* The limits the properties are about (assumed in ControlChain).
LimitsOK ==
  /\ Watchdog \in Nat \ {0} /\ HealthPeriod \in Nat \ {0}
  /\ StallPeriods \in Nat \ {0} /\ MaxLate \in Nat
  /\ DogMin \in Nat /\ DogMax \in Nat /\ DogMin <= DogMax
  /\ HealthPeriod + MaxLate < DogMin   \* a healthy HealthTask feeds in time
  /\ MaxLate + 1 < StallLimit          \* and is never late by a whole stall limit

VARIABLES
  tim, ctrl, health,   \* TIM6 ticks, ControlTask and HealthTask run
  fatal,               \* rtos_app_fatal(): interrupts off for good
  ran,                 \* ControlTask has served this period's tick
  drive, moe, age,     \* duty in CCR, output enabled, age of its command
  fresh,               \* status heartbeat # last_heartbeat
  missed,              \* stall_ms, in health periods
  due,                 \* time to HealthTask's next release, negative when late
  dogAge,              \* time since the IWDG was refreshed
  sinceHb,             \* time since the heartbeat last advanced
  wounded              \* something has failed since the last reset

parts == <<tim, ctrl, health, fatal>>
output == <<drive, moe, age>>
monitor == <<fresh, missed, due>>
vars == <<parts, ran, output, monitor, dogAge, sinceHb, wounded>>

\* Ages saturate here, beyond every bound below.
AgeCap == Watchdog + StallLimit + HealthPeriod + MaxLate + DogMax
HbCap == StallLimit + MaxLate + DogMax

-----------------------------------------------------------------------------
(* ControlTask.                                                            *)

\* A tick: the heartbeat advances, an expired command is taken out of CCR.
ControlCycle ==
  /\ tim /\ ctrl /\ ~fatal /\ ~ran
  /\ ran' = TRUE /\ fresh' = TRUE /\ sinceHb' = 0
  /\ drive' = (drive /\ age < Watchdog)
  /\ UNCHANGED <<parts, moe, age, missed, due, dogAge, wounded>>

\* A command or a stop needs no tick and gives no heartbeat.  It may have been
\* accepted up to a watchdog time ago.
Command ==
  \E a \in 0 .. Watchdog - 1, d \in BOOLEAN :
    /\ ctrl /\ ~fatal
    /\ drive' = d /\ age' = a
    /\ UNCHANGED <<parts, ran, moe, monitor, dogAge, sinceHb, wounded>>

-----------------------------------------------------------------------------
(* HealthTask.                                                             *)

\* platform_motor_kill(): MOE off, CCR 0.
Kill == moe' = FALSE /\ drive' = FALSE

\* health_monitor_update(): an advanced heartbeat ends the stall; every other
\* observation adds HEALTH_PERIOD_MS, whatever time really passed.
StickyStall == missed + 1
NeverCounts == 0
Missed == IF fresh THEN 0 ELSE missed + 1
FeedOneLater(m) == m <= StallPeriods
MayRefresh(m) == m < StallPeriods

\* vTaskDelayUntil() has let the task go.
AlwaysReleased == TRUE
Released == due <= 0

\* One turn of health_task().  vTaskDelayUntil() releases it at fixed times; a
\* late task catches up with several turns in a row.  A failed refresh is fatal.
HealthTurn ==
  /\ health /\ ~fatal /\ Released
  /\ due' = due + HealthPeriod
  /\ fresh' = FALSE
  /\ missed' = Missed
  /\ \/ /\ MayRefresh(Missed)
        /\ dogAge' = 0
        /\ UNCHANGED <<fatal, moe, drive, wounded>>
     \/ /\ MayRefresh(Missed)
        /\ fatal' = TRUE /\ wounded' = TRUE /\ Kill
        /\ UNCHANGED dogAge
     \/ /\ ~MayRefresh(Missed)
        /\ Kill
        /\ UNCHANGED <<fatal, dogAge, wounded>>
  /\ UNCHANGED <<tim, ctrl, health, ran, age, sinceHb>>

-----------------------------------------------------------------------------
(* Failures, time and reset.                                               *)

Fail(tm, ct, he) ==
  /\ ~fatal
  /\ <<tm, ct, he>> # <<tim, ctrl, health>>
  /\ tim' = tm /\ ctrl' = ct /\ health' = he /\ wounded' = TRUE
  /\ UNCHANGED <<fatal, ran, output, monitor, dogAge, sinceHb>>

\* TIM6 or ControlTask stops or comes back; HealthTask stops.
TimFails == Fail(~tim, ctrl, health)
CtrlFails == Fail(tim, ~ctrl, health)
HealthFails == Fail(tim, ctrl, FALSE)

\* configASSERT, stack overflow, malloc failure, Error_Handler().
FatalHook ==
  /\ ~fatal /\ fatal' = TRUE /\ wounded' = TRUE
  /\ Kill
  /\ UNCHANGED <<tim, ctrl, health, ran, age, monitor, dogAge, sinceHb>>

\* One control period passes.  ControlTask has the highest priority and serves
\* the tick within it; HealthTask is never later than MaxLate.
Tick ==
  /\ dogAge < DogMax
  /\ tim /\ ctrl /\ ~fatal => ran
  /\ health /\ ~fatal => due > -MaxLate
  /\ ran' = FALSE
  /\ age' = IF age < AgeCap THEN age + 1 ELSE age
  /\ due' = IF health /\ ~fatal THEN due - 1 ELSE due
  /\ dogAge' = dogAge + 1
  /\ sinceHb' = IF sinceHb < HbCap THEN sinceHb + 1 ELSE sinceHb
  /\ UNCHANGED <<parts, drive, moe, fresh, missed, wounded>>

\* platform_init(), rtos_app_init() and the first refresh of health_task().
Init ==
  /\ tim = TRUE /\ ctrl = TRUE /\ health = TRUE /\ fatal = FALSE /\ ran = FALSE
  /\ drive = FALSE /\ moe = TRUE /\ age = AgeCap
  /\ fresh = FALSE /\ missed = 0 /\ due = HealthPeriod
  /\ dogAge = 0 /\ sinceHb = 0 /\ wounded = FALSE

\* The IWDG resets the MCU.
Reset ==
  /\ dogAge >= DogMin
  /\ tim' = TRUE /\ ctrl' = TRUE /\ health' = TRUE /\ fatal' = FALSE /\ ran' = FALSE
  /\ drive' = FALSE /\ moe' = TRUE /\ age' = AgeCap
  /\ fresh' = FALSE /\ missed' = 0 /\ due' = HealthPeriod
  /\ dogAge' = 0 /\ sinceHb' = 0 /\ wounded' = FALSE

Next ==
  \/ ControlCycle \/ Command \/ HealthTurn
  \/ TimFails \/ CtrlFails \/ HealthFails \/ FatalHook
  \/ Tick \/ Reset

\* Time passes however often parts flicker (hence SF), a task that runs gets the
\* CPU, the IWDG does its work.  Nothing is assumed of commands and failures.
Fairness ==
  SF_vars(Tick) /\ WF_vars(ControlCycle) /\ WF_vars(HealthTurn) /\ WF_vars(Reset)

Spec == Init /\ [][Next]_vars
FairSpec == Spec /\ Fairness

-----------------------------------------------------------------------------
(* Properties.                                                             *)

\* Every variable has its type; the monitor's and the watchdog's clocks stay in
\* their bounds.
TypeOK ==
  /\ tim \in BOOLEAN /\ ctrl \in BOOLEAN /\ health \in BOOLEAN /\ fatal \in BOOLEAN
  /\ ran \in BOOLEAN /\ drive \in BOOLEAN /\ moe \in BOOLEAN /\ fresh \in BOOLEAN
  /\ wounded \in BOOLEAN
  /\ age \in 0 .. AgeCap /\ missed \in Nat /\ sinceHb \in Nat
  /\ due \in -MaxLate .. HealthPeriod /\ dogAge \in 0 .. DogMax

\* How long a dead control loop can leave a duty on powered outputs: HealthTask
\* notices after the stall limit and at most one more period; without HealthTask
\* it takes the IWDG.
Reaction == StallLimit + MaxLate + (IF health THEN HealthPeriod ELSE DogMax)

\* Whatever stops, in whatever order, the motors are not driven by a command
\* older than its watchdog time plus the reaction time of the chain.
PoweredDriveBound == moe /\ drive => age < Watchdog + Reaction

\* A board on which nothing failed is never cut off and never reset, however
\* HealthTask's turns fall within its lateness.
HealthyStaysUp == ~wounded => moe /\ dogAge < DogMin

\* HealthTask cuts the output only after the heartbeat really stood still for
\* the stall limit, less its own lateness.
KillIsDeserved ==
  [][moe /\ ~moe' /\ ~fatal' => sinceHb >= StallLimit - MaxLate]_vars

\* A part that stopped and stays stopped ends in a reset.
DeadPartIsReset ==
  ~(tim /\ ctrl /\ health /\ ~fatal) ~> tim /\ ctrl /\ health /\ ~fatal

(* What a comment of the source says and the code does not do.             *)

\* rtos_app.c, of HealthTask's kill: "the fatal path ... so that no PWM is left
\* while waiting for the reset".  MOE is restored by a reset only.
KillEndsInReset == ~moe ~> moe
=============================================================================

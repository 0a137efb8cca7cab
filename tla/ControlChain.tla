---------------------------- MODULE ControlChain ----------------------------
(***************************************************************************)
(* SafetyChain as the surroundings of ControlCore: what happens to a duty  *)
(* when the task that runs the core stops.  MOE and the age of the command *)
(* have names of their own here (`powered', `cmdAge'), since `moe' and     *)
(* `age' are ControlCore's, so that the two can stand in one module.       *)
(***************************************************************************)
EXTENDS Integers

CONSTANTS Watchdog, HealthPeriod, StallPeriods, DogMin, DogMax, MaxLate

VARIABLES tim, ctrl, health, fatal, ran, drive, powered, cmdAge, fresh, missed,
          due, dogAge, sinceHb, wounded

C == INSTANCE SafetyChain WITH moe <- powered, age <- cmdAge

ASSUME LimitsAssumption == C!LimitsOK

ChainSpec == C!Spec
FairChainSpec == C!FairSpec

\* Whatever stops, in whatever order, the motors are not driven by a command
\* older than its watchdog time plus the reaction time of the chain (health_task()).
PoweredDriveBound == C!PoweredDriveBound

\* A board on which nothing failed is never cut off and never reset (health_task(),
\* health_monitor_update()).
HealthyStaysUp == C!HealthyStaysUp

\* HealthTask cuts the output only after the heartbeat really stood still for
\* the stall limit, less its own lateness (health_monitor_update()).
KillIsDeserved == C!KillIsDeserved

\* A part that stopped and stays stopped ends in a reset (MX_IWDG_Init()).
DeadPartIsReset == C!DeadPartIsReset
=============================================================================

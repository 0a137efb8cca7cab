-------------------------------- MODULE Drive --------------------------------
(***************************************************************************)
(* What the base controller promises whoever commands it, in true time:    *)
(* no clock that wraps, no wheels, no modes, no counters.  A demand lasts  *)
(* exactly as long as its command's watchdog time, to the next commit,     *)
(* unless a stop, a fault or the next command ends it; power and faults    *)
(* go one way.  The permission it shows is as exact, until the time is too *)
(* long ago for the clock to tell.  ControlCore implements this module.    *)
(***************************************************************************)
EXTENDS Integers

CONSTANTS
  Watchdog,     \* CMD_WATCHDOG_MS
  MaxGap        \* longest time between two commits

VARIABLES
  demanded,     \* a duty or a target is remembered
  allowed,      \* output_allowed
  powered,      \* MOE
  faulted,      \* a fault is latched
  age,          \* time since the command last accepted was stamped
  sinceCommit   \* time since the last commit

vars == <<demanded, allowed, powered, faulted, age, sinceCommit>>

\* age saturates here: no demand is that old.
AgeCap == Watchdog + MaxGap

\* What a commit says of the permission.
Permit ==
  /\ allowed' \in BOOLEAN
  /\ age < AgeCap => allowed' = (age < Watchdog /\ ~faulted)
  /\ faulted => ~allowed'

\* A command in time replaces the demand; it may ask for nothing.
Accept ==
  /\ ~faulted
  /\ age' \in 0 .. Watchdog - 1
  /\ demanded' \in BOOLEAN /\ allowed' = TRUE /\ sinceCommit' = 0
  /\ UNCHANGED <<powered, faulted>>

\* A tick, or a command that is rejected, neither ends a demand early nor
\* keeps an expired one.
Keep ==
  /\ demanded' = (demanded /\ age < Watchdog) /\ Permit /\ sinceCommit' = 0
  /\ UNCHANGED <<powered, faulted, age>>

\* A stop drops the demand; the permission stays until its time is over.
Stop ==
  /\ demanded' = FALSE /\ Permit /\ sinceCommit' = 0
  /\ UNCHANGED <<powered, faulted, age>>

Latch ==
  /\ faulted' = TRUE /\ powered' = FALSE /\ demanded' = FALSE /\ allowed' = FALSE
  /\ sinceCommit' = 0 /\ UNCHANGED age

\* Any task may cut the output; the demand is not its business.
Kill ==
  /\ powered' = FALSE
  /\ UNCHANGED <<demanded, allowed, faulted, age, sinceCommit>>

Elapse ==
  /\ sinceCommit < MaxGap
  /\ sinceCommit' = sinceCommit + 1
  /\ age' = IF age < AgeCap THEN age + 1 ELSE age
  /\ UNCHANGED <<demanded, allowed, powered, faulted>>

Init ==
  /\ demanded = FALSE /\ allowed = FALSE /\ powered = TRUE /\ faulted = FALSE
  /\ age = AgeCap /\ sinceCommit = 0

Next == Accept \/ Keep \/ Stop \/ Latch \/ Kill \/ Elapse

Spec == Init /\ [][Next]_vars
=============================================================================

------------------------------- MODULE MicroRos -------------------------------
(***************************************************************************)
(* MicroRosTask: the agent connection state machine of agent_link.c, the   *)
(* task loop, entity life cycle, time synchronisation and /cmd_vel path of *)
(* micro_ros_app.c, and the /base/status message it derives from           *)
(* ControlTask's snapshot.                                                 *)
(*                                                                         *)
(* A turn of the task reads the clock once and then makes calls that may   *)
(* block; time passes between the steps of a turn.  ControlTask preempts   *)
(* it and is reduced to what ControlCore promises: a command drives until  *)
(* the watchdog time after its acceptance stamp, a stop ends it.  The unit *)
(* of time is no shorter than a control period, so ControlTask sees an     *)
(* expired deadline in the unit in which it expires.                       *)
(*                                                                         *)
(* Deadlines are kept as the time left, ages as the time passed.  The      *)
(* agent, the rcl calls and the host's /cmd_vel stream are the environment.*)
(* Abstracted: the periods of time synchronisation and publication (either *)
(* may happen in any turn), /joint_states and /imu, counters, kinematics.  *)
(***************************************************************************)
EXTENDS Integers, Sequences

CONSTANTS
  Watchdog,     \* CMD_WATCHDOG_MS = CMD_VEL_MAX_AGE_MS
  BackoffMin,   \* AGENT_BACKOFF_MIN_MS
  BackoffMax,   \* AGENT_BACKOFF_MAX_MS
  AlivePing,    \* AGENT_ALIVE_PING_MS
  PingRetry,    \* AGENT_PING_RETRY_MS
  PingFailLimit,\* AGENT_PING_FAIL_LIMIT
  Entities,     \* what entities_create() makes: the support, then all that needs it
  MaxBlock,     \* longest turn of the task
  MaxSkew,      \* largest error of a synchronised epoch, either way
  MaxWire       \* bound on /cmd_vel messages under way

ASSUME MicroRosAssumption ==
  /\ Watchdog \in Nat \ {0} /\ BackoffMin \in Nat \ {0} /\ BackoffMax \in Nat
  /\ BackoffMin <= BackoffMax
  /\ AlivePing \in Nat \ {0} /\ PingRetry \in Nat \ {0} /\ PingFailLimit \in Nat \ {0}
  /\ Entities \in Nat \ {0} /\ MaxBlock \in Nat /\ MaxWire \in Nat
  /\ MaxSkew \in 0 .. Watchdog

VARIABLES
  \* agent_link_t
  state, pingIn, streak, backoff, stopPending,
  \* MicroRosTask: where it is, the result in hand, time since now_ms was read
  pc, ok, turnAge,
  \* s_entities_created; the entities whose handles own memory; history: those
  \* of them that did not give it up when asked, or that nobody can ask
  created, held, refused,
  \* the rmw epoch: synchronised, and its error
  synced, skew,
  \* ControlTask: a duty is applied, now - last_feed_ms, true age of its command
  drive, feedAge, trueAge,
  \* the agent is reachable; messages under way, the oldest first; the message
  \* /base/status last published in this turn
  agentUp, wire, pub

linkVars == <<state, pingIn, streak, backoff, stopPending>>
taskVars == <<pc, ok, turnAge>>
entityVars == <<created, held, refused>>
epochVars == <<synced, skew>>
ctrlVars == <<drive, feedAge, trueAge>>
vars == <<linkVars, taskVars, entityVars, epochVars, ctrlVars, agentUp, wire, pub>>

\* In the order of their creation.
Entity == 1 .. Entities

\* Ages saturate here, beyond what any comparison below tells apart.
AgeCap == Watchdog + MaxSkew + MaxBlock + 1
Older(a) == IF a < AgeCap THEN a + 1 ELSE a
NoStatus == [published |-> FALSE, watchdogOk |-> FALSE, driving |-> FALSE]

-----------------------------------------------------------------------------
(* agent_link.c                                                            *)

\* agent_link_next(): a ping comes before a spin.
NeverDestroys ==
  CASE state = "WAITING"      -> IF pingIn = 0 THEN "ping" ELSE "wait"
    [] state = "AVAILABLE"    -> "create"
    [] state = "CONNECTED"    -> IF pingIn = 0 THEN "ping" ELSE "spin"
    [] state = "DISCONNECTED" -> "wait"
AgentNext ==
  CASE state = "WAITING"      -> IF pingIn = 0 THEN "ping" ELSE "wait"
    [] state = "AVAILABLE"    -> "create"
    [] state = "CONNECTED"    -> IF pingIn = 0 THEN "ping" ELSE "spin"
    [] state = "DISCONNECTED" -> "destroy"

\* enter_state(): leaving CONNECTED asks for a stop.
EnterQuietly(next) == state' = next /\ UNCHANGED stopPending
EnterState(next) ==
  /\ state' = next
  /\ stopPending' = (stopPending \/ (state = "CONNECTED" /\ next # "CONNECTED"))

Stay == UNCHANGED <<state, stopPending>>

\* grow_backoff()
GrowUncapped == backoff * 2
GrowBackoff == IF backoff * 2 > BackoffMax THEN BackoffMax ELSE backoff * 2

ReportPing ==
  \/ /\ state = "WAITING" /\ ok
     /\ backoff' = BackoffMin /\ streak' = 0
     /\ EnterState("AVAILABLE")
     /\ UNCHANGED pingIn
  \/ /\ state = "WAITING" /\ ~ok
     /\ pingIn' = backoff /\ backoff' = GrowBackoff
     /\ Stay /\ UNCHANGED streak
  \/ /\ state = "CONNECTED" /\ ok
     /\ streak' = 0 /\ pingIn' = AlivePing
     /\ Stay /\ UNCHANGED backoff
  \/ /\ state = "CONNECTED" /\ ~ok
     /\ streak' = streak + 1
     /\ IF streak + 1 >= PingFailLimit
        THEN EnterState("DISCONNECTED") /\ UNCHANGED pingIn
        ELSE pingIn' = PingRetry /\ Stay
     /\ UNCHANGED backoff

ReportCreate ==
  \/ /\ ok
     /\ streak' = 0 /\ pingIn' = AlivePing
     /\ EnterState("CONNECTED")
     /\ UNCHANGED backoff
  \/ /\ ~ok
     /\ EnterState("DISCONNECTED")
     /\ UNCHANGED <<streak, pingIn, backoff>>

ReportSpin ==
  /\ IF ok THEN Stay ELSE EnterState("DISCONNECTED")
  /\ UNCHANGED <<streak, pingIn, backoff>>

\* A failed clean-up is no reason to stay.
ReportDestroy ==
  /\ streak' = 0 /\ backoff' = BackoffMin /\ pingIn' = BackoffMin
  /\ EnterState("WAITING")

-----------------------------------------------------------------------------
(* micro_ros_task(): one turn.                                             *)

envVars == <<agentUp, wire>>

TurnStart ==
  /\ pc = "idle"
  /\ pc' = AgentNext /\ ok' = TRUE /\ turnAge' = 0
  /\ UNCHANGED <<linkVars, entityVars, epochVars, ctrlVars, envVars, pub>>

DoPing ==
  /\ pc = "ping"
  /\ pc' = "reportPing" /\ ok' \in {agentUp, FALSE}     \* the answer may be lost
  /\ UNCHANGED <<linkVars, turnAge, entityVars, epochVars, ctrlVars, envVars, pub>>

\* entities_create() zeroes the handles, whatever they still own, and stops at the
\* first call that fails; the last one only enters the subscription in the executor.
\* A call that fails may leave something behind.  Before the support is made
\* s_entities_created is not set, and nobody will ask for what is left of it.
Creates ==
  /\ ok' = TRUE /\ pc' = "reportCreate"
  /\ created' = TRUE /\ held' = Entity /\ refused' = {}
FailsAt(k) ==
  /\ ok' = FALSE /\ pc' = "undo"
  /\ created' = (created \/ k > 1)
  /\ held' \in {1 .. k - 1, (1 .. k) \cap Entity}
  /\ refused' = IF k = 1 THEN held' ELSE {}

\* A new session may or may not keep the epoch of the old one.
DoCreate ==
  /\ pc = "create"
  /\ \/ agentUp /\ Creates
     \/ \E k \in 1 .. Entities + 1 : FailsAt(k)
  /\ synced' \in {synced, FALSE}
  /\ UNCHANGED <<linkVars, turnAge, skew, ctrlVars, envVars, pub>>

\* entities_destroy(): asks all of them, whatever fails; one that fails may or may
\* not have given its memory up.
StopsAtError(released) ==
  \/ ~created /\ released /\ UNCHANGED entityVars
  \/ /\ created /\ created' = FALSE
     /\ held' \in SUBSET held
     /\ IF held' = {} THEN refused' = {} ELSE ~released /\ \E e \in held' : refused' = {e}
EntitiesDestroy(released) ==
  \/ ~created /\ released /\ UNCHANGED entityVars
  \/ /\ created /\ created' = FALSE
     /\ held' \in SUBSET held /\ refused' = held'
     /\ released => held' = {}

\* micro_ros_task() takes back what a creation left half-way, and ignores the result.
DoUndo ==
  /\ pc = "undo" /\ pc' = "reportCreate"
  /\ \E released \in BOOLEAN : EntitiesDestroy(released)
  /\ UNCHANGED <<linkVars, ok, turnAge, epochVars, ctrlVars, envVars, pub>>

DoDestroy ==
  /\ pc = "destroy" /\ pc' = "reportDestroy"
  /\ \E released \in BOOLEAN : EntitiesDestroy(released) /\ ok' = released
  /\ UNCHANGED <<linkVars, turnAge, epochVars, ctrlVars, envVars, pub>>

\* spin_once(), first part: time synchronisation when it is due.
SpinSync ==
  /\ pc = "spin"
  /\ pc' = "exec"
  /\ \/ agentUp /\ synced' = TRUE /\ skew' \in -MaxSkew .. MaxSkew
     \/ UNCHANGED epochVars              \* not due, or failed
  /\ UNCHANGED <<linkVars, ok, turnAge, entityVars, ctrlVars, envVars, pub>>

\* agent_link_check_stamp(): the age as the MCU sees it, and the verdict.
EstimatedAge(m) == m.age + skew
StampOk(m) ==
  /\ synced /\ m.kind # "unstamped"
  /\ -Watchdog <= EstimatedAge(m) /\ EstimatedAge(m) <= Watchdog
FreshOnArrival(m) == 0
CommandAge(m) == IF EstimatedAge(m) < 0 THEN 0 ELSE EstimatedAge(m)

\* cmd_vel_callback() and, in control_core_on_command(), the refusal of a
\* command at its deadline, CMD_WATCHDOG_MS after accepted_ms = now_ms - age.
Applies(m) == StampOk(m) /\ m.kind # "nan" /\ CommandAge(m) < Watchdog
CmdVel(m) ==
  \/ /\ Applies(m)
     /\ drive' = (m.kind = "go")
     /\ feedAge' = CommandAge(m) /\ trueAge' = m.age
  \/ /\ ~Applies(m)
     /\ UNCHANGED ctrlVars

\* rclc_executor_spin_some(): at most one message; it may report an error.
SpinExec ==
  /\ pc = "exec"
  /\ \/ wire = <<>> /\ UNCHANGED <<ctrlVars, wire>>
     \/ wire # <<>> /\ CmdVel(Head(wire)) /\ wire' = Tail(wire)
  /\ \/ pc' = "publish" /\ UNCHANGED ok
     \/ pc' = "reportSpin" /\ ok' = FALSE
  /\ UNCHANGED <<linkVars, turnAge, entityVars, epochVars, agentUp, pub>>

\* publish_base_status(): now_ms is the time the turn began, so an acceptance
\* stamp younger than the turn makes the uint32_t age wrap round.
SignedAge == feedAge - turnAge
WatchdogOk == SignedAge >= 0 /\ SignedAge <= Watchdog
SpinPublish ==
  /\ pc = "publish"
  /\ pc' = "reportSpin"
  /\ \/ pub' = [published |-> TRUE, watchdogOk |-> WatchdogOk, driving |-> drive]
     \/ UNCHANGED pub                    \* not due
  /\ UNCHANGED <<linkVars, ok, turnAge, entityVars, epochVars, ctrlVars, envVars>>

\* agent_link_report()
Report ==
  /\ \/ pc = "reportPing" /\ ReportPing
     \/ pc = "reportCreate" /\ ReportCreate
     \/ pc = "reportSpin" /\ ReportSpin
     \/ pc = "reportDestroy" /\ ReportDestroy
     \/ pc = "wait" /\ Stay /\ UNCHANGED <<streak, pingIn, backoff>>
  /\ pc' = "stop"
  /\ UNCHANGED <<ok, turnAge, entityVars, epochVars, ctrlVars, envVars, pub>>
\* agent_link_take_stop_request() and the unlatched app_link_urgent_stop().
Stop ==
  /\ pc = "stop"
  /\ drive' = (drive /\ ~stopPending)
  /\ stopPending' = FALSE
  /\ pc' = "idle" /\ pub' = NoStatus
  /\ UNCHANGED <<state, pingIn, streak, backoff, ok, turnAge, entityVars, epochVars,
                 feedAge, trueAge, envVars>>

-----------------------------------------------------------------------------
(* The environment.                                                        *)

\* One unit of time.  ControlTask stops a drive whose deadline has come.
Tick ==
  /\ pc # "idle" => turnAge < MaxBlock
  /\ turnAge' = IF pc = "idle" THEN turnAge ELSE turnAge + 1
  /\ pingIn' = IF pingIn > 0 THEN pingIn - 1 ELSE 0
  /\ feedAge' = Older(feedAge) /\ trueAge' = Older(trueAge)
  /\ drive' = (drive /\ feedAge' < Watchdog)
  /\ wire' = [i \in DOMAIN wire |-> [wire[i] EXCEPT !.age = Older(@)]]
  /\ UNCHANGED <<state, streak, backoff, stopPending, pc, ok, entityVars,
                 epochVars, agentUp, pub>>

\* The host publishes /cmd_vel: a motion, a halt, one with a zero stamp, one
\* with a value that is not a number.
MessageKinds == {"go", "halt", "unstamped", "nan"}
HostSends ==
  /\ Len(wire) < MaxWire
  /\ \E k \in MessageKinds : wire' = Append(wire, [age |-> 0, kind |-> k])
  /\ UNCHANGED <<linkVars, taskVars, entityVars, epochVars, ctrlVars, agentUp, pub>>

\* Best effort: a message may be lost.
MessageLost ==
  /\ wire # <<>> /\ wire' = Tail(wire)
  /\ UNCHANGED <<linkVars, taskVars, entityVars, epochVars, ctrlVars, agentUp, pub>>

AgentFlips ==
  /\ agentUp' = ~agentUp
  /\ UNCHANGED <<linkVars, taskVars, entityVars, epochVars, ctrlVars, wire, pub>>

\* agent_link_init(), motor_safety_init(): the watchdog starts expired.
Init ==
  /\ state = "WAITING" /\ pingIn = 0 /\ streak = 0 /\ backoff = BackoffMin
  /\ stopPending = FALSE
  /\ pc = "idle" /\ ok = TRUE /\ turnAge = 0
  /\ created = FALSE /\ held = {} /\ refused = {} /\ synced = FALSE /\ skew = 0
  /\ drive = FALSE /\ feedAge = Watchdog /\ trueAge = AgeCap
  /\ agentUp \in BOOLEAN /\ wire = <<>> /\ pub = NoStatus

Turn ==
  \/ TurnStart \/ DoPing \/ DoCreate \/ DoUndo \/ DoDestroy
  \/ SpinSync \/ SpinExec \/ SpinPublish \/ Report \/ Stop
Next == Turn \/ Tick \/ HostSends \/ MessageLost \/ AgentFlips

Spec == Init /\ [][Next]_vars

(* The task is scheduled, time passes, and a reachable agent does not leave *)
(* every ping or every creation of the entities unanswered.                *)
FairSpec ==
  /\ Spec
  /\ WF_vars(Turn) /\ WF_vars(Tick)
  /\ SF_vars(DoPing /\ ok') /\ SF_vars(DoCreate /\ ok')

-----------------------------------------------------------------------------
(* Properties.                                                             *)

\* Every variable has its type; the backoff stays within its bounds.
TypeOK ==
  /\ state \in {"WAITING", "AVAILABLE", "CONNECTED", "DISCONNECTED"}
  /\ pingIn \in Nat /\ streak \in 0 .. PingFailLimit
  /\ backoff \in BackoffMin .. BackoffMax /\ stopPending \in BOOLEAN
  /\ pc \in {"idle", "wait", "ping", "create", "undo", "spin", "exec", "publish", "destroy",
             "reportPing", "reportCreate", "reportSpin", "reportDestroy", "stop"}
  /\ ok \in BOOLEAN /\ turnAge \in 0 .. MaxBlock
  /\ created \in BOOLEAN /\ held \subseteq Entity /\ refused \subseteq held
  /\ synced \in BOOLEAN /\ skew \in -MaxSkew .. MaxSkew
  /\ drive \in BOOLEAN /\ feedAge \in 0 .. AgeCap /\ trueAge \in 0 .. AgeCap
  /\ agentUp \in BOOLEAN
  /\ wire \in Seq([age : 0 .. AgeCap, kind : MessageKinds]) /\ Len(wire) <= MaxWire
  /\ pub \in [published : BOOLEAN, watchdogOk : BOOLEAN, driving : BOOLEAN]

(* However late a /cmd_vel is delivered and across however many            *)
(* reconnections, it never drives the base longer than the watchdog time   *)
(* plus the clock error after the host stamped it: cmd_vel_callback() takes *)
(* the age off the deadline instead of starting a new one.                 *)
StaleNeverDrives == drive => trueAge < Watchdog + MaxSkew

(* Between turns no /cmd_vel drives the base unless the session is          *)
(* connected: every way out of CONNECTED goes through the urgent stop,     *)
(* also one taken in the turn that accepted a command.                     *)
LinkLossStops == pc = "idle" /\ state # "CONNECTED" => ~drive

(* What entities_create() zeroes without a look, over any history of       *)
(* failed creations, lost links and failed clean-ups, was asked for before *)
(* and not given up (agent_link.c:170), or is left of a support that could *)
(* not be made: no path forgets to ask.  And no path asks too early:       *)
(* spin_once() never works with an entity that was not made or was         *)
(* destroyed.                                                              *)
NoEntityForgotten ==
  /\ pc = "create" => held \subseteq refused
  /\ pc \in {"spin", "exec", "publish"} => created /\ held = Entity

(* An agent that stays reachable gets a connected session again and again, *)
(* whatever pings, creations and spins failed before: no state of          *)
(* agent_link.c is a dead end.                                             *)
Reconnects == <>[]agentUp => []<>(state = "CONNECTED")

(* mr_msgs/msg/BaseStatus.msg: cmd_watchdog_ok is false only when the       *)
(* command has expired and the motors are stopped.                         *)
FalseMeansStopped == pub.published /\ ~pub.watchdogOk => ~pub.driving
=============================================================================

---------------------------- MODULE MicroRos_proofs ----------------------------
(***************************************************************************)
(* Proofs about MicroRos, for every choice of the times, of the longest    *)
(* turn, of the clock error and of the number of messages under way that   *)
(* MicroRosAssumption admits; and, at the end, about what the task stands  *)
(* on: the pool it allocates from (Heap) and the ring it receives through  *)
(* (Uart1, as MicroRosRing has it), each an instance of its own.           *)
(*                                                                         *)
(* None of the three properties is inductive.  They speak of the moments   *)
(* between turns or of the true age of a command, which the code cannot    *)
(* see; LinkInv says what holds in the middle of a turn: which states of   *)
(* agent_link.c a step of micro_ros_task() is taken in, that a stop asked  *)
(* for is still to come, which entities were not asked for, and how far    *)
(* the MCU's age of a command may be from the true one.                    *)
(***************************************************************************)
EXTENDS MicroRos, MicroRosRing, SequenceTheorems, TLAPS

Msg == [age : 0 .. AgeCap, kind : MessageKinds]

\* The step micro_ros_task() is at was chosen in this state of the link.
PhaseInv ==
  /\ pc \in {"create", "undo", "reportCreate"} => state = "AVAILABLE"
  /\ pc \in {"spin", "exec", "publish", "reportSpin"} => state = "CONNECTED"
  /\ pc \in {"destroy", "reportDestroy"} => state = "DISCONNECTED"
  /\ pc \in {"ping", "reportPing"} => state \in {"WAITING", "CONNECTED"}
  /\ pc = "wait" => state = "WAITING"

\* A connected session has not used up its pings.
StreakInv == state = "CONNECTED" => streak < PingFailLimit

\* A drive outlives its session only until the stop that is asked for.
StopInv ==
  /\ drive /\ state # "CONNECTED" => stopPending
  /\ stopPending => pc = "stop"

\* What is held is either still to be asked for, which s_entities_created says, or
\* was asked for in vain.  The flag and the state of the link go together except
\* around the steps that create and destroy.
EntityInv ==
  /\ created \/ held \subseteq refused
  /\ state = "CONNECTED" => created /\ held = Entity
  /\ state = "WAITING" => ~created
  /\ state = "AVAILABLE" /\ pc # "undo" =>
       (created <=> pc = "reportCreate" /\ ok) /\ (created => held = Entity)
  /\ pc = "reportDestroy" => ~created
  /\ pc = "undo" => ~ok

\* The MCU's age of the command it drives is at most MaxSkew short of the truth.
AgeInv == drive => feedAge < Watchdog /\ trueAge <= feedAge + MaxSkew

LinkInv == TypeOK /\ PhaseInv /\ StreakInv /\ StopInv /\ EntityInv /\ AgeInv

-----------------------------------------------------------------------------
(* Typing, in five parts, so that each prover gets the part it can do.     *)

PlaceOK ==
  /\ state \in {"WAITING", "AVAILABLE", "CONNECTED", "DISCONNECTED"}
  /\ pc \in {"idle", "wait", "ping", "create", "undo", "spin", "exec", "publish",
             "destroy", "reportPing", "reportCreate", "reportSpin", "reportDestroy", "stop"}
FlagOK ==
  /\ stopPending \in BOOLEAN /\ ok \in BOOLEAN
  /\ synced \in BOOLEAN /\ drive \in BOOLEAN /\ agentUp \in BOOLEAN
  /\ pub \in [published : BOOLEAN, watchdogOk : BOOLEAN, driving : BOOLEAN]
NumOK ==
  /\ pingIn \in Nat /\ streak \in 0 .. PingFailLimit
  /\ backoff \in BackoffMin .. BackoffMax /\ turnAge \in 0 .. MaxBlock
  /\ skew \in -MaxSkew .. MaxSkew
  /\ feedAge \in 0 .. AgeCap /\ trueAge \in 0 .. AgeCap
EntityOK == created \in BOOLEAN /\ held \subseteq Entity /\ refused \subseteq held
WireOK == wire \in Seq(Msg) /\ Len(wire) <= MaxWire

LEMMA TypeParts ==
  /\ TypeOK <=> PlaceOK /\ FlagOK /\ NumOK /\ EntityOK /\ WireOK
  /\ TypeOK' <=> PlaceOK' /\ FlagOK' /\ NumOK' /\ EntityOK' /\ WireOK'
BY DEF TypeOK, PlaceOK, FlagOK, NumOK, EntityOK, WireOK, Msg

LEMMA CapFacts == AgeCap \in Nat /\ Watchdog < AgeCap
BY MicroRosAssumption DEF AgeCap

LEMMA OlderFacts ==
  ASSUME NEW a \in 0 .. AgeCap
  PROVE  Older(a) \in 0 .. AgeCap /\ Older(a) <= a + 1 /\ a <= Older(a)
BY CapFacts DEF Older

\* What a turn finds at the head of the wire.
LEMMA HeadFacts ==
  ASSUME WireOK, wire # <<>>
  PROVE  Head(wire) \in Msg /\ Tail(wire) \in Seq(Msg) /\ Len(Tail(wire)) <= MaxWire
<1>1. wire \in Seq(Msg) /\ Len(wire) \in Nat  BY LenProperties DEF WireOK
<1>2. Len(Tail(wire)) = Len(wire) - 1 /\ Head(wire) \in Msg /\ Tail(wire) \in Seq(Msg)
  BY <1>1, HeadTailProperties
<1> QED  BY <1>1, <1>2, MicroRosAssumption DEF WireOK

\* Time makes the messages under way older and changes nothing else of them.
LEMMA WireAges ==
  ASSUME WireOK, wire' = [i \in DOMAIN wire |-> [wire[i] EXCEPT !.age = Older(@)]]
  PROVE  WireOK'
<1>1. wire \in [1 .. Len(wire) -> Msg] /\ Len(wire) \in Nat /\ DOMAIN wire = 1 .. Len(wire)
  BY LenProperties DEF WireOK
<1>2. \A m \in Msg : [m EXCEPT !.age = Older(@)] \in Msg
  BY OlderFacts DEF Msg
<1>3. wire' \in [1 .. Len(wire) -> Msg]
  BY <1>1, <1>2
<1>4. wire' \in Seq(Msg)
  BY <1>1, <1>3, SeqDef
<1>5. Len(wire') \in Nat /\ 1 .. Len(wire') = 1 .. Len(wire)
  BY <1>3, <1>4, LenProperties
<1>6. Len(wire') = Len(wire)
  BY <1>1, <1>5
<1>7. Msg' = Msg /\ MaxWire' = MaxWire  BY DEF Msg, AgeCap, MessageKinds
<1> QED  BY <1>4, <1>6, <1>7 DEF WireOK

\* A /cmd_vel that is applied carries the age the MCU gave it.
LEMMA CmdVelFacts ==
  ASSUME NumOK, NEW m \in Msg, CmdVel(m)
  PROVE  /\ feedAge' \in 0 .. AgeCap /\ trueAge' \in 0 .. AgeCap
         /\ (drive \in BOOLEAN => drive' \in BOOLEAN)
         /\ \/ feedAge' < Watchdog /\ trueAge' <= feedAge' + MaxSkew
            \/ UNCHANGED ctrlVars
<1>1. m.age \in 0 .. AgeCap  BY DEF Msg
<1>2. CASE Applies(m)
  <2>1. CommandAge(m) \in Nat /\ CommandAge(m) < Watchdog
        /\ m.age <= CommandAge(m) + MaxSkew
    BY <1>1, <1>2, MicroRosAssumption DEF Applies, CommandAge, EstimatedAge, NumOK
  <2>2. drive' = (m.kind = "go") /\ feedAge' = CommandAge(m) /\ trueAge' = m.age
    BY <1>2 DEF CmdVel
  <2> QED  BY <1>1, <2>1, <2>2, CapFacts, MicroRosAssumption
<1>3. CASE ~Applies(m)
  BY <1>3 DEF CmdVel, ctrlVars, NumOK
<1> QED  BY <1>2, <1>3

-----------------------------------------------------------------------------
(* The inductive invariant.                                                *)

LEMMA InitLink == Init => LinkInv
<1> SUFFICES ASSUME Init PROVE LinkInv  OBVIOUS
<1> USE MicroRosAssumption, CapFacts DEF Init
<1>1. PlaceOK  BY DEF PlaceOK
<1>2. FlagOK  BY DEF FlagOK, NoStatus
<1>3. NumOK  BY DEF NumOK
<1>4. WireOK  BY EmptySeq DEF WireOK
<1>5. PhaseInv /\ StreakInv /\ StopInv /\ AgeInv
  BY DEF PhaseInv, StreakInv, StopInv, AgeInv
<1>6. EntityOK /\ EntityInv  BY DEF EntityOK, EntityInv
<1> QED  BY <1>1, <1>2, <1>3, <1>4, <1>5, <1>6, TypeParts DEF LinkInv

\* A turn does what the state of the link asks for, and nothing else changes.
LEMMA StartStep == LinkInv /\ TurnStart => LinkInv'
<1> SUFFICES ASSUME LinkInv, TurnStart PROVE LinkInv'  OBVIOUS
<1> USE DEF TurnStart, linkVars, entityVars, epochVars, ctrlVars, envVars
<1>0. PlaceOK /\ FlagOK /\ NumOK /\ EntityOK /\ WireOK /\ EntityInv /\ StopInv /\ StreakInv /\ AgeInv
  BY TypeParts DEF LinkInv
<1>1. pc' \in {"wait", "ping", "create", "spin", "destroy"} /\ PhaseInv'
  BY <1>0 DEF PlaceOK, AgentNext, PhaseInv
<1>2. PlaceOK'  BY <1>0, <1>1 DEF PlaceOK
<1>3. FlagOK'  BY <1>0 DEF FlagOK
<1>4. NumOK'  BY <1>0, MicroRosAssumption DEF NumOK
<1>5. WireOK'  BY <1>0 DEF WireOK, Msg, AgeCap, MessageKinds
<1>6. StreakInv' /\ AgeInv'  BY <1>0 DEF StreakInv, AgeInv
<1>7. StopInv' /\ EntityInv'
  <2>1. created' = created /\ held' = held /\ refused' = refused /\ state' = state
    OBVIOUS
  <2> QED  BY <1>0, <1>1, <2>1 DEF StopInv, EntityInv, Entity
<1>8. EntityOK'  BY <1>0 DEF EntityOK, Entity
<1> QED  BY <1>1, <1>2, <1>3, <1>4, <1>5, <1>6, <1>7, <1>8, TypeParts DEF LinkInv

\* What entities_destroy() leaves behind was asked for.
LEMMA DestroyFacts ==
  ASSUME EntityOK, created \/ held \subseteq refused,
         NEW released \in BOOLEAN, EntitiesDestroy(released)
  PROVE  EntityOK' /\ ~created' /\ held' \subseteq refused'
<1>1. CASE ~created
  <2>1. created' = created /\ held' = held /\ refused' = refused
    BY <1>1 DEF EntitiesDestroy, entityVars
  <2> QED  BY <1>1, <2>1 DEF EntityOK, Entity
<1>2. CASE created
  <2>1. created' = FALSE /\ held' \subseteq held /\ refused' = held'
    BY <1>2 DEF EntitiesDestroy
  <2> QED  BY <2>1 DEF EntityOK, Entity
<1> QED  BY <1>1, <1>2 DEF EntityOK

\* Creation either makes everything or leaves the flag to say what can be asked for.
LEMMA CreateFacts ==
  ASSUME EntityOK, ~created, DoCreate
  PROVE  /\ EntityOK' /\ ok' \in BOOLEAN /\ (created' \/ held' \subseteq refused')
         /\ \/ pc' = "reportCreate" /\ ok' /\ created' /\ held' = Entity
            \/ pc' = "undo" /\ ~ok'
<1>1. CASE Creates
  BY <1>1 DEF Creates, EntityOK, Entity
<1>2. ASSUME NEW k \in 1 .. Entities + 1, FailsAt(k)
      PROVE  /\ EntityOK' /\ ~ok' /\ ok' \in BOOLEAN /\ pc' = "undo"
             /\ (created' \/ held' \subseteq refused')
  <2>1. 1 .. k - 1 \subseteq Entity /\ (1 .. k) \cap Entity \subseteq Entity
    BY <1>2, MicroRosAssumption DEF Entity
  <2>2. held' \subseteq Entity  BY <1>2, <2>1 DEF FailsAt
  <2>3. CASE k = 1
    BY <1>2, <2>2, <2>3 DEF FailsAt, EntityOK, Entity
  <2>4. CASE k # 1
    <3>1. k > 1  BY <2>4, MicroRosAssumption
    <3> QED  BY <1>2, <2>2, <2>4, <3>1 DEF FailsAt, EntityOK, Entity
  <2> QED  BY <2>3, <2>4
<1> QED  BY <1>1, <1>2 DEF DoCreate

\* The calls a turn makes towards the agent: a ping, the entities, the epoch and
\* the publication.
LEMMA CallStep ==
  LinkInv /\ (DoPing \/ DoCreate \/ DoUndo \/ DoDestroy \/ SpinSync \/ SpinPublish) => LinkInv'
<1> SUFFICES ASSUME LinkInv,
                    DoPing \/ DoCreate \/ DoUndo \/ DoDestroy \/ SpinSync \/ SpinPublish
             PROVE  LinkInv'
  OBVIOUS
<1>0. PlaceOK /\ FlagOK /\ NumOK /\ EntityOK /\ WireOK /\ PhaseInv /\ EntityInv /\ StopInv
      /\ StreakInv /\ AgeInv
  BY TypeParts DEF LinkInv
<1> USE <1>0 DEF linkVars, epochVars, ctrlVars, envVars
<1>1. PlaceOK' /\ PhaseInv'
  BY DEF PlaceOK, PhaseInv, DoPing, DoCreate, Creates, FailsAt, DoUndo, DoDestroy, SpinSync,
     SpinPublish
<1>2. UNCHANGED <<linkVars, turnAge, ctrlVars, envVars>> /\ pc # "stop"
  BY DEF DoPing, DoCreate, DoUndo, DoDestroy, SpinSync, SpinPublish
<1>3. skew' \in -MaxSkew .. MaxSkew
  BY DEF NumOK, DoPing, DoCreate, DoUndo, DoDestroy, SpinSync, SpinPublish
<1>4. NumOK'  BY <1>2, <1>3 DEF NumOK
<1>5. WireOK'  BY <1>2 DEF WireOK, Msg, AgeCap, MessageKinds
<1>6. StreakInv' /\ AgeInv'  BY <1>2 DEF StreakInv, AgeInv
<1>7. StopInv'  BY <1>2 DEF StopInv
<1>8. FlagOK' /\ EntityOK' /\ EntityInv'
  <2>1. CASE DoPing
    <3>1. UNCHANGED <<state, created, held, refused>> /\ pc = "ping" /\ pc' = "reportPing"
      BY <2>1 DEF DoPing, entityVars
    <3>2. FlagOK' /\ EntityOK'  BY <2>1, <3>1 DEF DoPing, FlagOK, EntityOK, Entity
    <3> QED  BY <3>1, <3>2 DEF EntityInv, PhaseInv, Entity
  <2>2. CASE DoCreate
    <3>1. pc = "create" /\ state = "AVAILABLE" /\ state' = state /\ ~created
      BY <2>2 DEF DoCreate, PhaseInv, EntityInv
    <3>2. /\ EntityOK' /\ ok' \in BOOLEAN /\ (created' \/ held' \subseteq refused')
          /\ \/ pc' = "reportCreate" /\ ok' /\ created' /\ held' = Entity
             \/ pc' = "undo" /\ ~ok'
      BY <2>2, <3>1, CreateFacts
    <3>3. FlagOK'  BY <2>2, <3>2 DEF DoCreate, FlagOK
    <3> QED  BY <3>1, <3>2, <3>3 DEF EntityInv, Entity
  <2>3. CASE DoUndo
    <3>1. pc = "undo" /\ pc' = "reportCreate" /\ state = "AVAILABLE" /\ state' = state
          /\ ok' = ok /\ ~ok
      BY <2>3 DEF DoUndo, PhaseInv, EntityInv
    <3>2. EntityOK' /\ ~created' /\ held' \subseteq refused'
      BY <2>3, DestroyFacts DEF DoUndo, EntityInv
    <3>3. FlagOK'  BY <2>3, <3>1 DEF DoUndo, FlagOK
    <3> QED  BY <3>1, <3>2, <3>3 DEF EntityInv
  <2>4. CASE DoDestroy
    <3>1. pc' = "reportDestroy" /\ state = "DISCONNECTED" /\ state' = state
      BY <2>4 DEF DoDestroy, PhaseInv
    <3>2. EntityOK' /\ ~created' /\ held' \subseteq refused'
      BY <2>4, DestroyFacts DEF DoDestroy, EntityInv
    <3>3. FlagOK'  BY <2>4 DEF DoDestroy, FlagOK
    <3> QED  BY <3>1, <3>2, <3>3 DEF EntityInv
  <2>5. CASE SpinSync
    <3>1. UNCHANGED <<state, created, held, refused, ok>> /\ pc = "spin" /\ pc' = "exec"
      BY <2>5 DEF SpinSync, entityVars
    <3>2. FlagOK' /\ EntityOK'  BY <2>5, <3>1 DEF SpinSync, FlagOK, EntityOK, Entity
    <3> QED  BY <3>1, <3>2 DEF EntityInv, PhaseInv, Entity
  <2>6. CASE SpinPublish
    <3>1. WatchdogOk \in BOOLEAN  BY DEF WatchdogOk
    <3>2. \A w, d \in BOOLEAN :
            [published |-> TRUE, watchdogOk |-> w, driving |-> d]
              \in [published : BOOLEAN, watchdogOk : BOOLEAN, driving : BOOLEAN]
      BY Zenon
    <3>3. [published |-> TRUE, watchdogOk |-> WatchdogOk, driving |-> drive]
            \in [published : BOOLEAN, watchdogOk : BOOLEAN, driving : BOOLEAN]
      BY <3>1, <3>2, Zenon DEF FlagOK
    <3>4. pub' \in [published : BOOLEAN, watchdogOk : BOOLEAN, driving : BOOLEAN]
      BY <2>6, <3>3, Zenon DEF SpinPublish, FlagOK
    <3>5. UNCHANGED <<state, created, held, refused, ok>> /\ pc = "publish"
          /\ pc' = "reportSpin"
      BY <2>6 DEF SpinPublish, entityVars
    <3>6. FlagOK' /\ EntityOK'  BY <2>6, <3>4, <3>5 DEF SpinPublish, FlagOK, EntityOK, Entity
    <3> QED  BY <3>5, <3>6 DEF EntityInv, PhaseInv, Entity
  <2> QED  BY <2>1, <2>2, <2>3, <2>4, <2>5, <2>6
<1> QED  BY <1>1, <1>4, <1>5, <1>6, <1>7, <1>8, TypeParts DEF LinkInv

\* The executor hands over at most one message.
LEMMA ExecStep == LinkInv /\ SpinExec => LinkInv'
<1> SUFFICES ASSUME LinkInv, SpinExec PROVE LinkInv'  OBVIOUS
<1> USE DEF linkVars, entityVars, epochVars
<1>0. PlaceOK /\ FlagOK /\ NumOK /\ EntityOK /\ WireOK /\ PhaseInv /\ EntityInv /\ StopInv
      /\ StreakInv /\ AgeInv
  BY TypeParts DEF LinkInv
<1>1. state = "CONNECTED" /\ state' = "CONNECTED"  BY <1>0 DEF PhaseInv, SpinExec
<1>2. /\ feedAge' \in 0 .. AgeCap /\ trueAge' \in 0 .. AgeCap /\ drive' \in BOOLEAN
      /\ AgeInv'
  <2>1. CASE UNCHANGED ctrlVars  BY <1>0, <2>1 DEF NumOK, FlagOK, AgeInv, ctrlVars
  <2>2. CASE wire # <<>> /\ CmdVel(Head(wire))
    BY <1>0, <2>1, <2>2, HeadFacts, CmdVelFacts DEF FlagOK, AgeInv
  <2> QED  BY <2>1, <2>2 DEF SpinExec, ctrlVars
<1>3. WireOK'
  <2>1. CASE UNCHANGED wire  BY <1>0, <2>1 DEF WireOK, Msg, AgeCap, MessageKinds
  <2>2. CASE wire # <<>> /\ wire' = Tail(wire)
    BY <1>0, <2>2, HeadFacts DEF WireOK, Msg, AgeCap, MessageKinds
  <2> QED  BY <2>1, <2>2 DEF SpinExec
<1>4. PlaceOK' /\ PhaseInv'  BY <1>0, <1>1 DEF PlaceOK, PhaseInv, SpinExec
<1>5. FlagOK'  BY <1>0, <1>2 DEF FlagOK, SpinExec
<1>6. NumOK'  BY <1>0, <1>2 DEF NumOK, SpinExec, AgeCap
<1>7. StreakInv' /\ StopInv' /\ EntityInv'
  BY <1>0, <1>1 DEF StreakInv, StopInv, EntityInv, Entity, SpinExec
<1>8. EntityOK'  BY <1>0 DEF EntityOK, Entity, SpinExec
<1> QED  BY <1>2, <1>3, <1>4, <1>5, <1>6, <1>7, <1>8, TypeParts DEF LinkInv

\* A report moves the link; leaving CONNECTED leaves a stop to be taken.
LEMMA ReportStep == LinkInv /\ Report => LinkInv'
<1> SUFFICES ASSUME LinkInv, Report PROVE LinkInv'  OBVIOUS
<1> USE DEF entityVars, epochVars, ctrlVars, envVars, ReportPing, ReportCreate, ReportSpin,
            ReportDestroy, EnterState, Stay
<1>0. PlaceOK /\ FlagOK /\ NumOK /\ EntityOK /\ WireOK /\ PhaseInv /\ EntityInv /\ StopInv
      /\ StreakInv /\ AgeInv
  BY TypeParts DEF LinkInv
<1>1. PlaceOK' /\ PhaseInv'  BY <1>0 DEF PlaceOK, PhaseInv, Report
<1>2. FlagOK'  BY <1>0 DEF FlagOK, Report
<1>3. GrowBackoff \in BackoffMin .. BackoffMax
  BY <1>0, MicroRosAssumption DEF NumOK, GrowBackoff
<1>4. NumOK'
  BY <1>0, <1>3, MicroRosAssumption DEF NumOK, StreakInv, Report
<1>5. WireOK'  BY <1>0 DEF WireOK, Msg, AgeCap, MessageKinds, Report
<1>6. StreakInv'  BY <1>0, MicroRosAssumption DEF StreakInv, NumOK, Report
<1>7. StopInv' /\ AgeInv'  BY <1>0 DEF StopInv, AgeInv, Report
<1>8. EntityInv'  BY <1>0 DEF EntityInv, Entity, PhaseInv, Report
<1>9. EntityOK'  BY <1>0 DEF EntityOK, Entity, Report
<1> QED  BY <1>1, <1>2, <1>4, <1>5, <1>6, <1>7, <1>8, <1>9, TypeParts DEF LinkInv

\* The end of a turn takes the stop.
LEMMA StopStep == LinkInv /\ Stop => LinkInv'
<1> SUFFICES ASSUME LinkInv, Stop PROVE LinkInv'  OBVIOUS
<1> USE DEF Stop, entityVars, epochVars, envVars
<1>0. PlaceOK /\ FlagOK /\ NumOK /\ EntityOK /\ WireOK /\ PhaseInv /\ EntityInv /\ StopInv
      /\ StreakInv /\ AgeInv
  BY TypeParts DEF LinkInv
<1>1. PlaceOK' /\ PhaseInv'  BY <1>0 DEF PlaceOK, PhaseInv
<1>2. FlagOK'  BY <1>0 DEF FlagOK, NoStatus
<1>3. NumOK'  BY <1>0 DEF NumOK
<1>4. WireOK'  BY <1>0 DEF WireOK, Msg, AgeCap, MessageKinds
<1>5. StreakInv' /\ AgeInv' /\ StopInv'
  BY <1>0 DEF StreakInv, AgeInv, StopInv, FlagOK
<1>6. EntityInv' /\ EntityOK'  BY <1>0 DEF EntityInv, EntityOK, Entity
<1> QED  BY <1>1, <1>2, <1>3, <1>4, <1>5, <1>6, TypeParts DEF LinkInv

LEMMA TickStep == LinkInv /\ Tick => LinkInv'
<1> SUFFICES ASSUME LinkInv, Tick PROVE LinkInv'  OBVIOUS
<1> USE DEF entityVars, epochVars
<1>0. PlaceOK /\ FlagOK /\ NumOK /\ EntityOK /\ WireOK /\ PhaseInv /\ EntityInv /\ StopInv
      /\ StreakInv /\ AgeInv
  BY TypeParts DEF LinkInv
<1>1. PlaceOK' /\ PhaseInv'  BY <1>0 DEF PlaceOK, PhaseInv, Tick
<1>2. FlagOK'
  <2>1. drive' \in BOOLEAN  BY <1>0 DEF FlagOK, Tick
  <2> QED  BY <1>0, <2>1 DEF FlagOK, Tick
<1>3. NumOK'
  <2>1. feedAge' \in 0 .. AgeCap /\ trueAge' \in 0 .. AgeCap
    BY <1>0, OlderFacts DEF NumOK, Tick
  <2>2. pingIn' \in Nat  BY <1>0 DEF NumOK, Tick
  <2>3. turnAge' \in 0 .. MaxBlock  BY <1>0, MicroRosAssumption DEF NumOK, Tick
  <2> QED  BY <1>0, <2>1, <2>2, <2>3 DEF NumOK, Tick, AgeCap
<1>4. WireOK'  BY <1>0, WireAges DEF Tick
<1>5. StreakInv'  BY <1>0 DEF StreakInv, Tick
<1>6. drive' => drive  BY <1>0 DEF FlagOK, Tick
<1>7. StopInv'  BY <1>0, <1>6 DEF StopInv, Tick
<1>9. EntityInv' /\ EntityOK'  BY <1>0 DEF EntityInv, EntityOK, Entity, Tick
<1>8. AgeInv'
  <2> SUFFICES ASSUME drive' PROVE feedAge' < Watchdog /\ trueAge' <= feedAge' + MaxSkew
    BY DEF AgeInv
  <2>1. feedAge' < Watchdog /\ feedAge < Watchdog /\ trueAge <= feedAge + MaxSkew
    BY <1>0, <1>6 DEF AgeInv, Tick
  <2>2. feedAge' = feedAge + 1
    BY <1>0, <2>1, CapFacts, MicroRosAssumption DEF NumOK, Tick, Older
  <2>3. trueAge' <= trueAge + 1  BY <1>0, OlderFacts DEF NumOK, Tick
  <2>4. trueAge' \in Nat  BY <1>3, CapFacts DEF NumOK
  <2> QED  BY <1>0, <2>1, <2>2, <2>3, <2>4, CapFacts, MicroRosAssumption DEF NumOK
<1> QED  BY <1>1, <1>2, <1>3, <1>4, <1>5, <1>7, <1>8, <1>9, TypeParts DEF LinkInv

\* The host and the agent touch the wire and the agent only.
LEMMA WorldStep == LinkInv /\ (HostSends \/ MessageLost \/ AgentFlips) => LinkInv'
<1> SUFFICES ASSUME LinkInv, HostSends \/ MessageLost \/ AgentFlips PROVE LinkInv'
  OBVIOUS
<1> USE DEF linkVars, taskVars, entityVars, epochVars, ctrlVars
<1>0. PlaceOK /\ FlagOK /\ NumOK /\ EntityOK /\ WireOK /\ PhaseInv /\ EntityInv /\ StopInv
      /\ StreakInv /\ AgeInv
  BY TypeParts DEF LinkInv
<1>1. UNCHANGED <<linkVars, taskVars, entityVars, epochVars, ctrlVars, pub>>
  BY DEF HostSends, MessageLost, AgentFlips
<1>2. agentUp' \in BOOLEAN  BY <1>0 DEF FlagOK, HostSends, MessageLost, AgentFlips
<1>3. WireOK'
  <2>1. CASE HostSends
    <3>1. PICK k \in MessageKinds : wire' = Append(wire, [age |-> 0, kind |-> k])
      BY <2>1 DEF HostSends
    <3>2. [age |-> 0, kind |-> k] \in Msg  BY <3>1, CapFacts DEF Msg
    <3>3. wire \in Seq(Msg) /\ Len(wire) \in Nat /\ Len(wire) < MaxWire
      BY <1>0, <2>1, LenProperties DEF WireOK, HostSends
    <3>4. wire' \in Seq(Msg) /\ Len(wire') = Len(wire) + 1
      BY <3>1, <3>2, <3>3, AppendProperties
    <3> QED  BY <3>3, <3>4, MicroRosAssumption DEF WireOK, Msg, AgeCap, MessageKinds
  <2>2. CASE MessageLost
    BY <1>0, <2>2, HeadFacts DEF MessageLost, WireOK, Msg, AgeCap, MessageKinds
  <2>3. CASE AgentFlips
    BY <1>0, <2>3 DEF AgentFlips, WireOK, Msg, AgeCap, MessageKinds
  <2> QED  BY <2>1, <2>2, <2>3
<1>4. PlaceOK' /\ PhaseInv'  BY <1>0, <1>1 DEF PlaceOK, PhaseInv
<1>5. FlagOK'  BY <1>0, <1>1, <1>2 DEF FlagOK
<1>6. NumOK'  BY <1>0, <1>1 DEF NumOK
<1>7. StreakInv' /\ StopInv' /\ EntityInv' /\ EntityOK' /\ AgeInv'
  BY <1>0, <1>1 DEF StreakInv, StopInv, EntityInv, EntityOK, Entity, AgeInv
<1> QED  BY <1>3, <1>4, <1>5, <1>6, <1>7, TypeParts DEF LinkInv

LEMMA LinkStep == LinkInv /\ [Next]_vars => LinkInv'
<1> SUFFICES ASSUME LinkInv, [Next]_vars PROVE LinkInv'  OBVIOUS
<1>1. CASE Turn
  BY <1>1, StartStep, CallStep, ExecStep, ReportStep, StopStep DEF Turn
<1>2. CASE Tick  BY <1>2, TickStep
<1>3. CASE HostSends \/ MessageLost \/ AgentFlips  BY <1>3, WorldStep
<1>4. CASE UNCHANGED vars
  BY <1>4 DEF vars, linkVars, taskVars, entityVars, epochVars, ctrlVars, LinkInv, TypeOK, AgeCap, Entity,
     MessageKinds, PhaseInv, StreakInv, StopInv, EntityInv, AgeInv
<1> QED  BY <1>1, <1>2, <1>3, <1>4 DEF Next

-----------------------------------------------------------------------------
(* The theorems.                                                           *)

(* LinkInv holds in every reachable state of the link and the task.        *)
THEOREM LinkInvariant == Spec => []LinkInv
<1>1. Init => LinkInv  BY InitLink
<1>2. LinkInv /\ [Next]_vars => LinkInv'  BY LinkStep
<1> QED  BY <1>1, <1>2, PTL DEF Spec

(* Type correctness: in particular grow_backoff() never leaves the bounds   *)
(* of the backoff and the count of failed pings never passes its limit.    *)
THEOREM LinkTypes == Spec => []TypeOK
<1>1. LinkInv => TypeOK  BY DEF LinkInv
<1> QED  BY <1>1, LinkInvariant, PTL

(* However late a command comes and whatever the link did meanwhile,       *)
(* cmd_vel_callback() lets it drive for the watchdog time plus the clock   *)
(* error after its stamp, never longer.                                    *)
THEOREM StaleCommandsNeverDrive == Spec => []StaleNeverDrives
<1>1. LinkInv => StaleNeverDrives
  BY MicroRosAssumption, CapFacts DEF LinkInv, TypeOK, AgeInv, StaleNeverDrives
<1> QED  BY <1>1, LinkInvariant, PTL

(* Between turns of micro_ros_task() nothing drives without a session:      *)
(* every way out of CONNECTED in agent_link.c ends in the urgent stop.     *)
THEOREM LinkLossAlwaysStops == Spec => []LinkLossStops
<1>1. LinkInv => LinkLossStops  BY DEF LinkInv, StopInv, LinkLossStops
<1> QED  BY <1>1, LinkInvariant, PTL

(* Over any history of failed creations, lost links and failed clean-ups,  *)
(* and with any number of entities: entities_create() zeroes no handle that *)
(* entities_destroy() was not asked for and that could have been asked for, *)
(* and spin_once() works with no entity that is not there.                 *)
THEOREM EntitiesAreAskedFor == Spec => []NoEntityForgotten
<1>1. LinkInv => NoEntityForgotten  BY DEF LinkInv, PhaseInv, EntityInv, NoEntityForgotten
<1> QED  BY <1>1, LinkInvariant, PTL

-----------------------------------------------------------------------------
(* The pool the task allocates from (static_pool.c): what its Heap promises *)
(* for a pool, a header and requests of any size; no assumption on the      *)
(* constants is needed.  StaticPool inherits it wherever it is shown to     *)
(* implement Heap.                                                          *)

CONSTANTS Capacity, Header, Sizes
VARIABLES live, ret
H == INSTANCE Heap

HeapInv == H!TypeOK /\ H!NoOverlap

LEMMA DisjointSymmetric ==
  ASSUME NEW e, NEW f, H!Disjoint(e, f)
  PROVE  H!Disjoint(f, e)
  BY DEF H!Disjoint

\* An extent that fits beside what is held may join it, or what is left of it.
LEMMA JoinsHeld ==
  ASSUME HeapInv, NEW n, NEW e \in H!Answers(n), NEW kept \in SUBSET live,
         live' = kept \cup {e}
  PROVE  HeapInv'
<1>1. e \in H!Extent /\ H!Units(e) \subseteq 0 .. Capacity - 1 /\ \A f \in live : H!Disjoint(e, f)
  BY DEF H!Answers, H!Fits
<1>2. H!TypeOK'
  BY <1>1 DEF HeapInv, H!TypeOK, H!Extent
<1>3. \A g \in live' : H!Units(g) \subseteq 0 .. Capacity - 1
  BY <1>1 DEF HeapInv, H!NoOverlap
<1>4. ASSUME NEW g \in live', NEW h \in live', g # h
      PROVE  H!Disjoint(g, h)
  <2>1. CASE g \in kept /\ h \in kept
    BY <1>4, <2>1 DEF HeapInv, H!NoOverlap
  <2>2. CASE g = e /\ h \in kept
    BY <1>1, <2>2
  <2>3. CASE g \in kept /\ h = e
    BY <1>1, <2>3, DisjointSymmetric
  <2> QED
    BY <1>4, <2>1, <2>2, <2>3
<1> QED
  BY <1>2, <1>3, <1>4 DEF HeapInv, H!NoOverlap, H!Units, H!Disjoint

\* Giving extents back disturbs nothing.
LEMMA FewerHeld ==
  ASSUME HeapInv, live' \subseteq live
  PROVE  HeapInv'
  BY DEF HeapInv, H!TypeOK, H!NoOverlap, H!Extent, H!Units, H!Disjoint

LEMMA HeapStep == HeapInv /\ [H!Next]_(H!vars) => HeapInv'
<1> SUFFICES ASSUME HeapInv, [H!Next]_(H!vars) PROVE HeapInv'
  OBVIOUS
<1>1. ASSUME NEW n \in Sizes, H!Alloc(n) PROVE HeapInv'
  <2>1. CASE UNCHANGED live
    BY <2>1, FewerHeld
  <2>2. ASSUME NEW e \in H!Answers(n), live' = live \cup {e} PROVE HeapInv'
    BY <2>2, JoinsHeld
  <2> QED
    BY <1>1, <2>1, <2>2 DEF H!Alloc
<1>2. CASE H!AllocHuge
  BY <1>2, FewerHeld DEF H!AllocHuge
<1>3. ASSUME NEW e \in live, H!Free(e) PROVE HeapInv'
  <2>1. live' \subseteq live
    BY <1>3 DEF H!Free
  <2> QED
    BY <2>1, FewerHeld
<1>4. CASE H!FreeStale
  BY <1>4, FewerHeld DEF H!FreeStale
<1>5. ASSUME NEW e \in live, NEW n \in Sizes, H!Realloc(e, n) PROVE HeapInv'
  <2>1. CASE live' \subseteq live
    BY <2>1, FewerHeld
  <2>2. ASSUME NEW f \in H!Answers(n), live' = (live \ {e}) \cup {f} PROVE HeapInv'
    <3>1. live \ {e} \in SUBSET live
      OBVIOUS
    <3> QED
      BY <2>2, <3>1, JoinsHeld
  <2> QED
    BY <1>5, <2>1, <2>2 DEF H!Realloc
<1>6. CASE UNCHANGED H!vars
  BY <1>6, FewerHeld DEF H!vars
<1> QED
  BY <1>1, <1>2, <1>3, <1>4, <1>5, <1>6 DEF H!Next

\* static_pool.h hands out extents of the pool, and no unit to two holders at
\* once: through splits, releases and reallocations that hold both blocks.
THEOREM HeldNeverOverlap == H!Spec => [](H!TypeOK /\ H!NoOverlap)
<1>1. H!Init => HeapInv
  BY DEF H!Init, HeapInv, H!TypeOK, H!NoOverlap
<1> QED
  BY <1>1, HeapStep, PTL DEF H!Spec, HeapInv

-----------------------------------------------------------------------------
(* The ring the task receives through (platform_uart1.c).  Its counters are *)
(* honest only because of what the code cannot see: how many bytes of the   *)
(* stream lie unread.  The code computes their number modulo the ring; when *)
(* the line has lapped the reader, what it takes for all of them are the    *)
(* newest.                                                                  *)

UartTypes ==
  /\ ring \in [U!Index -> Nat] /\ wpos \in U!Index /\ tail \in U!Index
  /\ dma \in {"run", "abort", "off"} /\ armed \in BOOLEAN /\ (armed <=> dma = "run")
  /\ overflows \in BOOLEAN /\ armFails \in BOOLEAN /\ rush \in BOOLEAN
  /\ at \in {"rearm", "read", "copy"} /\ left \in 0 .. MaxRead /\ (at = "copy" => left # 0)
  /\ sent \in Nat /\ owed \in Nat /\ fresh \in Nat

\* The k-th place of the ring from t on, and the k-th before w.
Place(t, k) == IF t + k < Size THEN t + k ELSE t + k - Size
Back(w, k) == IF k <= w THEN w - k ELSE w - k + Size

\* The DMA is d places ahead of the reader, and u bytes of the stream are unread.
\* The ring holds the newest of them behind the DMA's position.  In a copy the
\* reader has room for what arrives; between copies a lap needs a rush.
Unread(d, u) ==
  /\ d <= u /\ wpos = Place(tail, d)
  /\ owed + u <= sent + 1 /\ (dma = "run" => owed + u = sent + 1)
  /\ \A k \in 1 .. Size : k <= u => ring[Back(wpos, k)] = owed + u - k
  /\ IF at = "copy"
     THEN left \in 1 .. d - fresh /\ d < HighWater + fresh /\ fresh <= Burst /\ (u = d \/ rush)
     ELSE d < Size /\ (u = d \/ u >= Size) /\ (rush \/ u + 2 <= HighWater + fresh)

RingInv ==
  UartTypes /\ (overflows \/ armFails \/ \E d \in 0 .. Size, u \in Nat : Unread(d, u))

LEMMA MarginFacts ==
  /\ Size \in Nat \ {0} /\ HighWater \in Nat /\ Burst \in Nat /\ MaxRead \in Nat \ {0}
  /\ HighWater <= Size /\ 2 <= HighWater /\ HighWater + Burst <= Size + 1
  /\ U!Margin = Size - HighWater + 1
BY RingAssumption DEF U!MarginOK, U!Margin

LEMMA RoundTheRing ==
  ASSUME NEW t \in U!Index
  PROVE  /\ (t + 1) % Size = Place(t, 1) /\ Place(t, Size) = Place(t, 0)
         /\ \A k \in 0 .. Size : Place(t, k) \in U!Index
         /\ \A k \in 0 .. Size - 1 : /\ (Place(t, k) - t) % Size = k
                                     /\ Place(Place(t, k), 1) = Place(t, k + 1)
                                     /\ Place(Place(t, 1), k) = Place(t, k + 1)
<1>1. Size \in Nat \ {0} /\ t \in 0 .. Size - 1  BY MarginFacts DEF U!Index
<1>2. (t + 1) % Size = Place(t, 1)
  <2>1. CASE t + 1 < Size  BY <1>1, <2>1 DEF Place
  <2>2. CASE t + 1 = Size  BY <1>1, <2>2 DEF Place
  <2> QED  BY <1>1, <2>1, <2>2
<1>3. ASSUME NEW k \in 0 .. Size - 1 PROVE (Place(t, k) - t) % Size = k
  <2>1. CASE t + k < Size
    <3>1. Place(t, k) - t = k  BY <1>1, <2>1 DEF Place
    <3> QED  BY <1>1, <3>1
  <2>2. CASE t + k >= Size
    <3>1. Place(t, k) - t = k - Size /\ k - Size \in 1 - Size .. -1
      BY <1>1, <2>2 DEF Place
    <3>2. \A a \in 1 - Size .. -1 : a % Size = a + Size  BY <1>1
    <3> QED  BY <1>1, <3>1, <3>2
  <2> QED  BY <1>1, <2>1, <2>2
<1> QED  BY <1>1, <1>2, <1>3 DEF Place, U!Index

LEMMA BackAgain ==
  ASSUME NEW t \in U!Index
  PROVE  /\ Back(Place(t, 1), 1) = t
         /\ \A k \in 1 .. Size : Back(Place(t, k), k) = t
         /\ \A k \in 1 .. Size - 1 : /\ Back(t, k) \in U!Index /\ Back(t, k) # t
                                     /\ Back(Place(t, 1), k + 1) = Back(t, k)
BY MarginFacts DEF Place, Back, U!Index

LEMMA TypeFacts ==
  ASSUME RingInv
  PROVE  /\ tail \in U!Index /\ wpos \in U!Index /\ tail \in Nat /\ wpos \in Nat
         /\ ring \in [U!Index -> Nat] /\ sent \in Nat /\ owed \in Nat
         /\ left \in Nat /\ fresh \in Nat /\ rush \in BOOLEAN
BY MarginFacts DEF RingInv, UartTypes, U!Index

\* A byte is stored behind the unread ones, whether or not there is room for it.
LEMMA StoreFacts ==
  ASSUME RingInv, NEW d \in 0 .. Size, NEW u \in Nat, Unread(d, u), U!Arrives,
         dma = "run", sent' = sent + 1, UNCHANGED <<tail, owed, at, left, rush>>
  PROVE  \E e \in 0 .. Size, v \in Nat : Unread(e, v)'
<1>1. /\ at = "copy" => fresh < Burst
      /\ fresh' = fresh + 1 /\ ring' = [ring EXCEPT ![wpos] = sent + 1]
      /\ wpos' = (wpos + 1) % Size
  BY DEF U!Arrives, U!Store
<1>a. d \in 0 .. Size - 1 /\ d + 1 \in 0 .. Size /\ d <= u
  <2>1. CASE at = "copy"  BY <1>1, <2>1, TypeFacts, MarginFacts DEF Unread
  <2>2. CASE at # "copy"  BY <2>2, MarginFacts DEF Unread
  <2> QED  BY <2>1, <2>2
<1>b. PICK e \in 0 .. Size : e = IF at # "copy" /\ d + 1 = Size THEN 0 ELSE d + 1
  BY <1>a, MarginFacts
<1>2. e <= u + 1  BY <1>a, <1>b
<1>3. wpos' = Place(wpos, 1) /\ wpos' = Place(tail, e)
  <2>1. wpos' = Place(wpos, 1)  BY <1>1, TypeFacts, RoundTheRing
  <2>2. Place(wpos, 1) = Place(tail, d + 1)
    BY <1>a, TypeFacts, RoundTheRing DEF Unread
  <2>3. Place(tail, Size) = Place(tail, 0)  BY TypeFacts, RoundTheRing
  <2> QED  BY <1>b, <2>1, <2>2, <2>3
<1>4. ASSUME NEW k \in 1 .. Size, k <= u + 1
      PROVE  ring'[Back(wpos', k)] = owed' + (u + 1) - k
  <2>1. owed' = owed /\ owed + u = sent + 1  BY DEF Unread
  <2>2. CASE k = 1
    <3>1. Back(wpos', 1) = wpos  BY <1>3, TypeFacts, BackAgain
    <3>2. ring'[wpos] = sent + 1  BY <1>1, TypeFacts
    <3> QED  BY <2>1, <2>2, <3>1, <3>2, TypeFacts
  <2>3. CASE k # 1
    <3>1. k - 1 \in 1 .. Size - 1 /\ k - 1 \in 1 .. Size /\ k - 1 <= u /\ (k - 1) + 1 = k
      BY <1>4, <2>3, MarginFacts
    <3>2. /\ Back(wpos, k - 1) \in U!Index /\ Back(wpos, k - 1) # wpos
          /\ Back(Place(wpos, 1), (k - 1) + 1) = Back(wpos, k - 1)
      BY <3>1, TypeFacts, BackAgain
    <3>3. ring[Back(wpos, k - 1)] = owed + u - (k - 1)  BY <3>1 DEF Unread
    <3>4. ring'[Back(wpos, k - 1)] = ring[Back(wpos, k - 1)]  BY <1>1, <3>2, TypeFacts
    <3>5. Back(wpos', k) = Back(wpos, k - 1)  BY <1>3, <3>1, <3>2
    <3> QED  BY <2>1, <3>1, <3>3, <3>4, <3>5, TypeFacts
  <2> QED  BY <2>2, <2>3
<1>5. owed' + (u + 1) = sent' + 1  BY TypeFacts DEF Unread
<1>6. IF at' = "copy"
      THEN /\ left' \in 1 .. e - fresh' /\ e < HighWater + fresh' /\ fresh' <= Burst
           /\ (u + 1 = e \/ rush')
      ELSE e < Size /\ (u + 1 = e \/ u + 1 >= Size) /\ (rush' \/ u + 1 + 2 <= HighWater + fresh')
  <2>1. CASE at = "copy"
    <3>1. e = d + 1  BY <1>b, <2>1
    <3> QED  BY <1>1, <2>1, <3>1, TypeFacts, MarginFacts DEF Unread
  <2>2. CASE at # "copy"
    <3>1. d < Size /\ (u = d \/ u >= Size) /\ (rush \/ u + 2 <= HighWater + fresh)
      BY <2>2 DEF Unread
    <3>2. e = IF d + 1 = Size THEN 0 ELSE d + 1  BY <1>b, <2>2
    <3> QED  BY <1>1, <2>2, <3>1, <3>2, TypeFacts, MarginFacts
  <2> QED  BY <2>1, <2>2
<1>7. Unread(e, u + 1)'
  BY <1>2, <1>3, <1>4, <1>5, <1>6 DEF Unread, Place, Back
<1>8. u + 1 \in Nat  OBVIOUS
<1> QED  BY <1>7, <1>8

\* Bytes and interrupts: something is stored, or the stream goes on without the ring.
LEMMA ArrivalStep ==
  ASSUME RingInv, U!Byte \/ U!Error \/ U!Aborted
  PROVE  RingInv'
<1>1. /\ UNCHANGED <<tail, overflows, armFails, at, left, owed, rush>>
      /\ sent' \in {sent, sent + 1}
      /\ dma' \in {"run", "abort", "off"} /\ armed' \in BOOLEAN /\ (armed' <=> dma' = "run")
  <2>0. dma \in {"run", "abort", "off"} /\ armed \in BOOLEAN /\ (armed <=> dma = "run")
    BY DEF RingInv, UartTypes
  <2>1. CASE U!Byte  BY <2>0, <2>1 DEF U!Byte, U!taskVars
  <2>2. CASE U!Error  BY <2>2 DEF U!Error, U!taskVars
  <2>3. CASE U!Aborted  BY <2>0, <2>3 DEF U!Aborted, U!taskVars
  <2> QED  BY <2>1, <2>2, <2>3
<1>2. \/ U!Arrives /\ dma = "run" /\ sent' = sent + 1
      \/ /\ UNCHANGED <<ring, wpos, fresh>>
         /\ dma' # "run"
  <2>1. CASE U!Byte  BY <2>1 DEF U!Byte
  <2>2. CASE U!Error  BY <2>2 DEF U!Error
  <2>3. CASE U!Aborted  BY <2>3 DEF U!Aborted
  <2> QED  BY <2>1, <2>2, <2>3
<1>3. ring' \in [U!Index -> Nat] /\ wpos' \in U!Index /\ fresh' \in Nat
  <2>1. CASE U!Arrives
    <3>1. /\ fresh' = fresh + 1 /\ ring' = [ring EXCEPT ![wpos] = sent + 1]
          /\ wpos' = (wpos + 1) % Size
      BY <2>1 DEF U!Arrives, U!Store
    <3>2. (wpos + 1) % Size = Place(wpos, 1) /\ Place(wpos, 1) \in U!Index
      BY TypeFacts, RoundTheRing, MarginFacts
    <3> QED  BY <3>1, <3>2, TypeFacts
  <2>2. CASE UNCHANGED <<ring, wpos, fresh>>  BY <2>2, TypeFacts
  <2> QED  BY <1>2, <2>1, <2>2
<1>4. UartTypes'
  <2>1. sent' \in Nat  BY <1>1, TypeFacts
  <2> QED  BY <1>1, <1>3, <2>1 DEF RingInv, UartTypes, U!Index
<1>5. ASSUME NEW d \in 0 .. Size, NEW u \in Nat, Unread(d, u)
      PROVE  \E e \in 0 .. Size, v \in Nat : Unread(e, v)'
  <2>1. CASE U!Arrives /\ dma = "run" /\ sent' = sent + 1
    BY <1>1, <1>5, <2>1, StoreFacts
  <2>2. CASE UNCHANGED <<ring, wpos, fresh>> /\ dma' # "run"
    <3>1. Unread(d, u)'
      BY <1>1, <1>5, <2>2, TypeFacts DEF Unread, Place, Back
    <3> QED  BY <3>1
  <2> QED  BY <1>2, <2>1, <2>2
<1> QED  BY <1>1, <1>4, <1>5 DEF RingInv

LEMMA RearmStep ==
  ASSUME RingInv, U!Rearm
  PROVE  RingInv'
<1>1. at = "rearm" /\ at' \in {"rearm", "read"} /\ UNCHANGED <<ring, overflows, left, sent, errors>>
  BY DEF U!Rearm
<1>2. CASE armed
  <2>1. UNCHANGED <<wpos, dma, armed, tail, armFails, owed, fresh, rush>>
    BY <1>2 DEF U!Rearm, U!NeedsArm
  <2>2. UartTypes'  BY <1>1, <2>1 DEF RingInv, UartTypes, U!Index
  <2>3. ASSUME NEW d \in 0 .. Size, NEW u \in Nat, Unread(d, u) PROVE Unread(d, u)'
    BY <1>1, <2>1, <2>3 DEF Unread, Place, Back
  <2> QED  BY <1>1, <2>1, <2>2, <2>3 DEF RingInv
<1>3. CASE ~armed /\ dma = "off"
  <2>1. /\ tail' = 0 /\ wpos' = 0 /\ dma' = "run" /\ armed' = TRUE /\ fresh' = 0
        /\ owed' = sent + 1 /\ rush' = FALSE /\ UNCHANGED armFails
    BY <1>3 DEF U!Rearm, U!NeedsArm, U!Arm
  <2>2. UartTypes'
    <3>1. owed' \in Nat /\ 0 \in U!Index  BY <2>1, TypeFacts, MarginFacts DEF U!Index
    <3> QED  BY <1>1, <2>1, <3>1 DEF RingInv, UartTypes, U!Index
  <2>3. Unread(0, 0)'
    BY <1>1, <2>1, TypeFacts, MarginFacts DEF Unread, Place
  <2> QED  BY <2>2, <2>3, MarginFacts DEF RingInv
<1>4. CASE ~armed /\ dma # "off"
  <2>1. tail' = 0 /\ armFails' = TRUE /\ UNCHANGED <<dma, armed, wpos, owed, fresh, rush>>
    BY <1>4 DEF U!Rearm, U!NeedsArm, U!Arm
  <2> QED  BY <1>1, <2>1, MarginFacts DEF RingInv, UartTypes, U!Index
<1> QED  BY <1>2, <1>3, <1>4

\* A look below the mark after no rush shows exactly what is unread; after a rush it
\* may show only the newest of it.
LEMMA LookStep ==
  ASSUME RingInv, U!Read
  PROVE  RingInv'
<1> DEFINE avail == (wpos - tail) % Size
<1>1. /\ at = "read" /\ overflows' = (overflows \/ avail >= HighWater) /\ fresh' = 0
      /\ rush' = (rush \/ fresh > U!Margin)
      /\ at' = IF left' = 0 THEN "rearm" ELSE "copy"
      /\ \E max \in 1 .. MaxRead : left' = IF avail < max THEN avail ELSE max
      /\ UNCHANGED <<ring, wpos, dma, armed, tail, armFails, sent, errors, owed>>
  BY DEF U!Read, U!AtMark, U!dmaVars
<1>2. avail \in 0 .. Size - 1
  BY MarginFacts DEF RingInv, UartTypes, U!Index
<1>3. ASSUME NEW d \in 0 .. Size, NEW u \in Nat, Unread(d, u) PROVE avail = d
  <2>1. d \in 0 .. Size - 1  BY <1>1, <1>3, MarginFacts DEF Unread
  <2> QED  BY <1>3, <2>1, TypeFacts, RoundTheRing DEF Unread
<1> HIDE DEF avail
<1>4. left' \in 0 .. avail /\ left' <= MaxRead /\ (left' = 0 => avail = 0)
  BY <1>1, <1>2, MarginFacts
<1>5. UartTypes'
  <2>1. rush' \in BOOLEAN /\ overflows' \in BOOLEAN  BY <1>1, Zenon DEF RingInv, UartTypes
  <2>2. left' \in 0 .. MaxRead /\ at' \in {"rearm", "read", "copy"} /\ (at' = "copy" => left' # 0)
    BY <1>1, <1>2, <1>4, MarginFacts
  <2> QED  BY <1>1, <2>1, <2>2 DEF RingInv, UartTypes, U!Index
<1>6. ASSUME NEW d \in 0 .. Size, NEW u \in Nat, Unread(d, u), ~overflows' PROVE Unread(d, u)'
  <2>1. d < HighWater
    <3>1. ~(avail >= HighWater)  BY <1>1, <1>6, Zenon
    <3> QED  BY <1>2, <1>3, <1>6, <3>1, MarginFacts
  <2>2. d < Size /\ (u = d \/ u >= Size) /\ (rush \/ u + 2 <= HighWater + fresh)
    BY <1>1, <1>6 DEF Unread
  <2>3. u = d \/ rush'
    <3>1. CASE rush  BY <1>1, <3>1
    <3>2. CASE fresh > U!Margin  BY <1>1, <3>2
    <3>3. CASE ~rush /\ ~(fresh > U!Margin)
      BY <2>2, <3>3, TypeFacts, MarginFacts
    <3> QED  BY <3>1, <3>2, <3>3
  <2>4. IF left' = 0 THEN d = 0 ELSE left' \in 1 .. d
    BY <1>2, <1>3, <1>4, <1>6
  <2>5. IF at' = "copy"
        THEN left' \in 1 .. d - fresh' /\ d < HighWater + fresh' /\ fresh' <= Burst
             /\ (u = d \/ rush')
        ELSE d < Size /\ (u = d \/ u >= Size) /\ (rush' \/ u + 2 <= HighWater + fresh')
    <3>1. CASE left' = 0
      BY <1>1, <2>2, <2>3, <2>4, <3>1, MarginFacts
    <3>2. CASE left' # 0
      BY <1>1, <2>1, <2>3, <2>4, <3>2, MarginFacts
    <3> QED  BY <3>1, <3>2
  <2> QED  BY <1>1, <1>6, <2>5 DEF Unread, Place, Back
<1> QED  BY <1>1, <1>5, <1>6 DEF RingInv

\* The first byte of a copy is the oldest of those the look took for all: the next of
\* the stream, or a newer one after a rush.  From then on the reader is in step.
LEMMA CopyStep ==
  ASSUME RingInv, U!Copy
  PROVE  RingInv' /\ (overflows \/ armFails \/ ring[tail] = owed \/ (rush /\ ring[tail] > owed))
<1>1. /\ at = "copy" /\ left' = left - 1 /\ tail' = (tail + 1) % Size /\ owed' = ring[tail] + 1
      /\ rush' = FALSE /\ at' = IF left' = 0 THEN "rearm" ELSE "copy"
      /\ UNCHANGED <<ring, wpos, dma, armed, overflows, armFails, sent, errors, fresh>>
  BY DEF U!Copy, U!dmaVars
<1>2. tail' = Place(tail, 1) /\ tail' \in U!Index
  BY <1>1, RoundTheRing, MarginFacts DEF RingInv, UartTypes
<1>3. UartTypes'
  <2>1. left \in 1 .. MaxRead /\ ring[tail] \in Nat  BY <1>1 DEF RingInv, UartTypes
  <2>2. left' \in 0 .. MaxRead /\ owed' \in Nat  BY <1>1, <2>1, MarginFacts
  <2> QED  BY <1>1, <1>2, <2>2 DEF RingInv, UartTypes, U!Index
<1>4. ASSUME NEW d \in 0 .. Size, NEW u \in Nat, Unread(d, u)
      PROVE  /\ ring[tail] = owed \/ (rush /\ ring[tail] > owed)
             /\ d - 1 \in 0 .. Size /\ d - 1 \in Nat /\ Unread(d - 1, d - 1)'
  <2>1. /\ left \in 1 .. d - fresh /\ d < HighWater + fresh /\ fresh <= Burst
        /\ (u = d \/ rush) /\ d <= u
    BY <1>1, <1>4 DEF Unread
  <2>2. d \in 1 .. Size /\ d - 1 \in 0 .. Size - 1 /\ (d - 1) + 1 = d
    BY <1>4, <2>1, TypeFacts, MarginFacts
  <2>3. ring[tail] = owed + u - d
    <3>1. Back(wpos, d) = tail  BY <1>4, <2>2, TypeFacts, BackAgain DEF Unread
    <3>2. ring[Back(wpos, d)] = owed + u - d  BY <1>4, <2>1, <2>2 DEF Unread
    <3> QED  BY <3>1, <3>2
  <2>4. ring[tail] = owed \/ (rush /\ ring[tail] > owed)
    BY <2>1, <2>2, <2>3, TypeFacts
  <2>5. owed' + (d - 1) = owed + u  BY <1>1, <2>2, <2>3, TypeFacts
  <2>6. wpos' = Place(tail', d - 1)
    <3>1. Place(Place(tail, 1), d - 1) = Place(tail, (d - 1) + 1)
      BY <2>2, TypeFacts, RoundTheRing
    <3> QED  BY <1>1, <1>2, <1>4, <2>2, <3>1 DEF Unread
  <2>7. ASSUME NEW k \in 1 .. Size, k <= d - 1
        PROVE  ring'[Back(wpos', k)] = owed' + (d - 1) - k
    <3>1. k <= u  BY <2>1, <2>2, <2>7
    <3>2. ring[Back(wpos, k)] = owed + u - k  BY <1>4, <3>1 DEF Unread
    <3>3. owed' \in Nat /\ ring'[Back(wpos', k)] = ring[Back(wpos, k)]
      BY <1>1, <1>3 DEF UartTypes
    <3> QED  BY <2>5, <3>2, <3>3, TypeFacts
  <2>8. owed' + (d - 1) <= sent' + 1 /\ (dma' = "run" => owed' + (d - 1) = sent' + 1)
    BY <1>1, <1>4, <2>5 DEF Unread
  <2>9. IF at' = "copy"
        THEN left' \in 1 .. (d - 1) - fresh' /\ d - 1 < HighWater + fresh' /\ fresh' <= Burst
        ELSE d - 1 < Size /\ (d - 1) + 2 <= HighWater + fresh'
    BY <1>1, <2>1, <2>2, TypeFacts, MarginFacts
  <2>10. Unread(d - 1, d - 1)'
    BY <2>2, <2>6, <2>7, <2>8, <2>9 DEF Unread, Place, Back
  <2>11. d - 1 \in 0 .. Size /\ d - 1 \in Nat  BY <2>2, MarginFacts
  <2> QED  BY <2>4, <2>10, <2>11
<1>5. UNCHANGED <<overflows, armFails>>  BY <1>1
<1> QED  BY <1>3, <1>4, <1>5 DEF RingInv

LEMMA RingStep ==
  ASSUME RingInv, [U!Next]_(U!vars)
  PROVE  RingInv'
<1>1. CASE U!Byte \/ U!Error \/ U!Aborted  BY <1>1, ArrivalStep
<1>2. CASE U!Task  BY <1>2, RearmStep, LookStep, CopyStep DEF U!Task
<1>3. CASE UNCHANGED U!vars
  BY <1>3 DEF U!vars, U!dmaVars, U!taskVars, RingInv, UartTypes, Unread, Place, Back, U!Index
<1> QED  BY <1>1, <1>2, <1>3 DEF U!Next

\* With any ring, mark and burst whose margin fits a copy, any number of bytes between
\* two looks, and any number of errors and restarts: while neither counter of
\* platform_uart1.c moved the reader gets no byte twice and none out of order, and a
\* byte is missed only after more than the margin came between two looks.
THEOREM RingIsHonest == RingSpec => StreamIsHonest
<1>1. U!Init => RingInv
  <2> SUFFICES ASSUME U!Init PROVE RingInv  OBVIOUS
  <2>1. UartTypes
    <3>1. [i \in U!Index |-> 0] \in [U!Index -> Nat] /\ 0 \in U!Index /\ 0 \in 0 .. MaxRead
      BY MarginFacts DEF U!Index
    <3> QED  BY <3>1 DEF U!Init, UartTypes
  <2>2. Unread(0, 0)  BY MarginFacts DEF U!Init, Unread, Place
  <2> QED  BY <2>1, <2>2, MarginFacts DEF RingInv
<1>2. RingInv /\ [U!Next]_(U!vars) => RingInv'  BY RingStep
<1>3. RingInv /\ [U!Next]_(U!vars)
        => [U!Copy => \/ overflows \/ armFails
                      \/ ring[tail] = owed
                      \/ rush /\ ring[tail] > owed]_(U!vars)
  BY CopyStep
<1> QED  BY <1>1, <1>2, <1>3, PTL DEF RingSpec, StreamIsHonest, U!Spec, U!StreamIsHonest
=============================================================================

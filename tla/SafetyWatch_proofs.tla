-------------------------- MODULE SafetyWatch_proofs --------------------------
(***************************************************************************)
(* Proofs about SafetyWatch, for every choice of the times that            *)
(* WatchAssumption admits and any number of trips and SOS ids.             *)
(*                                                                         *)
(* The properties relate history (how long a trip has gone on without the  *)
(* link, when the marker was last bad) to decisions that safety.py takes   *)
(* on its own ages and on a copy of the mission state that may be a tick   *)
(* old.  Each of the four parts of WatchInv below says how far one of      *)
(* these may be from the truth; they are proved one after the other, each  *)
(* from the types, the facts about ids and itself.                         *)
(***************************************************************************)
EXTENDS SafetyWatch, TLAPS

\* Ids grow, a trip that moves has one, and a copy that says "active" is about
\* the trip under way.
IdInv ==
  /\ trip <= trips /\ copyTrip <= trips /\ stopped <= trips
  /\ state \in Moving => trip # 0
  /\ copyState = "active" =>
       state \in {"active", "cancelling"} /\ copyTrip = trip /\ trip # 0

Down == DownFor(connected, msgAge, falseAge, upAge)

\* LinkWatch's own clocks never run behind the loss they are to bound, and a
\* trip it has stopped does not move.
LossInv ==
  /\ msgAge # -1 /\ ~connected => falseAge # -1
  /\ lossFor > 0 => Down # -1 /\ lossFor <= Down /\ lossFor <= tripAge
  /\ stopped # 0 /\ stopped = trip => state \notin Moving
  /\ lossFor >= LinkStop => state = "cancelling"

\* An SOS settled by a tick has its trip in the copy; one that sent its stop has
\* no trip.
AnswerInv ==
  /\ refused <= lastSos /\ (sos # 0 => sos = lastSos)
  /\ settled /\ sos # 0 /\ state \in Moving => copyState \in Moving
  /\ sos # 0 /\ stopSent => state \notin Moving
  /\ NoAnswerNoTrip

\* The time since the marker was last bad, between the age of the recovery and
\* what a gap in the messages may add to it.
RecoverInv ==
  /\ recoverAge # -1 => markerAge # -1 /\ seenAge = markerAge /\ recoverAge <= badAge
  /\ recoverAge # -1 /\ recoverAge < RecoverToClear => badAge <= recoverAge + MarkerStale
  /\ recoverAge = -1 => badAge <= MarkerStale /\ (badAge = 0 \/ badAge <= markerAge)
  /\ markerAge = -1 \/ markerAge > MarkerStale => badAge = 0
  /\ sos # 0 /\ reason = "tracking_lost" => recoverAge < RecoverToClear

\* A sighting the monitor remembers for this id did happen under it.
SightInv == acquired /\ copyTrip = trip /\ trip # 0 => sighted

WatchInv == TypeOK /\ IdInv /\ (~ReuseIds => LossInv) /\ AnswerInv /\ RecoverInv /\ SightInv

-----------------------------------------------------------------------------
(* Typing, in four parts.                                                  *)

NameOK == state \in States /\ copyState \in States
FlagOK ==
  /\ acquired \in BOOLEAN /\ stopSent \in BOOLEAN /\ settled \in BOOLEAN
  /\ connected \in BOOLEAN /\ sighted \in BOOLEAN
IdOK ==
  /\ trip \in 0 .. MaxTrips /\ copyTrip \in 0 .. MaxTrips
  /\ stopped \in 0 .. MaxTrips /\ trips \in 0 .. MaxTrips
SosOK ==
  /\ sos \in 0 .. MaxSos /\ lastSos \in 0 .. MaxSos /\ refused \in 0 .. MaxSos
  /\ reason \in {"none", "manual", "tracking_lost"} /\ (sos = 0 <=> reason = "none")
AgeOK ==
  /\ markerAge \in -1 .. LostToSos /\ seenAge \in -1 .. LostToSos
  /\ recoverAge \in -1 .. RecoverToClear
  /\ msgAge \in -1 .. MsgCap /\ falseAge \in -1 .. LinkStop
  /\ upAge \in 0 .. LinkStop /\ tripAge \in 0 .. LinkStop
  /\ badAge \in 0 .. BadCap /\ lossFor \in 0 .. LinkStop + 1

LEMMA TypeParts ==
  /\ TypeOK <=> NameOK /\ FlagOK /\ IdOK /\ SosOK /\ AgeOK
  /\ TypeOK' <=> NameOK' /\ FlagOK' /\ IdOK' /\ SosOK' /\ AgeOK'
BY DEF TypeOK, NameOK, FlagOK, IdOK, SosOK, AgeOK

LEMMA ConstantFacts ==
  /\ LostToSos \in Nat \ {0} /\ RecoverToClear \in Nat \ {0} /\ LinkStop \in Nat \ {0}
  /\ MarkerStale \in Nat /\ LinkStale \in Nat /\ MaxTrips \in Nat /\ MaxSos \in Nat
  /\ MarkerStale < LostToSos
  /\ MsgCap \in Nat /\ BadCap \in Nat /\ RecoverToClear < BadCap
BY WatchAssumption DEF MsgCap, BadCap

\* An age grows by at most one, stays within its cap, and -1 stays -1.
LEMMA OlderFacts ==
  ASSUME NEW cap \in Nat, NEW n \in -1 .. cap
  PROVE  /\ Older(n, cap) \in -1 .. cap
         /\ (Older(n, cap) = -1 <=> n = -1)
         /\ n # -1 => Older(n, cap) \in 0 .. cap
         /\ n # -1 /\ n < cap => Older(n, cap) = n + 1
         /\ n = cap => Older(n, cap) = n
BY DEF Older

\* Opening and closing an SOS.
SosVarsOK ==
  /\ sos \in 0 .. MaxSos /\ lastSos \in 0 .. MaxSos
  /\ reason \in {"none", "manual", "tracking_lost"} /\ (sos = 0 <=> reason = "none")

LEMMA ClearTypes ==
  ASSUME SosOK, NEW how, Clear(how)
  PROVE  SosVarsOK' /\ stopSent' \in BOOLEAN
<1>1. sos' = 0 /\ reason' = "none" /\ lastSos' = lastSos  BY DEF Clear
<1>2. stopSent' = FALSE  BY DEF Clear
<1>3. SosVarsOK'  BY <1>1, ConstantFacts DEF SosVarsOK, SosOK
<1> QED  BY <1>2, <1>3

LEMMA OpenTypes ==
  ASSUME SosOK, NEW why \in {"manual", "tracking_lost"}, Open(why)
  PROVE  SosVarsOK' /\ stopSent' \in BOOLEAN
<1>1. /\ lastSos < MaxSos /\ sos' = lastSos + 1 /\ lastSos' = lastSos + 1
      /\ reason' = why
  BY DEF Open
<1>2. stopSent' = FALSE  BY DEF Open
<1>3. SosVarsOK'  BY <1>1, ConstantFacts DEF SosVarsOK, SosOK
<1> QED  BY <1>2, <1>3

\* What one turn of SafetyMonitor leaves.
LEMMA SafetyTickTypes ==
  ASSUME TypeOK, NEW st, NEW acq \in BOOLEAN, NEW m \in -1 .. LostToSos,
         NEW seen \in -1 .. LostToSos, NEW rec \in -1 .. RecoverToClear,
         SafetyTick(st, acq, m, seen, rec)
  PROVE  /\ acquired' \in BOOLEAN /\ stopSent' \in BOOLEAN /\ SosVarsOK'
         /\ markerAge' = m /\ seenAge' = seen /\ recoverAge' \in -1 .. RecoverToClear
<1>0. acquired' \in BOOLEAN /\ markerAge' = m /\ seenAge' = seen  BY DEF SafetyTick
<1>1. SosOK /\ FlagOK  BY TypeParts
<1>2. recoverAge' \in -1 .. RecoverToClear  BY ConstantFacts DEF SafetyTick
<1>3. CASE Clear("tracking_recovered")  BY <1>0, <1>1, <1>2, <1>3, ClearTypes
<1>4. CASE Open("tracking_lost")  BY <1>0, <1>1, <1>2, <1>4, OpenTypes
<1>5. CASE UNCHANGED sosVars
  BY <1>0, <1>1, <1>2, <1>5 DEF sosVars, SosOK, SosVarsOK, FlagOK
<1> QED  BY <1>3, <1>4, <1>5 DEF SafetyTick

\* down_since() is an age or -1.
LEMMA DownType ==
  ASSUME NEW conn \in BOOLEAN, NEW msg \in -1 .. MsgCap, NEW false \in -1 .. LinkStop,
         NEW up \in 0 .. LinkStop
  PROVE  DownFor(conn, msg, false, up) \in -1 .. LinkStop
BY ConstantFacts DEF DownFor, MsgCap

\* A trip command ends an SOS or leaves it alone.
LEMMA TripCommandTypes ==
  ASSUME TypeOK, NEW how, TripCommand(how)
  PROVE  SosVarsOK' /\ stopSent' \in BOOLEAN /\ acquired' \in BOOLEAN
<1>1. SosOK /\ FlagOK  BY TypeParts
<1>2. CASE sos # 0  BY <1>1, <1>2, ClearTypes DEF TripCommand
<1>3. CASE sos = 0  BY <1>1, <1>3 DEF TripCommand, sosVars, SosOK, SosVarsOK, FlagOK
<1> QED  BY <1>2, <1>3

\* What on_tick() does, its LETs replaced by the values they leave.
StoppedAtTick == IF NewTrip(copyState', copyTrip') THEN 0 ELSE stopped
StopAtTick ==
  StopDue(copyState', copyTrip', DownFor(connected, msgAge', falseAge', upAge'), tripAge',
          StoppedAtTick)
LEMMA TickFacts ==
  ASSUME OnTick
  PROVE  /\ copyState' \in MissionTick(state)
         /\ copyTrip' = (IF copyState' = "idle" THEN 0 ELSE trip) /\ trip' = copyTrip'
         /\ SafetyTick(copyState', Acquired(copyTrip'), Older(markerAge, LostToSos),
                       Older(seenAge, LostToSos), Older(recoverAge, RecoverToClear))
         /\ settled' = (lastSos' = lastSos)
         /\ msgAge' = Older(msgAge, MsgCap) /\ falseAge' = Older(falseAge, LinkStop)
         /\ upAge' = Older(upAge, LinkStop)
         /\ tripAge' = IF NewTrip(copyState', copyTrip') THEN 0 ELSE Older(tripAge, LinkStop)
         /\ stopped' = IF StopAtTick THEN copyTrip' ELSE StoppedAtTick
         /\ state' = IF StopAtTick THEN "cancelling" ELSE copyState'
         /\ badAge' = IF markerAge' = -1 \/ markerAge' > MarkerStale
                      THEN 0 ELSE Older(badAge, BadCap)
         /\ lossFor' = IF copyState' \in Moving /\ GoesOn(copyState', copyTrip')
                          /\ ~LinkIsUp(connected, msgAge')
                       THEN Older(lossFor, LinkStop + 1) ELSE 0
         /\ trips' = trips /\ connected' = connected /\ sighted' = sighted
         /\ refused' = refused
<1>1. PICK s \in MissionTick(state) : OnTick!(s)
  BY DEF OnTick
<1>2. copyState' = s /\ copyTrip' = (IF s = "idle" THEN 0 ELSE trip) /\ trip' = copyTrip'
  BY <1>1
<1>3. markerAge' = Older(markerAge, LostToSos)  BY <1>1 DEF SafetyTick
<1> QED  BY <1>1, <1>2, <1>3 DEF StopAtTick, StoppedAtTick

\* A tick moves no trip that did not move.
LEMMA MissionTickFacts ==
  ASSUME NameOK, NEW s \in MissionTick(state)
  PROVE  s \in States /\ (s \in Moving => state \in Moving)
BY DEF NameOK, MissionTick, States, Moving

LEMMA InitTypes == Init => TypeOK
<1> SUFFICES ASSUME Init PROVE TypeOK  OBVIOUS
<1>1. NameOK  BY DEF Init, NameOK, States
<1>2. FlagOK  BY DEF Init, FlagOK
<1>3. IdOK /\ SosOK  BY ConstantFacts DEF Init, IdOK, SosOK
<1>4. AgeOK  BY ConstantFacts DEF Init, AgeOK
<1> QED  BY <1>1, <1>2, <1>3, <1>4, TypeParts

LEMMA TickTypes == TypeOK /\ OnTick => TypeOK'
<1> SUFFICES ASSUME TypeOK, OnTick PROVE TypeOK'  OBVIOUS
<1> USE ConstantFacts
<1>0. NameOK /\ FlagOK /\ IdOK /\ SosOK /\ AgeOK  BY TypeParts
<1>1. copyState' \in MissionTick(state)  BY TickFacts
<1>2. NameOK'
  <2>1. copyState' \in States  BY <1>0, <1>1, MissionTickFacts
  <2>2. "cancelling" \in States  BY DEF States
  <2> QED  BY <2>1, <2>2, TickFacts DEF NameOK
<1>3. IdOK'  BY <1>0, TickFacts DEF IdOK, StoppedAtTick
<1>4. /\ Acquired(copyTrip') \in BOOLEAN /\ Older(markerAge, LostToSos) \in -1 .. LostToSos
      /\ Older(seenAge, LostToSos) \in -1 .. LostToSos
      /\ Older(recoverAge, RecoverToClear) \in -1 .. RecoverToClear
  BY <1>0, OlderFacts DEF AgeOK, FlagOK, Acquired
<1>5. /\ acquired' \in BOOLEAN /\ stopSent' \in BOOLEAN /\ SosVarsOK'
      /\ markerAge' \in -1 .. LostToSos /\ seenAge' \in -1 .. LostToSos
      /\ recoverAge' \in -1 .. RecoverToClear
  BY <1>4, TickFacts, SafetyTickTypes
<1>6. FlagOK'  BY <1>0, <1>5, TickFacts DEF FlagOK
<1>7. SosOK'  BY <1>0, <1>5, TickFacts DEF SosVarsOK, SosOK
<1>8. AgeOK'
  <2>1. msgAge' \in -1 .. MsgCap /\ falseAge' \in -1 .. LinkStop
        /\ upAge' \in 0 .. LinkStop
    BY <1>0, OlderFacts, TickFacts DEF AgeOK
  <2>2. tripAge' \in 0 .. LinkStop  BY <1>0, OlderFacts, TickFacts DEF AgeOK
  <2>3. badAge' \in 0 .. BadCap  BY <1>0, OlderFacts, TickFacts DEF AgeOK
  <2>4. lossFor' \in 0 .. LinkStop + 1  BY <1>0, OlderFacts, TickFacts DEF AgeOK
  <2> QED  BY <1>5, <2>1, <2>2, <2>3, <2>4 DEF AgeOK, MsgCap, BadCap
<1> QED  BY <1>2, <1>3, <1>6, <1>7, <1>8, TypeParts

LEMMA MarkerTypes == TypeOK /\ OnMarker => TypeOK'
<1> SUFFICES ASSUME TypeOK, OnMarker PROVE TypeOK'  OBVIOUS
<1> USE ConstantFacts
<1>0. NameOK /\ FlagOK /\ IdOK /\ SosOK /\ AgeOK  BY TypeParts
<1>1. PICK seen \in BOOLEAN : OnMarker!(seen)  BY DEF OnMarker
<1>2. /\ (acquired \/ (seen /\ copyState \in Moving)) \in BOOLEAN
      /\ (IF seen THEN 0 ELSE seenAge) \in -1 .. LostToSos /\ 0 \in -1 .. LostToSos
      /\ RecoveringSince(seen) \in -1 .. RecoverToClear
  BY <1>0 DEF AgeOK, RecoveringSince
<1>3. /\ acquired' \in BOOLEAN /\ stopSent' \in BOOLEAN /\ SosVarsOK'
      /\ markerAge' = 0 /\ seenAge' \in -1 .. LostToSos
      /\ recoverAge' \in -1 .. RecoverToClear
  BY <1>1, <1>2, SafetyTickTypes DEF Marker
<1>4. NameOK' /\ IdOK'  BY <1>0, <1>1 DEF NameOK, IdOK, missionVars, copyVars, linkVars
<1>5. FlagOK'
  <2>1. settled' \in BOOLEAN /\ sighted' \in BOOLEAN /\ connected' = connected
    BY <1>1 DEF linkVars
  <2> QED  BY <1>0, <1>3, <2>1 DEF FlagOK
<1>6. SosOK'  BY <1>0, <1>1, <1>3 DEF SosVarsOK, SosOK
<1>7. AgeOK'
  <2>1. badAge' \in 0 .. BadCap  BY <1>0, <1>1 DEF AgeOK
  <2>2. UNCHANGED <<linkVars, lossFor>>  BY <1>1
  <2> QED  BY <1>0, <1>3, <2>1, <2>2 DEF AgeOK, linkVars, MsgCap, BadCap
<1> QED  BY <1>4, <1>5, <1>6, <1>7, TypeParts

LEMMA LinkTypes == TypeOK /\ OnLink => TypeOK'
<1> SUFFICES ASSUME TypeOK, OnLink PROVE TypeOK'  OBVIOUS
<1> USE ConstantFacts
<1>0. NameOK /\ FlagOK /\ IdOK /\ SosOK /\ AgeOK  BY TypeParts
<1>1. PICK conn \in BOOLEAN : Link(conn) /\ lossFor' = IF conn THEN 0 ELSE lossFor
  BY DEF OnLink
<1>2. UNCHANGED <<copyVars, markerVars, sosVars, settled, badAge, sighted, refused>>
  BY DEF OnLink
<1>3. Down \in -1 .. LinkStop  BY <1>0, DownType DEF Down, FlagOK, AgeOK
<1>4. /\ connected' = conn /\ msgAge' = 0 /\ UNCHANGED <<upAge, tripAge, trip, trips>>
      /\ falseAge' = (IF conn THEN falseAge ELSE FalseSince(Down))
      /\ stopped' \in {stopped, copyTrip} /\ state' \in {state, "cancelling"}
  BY <1>1 DEF Link, Down
<1>5. NameOK'  BY <1>0, <1>2, <1>4 DEF NameOK, States, copyVars
<1>6. IdOK'  BY <1>0, <1>2, <1>4 DEF IdOK, copyVars
<1>7. FlagOK'  BY <1>0, <1>2, <1>4 DEF FlagOK, markerVars, sosVars
<1>8. SosOK'  BY <1>0, <1>2 DEF SosOK, sosVars
<1>9. AgeOK'
  <2>1. falseAge' \in -1 .. LinkStop  BY <1>0, <1>3, <1>4 DEF AgeOK, FalseSince
  <2>2. lossFor' \in 0 .. LinkStop + 1  BY <1>0, <1>1 DEF AgeOK
  <2> QED  BY <1>0, <1>2, <1>4, <2>1, <2>2 DEF AgeOK, markerVars, MsgCap, BadCap
<1> QED  BY <1>5, <1>6, <1>7, <1>8, <1>9, TypeParts

\* The app's commands, the phone's answer and the answer to the enable call leave
\* the ages alone.
LEMMA CommandTypes ==
  /\ TypeOK
  /\ OnTripStart \/ OnTripCancel \/ OnSosAck \/ OnSosRaise \/ OnSosCancel \/ EnableResult
  => TypeOK'
<1> SUFFICES ASSUME TypeOK,
                    \/ OnTripStart \/ OnTripCancel \/ OnSosAck
                    \/ OnSosRaise \/ OnSosCancel \/ EnableResult
             PROVE  TypeOK'
  OBVIOUS
<1> USE ConstantFacts DEF copyVars, missionVars, markerVars, linkVars, histVars
<1>0. NameOK /\ FlagOK /\ IdOK /\ SosOK /\ AgeOK  BY TypeParts
<1>1. UNCHANGED <<markerAge, seenAge, recoverAge, linkVars, badAge, lossFor, copyTrip,
                  copyState>>
  BY DEF OnTripStart, OnTripCancel, OnSosAck, OnSosRaise, OnSosCancel, EnableResult
<1>2. AgeOK'  BY <1>0, <1>1 DEF AgeOK, MsgCap, BadCap
<1>3. NameOK'
  BY <1>0, <1>1 DEF NameOK, States, Moving, OnTripStart, OnTripCancel, OnSosAck,
     OnSosRaise, OnSosCancel, EnableResult
<1>4. IdOK'
  BY <1>0, <1>1 DEF IdOK, OnTripStart, OnTripCancel, OnSosAck, OnSosRaise, OnSosCancel,
     EnableResult
<1>5. refused' \in 0 .. MaxSos
  BY <1>0 DEF SosOK, OnTripStart, OnTripCancel, OnSosAck, OnSosRaise, OnSosCancel,
     EnableResult
<1>6. settled' \in BOOLEAN /\ sighted' \in BOOLEAN
  BY <1>0 DEF FlagOK, OnTripStart, OnTripCancel, OnSosAck, OnSosRaise, OnSosCancel,
     EnableResult
<1>7. SosVarsOK' /\ stopSent' \in BOOLEAN /\ acquired' \in BOOLEAN
  <2>1. CASE OnTripStart  BY <2>1, TripCommandTypes DEF OnTripStart
  <2>2. CASE OnTripCancel  BY <2>2, TripCommandTypes DEF OnTripCancel
  <2>3. CASE OnSosAck  BY <1>0, <2>3 DEF OnSosAck, SosVarsOK, SosOK, FlagOK
  <2>4. CASE OnSosRaise  BY <1>0, <2>4, OpenTypes DEF OnSosRaise, FlagOK
  <2>5. CASE OnSosCancel
    <3>1. acquired' \in BOOLEAN  BY <2>5 DEF OnSosCancel
    <3> QED  BY <1>0, <2>5, <3>1, ClearTypes DEF OnSosCancel
  <2>6. CASE EnableResult  BY <1>0, <2>6 DEF EnableResult, sosVars, SosVarsOK, SosOK, FlagOK
  <2> QED  BY <2>1, <2>2, <2>3, <2>4, <2>5, <2>6
<1>8. SosOK'  BY <1>5, <1>7 DEF SosVarsOK, SosOK
<1>9. FlagOK'  BY <1>0, <1>1, <1>6, <1>7 DEF FlagOK
<1> QED  BY <1>2, <1>3, <1>4, <1>8, <1>9, TypeParts

LEMMA TypeStep == TypeOK /\ [Next]_vars => TypeOK'
<1> SUFFICES ASSUME TypeOK, [Next]_vars PROVE TypeOK'  OBVIOUS
<1>1. CASE UNCHANGED vars
  BY <1>1 DEF vars, missionVars, copyVars, markerVars, sosVars, linkVars, histVars, TypeOK,
     MsgCap, BadCap
<1> QED  BY <1>1, TickTypes, MarkerTypes, LinkTypes, CommandTypes DEF Next

-----------------------------------------------------------------------------
(* The ids and the copy of the mission's state.                            *)

LEMMA IdStep == TypeOK /\ IdInv /\ [Next]_vars => IdInv'
<1> SUFFICES ASSUME TypeOK, IdInv, [Next]_vars PROVE IdInv'  OBVIOUS
<1> USE DEF IdInv, IdOK, missionVars, copyVars, linkVars
<1>0. NameOK /\ IdOK  BY TypeParts
<1>1. CASE OnTripStart
  <2>1. CASE state \in Moving \cup {"cancelling"}  BY <1>1, <2>1 DEF OnTripStart
  <2>2. CASE state \notin Moving \cup {"cancelling"}
    <3>1. copyState # "active"  BY <2>2 DEF Moving
    <3>2. trips' = trips + 1 /\ trip' \in {trips + 1, trip} /\ trip' # 0
      BY <1>0, <1>1, <2>2 DEF OnTripStart
    <3> QED  BY <1>0, <1>1, <3>1, <3>2 DEF OnTripStart
  <2> QED  BY <2>1, <2>2
<1>2. CASE OnTripCancel  BY <1>2 DEF OnTripCancel, Moving
<1>3. CASE OnMarker \/ OnSosRaise \/ OnSosCancel
  BY <1>3 DEF OnMarker, OnSosRaise, OnSosCancel
<1>4. CASE OnSosAck  BY <1>4 DEF OnSosAck, Moving
<1>5. CASE OnLink
  <2>1. /\ UNCHANGED <<trip, trips, copyState, copyTrip>>
        /\ stopped' \in {stopped, copyTrip}
        /\ state' = state \/ (state \in Moving /\ state' = "cancelling")
    BY <1>5 DEF OnLink, Link
  <2> QED  BY <2>1 DEF Moving
<1>6. CASE EnableResult  BY <1>6 DEF EnableResult, Moving
<1>7. CASE OnTick
  <2>1. copyState' \in Moving => state \in Moving  BY <1>0, <1>7, TickFacts, MissionTickFacts
  <2>2. /\ trips' = trips /\ trip' = copyTrip' /\ copyTrip' \in {0, trip}
        /\ copyState' \in Moving => trip' = trip /\ trip # 0
    BY <1>7, <2>1, TickFacts DEF Moving
  <2>3. stopped' \in {0, stopped, copyTrip'}  BY <1>7, TickFacts DEF StoppedAtTick
  <2>4. state' \in {copyState', "cancelling"}  BY <1>7, TickFacts
  <2> QED  BY <1>0, <2>2, <2>3, <2>4 DEF Moving
<1>8. CASE UNCHANGED vars  BY <1>8 DEF vars
<1> QED  BY <1>1, <1>2, <1>3, <1>4, <1>5, <1>6, <1>7, <1>8 DEF Next

-----------------------------------------------------------------------------
(* LinkWatch.                                                              *)

\* A stale connected=true: the time it has been stale grows with the loss.
LEMMA StaleGrows ==
  ASSUME NEW loss \in Nat, NEW age \in Int, NEW older \in 0 .. MsgCap, loss < LinkStop,
         older > LinkStale, older = age + 1 \/ older = LinkStale + LinkStop,
         loss > 0 => loss <= age - LinkStale
  PROVE  older - LinkStale \in Nat /\ loss + 1 <= older - LinkStale
BY ConstantFacts

\* Over a tick that counts as loss, the time the link has been down grows with it.
LEMMA LossTick ==
  ASSUME TypeOK, IdInv, LossInv, OnTick, lossFor' # 0
  PROVE  /\ state \in Moving /\ copyState' \in Moving /\ copyTrip' = trip /\ trip' = trip
         /\ ~NewTrip(copyState', copyTrip') /\ lossFor < LinkStop
         /\ lossFor' = lossFor + 1 /\ Down' # -1 /\ lossFor' <= Down'
         /\ lossFor' <= tripAge'
<1> USE ConstantFacts
<1>0. NameOK /\ FlagOK /\ IdOK /\ AgeOK  BY TypeParts
<1>1. /\ copyState' \in Moving /\ GoesOn(copyState', copyTrip')
      /\ ~LinkIsUp(connected, msgAge') /\ lossFor' = Older(lossFor, LinkStop + 1)
  BY TickFacts
<1>2. state \in Moving /\ copyTrip' = trip /\ trip' = trip
  BY <1>0, <1>1, TickFacts, MissionTickFacts DEF Moving
<1>3. ~NewTrip(copyState', copyTrip')  BY <1>1 DEF GoesOn, NewTrip
<1>4. lossFor < LinkStop  BY <1>0, <1>2 DEF LossInv, Moving, AgeOK
<1>5. lossFor' = lossFor + 1  BY <1>0, <1>1, <1>4 DEF Older, AgeOK
<1>6. lossFor' <= tripAge'
  BY <1>0, <1>3, <1>4, <1>5, TickFacts DEF AgeOK, LossInv, Older
<1>7. /\ msgAge' = Older(msgAge, MsgCap) /\ falseAge' = Older(falseAge, LinkStop)
      /\ upAge' = Older(upAge, LinkStop) /\ connected' = connected
  BY TickFacts
<1>8. Down' # -1 /\ lossFor' <= Down'
  <2>1. CASE msgAge = -1
    <3>1. Down = upAge /\ Down' = upAge'
      BY <1>7, <2>1 DEF Down, DownFor, Older
    <3> QED  BY <1>0, <1>4, <1>5, <1>7, <3>1 DEF AgeOK, LossInv, Older
  <2>2. CASE msgAge # -1 /\ ~connected
    <3>1. msgAge' # -1  BY <1>0, <1>7, <2>2, OlderFacts DEF AgeOK
    <3>2. Down = falseAge /\ Down' = falseAge'
      BY <1>7, <2>2, <3>1 DEF Down, DownFor
    <3> QED  BY <1>0, <1>4, <1>5, <1>7, <2>2, <3>2 DEF AgeOK, LossInv, Older
  <2>3. CASE msgAge # -1 /\ connected
    <3>1. msgAge' \in 0 .. MsgCap  BY <1>0, <1>7, <2>3, OlderFacts DEF AgeOK
    <3>2. msgAge' > LinkStale  BY <1>1, <2>3, <3>1 DEF LinkIsUp
    <3>3. Down' = msgAge' - LinkStale
      BY <1>7, <2>3, <3>1, <3>2 DEF Down, DownFor
    <3>4. lossFor > 0 => Down = msgAge - LinkStale
      BY <1>0, <2>3 DEF Down, DownFor, LossInv
    <3>5. msgAge' = msgAge + 1 \/ msgAge' = LinkStale + LinkStop
      BY <1>0, <1>7, <2>3 DEF AgeOK, Older, MsgCap
    <3>6. msgAge \in Int /\ lossFor \in Nat  BY <1>0 DEF AgeOK
    <3>7. lossFor > 0 => lossFor <= msgAge - LinkStale  BY <3>4 DEF LossInv
    <3>8. Down' \in Nat /\ lossFor + 1 <= Down'
      BY <1>4, <3>1, <3>2, <3>3, <3>5, <3>6, <3>7, StaleGrows
    <3> QED  BY <1>5, <3>8
  <2> QED  BY <1>0, <2>1, <2>2, <2>3 DEF FlagOK
<1> QED  BY <1>1, <1>2, <1>3, <1>4, <1>5, <1>6, <1>8

LEMMA LossTickStep == ~ReuseIds /\ TypeOK /\ IdInv /\ LossInv /\ OnTick => LossInv'
<1> SUFFICES ASSUME ~ReuseIds, TypeOK, IdInv, LossInv, OnTick PROVE LossInv'  OBVIOUS
<1> USE ConstantFacts
<1>0. NameOK /\ FlagOK /\ IdOK /\ AgeOK  BY TypeParts
<1>1. (msgAge # -1 /\ ~connected => falseAge # -1)'
  BY <1>0, TickFacts, OlderFacts DEF LossInv, AgeOK
<1>2. (lossFor > 0 => Down # -1 /\ lossFor <= Down /\ lossFor <= tripAge)'
  BY LossTick
<1>3. (stopped # 0 /\ stopped = trip => state \notin Moving)'
  <2>1. CASE StopAtTick  BY <2>1, TickFacts DEF Moving
  <2>2. CASE ~StopAtTick
    <3>1. stopped' \in {0, stopped} /\ state' = copyState' /\ trip' \in {0, trip}
      BY <2>2, TickFacts DEF StoppedAtTick
    <3>2. state' \in Moving => state \in Moving
      BY <1>0, <3>1, TickFacts, MissionTickFacts
    <3> QED  BY <3>1, <3>2 DEF LossInv
  <2> QED  BY <2>1, <2>2
<1>4. (lossFor >= LinkStop => state = "cancelling")'
  <2> SUFFICES ASSUME lossFor' >= LinkStop PROVE state' = "cancelling"  OBVIOUS
  <2>1. lossFor' # 0  OBVIOUS
  <2>2. /\ copyState' \in Moving /\ copyTrip' = trip /\ trip # 0
        /\ Down' >= LinkStop /\ tripAge' >= LinkStop /\ Down' # -1
    <3>1. TypeOK'  BY TickTypes
    <3>2. Down' \in -1 .. LinkStop
      <4>1. FlagOK' /\ AgeOK'  BY <3>1, TypeParts
      <4>2. /\ connected' \in BOOLEAN /\ msgAge' \in -1 .. MsgCap
            /\ falseAge' \in -1 .. LinkStop /\ upAge' \in 0 .. LinkStop
        BY <4>1 DEF FlagOK, AgeOK, MsgCap
      <4> QED  BY <4>2, DownType DEF Down
    <3>3. AgeOK'  BY <3>1, TypeParts
    <3> QED  BY <2>1, <3>2, <3>3, LossTick DEF IdInv, AgeOK
  <2>3. StoppedAtTick = stopped /\ stopped # trip
    BY <2>1, <2>2, LossTick DEF StoppedAtTick, LossInv
  <2>4. Down' = DownFor(connected, msgAge', falseAge', upAge')  BY TickFacts DEF Down
  <2>5. StopAtTick  BY <2>2, <2>3, <2>4 DEF StopAtTick, StopDue, Least
  <2> QED  BY <2>5, TickFacts
<1> QED  BY <1>1, <1>2, <1>3, <1>4 DEF LossInv

LEMMA LossStep == ~ReuseIds /\ TypeOK /\ IdInv /\ LossInv /\ [Next]_vars => LossInv'
<1> SUFFICES ASSUME ~ReuseIds, TypeOK, IdInv, LossInv, [Next]_vars PROVE LossInv'  OBVIOUS
<1> USE DEF missionVars, copyVars, linkVars, histVars
<1>0. NameOK /\ FlagOK /\ IdOK /\ AgeOK  BY TypeParts
<1>1. CASE OnTripStart
  <2>1. UNCHANGED <<linkVars, lossFor>>  BY <1>1 DEF OnTripStart
  <2>2. CASE UNCHANGED missionVars  BY <2>1, <2>2 DEF LossInv, Down, DownFor
  <2>3. CASE state \notin Moving \cup {"cancelling"}
    <3>1. trip' = trips + 1 /\ stopped' # trip'
      BY <1>0, <1>1, <2>1, <2>3 DEF OnTripStart, IdInv, IdOK
    <3> QED  BY <2>1, <2>3, <3>1 DEF LossInv, Down, DownFor
  <2> QED  BY <1>1, <2>2, <2>3 DEF OnTripStart
<1>2. CASE OnTripCancel
  BY <1>2 DEF OnTripCancel, LossInv, Down, DownFor, Moving
<1>3. CASE OnMarker \/ OnSosRaise \/ OnSosCancel
  BY <1>3 DEF OnMarker, OnSosRaise, OnSosCancel, LossInv, Down, DownFor
<1>4. CASE OnSosAck  BY <1>4 DEF OnSosAck, LossInv, Down, DownFor, Moving
<1>5. CASE OnLink
  <2>1. PICK conn \in BOOLEAN : Link(conn) /\ lossFor' = IF conn THEN 0 ELSE lossFor
    BY <1>5 DEF OnLink
  <2>2. /\ connected' = conn /\ msgAge' = 0 /\ UNCHANGED <<upAge, tripAge, trip>>
        /\ falseAge' = (IF conn THEN falseAge ELSE FalseSince(Down))
        /\ state' = state \/ (state \in Moving /\ state' = "cancelling")
        /\ stopped' = stopped \/ (stopped' = copyTrip /\ state' \notin Moving)
    BY <2>1 DEF Link, Down, Moving
  <2>3. ~conn => Down' = FalseSince(Down)  BY <2>2 DEF Down, DownFor
  <2>4. Down \in -1 .. LinkStop  BY <1>0, DownType DEF Down, FlagOK, AgeOK
  <2>5. FalseSince(Down) # -1 /\ (Down # -1 => FalseSince(Down) = Down)
    BY <2>4 DEF FalseSince
  <2>6. (lossFor > 0 => Down # -1 /\ lossFor <= Down /\ lossFor <= tripAge)'
    BY <2>1, <2>2, <2>3, <2>5 DEF LossInv
  <2>7. (msgAge # -1 /\ ~connected => falseAge # -1)'  BY <2>2, <2>5
  <2>8. (stopped # 0 /\ stopped = trip => state \notin Moving)'
    BY <2>2 DEF LossInv, Moving
  <2>9. (lossFor >= LinkStop => state = "cancelling")'
    <3>1. lossFor' >= LinkStop => lossFor >= LinkStop  BY <2>1, ConstantFacts
    <3> QED  BY <2>2, <3>1 DEF LossInv
  <2> QED  BY <2>6, <2>7, <2>8, <2>9 DEF LossInv
<1>6. CASE EnableResult  BY <1>6 DEF EnableResult, LossInv, Down, DownFor, Moving
<1>7. CASE OnTick  BY <1>7, LossTickStep
<1>8. CASE UNCHANGED vars  BY <1>8 DEF vars, LossInv, Down, DownFor
<1> QED  BY <1>1, <1>2, <1>3, <1>4, <1>5, <1>6, <1>7, <1>8 DEF Next

-----------------------------------------------------------------------------
(* The phone's answer.                                                     *)

\* A turn of SafetyMonitor leaves the SOS alone, closes it, or opens the next one
\* where none was open.
LEMMA SafetyTickSos ==
  ASSUME NEW st, NEW acq, NEW m, NEW seen, NEW rec, SafetyTick(st, acq, m, seen, rec)
  PROVE  \/ UNCHANGED <<sos, lastSos, stopSent>>
         \/ sos' = 0 /\ stopSent' = FALSE /\ lastSos' = lastSos
         \/ sos = 0 /\ sos' = lastSos + 1 /\ lastSos' = lastSos + 1 /\ stopSent' = FALSE
BY DEF SafetyTick, Clear, Open, Loses, sosVars

\* A new SOS has an id of its own, which no answer has named.
LEMMA FreshSos ==
  ASSUME SosOK, AnswerInv
  PROVE  lastSos + 1 # lastSos /\ lastSos + 1 # refused /\ refused <= lastSos + 1
BY DEF SosOK, AnswerInv

LEMMA AnswerStep == TypeOK /\ AnswerInv /\ [Next]_vars => AnswerInv'
<1> SUFFICES ASSUME TypeOK, AnswerInv, [Next]_vars PROVE AnswerInv'  OBVIOUS
<1> USE DEF AnswerInv, NoAnswerNoTrip, missionVars, copyVars, linkVars, histVars, sosVars,
            markerVars
<1>0. NameOK /\ SosOK /\ FlagOK  BY TypeParts
<1>1. CASE OnTripStart
  <2>1. UNCHANGED <<refused, settled, copyState>>  BY <1>1 DEF OnTripStart
  <2>2. CASE sos # 0
    BY <1>1, <2>1, <2>2 DEF OnTripStart, TripCommand, Clear
  <2>3. CASE sos = 0
    BY <1>1, <2>1, <2>3 DEF OnTripStart, TripCommand
  <2> QED  BY <2>2, <2>3
<1>2. CASE OnTripCancel
  <2>1. UNCHANGED <<refused, settled, copyState>> /\ (state' \in Moving => state' = state)
    BY <1>2 DEF OnTripCancel, Moving
  <2>2. UNCHANGED <<sos, lastSos, stopSent>> \/ (sos' = 0 /\ lastSos' = lastSos)
    BY <1>2 DEF OnTripCancel, TripCommand, Clear
  <2> QED  BY <2>1, <2>2
<1>3. CASE OnMarker
  <2>1. PICK seen \in BOOLEAN : OnMarker!(seen)  BY <1>3 DEF OnMarker
  <2>2. UNCHANGED <<state, copyState, refused>> /\ settled' = (settled /\ lastSos' = lastSos)
    BY <2>1
  <2>3. \/ UNCHANGED <<sos, lastSos, stopSent>>
        \/ sos' = 0 /\ lastSos' = lastSos
        \/ sos' = lastSos + 1 /\ lastSos' = lastSos + 1 /\ stopSent' = FALSE
    BY <2>1, SafetyTickSos DEF Marker
  <2>4. CASE UNCHANGED <<sos, lastSos, stopSent>>  BY <2>2, <2>4
  <2>5. CASE sos' = 0 /\ lastSos' = lastSos  BY <2>2, <2>5
  <2>6. CASE sos' = lastSos + 1 /\ lastSos' = lastSos + 1 /\ stopSent' = FALSE
    <3>1. ~settled' /\ refused' # sos' /\ refused' <= lastSos'
      BY <1>0, <2>2, <2>6, FreshSos
    <3> QED  BY <2>6, <3>1
  <2> QED  BY <2>3, <2>4, <2>5, <2>6
<1>4. CASE OnSosAck
  <2>1. PICK id \in 1 .. lastSos, received \in BOOLEAN :
          /\ id = lastSos => settled
          /\ IF id = sos /\ ~received /\ ~stopSent /\ AckStops
             THEN /\ stopSent' = TRUE
                  /\ state' = IF state \in Moving THEN "cancelling" ELSE state
             ELSE UNCHANGED <<stopSent, state>>
          /\ refused' = IF id = sos /\ ~received /\ state \in Moving THEN id ELSE refused
    BY <1>4 DEF OnSosAck
  <2>2. UNCHANGED <<sos, lastSos, settled, copyState>>  BY <1>4 DEF OnSosAck
  <2>3. CASE id = sos /\ ~received /\ state \in Moving
    <3>1. sos # 0 /\ settled /\ ~stopSent /\ AckStops
      BY <1>0, <2>1, <2>3 DEF SosOK, AckStops
    <3>2. state' = "cancelling" /\ refused' = sos  BY <2>1, <2>3, <3>1
    <3> QED  BY <1>0, <2>2, <3>1, <3>2 DEF Moving, SosOK
  <2>4. CASE ~(id = sos /\ ~received /\ state \in Moving)
    <3>1. refused' = refused /\ state' = state  BY <2>1, <2>4
    <3>2. stopSent' = stopSent \/ state \notin Moving  BY <2>1, <2>4
    <3> QED  BY <2>2, <3>1, <3>2
  <2> QED  BY <2>3, <2>4
<1>5. CASE OnSosRaise
  BY <1>0, <1>5, FreshSos DEF OnSosRaise, Open
<1>6. CASE OnSosCancel  BY <1>6 DEF OnSosCancel, Clear
<1>7. CASE OnLink
  <2>1. UNCHANGED <<sos, lastSos, stopSent, settled, copyState, refused>>
        /\ (state' \in Moving => state' = state)
    BY <1>7 DEF OnLink, Link, Moving
  <2> QED  BY <2>1
<1>8. CASE EnableResult  BY <1>8 DEF EnableResult, Moving
<1>9. CASE OnTick
  <2>1. /\ refused' = refused /\ settled' = (lastSos' = lastSos)
        /\ state' \in Moving => copyState' \in Moving /\ state \in Moving
    BY <1>0, <1>9, TickFacts, MissionTickFacts DEF Moving
  <2>2. \/ UNCHANGED <<sos, lastSos, stopSent>>
        \/ sos' = 0 /\ lastSos' = lastSos
        \/ sos' = lastSos + 1 /\ lastSos' = lastSos + 1 /\ stopSent' = FALSE
    BY <1>9, TickFacts, SafetyTickSos
  <2> QED  BY <1>0, <2>1, <2>2, FreshSos
<1>10. CASE UNCHANGED vars  BY <1>10 DEF vars
<1> QED  BY <1>1, <1>2, <1>3, <1>4, <1>5, <1>6, <1>7, <1>8, <1>9, <1>10 DEF Next

-----------------------------------------------------------------------------
(* The recovery of the marker.                                             *)

\* A turn of SafetyMonitor keeps RecoverInv, if the ages it is given and the new
\* badAge are related as RecoverInv relates them.
LEMMA RecoverTick ==
  ASSUME TypeOK, TypeOK', RecoverInv, NEW st, NEW acq,
         NEW m \in -1 .. LostToSos, NEW seen \in -1 .. LostToSos,
         NEW rec \in -1 .. RecoverToClear, SafetyTick(st, acq, m, seen, rec),
         rec # -1 => m # -1 /\ seen = m,
         rec # -1 /\ m <= MarkerStale => rec <= badAge',
         rec # -1 /\ rec < RecoverToClear /\ m <= MarkerStale => badAge' <= rec + MarkerStale,
         rec = -1 => badAge' <= MarkerStale /\ (badAge' = 0 \/ badAge' <= m),
         m = -1 \/ m > MarkerStale => badAge' = 0
  PROVE  RecoverInv'
<1> USE ConstantFacts
<1>0. SosOK /\ AgeOK /\ SosOK' /\ AgeOK'  BY TypeParts
<1>1. markerAge' = m /\ seenAge' = seen  BY DEF SafetyTick
<1>2. CASE Recovers(m, rec) /\ Clear("tracking_recovered") /\ recoverAge' = rec
  <2>1. sos' = 0 /\ m <= MarkerStale  BY <1>2 DEF Clear, Recovers, Recovered
  <2> QED  BY <1>1, <1>2, <2>1 DEF RecoverInv
<1>3. CASE Loses(st, acq, seen) /\ Open("tracking_lost") /\ recoverAge' = -1
  <2>1. seen > MarkerStale  BY <1>3 DEF Loses
  <2>2. rec # -1 => badAge' = 0  BY <2>1
  <2>3. badAge' <= MarkerStale /\ (badAge' = 0 \/ badAge' <= m)  BY <2>2
  <2> QED  BY <1>1, <1>3, <2>3 DEF RecoverInv
<1>4. CASE /\ ~Recovers(m, rec) /\ UNCHANGED sosVars
           /\ recoverAge' = IF m > MarkerStale THEN -1 ELSE rec
  <2>1. sos' # 0 /\ reason' = "tracking_lost" => recoverAge' < RecoverToClear
    BY <1>4 DEF Recovers, Recovered, sosVars
  <2>2. CASE m > MarkerStale  BY <1>1, <1>4, <2>1, <2>2 DEF RecoverInv
  <2>3. CASE m <= MarkerStale  BY <1>1, <1>4, <2>1, <2>3 DEF RecoverInv
  <2> QED  BY <2>2, <2>3
<1> QED  BY <1>2, <1>3, <1>4 DEF SafetyTick

\* The facts RecoverTick asks for, over a tick.
LEMMA TickRecovery ==
  ASSUME TypeOK, RecoverInv, OnTick
  PROVE  LET m == Older(markerAge, LostToSos)
             seen == Older(seenAge, LostToSos)
             rec == Older(recoverAge, RecoverToClear)
         IN  /\ m \in -1 .. LostToSos /\ seen \in -1 .. LostToSos
             /\ rec \in -1 .. RecoverToClear
             /\ rec # -1 => m # -1 /\ seen = m
             /\ rec # -1 /\ m <= MarkerStale => rec <= badAge'
             /\ rec # -1 /\ rec < RecoverToClear /\ m <= MarkerStale
                  => badAge' <= rec + MarkerStale
             /\ rec = -1 => badAge' <= MarkerStale /\ (badAge' = 0 \/ badAge' <= m)
             /\ m = -1 \/ m > MarkerStale => badAge' = 0
<1> DEFINE m == Older(markerAge, LostToSos)
           seen == Older(seenAge, LostToSos)
           rec == Older(recoverAge, RecoverToClear)
<1> USE ConstantFacts
<1>0. AgeOK  BY TypeParts
<1>1. m \in -1 .. LostToSos /\ seen \in -1 .. LostToSos /\ rec \in -1 .. RecoverToClear
  BY <1>0, OlderFacts DEF AgeOK
<1>2. (m = -1 <=> markerAge = -1) /\ (rec = -1 <=> recoverAge = -1)
  BY <1>0, OlderFacts DEF AgeOK
<1>3. markerAge' = m  BY TickFacts DEF SafetyTick
<1>4. badAge' = IF m = -1 \/ m > MarkerStale THEN 0 ELSE Older(badAge, BadCap)
  BY <1>3, TickFacts
<1>5. rec # -1 => m # -1 /\ seen = m  BY <1>2 DEF RecoverInv
<1>6. m # -1 /\ m <= MarkerStale => m = markerAge + 1 /\ markerAge \in Nat
  BY <1>0, <1>2 DEF Older, AgeOK
<1>7. badAge \in 0 .. BadCap /\ recoverAge \in -1 .. RecoverToClear  BY <1>0 DEF AgeOK
<1>8. ASSUME rec # -1, m <= MarkerStale
      PROVE  rec <= badAge' /\ (rec < RecoverToClear => badAge' <= rec + MarkerStale)
  <2>1. m # -1 /\ badAge' = Older(badAge, BadCap)  BY <1>1, <1>4, <1>5, <1>8
  <2>2. recoverAge \in 0 .. RecoverToClear /\ recoverAge <= badAge
    BY <1>2, <1>7, <1>8 DEF RecoverInv
  <2>3. rec = IF recoverAge < RecoverToClear THEN recoverAge + 1 ELSE recoverAge
    BY <1>2, <1>7, <1>8 DEF Older
  <2>4. badAge' = IF badAge < BadCap THEN badAge + 1 ELSE badAge  BY <1>7, <2>1 DEF Older
  <2>5. recoverAge < RecoverToClear => badAge <= recoverAge + MarkerStale
    BY <2>2 DEF RecoverInv
  <2>6. rec <= badAge'  BY <1>7, <2>2, <2>3, <2>4
  <2>7. rec < RecoverToClear => badAge' <= rec + MarkerStale
    BY <1>7, <2>2, <2>3, <2>4, <2>5
  <2> QED  BY <2>6, <2>7
<1>9. ASSUME rec = -1 PROVE badAge' <= MarkerStale /\ (badAge' = 0 \/ badAge' <= m)
  <2>1. CASE m = -1 \/ m > MarkerStale  BY <1>4, <2>1
  <2>2. CASE m # -1 /\ m <= MarkerStale
    <3>1. badAge' <= badAge + 1  BY <1>4, <1>7, <2>2 DEF Older
    <3>2. badAge <= markerAge  BY <1>2, <1>6, <1>9, <2>2 DEF RecoverInv
    <3>3. badAge' \in Int  BY <1>4, <1>7, <2>2 DEF Older
    <3> QED  BY <1>6, <1>7, <2>2, <3>1, <3>2, <3>3
  <2> QED  BY <1>1, <2>1, <2>2
<1> QED  BY <1>1, <1>4, <1>5, <1>8, <1>9

\* The same over a message of the marker.
LEMMA MarkerRecovery ==
  ASSUME TypeOK, RecoverInv, NEW seen \in BOOLEAN,
         badAge' = IF seen THEN badAge ELSE 0
  PROVE  LET rec == RecoveringSince(seen)
             age == IF seen THEN 0 ELSE seenAge
         IN  /\ age \in -1 .. LostToSos /\ rec \in -1 .. RecoverToClear
             /\ rec # -1 => age = 0
             /\ rec # -1 => rec <= badAge'
             /\ rec # -1 /\ rec < RecoverToClear => badAge' <= rec + MarkerStale
             /\ rec = -1 => badAge' = 0
<1> DEFINE rec == RecoveringSince(seen)
<1> USE ConstantFacts
<1>0. AgeOK  BY TypeParts
<1>1. badAge \in 0 .. BadCap /\ recoverAge \in -1 .. RecoverToClear
      /\ markerAge \in -1 .. LostToSos /\ seenAge \in -1 .. LostToSos
  BY <1>0 DEF AgeOK
<1>2. CASE ~seen  BY <1>1, <1>2 DEF RecoveringSince
<1>3. CASE seen
  <2>1. CASE recoverAge = -1
    BY <1>1, <1>3, <2>1 DEF RecoveringSince, RecoverInv
  <2>2. CASE recoverAge # -1 /\ markerAge > MarkerStale
    BY <1>1, <1>3, <2>2 DEF RecoveringSince, RecoverInv
  <2>3. CASE recoverAge # -1 /\ ~(markerAge > MarkerStale)
    BY <1>1, <1>3, <2>3 DEF RecoveringSince, RecoverInv
  <2> QED  BY <2>1, <2>2, <2>3
<1> QED  BY <1>2, <1>3

LEMMA RecoverStep == TypeOK /\ RecoverInv /\ [Next]_vars => RecoverInv'
<1> SUFFICES ASSUME TypeOK, RecoverInv, [Next]_vars PROVE RecoverInv'  OBVIOUS
<1> USE ConstantFacts DEF markerVars, sosVars, histVars
<1>0. TypeOK' /\ SosOK /\ SosOK'  BY TypeStep, TypeParts
<1>1. CASE OnMarker
  <2>1. PICK seen \in BOOLEAN : OnMarker!(seen)  BY <1>1 DEF OnMarker
  <2>2. SafetyTick(copyState, acquired \/ (seen /\ copyState \in Moving), 0,
                   IF seen THEN 0 ELSE seenAge, RecoveringSince(seen))
    BY <2>1 DEF Marker
  <2>3. badAge' = IF seen THEN badAge ELSE 0  BY <2>1
  <2> QED  BY <1>0, <2>2, <2>3, MarkerRecovery, RecoverTick
<1>2. CASE OnTick
  BY <1>0, <1>2, TickFacts, TickRecovery, RecoverTick
<1>3. CASE OnTripStart \/ OnTripCancel
  <2>1. UNCHANGED <<recoverAge, markerAge, seenAge, badAge>>
    BY <1>3 DEF OnTripStart, OnTripCancel
  <2>2. sos' = 0 \/ UNCHANGED <<sos, reason>>
    BY <1>3 DEF OnTripStart, OnTripCancel, TripCommand, Clear
  <2> QED  BY <2>1, <2>2 DEF RecoverInv
<1>4. CASE OnSosRaise
  BY <1>4 DEF OnSosRaise, Open, RecoverInv
<1>5. CASE OnSosCancel
  BY <1>5 DEF OnSosCancel, Clear, RecoverInv
<1>6. CASE OnSosAck \/ OnLink \/ EnableResult \/ UNCHANGED vars
  BY <1>6 DEF OnSosAck, OnLink, EnableResult, vars, RecoverInv
<1> QED  BY <1>1, <1>2, <1>3, <1>4, <1>5, <1>6 DEF Next

\* Only SafetyMonitor's own tick closes an SOS as recovered.
LEMMA RecoveredStep ==
  TypeOK /\ RecoverInv /\ [Next]_vars
    => (Closes("tracking_recovered") => reason = "tracking_lost" /\ badAge' >= RecoverToClear)
<1> SUFFICES ASSUME TypeOK, RecoverInv, [Next]_vars, Closes("tracking_recovered")
             PROVE  reason = "tracking_lost" /\ badAge' >= RecoverToClear
  OBVIOUS
<1> USE ConstantFacts DEF sosVars
<1>0. SosOK /\ AgeOK  BY TypeParts
<1>1. sos # 0 /\ sos' # sos /\ cleared' = "tracking_recovered"  BY DEF Closes
<1>2. ASSUME NEW st, NEW acq, NEW m, NEW seen, NEW rec, SafetyTick(st, acq, m, seen, rec)
      PROVE  reason = "tracking_lost" /\ m <= MarkerStale /\ rec >= RecoverToClear
  <2>1. Recovers(m, rec)  BY <1>1, <1>2 DEF SafetyTick, Loses
  <2> QED  BY <1>0, <2>1 DEF Recovers, Recovered, SosOK
<1>3. CASE OnMarker
  <2>1. PICK seen \in BOOLEAN : OnMarker!(seen)  BY <1>3 DEF OnMarker
  <2>2. reason = "tracking_lost" /\ RecoveringSince(seen) >= RecoverToClear
    BY <1>2, <2>1 DEF Marker
  <2>3. RecoveringSince(seen) <= badAge' /\ badAge' \in Int
        /\ RecoveringSince(seen) \in Int
    <3>1. RecoveringSince(seen) \in -1 .. RecoverToClear
      BY <2>1, MarkerRecovery
    <3>2. RecoveringSince(seen) # -1  BY <2>2, <3>1
    <3>3. badAge' \in Int  BY <1>0, <2>1 DEF AgeOK
    <3> QED  BY <2>1, <3>1, <3>2, <3>3, MarkerRecovery
  <2> QED  BY <2>2, <2>3
<1>4. CASE OnTick
  <2> DEFINE rec == Older(recoverAge, RecoverToClear)
             m == Older(markerAge, LostToSos)
  <2>1. reason = "tracking_lost" /\ m <= MarkerStale /\ rec >= RecoverToClear
    BY <1>2, <1>4, TickFacts
  <2>2. rec \in -1 .. RecoverToClear  BY <1>4, TickRecovery
  <2>3. rec # -1  BY <2>1, <2>2
  <2>4. rec <= badAge'  BY <1>4, <2>1, <2>3, TickRecovery
  <2>5. badAge' \in Int  BY <1>0, <1>4, TickFacts, OlderFacts DEF AgeOK
  <2> QED  BY <2>1, <2>2, <2>4, <2>5
<1>5. CASE OnTripStart \/ OnTripCancel
  BY <1>1, <1>5 DEF OnTripStart, OnTripCancel, TripCommand, Clear
<1>6. CASE OnSosCancel  BY <1>1, <1>6 DEF OnSosCancel, Clear
<1>7. CASE OnSosRaise  BY <1>1, <1>7 DEF OnSosRaise
<1>8. CASE OnSosAck \/ OnLink \/ EnableResult \/ UNCHANGED vars
  BY <1>1, <1>8 DEF OnSosAck, OnLink, EnableResult, vars
<1> QED  BY <1>3, <1>4, <1>5, <1>6, <1>7, <1>8 DEF Next

-----------------------------------------------------------------------------
(* The sighting.                                                           *)

LEMMA SafetyTickAcquired ==
  ASSUME NEW st, NEW acq, NEW m, NEW seen, NEW rec, SafetyTick(st, acq, m, seen, rec)
  PROVE  /\ acquired' = acq
         /\ Raises => acq /\ st = "active" /\ seen >= LostToSos
BY DEF SafetyTick, Clear, Open, Loses, sosVars, Raises

LEMMA SightStep ==
  TypeOK /\ IdInv /\ SightInv /\ [Next]_vars => SightInv' /\ (Raises => sighted)
<1> SUFFICES ASSUME TypeOK, IdInv, SightInv, [Next]_vars
             PROVE  SightInv' /\ (Raises => sighted)
  OBVIOUS
<1> USE DEF SightInv, missionVars, copyVars, markerVars, sosVars, linkVars, histVars
<1>0. NameOK /\ FlagOK /\ IdOK /\ SosOK  BY TypeParts
<1>1. CASE OnTripStart
  <2>1. /\ copyTrip' = copyTrip /\ (acquired' => acquired) /\ lastSos' = lastSos
    BY <1>0, <1>1 DEF OnTripStart, TripCommand, Clear, FlagOK
  <2>2. CASE UNCHANGED <<missionVars, sighted>>
    BY <2>1, <2>2 DEF Raises
  <2>3. CASE /\ trips' = trips + 1
             /\ trip' \in {trips + 1, trip} /\ sighted' = (sighted /\ trip' = trip)
             /\ trip' # 0
    <3>1. trips + 1 # copyTrip  BY <1>0 DEF IdInv, IdOK
    <3> QED  BY <2>1, <2>3, <3>1 DEF Raises
  <2>4. trips + 1 # 0  BY <1>0 DEF IdOK
  <2> QED  BY <1>1, <2>2, <2>3, <2>4 DEF OnTripStart
<1>2. CASE OnMarker
  <2>1. PICK seen \in BOOLEAN : OnMarker!(seen)  BY <1>2 DEF OnMarker
  <2>2. /\ acquired' = (acquired \/ (seen /\ copyState \in Moving))
        /\ Raises => /\ acquired \/ (seen /\ copyState \in Moving)
                     /\ copyState = "active" /\ (IF seen THEN 0 ELSE seenAge) >= LostToSos
    BY <2>1, SafetyTickAcquired DEF Marker
  <2>3. UNCHANGED <<trip, copyTrip>> /\ sighted' = (sighted \/ (seen /\ trip # 0))
    BY <2>1
  <2>4. SightInv'  BY <2>2, <2>3
  <2>5. Raises => sighted
    <3> SUFFICES ASSUME Raises PROVE sighted  OBVIOUS
    <3>1. ~seen  BY <2>2, ConstantFacts
    <3>2. acquired /\ copyTrip = trip /\ trip # 0  BY <2>2, <3>1 DEF IdInv
    <3> QED  BY <3>2
  <2> QED  BY <2>4, <2>5
<1>3. CASE OnTick
  <2>1. /\ acquired' = Acquired(copyTrip') /\ sighted' = sighted
        /\ trip' = copyTrip' /\ copyTrip' \in {0, trip}
        /\ Raises => Acquired(copyTrip') /\ copyState' = "active"
    BY <1>3, TickFacts, SafetyTickAcquired
  <2>2. SightInv'  BY <2>1 DEF Acquired
  <2>3. ASSUME Raises PROVE sighted
    <3>1. copyState' = "active" /\ state \in Moving
      BY <1>0, <1>3, <2>1, <2>3, TickFacts, MissionTickFacts DEF Moving
    <3>2. copyTrip' = trip /\ trip # 0  BY <1>3, <3>1, TickFacts DEF IdInv
    <3> QED  BY <2>1, <2>3, <3>2 DEF Acquired
  <2> QED  BY <2>2, <2>3
<1>4. CASE OnTripCancel
  <2>1. UNCHANGED <<trip, copyTrip, sighted, lastSos>> /\ (acquired' => acquired)
    BY <1>0, <1>4 DEF OnTripCancel, TripCommand, Clear, FlagOK
  <2> QED  BY <2>1 DEF Raises
<1>5. CASE OnSosRaise
  BY <1>5 DEF OnSosRaise, Open, Raises
<1>6. CASE OnSosCancel
  <2>1. UNCHANGED <<trip, copyTrip, sighted, lastSos>> /\ (acquired' => acquired)
    BY <1>0, <1>6 DEF OnSosCancel, Clear, FlagOK
  <2> QED  BY <2>1 DEF Raises
<1>7. CASE OnSosAck \/ OnLink \/ EnableResult \/ UNCHANGED vars
  <2>1. UNCHANGED <<trip, copyTrip, sighted, acquired, lastSos>>
    BY <1>7 DEF OnSosAck, OnLink, Link, EnableResult, vars
  <2> QED  BY <2>1 DEF Raises
<1> QED  BY <1>1, <1>2, <1>3, <1>4, <1>5, <1>6, <1>7 DEF Next

-----------------------------------------------------------------------------
(* The theorems.                                                           *)

LEMMA InitWatch == Init => WatchInv
<1> SUFFICES ASSUME Init PROVE WatchInv  OBVIOUS
<1> USE ConstantFacts
<1>1. TypeOK  BY InitTypes
<1>2. IdInv /\ SightInv  BY DEF Init, IdInv, SightInv, Moving
<1>3. LossInv  BY DEF Init, LossInv, Moving
<1>4. AnswerInv  BY DEF Init, AnswerInv, NoAnswerNoTrip
<1>5. RecoverInv  BY DEF Init, RecoverInv
<1> QED  BY <1>1, <1>2, <1>3, <1>4, <1>5 DEF WatchInv

LEMMA WatchStep == WatchInv /\ [Next]_vars => WatchInv'
BY TypeStep, IdStep, LossStep, AnswerStep, RecoverStep, SightStep DEF WatchInv

(* The watches' bookkeeping: WatchInv holds in every reachable state, for  *)
(* any number of trips and SOS ids and any order of the callbacks.         *)
THEOREM WatchInvariant == Spec => []WatchInv
<1>1. Init => WatchInv  BY InitWatch
<1>2. WatchInv /\ [Next]_vars => WatchInv'  BY WatchStep
<1> QED  BY <1>1, <1>2, PTL DEF Spec

(* Type correctness: no id, age or reason leaves its range; an SOS is open *)
(* exactly when it has a reason.                                           *)
THEOREM WatchTypes == Spec => []TypeOK
<1>1. WatchInv => TypeOK  BY DEF WatchInv
<1> QED  BY <1>1, WatchInvariant, PTL

(* If no trip is started under an id that was used before, LinkWatch stops *)
(* every trip whose phone link stays down for stop_after_s, however the    *)
(* link messages and the ticks are interleaved.  The hypothesis cannot be  *)
(* dropped: with an id used again the trip may go on.                      *)
THEOREM LinkLossAlwaysStops == ASSUME ~ReuseIds PROVE Spec => []LinkLossStops
<1>1. WatchInv => LinkLossStops
  <2> SUFFICES ASSUME WatchInv, state \in Moving PROVE lossFor < LinkStop
    BY DEF LinkLossStops
  <2>1. LossInv /\ lossFor \in Int  BY DEF WatchInv, TypeOK
  <2> QED  BY <2>1, ConstantFacts DEF LossInv, Moving
<1> QED  BY <1>1, WatchInvariant, PTL

(* A trip whose SOS the phone refused does not move again while that SOS   *)
(* is open, although on_sos_ack() decides on a copy of the mission state   *)
(* that may be a tick old.                                                 *)
THEOREM RefusedTripsStay == Spec => []NoAnswerNoTrip
<1>1. WatchInv => NoAnswerNoTrip  BY DEF WatchInv, AnswerInv
<1> QED  BY <1>1, WatchInvariant, PTL

(* An SOS for a lost marker closes by the time the marker has been back    *)
(* for the time to clear plus the longest gap that is still no gap.        *)
THEOREM RecoveryAlwaysCloses == Spec => []RecoveryCloses
<1>1. WatchInv => RecoveryCloses
  <2> SUFFICES ASSUME WatchInv, sos # 0, reason = "tracking_lost"
               PROVE  badAge < RecoverToClear + MarkerStale
    BY DEF RecoveryCloses
  <2>1. RecoverInv /\ recoverAge \in -1 .. RecoverToClear /\ badAge \in Int
    BY DEF WatchInv, TypeOK
  <2>2. CASE recoverAge = -1  BY <2>1, <2>2, ConstantFacts DEF RecoverInv
  <2>3. CASE recoverAge # -1  BY <2>1, <2>3, ConstantFacts DEF RecoverInv
  <2> QED  BY <2>2, <2>3
<1> QED  BY <1>1, WatchInvariant, PTL

(* SafetyMonitor.tick() reports a recovery only for an SOS that the marker *)
(* opened and only after it was seen long enough without LOST or gap.      *)
THEOREM RecoveriesAreReal == Spec => RecoveredIsReal
<1>1. WatchInv /\ [Next]_vars
        => [Closes("tracking_recovered")
              => reason = "tracking_lost" /\ badAge' >= RecoverToClear]_vars
  BY RecoveredStep DEF WatchInv
<1> QED  BY <1>1, WatchInvariant, PTL DEF Spec, RecoveredIsReal

(* SafetyMonitor never raises an SOS for a marker on a sighting left over  *)
(* from the trip before, even if an id is used again.                      *)
THEOREM SosOnlyAfterSighting == Spec => SosNeedsSighting
<1>1. WatchInv /\ [Next]_vars => [Raises => sighted]_vars
  BY SightStep DEF WatchInv
<1> QED  BY <1>1, WatchInvariant, PTL DEF Spec, SosNeedsSighting
=============================================================================

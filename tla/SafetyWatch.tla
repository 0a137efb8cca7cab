----------------------------- MODULE SafetyWatch -----------------------------
(***************************************************************************)
(* The mission node's two watches (safety.py): SafetyMonitor, which opens  *)
(* and closes an SOS on the marker, the app and the phone's answer, and    *)
(* LinkWatch, which stops a trip when the phone link stays down; with the  *)
(* callbacks of node.py that feed them.                                    *)
(*                                                                         *)
(* Both work on a copy of the mission state that only on_tick() refreshes, *)
(* while messages arrive between two ticks.  The mission itself is reduced *)
(* to the state changes of Mission.tla.  OnTick is one unit of time; every *)
(* stamp is kept as an age, -1 standing for None.                          *)
(***************************************************************************)
EXTENDS Integers

CONSTANTS
  LostToSos,     \* lost_to_sos_s
  RecoverToClear,\* recover_to_clear_s
  MarkerStale,   \* marker_stale_s
  LinkStop,      \* stop_after_s
  LinkStale,     \* stale_s of the link
  ReuseIds,      \* whether a trip may start under the last trip's id
  MaxTrips,      \* bound on trips
  MaxSos         \* bound on SOS ids

ASSUME WatchAssumption ==
  /\ {LostToSos, RecoverToClear, LinkStop} \subseteq Nat \ {0}
  /\ {MarkerStale, LinkStale, MaxTrips, MaxSos} \subseteq Nat
  /\ MarkerStale < LostToSos
  /\ ReuseIds \in BOOLEAN

VARIABLES
  state, trip, trips,                      \* Mission; the ids given out
  copyState, copyTrip,                     \* mission_state and trip_id of the watches
  acquired, markerAge, seenAge, recoverAge,   \* SafetyMonitor
  sos, reason, stopSent,                   \* the open SOS
  lastSos, settled,                        \* ids given out; a tick since the last one
  connected, msgAge, falseAge, upAge,      \* LinkWatch: link
  tripAge, stopped,                        \* LinkWatch: trip
  cleared,                                 \* history: how the last SOS was closed
  badAge, lossFor, sighted, refused        \* history: see the properties

missionVars == <<state, trip, trips>>
copyVars == <<copyState, copyTrip>>
markerVars == <<acquired, markerAge, seenAge, recoverAge>>
sosVars == <<sos, reason, stopSent, lastSos, cleared>>
linkVars == <<connected, msgAge, falseAge, upAge, tripAge, stopped>>
histVars == <<badAge, lossFor, sighted, refused>>
vars == <<missionVars, copyVars, markerVars, sosVars, settled, linkVars, histVars>>

Moving == {"starting", "active"}
States == Moving \cup {"cancelling", "cancelled", "error", "idle"}

Older(n, cap) == IF n = -1 THEN -1 ELSE IF n < cap THEN n + 1 ELSE n
Least(a, b) == IF a < b THEN a ELSE b
\* Ages saturate where no comparison tells them apart.
MsgCap == LinkStale + LinkStop
BadCap == RecoverToClear + MarkerStale + 1

-----------------------------------------------------------------------------
(* SafetyMonitor                                                           *)

\* _clear()
ClearKeepsReason(how) ==
  /\ sos' = 0 /\ stopSent' = FALSE
  /\ cleared' = how
  /\ UNCHANGED <<reason, lastSos>>
Clear(how) ==
  /\ sos' = 0 /\ reason' = "none" /\ stopSent' = FALSE
  /\ cleared' = how
  /\ UNCHANGED lastSos

\* An SOS under a new id, asked for by `why'.
Open(why) ==
  /\ lastSos < MaxSos
  /\ sos' = lastSos + 1 /\ lastSos' = lastSos + 1
  /\ reason' = why /\ stopSent' = FALSE
  /\ UNCHANGED cleared

\* tick() on the copied state st, with the marker ages it finds (m, seen, rec)
\* and acq: the conditions of its two outcomes.
RecoveredLater(m, rec) == m <= MarkerStale /\ rec > RecoverToClear
Recovered(m, rec) == m <= MarkerStale /\ rec >= RecoverToClear
Recovers(m, rec) == sos # 0 /\ reason # "manual" /\ Recovered(m, rec)
Loses(st, acq, seen) == sos = 0 /\ st = "active" /\ acq /\ seen >= LostToSos

SafetyTick(st, acq, m, seen, rec) ==
  /\ acquired' = acq /\ markerAge' = m /\ seenAge' = seen
  /\ \/ /\ Recovers(m, rec)
        /\ Clear("tracking_recovered")
        /\ recoverAge' = rec
     \/ /\ Loses(st, acq, seen)
        /\ Open("tracking_lost")
        /\ recoverAge' = -1
     \/ /\ ~Recovers(m, rec) /\ ~Loses(st, acq, seen)
        /\ UNCHANGED sosVars
        /\ recoverAge' = IF m > MarkerStale THEN -1 ELSE rec

\* marker(): a gap in the messages restarts the recovery.
KeepRecovering(seen) == IF seen /\ recoverAge = -1 THEN 0 ELSE recoverAge
RecoveringSince(seen) ==
  IF ~seen THEN -1
  ELSE IF recoverAge = -1 \/ markerAge > MarkerStale THEN 0 ELSE recoverAge
Marker(seen) ==
  SafetyTick(copyState, acquired \/ (seen /\ copyState \in Moving), 0,
             IF seen THEN 0 ELSE seenAge, RecoveringSince(seen))

-----------------------------------------------------------------------------
(* LinkWatch                                                               *)

\* down_since(), as the time the link has been down; -1 when it is up.
DownFor(conn, msg, false, up) ==
  IF msg = -1 THEN up
  ELSE IF ~conn THEN false
  ELSE IF msg > LinkStale THEN msg - LinkStale ELSE -1

\* tick(): the condition of its stop, on the copied state.
StopDue(st, tr, down, since, stp) ==
  /\ st \in Moving /\ tr # 0 /\ stp # tr
  /\ down # -1 /\ Least(down, since) >= LinkStop

\* link(): a link that was down already stays down since then.
DownFromNow(down) == 0
FalseSince(down) == IF down = -1 THEN 0 ELSE down
Link(conn) ==
  LET prev == DownFor(connected, msgAge, falseAge, upAge)
      f == IF conn THEN falseAge ELSE FalseSince(prev)
      stop == StopDue(copyState, copyTrip, DownFor(conn, 0, f, upAge), tripAge, stopped)
  IN  /\ connected' = conn /\ msgAge' = 0 /\ falseAge' = f
      /\ stopped' = IF stop THEN copyTrip ELSE stopped
      /\ state' = IF stop /\ state \in Moving THEN "cancelling" ELSE state
      /\ UNCHANGED <<upAge, tripAge, trip, trips>>

\* mission(): whether a new trip has begun since the last tick.
NewTrip(st, tr) == tr # copyTrip \/ (st = "starting" /\ copyState # "starting")

-----------------------------------------------------------------------------
(* node.py: the callbacks.                                                 *)

\* SafetyMonitor.trip_command(): the user is at the app, so an SOS is over.
TripCommand(how) ==
  IF sos # 0 THEN Clear(how) /\ acquired' = FALSE ELSE UNCHANGED <<sosVars, acquired>>

\* on_trip(start): under an id of its own, or the last one again; ignored by the
\* machine during a trip.
OnTripStart ==
  /\ IF state \in Moving \cup {"cancelling"}
     THEN UNCHANGED <<missionVars, sighted>>
     ELSE /\ trips < MaxTrips /\ trips' = trips + 1
          /\ trip' \in {trips + 1} \cup (IF ReuseIds THEN {trip} \ {0} ELSE {})
          /\ state' = "starting"
          /\ sighted' = (sighted /\ trip' = trip)
  /\ TripCommand("handled")
  /\ UNCHANGED <<copyVars, markerAge, seenAge, recoverAge, settled, linkVars, badAge,
                 lossFor, refused>>

\* on_trip(cancel)
OnTripCancel ==
  /\ state' = IF state \in Moving \cup {"error"} THEN "cancelling" ELSE state
  /\ TripCommand("cancelled")
  /\ UNCHANGED <<trip, trips, copyVars, markerAge, seenAge, recoverAge, settled,
                 linkVars, histVars>>

\* on_marker()
OnMarker ==
  \E seen \in BOOLEAN :
    /\ Marker(seen)
    /\ badAge' = IF seen THEN badAge ELSE 0
    /\ sighted' = (sighted \/ (seen /\ trip # 0))
    /\ settled' = (settled /\ lastSos' = lastSos)
    /\ UNCHANGED <<missionVars, copyVars, linkVars, lossFor, refused>>

\* on_sos_ack(): the phone's answer to any SOS so far; none comes back within
\* the tick in which the SOS was published.
AckWhileCopyMoves == copyState \in {"active"}
AckStops == copyState \in Moving
OnSosAck ==
  \E id \in 1 .. lastSos, received \in BOOLEAN :
    /\ id = lastSos => settled
    /\ IF id = sos /\ ~received /\ ~stopSent /\ AckStops
       THEN /\ stopSent' = TRUE
            /\ state' = IF state \in Moving THEN "cancelling" ELSE state
       ELSE UNCHANGED <<stopSent, state>>
    /\ refused' = IF id = sos /\ ~received /\ state \in Moving THEN id ELSE refused
    /\ UNCHANGED <<trip, trips, copyVars, markerVars, sos, reason, lastSos, settled,
                   cleared, linkVars, badAge, lossFor, sighted>>

\* on_sos_raise() and SafetyMonitor.manual()
OnSosRaise ==
  /\ sos = 0 /\ Open("manual") /\ settled' = FALSE
  /\ UNCHANGED <<missionVars, copyVars, markerVars, linkVars, histVars>>

\* on_sos_cancel() and SafetyMonitor.cancel()
OnSosCancel ==
  /\ sos # 0
  /\ Clear("cancelled")
  /\ acquired' = (acquired /\ reason = "manual")
  /\ UNCHANGED <<missionVars, copyVars, markerAge, seenAge, recoverAge, settled, linkVars,
                 histVars>>

\* on_link()
OnLink ==
  /\ \E conn \in BOOLEAN : Link(conn) /\ lossFor' = IF conn THEN 0 ELSE lossFor
  /\ UNCHANGED <<copyVars, markerVars, sosVars, settled, badAge, sighted, refused>>

\* _pump() between two ticks: the answer to the enable call.
EnableResult ==
  /\ state = "starting"
  /\ state' \in {"active", "error"}
  /\ UNCHANGED <<trip, trips, copyVars, markerVars, sosVars, settled, linkVars, histVars>>

\* What _pump() and Mission.tick() may do at a tick (Mission.tla).
MissionTick(s) ==
  {s} \cup CASE s = "starting"   -> {"active", "error"}
             [] s = "cancelling" -> {"cancelled", "error"}
             [] s = "cancelled"  -> {"idle"}
             [] OTHER            -> {}

LinkIsUp(conn, msg) == conn /\ msg \in 0 .. LinkStale
\* For the history: still the trip of the last tick, in whatever state.
GoesOn(st, tr) == tr = copyTrip /\ (st = "starting" => copyState = "starting")

\* SafetyMonitor.mission(): a new id forgets the last trip's sighting.
StillAcquired(tr) == acquired
Acquired(tr) == acquired /\ tr = copyTrip

\* on_tick() after one unit of time: the machine, SafetyMonitor.mission(),
\* LinkWatch.mission(), each on the state the one before left.
OnTick ==
  \E s \in MissionTick(state) :
    LET tr == IF s = "idle" THEN 0 ELSE trip
        m == Older(markerAge, LostToSos)
        msg == Older(msgAge, MsgCap)
        f == Older(falseAge, LinkStop)
        up == Older(upAge, LinkStop)
        new == NewTrip(s, tr)
        since == IF new THEN 0 ELSE Older(tripAge, LinkStop)
        stp == IF new THEN 0 ELSE stopped
        stop == StopDue(s, tr, DownFor(connected, msg, f, up), since, stp)
    IN  /\ trip' = tr /\ copyState' = s /\ copyTrip' = tr
        /\ SafetyTick(s, Acquired(tr), m, Older(seenAge, LostToSos),
                      Older(recoverAge, RecoverToClear))
        /\ settled' = (lastSos' = lastSos)
        /\ msgAge' = msg /\ falseAge' = f /\ upAge' = up /\ tripAge' = since
        /\ stopped' = IF stop THEN tr ELSE stp
        /\ state' = IF stop THEN "cancelling" ELSE s
        /\ badAge' = IF m = -1 \/ m > MarkerStale THEN 0 ELSE Older(badAge, BadCap)
        /\ lossFor' = IF s \in Moving /\ GoesOn(s, tr) /\ ~LinkIsUp(connected, msg)
                      THEN Older(lossFor, LinkStop + 1) ELSE 0
        /\ UNCHANGED <<trips, connected, sighted, refused>>

-----------------------------------------------------------------------------

Init ==
  /\ state = "idle" /\ trip = 0 /\ trips = 0 /\ copyState = "idle" /\ copyTrip = 0
  /\ acquired = FALSE /\ markerAge = -1 /\ seenAge = -1 /\ recoverAge = -1
  /\ sos = 0 /\ reason = "none" /\ stopSent = FALSE /\ lastSos = 0 /\ settled = TRUE
  /\ connected = FALSE /\ msgAge = -1 /\ falseAge = -1 /\ upAge = 0
  /\ tripAge = 0 /\ stopped = 0
  /\ cleared = "none" /\ badAge = 0 /\ lossFor = 0 /\ sighted = FALSE
  /\ refused = 0

Next ==
  \/ OnTripStart \/ OnTripCancel \/ OnMarker \/ OnSosAck \/ OnSosRaise \/ OnSosCancel
  \/ OnLink \/ EnableResult \/ OnTick

Spec == Init /\ [][Next]_vars

-----------------------------------------------------------------------------
(* Properties.                                                             *)

\* Every variable has its type.
TypeOK ==
  /\ state \in States /\ copyState \in States
  /\ {trip, copyTrip, stopped, trips} \subseteq 0 .. MaxTrips
  /\ markerAge \in -1 .. LostToSos /\ seenAge \in -1 .. LostToSos
  /\ recoverAge \in -1 .. RecoverToClear
  /\ {sos, lastSos, refused} \subseteq 0 .. MaxSos
  /\ reason \in {"none", "manual", "tracking_lost"} /\ (sos = 0 <=> reason = "none")
  /\ msgAge \in -1 .. MsgCap /\ falseAge \in -1 .. LinkStop
  /\ upAge \in 0 .. LinkStop /\ tripAge \in 0 .. LinkStop
  /\ badAge \in 0 .. BadCap /\ lossFor \in 0 .. LinkStop + 1
  /\ {acquired, stopSent, settled, connected, sighted} \subseteq BOOLEAN

\* A trip does not go on while the phone link stays down: lossFor is the time
\* for which the trip has gone on without a connected=true younger than stale_s.
\* However often connected=false is repeated and whatever comes between ticks.
\* safety.py claims it for an id used again too ("including reuse of the same id").
LinkLossStops == state \in Moving => lossFor < LinkStop

\* The phone does not answer an SOS raised in a trip: the trip is over, and no
\* sequence of messages brings it back while that SOS is open.
NoAnswerNoTrip == sos # 0 /\ refused = sos => state \notin Moving

Closes(how) == sos # 0 /\ sos' # sos /\ cleared' = how

\* An SOS is closed as recovered only if the marker opened it, and has been
\* seen for RecoverToClear without a LOST and without a gap in the messages.
RecoveredIsReal ==
  [][Closes("tracking_recovered") => reason = "tracking_lost" /\ badAge' >= RecoverToClear]_vars

\* Conversely, an SOS for a lost marker is not left open once the marker has been
\* back for that long.
RecoveryCloses ==
  sos # 0 /\ reason = "tracking_lost" => badAge < RecoverToClear + MarkerStale

Raises == lastSos' # lastSos /\ reason' = "tracking_lost"

\* An SOS for a lost marker is raised only when it has been seen under this trip's
\* id, never on a sighting left over from the trip before.
SosNeedsSighting == [][Raises => sighted]_vars
=============================================================================

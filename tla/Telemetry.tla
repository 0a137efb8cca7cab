------------------------------ MODULE Telemetry ------------------------------
(***************************************************************************)
(* The care telemetry agent: its ROS inputs about an SOS, the SQLite       *)
(* outbox, the sender thread, and the SOS nodes of the realtime database   *)
(* (agent.py, outbox.py, rtdb.py).                                         *)
(*                                                                         *)
(* ROS callbacks run under the agent's lock, one step each; the sender     *)
(* thread interleaves with them between its requests and inside each of    *)
(* them.  A request the server has executed may still be reported as       *)
(* failed.  The process may stop, crash, or lose power; only the outbox    *)
(* file survives, and after a power loss only as it was at the last WAL    *)
(* checkpoint (synchronous=NORMAL).  Mission and bridge are the            *)
(* environment: one SOS is open at a time, and what they publish while the *)
(* agent is down is lost.                                                  *)
(* Abstracted: documents, status and diag writes (not queued), pruning,    *)
(* push messages; the source rank of a location, which only makes fewer    *)
(* of them count; events of trips and of the link, which fill the queue as  *)
(* those of an SOS do; the 64 closed SOS ids a run remembers.              *)
(***************************************************************************)
EXTENDS Integers, Sequences, FiniteSets, SequencesExt

CONSTANTS
  MaxSos,       \* bound: SOSs of a behaviour
  MaxOps,       \* Outbox.max_ops
  Batch,        \* operations read from the outbox at a time
  MaxLocations, \* MAX_LOCATION_UPDATES
  MayReject,    \* RTDB answers 400 or 413 to some operations
  MaxStops      \* bound: stops, crashes and power losses of a behaviour

ASSUME TelemetryAssumption ==
  /\ MaxSos \in Nat
  /\ MaxOps \in Nat \ {0} /\ Batch \in Nat \ {0} /\ MaxLocations \in Nat
  /\ MayReject \in BOOLEAN /\ MaxStops \in Nat

VARIABLES
  \* TelemetryAgent, gone with the process: the open and the closed SOSs of this
  \* run, _meta_done and _sos_swept, whether now < _next_send_at
  up, sos, closed, stage, waiting,
  \* sender thread: where it is, the operations it read and has not finished,
  \* and how many of them are still in the outbox
  pc, batch, kept,
  \* the outbox, and its content at the last checkpoint of the WAL
  q, synced,
  \* RTDB: the SOSs that have a node
  db,
  \* mission: new, open or closed
  world,
  \* history: SOSs whose PUT or DELETE was given up in this run; SOSs whose
  \* DELETE was executed; a bound
  lost, gone, stops

memVars == <<sos, closed, stage, waiting>>
sendVars == <<pc, batch, kept>>
histVars == <<gone, stops>>
vars == <<up, memVars, sendVars, q, synced, db, world, lost, histVars>>

SOS == 1 .. MaxSos       \* in the order mission raises them
Nobody == 0
Op(do, s) == [do |-> do, of |-> s]
Event == Op("event", Nobody)
Unknown == [kind |-> "none", ack |-> "none", locations |-> 0]
Orphan == [kind |-> "orphan", ack |-> "none", locations |-> MaxLocations]
GivenUp(ops) == {op.of : op \in {o \in ops : o.do \in {"put", "delete"}}}
Larger(a, b) == IF a > b THEN a ELSE b

-----------------------------------------------------------------------------
(* outbox.py                                                               *)

\* put() for each of ops: the oldest operations beyond max_ops are dropped.
Put(ops) ==
  LET all == q \o ops
      drop == Larger(0, Len(all) - MaxOps)
  IN  /\ q' = SubSeq(all, drop + 1, Len(all))
      /\ kept' = Larger(0, kept - drop)
      /\ lost' = lost \cup GivenUp({all[i] : i \in 1 .. drop})
NoPut == UNCHANGED <<q, kept, lost>>

\* peek(): the oldest first.
Peek == SubSeq(q, 1, IF Len(q) < Batch THEN Len(q) ELSE Batch)

\* done(): the operation may have been dropped in the meantime.
Done ==
  IF Len(batch) <= kept THEN q' = Tail(q) /\ kept' = kept - 1
                        ELSE UNCHANGED <<q, kept>>

-----------------------------------------------------------------------------
(* ROS callbacks.  Up is asked where the message is delivered.             *)

Delivered == up = "up"
Quiet == UNCHANGED <<up, stage, waiting, pc, batch, synced, db, histVars>>

\* on_sos_request(): ignored when this run knows the id already.
OnSosRequest(s) ==
  IF Delivered /\ sos[s].kind = "none" /\ s \notin closed
  THEN /\ sos' = [sos EXCEPT ![s] = [Unknown EXCEPT !.kind = "open"]]
       /\ Put(<<Event, Op("put", s)>>)
  ELSE UNCHANGED sos /\ NoPut
SosRequest(s) ==
  /\ world[s] = "new" /\ \A t \in 1 .. s - 1 : world[t] = "closed"
  /\ world' = [world EXCEPT ![s] = "open"]
  /\ OnSosRequest(s)
  /\ UNCHANGED closed /\ Quiet

\* on_sos_ack(): an SOS this run did not see open gets an entry that writes
\* no node.  A failure is reported at once, a success after a pause.  The bridge
\* reports no failure after a success; a repeated one changes nothing.
SosAck(s, received) ==
  LET e == IF sos[s].kind # "none" THEN sos[s] ELSE Orphan
  IN  /\ world[s] = "open" /\ Delivered /\ s \notin closed
      /\ e.ack \in (IF received THEN {"none", "failed"} ELSE {"none"})
      /\ sos' = [sos EXCEPT ![s] = [e EXCEPT !.ack = IF received THEN "due" ELSE "failed"]]
      /\ Put((IF received /\ e.kind = "open" THEN <<Op("patch", s)>> ELSE <<>>)
             \o IF received THEN <<>> ELSE <<Event>>)
      /\ UNCHANGED <<closed, world>> /\ Quiet

\* on_location(): a fix for an SOS of this run.
Location(s) ==
  /\ world[s] = "open" /\ Delivered /\ sos[s].kind # "none"
  /\ sos[s].locations < MaxLocations
  /\ sos' = [sos EXCEPT ![s].locations = @ + 1]
  /\ Put(<<Op("patch", s)>>)
  /\ UNCHANGED <<closed, world>> /\ Quiet

\* on_sos_clear(): a pending success is reported first.
OnSosClear(s) ==
  IF Delivered /\ s \notin closed
  THEN /\ sos' = [sos EXCEPT ![s] = Unknown]
       /\ closed' = closed \cup {s}
       /\ Put((IF sos[s].ack = "due" THEN <<Event>> ELSE <<>>)
              \o <<Event, Op("delete", s)>>)
  ELSE UNCHANGED <<sos, closed>> /\ NoPut
SosClear(s) ==
  /\ world[s] = "open"
  /\ world' = [world EXCEPT ![s] = "closed"]
  /\ OnSosClear(s) /\ Quiet

-----------------------------------------------------------------------------
(* The sender thread                                                       *)

Idle == pc = "idle" /\ UNCHANGED <<synced, world, stops>>
Busy(at) == pc = at /\ UNCHANGED <<synced, world, stops>>

\* _fail(): back off.
Fail == pc' = "idle" /\ batch' = <<>> /\ kept' = 0 /\ waiting' = TRUE

\* _step(): a success whose pause is over; not held back by the back-off.
AckDue(s) ==
  /\ Idle /\ Delivered /\ sos[s].ack = "due"
  /\ sos' = [sos EXCEPT ![s].ack = "told"]
  /\ Put(<<Event>>)
  /\ UNCHANGED <<up, closed, stage, waiting, pc, batch, db, gone>>

\* The timer of the back-off, or a status write that went through (_put_status).
BackoffEnds ==
  /\ Idle /\ Delivered /\ waiting /\ waiting' = FALSE
  /\ UNCHANGED <<up, sos, closed, stage, pc, batch, q, kept, db, lost, gone>>

\* _sync_meta(): done or refused for good, or to be tried again.
SyncMeta ==
  /\ Idle /\ Delivered /\ ~waiting /\ stage = "meta"
  /\ stage' = "drain"
  /\ UNCHANGED <<up, sos, closed, waiting, pc, batch, q, kept, db, lost, gone>>
MetaFails ==
  /\ Idle /\ Delivered /\ ~waiting /\ stage = "meta"
  /\ Fail /\ UNCHANGED <<up, sos, closed, stage, q, db, lost, gone>>

\* _drain(); _final_flush() ignores the back-off and the meta document.
Drain ==
  /\ Idle /\ q # <<>>
  /\ up = "stopping" \/ (Delivered /\ ~waiting /\ stage # "meta")
  /\ batch' = Peek /\ kept' = Len(batch') /\ pc' = "sending"
  /\ UNCHANGED <<up, memVars, q, db, lost, gone>>

\* The server executes the operation: PATCH writes a node that is not there.
Execute ==
  /\ Busy("sending")
  /\ pc' = "executed"
  /\ LET op == Head(batch) IN
       /\ db' = CASE op.do \in {"put", "patch"} -> db \cup {op.of}
                  [] op.do = "delete" -> db \ {op.of}
                  [] OTHER -> db
       /\ gone' = IF op.do = "delete" THEN gone \cup {op.of} ELSE gone
  /\ UNCHANGED <<up, memVars, batch, kept, q, lost>>

Finish ==
  /\ Done
  /\ batch' = Tail(batch) /\ pc' = IF batch' = <<>> THEN "idle" ELSE "sending"
  /\ waiting' = FALSE
Answered ==
  /\ Busy("executed") /\ Finish
  /\ UNCHANGED <<up, sos, closed, stage, db, lost, gone>>
\* A permanent error: the operation is dropped.
Rejected ==
  /\ MayReject /\ Busy("sending") /\ Finish
  /\ lost' = lost \cup GivenUp({Head(batch)})
  /\ UNCHANGED <<up, sos, closed, stage, db, gone>>
\* The bug of a queue that retries what failed after the rest.
RetryAtEnd ==
  /\ pc \in {"sending", "executed"} /\ Fail
  /\ q' = IF kept = Len(batch) THEN Append(Tail(q), Head(batch)) ELSE q
  /\ UNCHANGED <<up, sos, closed, stage, synced, db, world, lost, histVars>>
\* A time-out, before or after the server executed it, or any other error.
Unanswered ==
  /\ pc \in {"sending", "executed"} /\ Fail
  /\ UNCHANGED <<up, sos, closed, stage, q, synced, db, world, lost, histVars>>

\* _step(): the sweep waits for the empty queue.  stop() does not hold back the
\* sweep of a step already under way.
SweepAtOnce ==
  /\ Idle /\ up # "down" /\ ~waiting /\ stage = "drain"
  /\ pc' = "sweeping"
  /\ UNCHANGED <<up, memVars, batch, kept, q, db, lost, gone>>
Sweep ==
  /\ Idle /\ up # "down" /\ ~waiting /\ stage = "drain" /\ q = <<>>
  /\ pc' = "sweeping"
  /\ UNCHANGED <<up, memVars, batch, kept, q, db, lost, gone>>

\* An event and a DELETE for each of them.
Closing(stale) ==
  [i \in 1 .. 2 * Len(stale) |-> IF i % 2 = 1 THEN Event ELSE Op("delete", stale[i \div 2])]
\* The SOSs this run has seen.
Live == {s \in SOS : sos[s].kind # "none"} \cup closed
\* _sweep_stale_sos() with the answer, under the lock: close the nodes of SOSs
\* this run has not seen.  Nobody else writes nodes while the sender waits.
SweepAnswered ==
  /\ Busy("sweeping") /\ pc' = "idle" /\ stage' = "swept"
  /\ closed' = closed \cup (db \ Live)
  /\ Put(Closing(SetToSeq(db \ Live)))
  /\ UNCHANGED <<up, sos, waiting, batch, db, gone>>
SweepsOnce ==
  /\ Busy("sweeping") /\ Fail /\ stage' = "swept"
  /\ UNCHANGED <<up, sos, closed, q, db, lost, gone>>
SweepFails ==
  /\ Busy("sweeping") /\ Fail
  /\ UNCHANGED <<up, sos, closed, stage, q, db, lost, gone>>
SweepRejected ==
  /\ MayReject /\ Busy("sweeping") /\ pc' = "idle" /\ stage' = "swept"
  /\ lost' = SOS
  /\ UNCHANGED <<up, sos, closed, waiting, batch, kept, q, db, gone>>

-----------------------------------------------------------------------------
(* Start, stop, crash                                                      *)

Forget ==
  /\ sos' = [s \in SOS |-> Unknown] /\ closed' = {} /\ stage' = "meta" /\ waiting' = FALSE
  /\ pc' = "idle" /\ batch' = <<>> /\ kept' = 0 /\ up' = "down"

\* start(): agent.online, in front of nothing.
Start ==
  /\ up = "down" /\ up' = "up"
  /\ LET all == Append(q, Event) IN q' = SubSeq(all, Larger(0, Len(all) - MaxOps) + 1, Len(all))
  /\ lost' = {}
  /\ UNCHANGED <<memVars, sendVars, synced, db, world, histVars>>

\* Nothing reads the checkpoint again once no stop is left to come.
AfterStop(checkpoint) == synced' = IF stops' < MaxStops THEN checkpoint ELSE <<>>

\* stop(): agent.offline, then the sender flushes until its deadline.
Stop ==
  /\ Delivered /\ stops < MaxStops
  /\ stops' = stops + 1 /\ up' = "stopping"
  /\ Put(<<Event>>)
  /\ AfterStop(synced)
  /\ UNCHANGED <<memVars, pc, batch, db, world, gone>>
FlushEnds ==
  /\ up = "stopping" /\ pc = "idle" /\ Forget
  /\ UNCHANGED <<q, synced, db, world, lost, histVars>>

Crash ==
  /\ up # "down" /\ stops < MaxStops
  /\ stops' = stops + 1 /\ Forget
  /\ AfterStop(synced)
  /\ UNCHANGED <<q, db, world, lost, gone>>

\* The robot is switched off: mission goes down with its open SOS, the outbox
\* falls back to its last checkpoint.
PowerLoss ==
  /\ stops < MaxStops
  /\ stops' = stops + 1 /\ Forget
  /\ q' = synced /\ gone' = {}
  /\ world' = [s \in SOS |-> IF world[s] = "open" THEN "closed" ELSE world[s]]
  /\ AfterStop(synced)
  /\ UNCHANGED <<db, lost>>
Checkpoint ==
  /\ stops < MaxStops /\ synced' = q
  /\ UNCHANGED <<up, memVars, sendVars, q, db, world, lost, histVars>>

-----------------------------------------------------------------------------
Init ==
  /\ up = "down" /\ sos = [s \in SOS |-> Unknown] /\ closed = {}
  /\ stage = "meta" /\ waiting = FALSE
  /\ pc = "idle" /\ batch = <<>> /\ kept = 0
  /\ q = <<>> /\ synced = <<>> /\ db = {}
  /\ world = [s \in SOS |-> "new"]
  /\ lost = {} /\ gone = {} /\ stops = 0

Next ==
  \/ \E s \in SOS : SosRequest(s) \/ Location(s) \/ SosClear(s) \/ AckDue(s)
  \/ \E s \in SOS, r \in BOOLEAN : SosAck(s, r)
  \/ BackoffEnds \/ SyncMeta \/ MetaFails
  \/ Drain \/ Execute \/ Answered \/ Rejected \/ Unanswered
  \/ Sweep \/ SweepAnswered \/ SweepFails \/ SweepRejected
  \/ Start \/ Stop \/ FlushEnds \/ Crash \/ PowerLoss \/ Checkpoint

Spec == Init /\ [][Next]_vars

\* The agent is started again (Restart=on-failure), its sender thread runs, and
\* the database answers again and again.
Fairness ==
  /\ WF_vars(Start) /\ WF_vars(FlushEnds)
  /\ WF_vars(BackoffEnds) /\ SF_vars(SyncMeta)
  /\ WF_vars(Drain) /\ SF_vars(Execute) /\ SF_vars(Answered)
  /\ WF_vars(Sweep) /\ SF_vars(SweepAnswered)
  /\ WF_vars(\E s \in SOS : AckDue(s))

FairSpec == Spec /\ Fairness

-----------------------------------------------------------------------------
(* Properties                                                              *)

TypeOK ==
  /\ up \in {"down", "up", "stopping"} /\ pc \in {"idle", "sending", "executed", "sweeping"}
  /\ stage \in {"meta", "drain", "swept"} /\ waiting \in BOOLEAN
  /\ Len(q) <= MaxOps /\ kept \in 0 .. Len(batch) /\ kept <= Len(q)
  /\ db \subseteq SOS /\ closed \subseteq SOS /\ lost \subseteq SOS /\ gone \subseteq SOS

\* A node that was deleted is never written again by an operation that was
\* queued before: not by a repeated PATCH, not by what an earlier run left in
\* the queue, not by operations read before the queue overflowed (_drain,
\* _sweep_stale_sos).  A power loss may bring old operations back.
NoResurrection == gone \cap db = {}

\* When the agent has caught up, the database shows the SOSs this run knows to
\* be open and no other, unless their PUT or DELETE had to be given up
\* (agent.py:11-12).
Settled == up = "up" /\ stage = "swept" /\ q = <<>> /\ pc = "idle"
ShowsOpenSos ==
  Settled =>
    /\ db \ lost \subseteq {s \in SOS : sos[s].kind # "none"}
    /\ {s \in SOS : sos[s].kind = "open"} \ lost \subseteq db

\* Without that exception: the position of a closed SOS is deleted (agent.py:11).
ClosedSosIsDeleted == Settled => \A s \in closed : s \notin db

\* Whatever stops, crashes and lost answers there were, the node of a closed SOS
\* is deleted in the end, although its clear may have been missed
\* (_sweep_stale_sos).
ClosedSosLeaves ==
  \A s \in SOS : <>[](world[s] = "closed" => s \notin db \/ s \in lost)
=============================================================================

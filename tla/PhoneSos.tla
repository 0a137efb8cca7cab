------------------------------- MODULE PhoneSos -------------------------------
(***************************************************************************)
(* The phone bridge between mission and the app: connections and the one   *)
(* active session of bridge.py, the SOS delivery, retry and clear of       *)
(* sos.py, and the latched link status.                                    *)
(*                                                                         *)
(* Everything runs on one asyncio loop.  A coroutine may be suspended in   *)
(* each send on a connection, and nowhere else: `loop` is the one that     *)
(* runs; between two suspensions it commutes with everything outside,      *)
(* which therefore acts while none runs.  The sends of a connection        *)
(* complete in the order in which they were begun (send_lock); until then  *)
(* the message is in `out`, with the coroutine that waits for it.  A       *)
(* completed send is on the wire, or in the buffer of a socket whose other *)
(* end is gone.                                                            *)
(*                                                                         *)
(* The app and mission are the environment.  The app connects anew when it *)
(* likes, answers each sos.request, and shows an SOS until its sos.clear   *)
(* (PROTOCOL.md 10.6).  Mission has one SOS open at a time (safety.py).    *)
(* Intervals are not timed: one may be over in any tick.  Abstracted:      *)
(* commands, locations, the contents of status and catalogue, the other    *)
(* frames of a hello, mock scenarios, what an answer to an SOS says.       *)
(***************************************************************************)
EXTENDS Integers, Sequences, FiniteSets, SequencesExt

CONSTANTS
  MaxSos,           \* bound: SOSs of a behaviour
  MaxConns,         \* bound: connections of a behaviour
  MaxRetries,       \* sos_max_retries
  MaxPendingClears, \* MAX_PENDING_CLEARS
  MaxRestarts       \* bound: restarts of the bridge

ASSUME PhoneSosAssumption ==
  /\ MaxSos \in Nat /\ MaxConns \in Nat /\ MaxRetries \in Nat
  /\ MaxPendingClears \in Nat \ {0} /\ MaxRestarts \in Nat

SOS == 1 .. MaxSos
Conns == 1 .. MaxConns
None == 0

VARIABLES
  \* BridgeCore: the peer of the active session, the session of each peer, the
  \* link status published last; the sends that have not completed
  cur, session, link, out,
  \* SosManager: active (a dict keeps its order), the fields of each ActiveSos,
  \* pending_clears
  active, info, pending,
  \* the loop: the coroutine that runs; of _on_hello() of each peer and of
  \* _tick(), where it is and what the iteration it is in has left
  loop, hello, tick,
  \* the app: its connection, the SOSs it shows, messages and answers under way
  conn, shown, wire, answers,
  \* mission's SOSs; what SosAck said of each, in order: TRUE that the app
  \* answered, FALSE that nobody did; history: clears that a dead connection
  \* took or that nobody keeps; bound
  world, said, missed, restarts

bridgeVars == <<cur, session, link>>
sosVars == <<active, info, pending>>
tasks == <<loop, hello, tick>>
appVars == <<conn, shown, wire, answers>>
missionVars == <<world, said>>
vars == <<bridgeVars, out, sosVars, tasks, appVars, missionVars, missed, restarts>>

Fresh == [sends |-> 0, acked |-> FALSE, failed |-> FALSE]
Asleep == [at |-> "idle", todo |-> <<>>]
Msg(type, s) == [type |-> type, sos |-> s]
By(task, id) == [task |-> task, id |-> id]
Nobody == By("nobody", None)
Ticker == By("tick", None)
\* pop(): a dict has a key once.
Without(seq, s) ==
  IF s \in ToSet(seq) THEN RemoveAt(seq, CHOOSE i \in DOMAIN seq : seq[i] = s) ELSE seq

Init ==
  /\ cur = None /\ session = [p \in Conns |-> "none"] /\ link = FALSE
  /\ out = [p \in Conns |-> <<>>]
  /\ active = <<>> /\ info = [s \in SOS |-> Fresh] /\ pending = <<>>
  /\ loop = Nobody /\ hello = [p \in Conns |-> Asleep] /\ tick = Asleep
  /\ conn = None /\ shown = {} /\ wire = <<>> /\ answers = {}
  /\ world = [s \in SOS |-> "new"] /\ said = [s \in SOS |-> <<>>]
  /\ missed = {} /\ restarts = 0

\* A send on a connection, and _send_active(), onto the active session.
Connected == cur # None
SendOn(p, msg, by) == out' = [out EXCEPT ![p] = Append(@, [msg |-> msg, by |-> by])]
SendActive(msg, by) == IF Connected THEN SendOn(cur, msg, by) ELSE UNCHANGED out

\* The running coroutine ends or is suspended; with no session a send is over at
\* once and it goes on.
Yield == loop' = Nobody
YieldIfSent == loop' = IF Connected THEN Nobody ELSE loop

-----------------------------------------------------------------------------
(* Connections                                                             *)

\* What was under way on the app's connection is lost.
ClearsIn(msgs) == {msgs[i].sos : i \in {j \in DOMAIN msgs : msgs[j].type = "sos.clear"}}
DropConn == wire' = <<>> /\ answers' = {} /\ missed' = missed \cup ClearsIn(wire)

\* The app dials again.
Opened == {p \in Conns : session[p] # "none"}
Connect ==
  /\ loop = Nobody /\ Cardinality(Opened) < MaxConns
  /\ conn' = Cardinality(Opened) + 1
  /\ session' = [session EXCEPT ![conn'] = "hello"]
  /\ DropConn
  /\ UNCHANGED <<cur, link, out, sosVars, tasks, shown, missionVars, restarts>>

\* The connection breaks; the bridge does not notice yet.
Break ==
  /\ loop = Nobody
  /\ conn # None /\ conn' = None
  /\ DropConn
  /\ UNCHANGED <<bridgeVars, out, sosVars, tasks, shown, missionVars, restarts>>

\* _deactivate(): a peer that is not the active one changes nothing else.
DeactivateAny(p) ==
  /\ session' = [session EXCEPT ![p] = "closed"]
  /\ cur' = IF cur = p THEN None ELSE cur
  /\ link' = FALSE
Deactivate(p) ==
  /\ session' = [session EXCEPT ![p] = "closed"]
  /\ IF cur = p THEN cur' = None /\ link' = FALSE ELSE UNCHANGED <<cur, link>>

\* handle() ends: the connection is found closed between two frames.
Closed(p) ==
  /\ loop = Nobody /\ hello[p].at = "idle"
  /\ conn # p /\ session[p] \in {"hello", "active"}
  /\ Deactivate(p)
  /\ UNCHANGED <<out, sosVars, tasks, appVars, missionVars, missed, restarts>>

\* _tick() begins: hello or heartbeat time-out, close_peer().  The app notices.
Expire(p) ==
  /\ loop = Nobody /\ tick.at = "idle"
  /\ session[p] \in {"hello", "active"}
  /\ Deactivate(p)
  /\ IF conn = p THEN conn' = None /\ DropConn ELSE UNCHANGED <<conn, wire, answers, missed>>
  /\ UNCHANGED <<out, sosVars, tasks, shown, missionVars, restarts>>

\* _on_hello() up to its first send: the old session makes room.
Hello(p) ==
  /\ loop = Nobody /\ conn = p /\ session[p] = "hello"
  /\ session' = [q \in Conns |-> IF q = p THEN "active" ELSE IF q = cur THEN "closed" ELSE session[q]]
  /\ cur' = p
  /\ SendOn(p, Msg("hello.ack", None), By("hello", p))
  /\ hello' = [hello EXCEPT ![p] = [at |-> "ack", todo |-> <<>>]]
  /\ UNCHANGED <<link, sosVars, loop, tick, appVars, missionVars, missed, restarts>>

\* SosManager.on_session_open() in it: the clears kept, then the SOSs that are
\* active by then.  The link is published last, whatever became of the session.
Rest(p) ==
  LET h == hello[p] IN
  IF h.todo # <<>> THEN h
  ELSE IF h.at = "ack" /\ pending # <<>> THEN [at |-> "clears", todo |-> pending]
  ELSE IF h.at # "requests" /\ active # <<>> THEN [at |-> "requests", todo |-> active]
  ELSE Asleep
HelloStep(p) ==
  LET h == Rest(p) IN
  /\ loop = By("hello", p)
  /\ \/ /\ h.todo # <<>>
        /\ SendActive(Msg(IF h.at = "clears" THEN "sos.clear" ELSE "sos.request", Head(h.todo)), loop)
        /\ YieldIfSent
        /\ hello' = [hello EXCEPT ![p] = [h EXCEPT !.todo = Tail(@)]]
        /\ UNCHANGED link
     \/ /\ h = Asleep
        /\ hello' = [hello EXCEPT ![p] = h]
        /\ link' = TRUE /\ Yield
        /\ UNCHANGED out
  /\ UNCHANGED <<cur, session, sosVars, tick, appVars, missionVars, missed, restarts>>

-----------------------------------------------------------------------------
(* SosManager                                                              *)

\* A clear kept for the next session; beyond the limit the oldest is forgotten.
ClearForgotten(s) == UNCHANGED <<pending, missed>>
Keep(s) ==
  LET kept == Append(Without(pending, s), s)
      over == IF Len(kept) > MaxPendingClears THEN Len(kept) - MaxPendingClears ELSE 0
  IN  /\ pending' = SubSeq(kept, over + 1, Len(kept))
      /\ missed' = missed \cup ToSet(SubSeq(kept, 1, over))

\* request(): the first attempt counts whether or not it can be sent.
Request(s) ==
  /\ loop = Nobody
  /\ world[s] = "new" /\ \A t \in SOS : world[t] # "open" /\ (t < s => world[t] = "closed")
  /\ world' = [world EXCEPT ![s] = "open"]
  /\ active' = Append(active, s) /\ pending' = Without(pending, s)
  /\ info' = [info EXCEPT ![s] = [Fresh EXCEPT !.sends = 1]]
  /\ SendActive(Msg("sos.request", s), By("request", s))
  /\ UNCHANGED <<bridgeVars, tasks, appVars, said, missed, restarts>>

\* clear() up to its send.  A bridge started since does not know the SOS: it
\* sends the clear but does not keep it.
Clear(s) ==
  LET known == s \in ToSet(active) IN
  /\ loop = Nobody
  /\ world[s] = "open" /\ world' = [world EXCEPT ![s] = "closed"]
  /\ active' = Without(active, s) /\ info' = [info EXCEPT ![s] = Fresh]
  /\ SendActive(Msg("sos.clear", s), By(IF known THEN "clear" ELSE "stray", s))
  /\ \/ Connected /\ UNCHANGED <<pending, missed>>
     \/ ~Connected /\ known /\ Keep(s)
     \/ ~Connected /\ ~known /\ UNCHANGED pending /\ missed' = missed \cup {s}
  /\ UNCHANGED <<bridgeVars, tasks, appVars, said, restarts>>

\* _tick() goes on: a status for the session unless it is unchanged, then
\* perhaps the link once more.
TickBegins ==
  /\ loop = Nobody /\ tick.at = "idle"
  /\ \/ /\ Connected /\ tick' = [at |-> "status", todo |-> <<>>]
        /\ \/ SendActive(Msg("robot.status", None), Ticker) /\ UNCHANGED loop
           \/ UNCHANGED out /\ loop' = Ticker
     \/ /\ ~Connected /\ active # <<>>
        /\ tick' = [at |-> "sos", todo |-> active] /\ loop' = Ticker
        /\ UNCHANGED out
  /\ UNCHANGED <<bridgeVars, sosVars, hello, appVars, missionVars, missed, restarts>>
TickLink ==
  /\ loop = Ticker /\ tick.at = "status"
  /\ link' \in {link, TRUE}
  /\ tick' = [at |-> "sos", todo |-> active]
  /\ UNCHANGED <<cur, session, out, sosVars, loop, hello, appVars, missionVars, missed, restarts>>

\* SosManager.tick(), for the SOSs active when it began: when the interval of
\* one that waits for its answer is over, a retry, or the failure after the last.
CountsOnlySent(s) == info' = [info EXCEPT ![s].sends = IF Connected THEN @ + 1 ELSE @]
Attempted(s) == info' = [info EXCEPT ![s].sends = @ + 1]
StaysDue(s) == UNCHANGED info
FailedOnce(s) == info' = [info EXCEPT ![s].failed = TRUE]
Due(s) == ~info[s].acked /\ ~info[s].failed
TickDue ==
  /\ loop = Ticker /\ tick.at = "sos" /\ tick.todo # <<>>
  /\ LET s == Head(tick.todo) IN
       /\ Due(s)
       /\ \/ /\ info[s].sends <= MaxRetries
             /\ Attempted(s)
             /\ SendActive(Msg("sos.request", s), Ticker)
             /\ YieldIfSent
             /\ UNCHANGED said
          \/ /\ info[s].sends > MaxRetries
             /\ FailedOnce(s)
             /\ said' = [said EXCEPT ![s] = Append(@, FALSE)]
             /\ UNCHANGED <<out, loop>>
  /\ tick' = [tick EXCEPT !.todo = Tail(@)]
  /\ UNCHANGED <<bridgeVars, active, pending, hello, appVars, world, missed, restarts>>
TickPasses ==
  /\ loop = Ticker /\ tick.at = "sos"
  /\ \/ tick.todo # <<>> /\ tick' = [tick EXCEPT !.todo = Tail(@)] /\ UNCHANGED loop
     \/ tick.todo = <<>> /\ tick' = Asleep /\ Yield
  /\ UNCHANGED <<bridgeVars, out, sosVars, hello, appVars, missionVars, missed, restarts>>

\* on_ack(), from a frame of the active session.  The app's answer may be a no
\* (received=false), which mission treats as if nobody had answered; which of
\* the two it is makes no difference here.
Answer(s) ==
  /\ loop = Nobody
  /\ s \in answers /\ answers' = answers \ {s}
  /\ session[conn] = "active" /\ hello[conn].at = "idle"
  /\ IF s \in ToSet(active)
     THEN /\ info' = [info EXCEPT ![s].acked = TRUE]
          /\ said' = IF info[s].acked THEN said ELSE [said EXCEPT ![s] = Append(@, TRUE)]
     ELSE UNCHANGED <<info, said>>
  /\ UNCHANGED <<bridgeVars, out, active, pending, tasks, conn, shown, wire, world, missed, restarts>>

-----------------------------------------------------------------------------
(* Sends complete, the app receives, the bridge restarts                   *)

\* What the coroutine that waited for a send does with its result: a kept clear
\* that was sent is dropped, one that could not be sent is kept.
Resume(p, e, sent) ==
  LET clear == e.msg.type = "sos.clear"
      lost  == IF sent THEN conn # p ELSE e.by.task = "stray"
  IN  /\ loop' = IF e.by.task \in {"hello", "tick"} THEN e.by ELSE Nobody
      /\ IF clear /\ e.by.task = "clear" /\ ~sent THEN Keep(e.msg.sos)
         ELSE /\ pending' = IF clear /\ e.by.task = "hello" /\ sent THEN Without(pending, e.msg.sos)
                            ELSE pending
              /\ missed' = IF clear /\ lost THEN missed \cup {e.msg.sos} ELSE missed

Flush(p) ==
  /\ loop = Nobody /\ out[p] # <<>>
  /\ out' = [out EXCEPT ![p] = Tail(@)]
  /\ wire' = IF conn = p /\ Head(out[p]).msg.sos # None THEN Append(wire, Head(out[p]).msg) ELSE wire
  /\ Resume(p, Head(out[p]), TRUE)
  /\ UNCHANGED <<bridgeVars, active, info, hello, tick, conn, shown, answers, missionVars, restarts>>

\* The connection is found broken, or is being closed.
SendFails(p) ==
  /\ loop = Nobody /\ out[p] # <<>> /\ (conn # p \/ session[p] = "closed")
  /\ out' = [out EXCEPT ![p] = Tail(@)]
  /\ Resume(p, Head(out[p]), FALSE)
  /\ UNCHANGED <<bridgeVars, active, info, hello, tick, appVars, missionVars, restarts>>

AppReceives ==
  /\ loop = Nobody
  /\ wire # <<>> /\ wire' = Tail(wire)
  /\ LET s == Head(wire).sos IN
       \/ /\ Head(wire).type = "sos.request"
          /\ shown' = shown \cup {s} /\ answers' = answers \cup {s}
       \/ /\ Head(wire).type = "sos.clear"
          /\ shown' = shown \ {s} /\ UNCHANGED answers
  /\ UNCHANGED <<bridgeVars, out, sosVars, tasks, conn, missionVars, missed, restarts>>

\* The bridge process is started again: nothing of its memory survives, every
\* connection is gone, and start() publishes that there is no link.
BridgeRestarts ==
  /\ loop = Nobody
  /\ restarts < MaxRestarts /\ restarts' = restarts + 1
  /\ cur' = None /\ link' = FALSE
  /\ session' = [p \in Conns |-> IF session[p] = "none" THEN "none" ELSE "closed"]
  /\ out' = [p \in Conns |-> <<>>]
  /\ active' = <<>> /\ info' = [s \in SOS |-> Fresh] /\ pending' = <<>>
  /\ loop' = Nobody /\ hello' = [p \in Conns |-> Asleep] /\ tick' = Asleep
  /\ conn' = None /\ wire' = <<>> /\ answers' = {}
  /\ missed' = missed \cup {s \in SOS : world[s] = "closed"}
  /\ UNCHANGED <<shown, missionVars>>

Next ==
  \/ Connect \/ Break \/ AppReceives \/ TickBegins \/ TickLink \/ TickDue \/ TickPasses
  \/ BridgeRestarts
  \/ \E p \in Conns : \/ Hello(p) \/ HelloStep(p) \/ Closed(p) \/ Expire(p)
                      \/ Flush(p) \/ SendFails(p)
  \/ \E s \in SOS : Request(s) \/ Clear(s) \/ Answer(s)

Spec == Init /\ [][Next]_vars

\* The loop runs what is ready, a send completes or fails, ticks follow each
\* other, and the retry interval of an SOS is over in one of them.
FairSpec ==
  /\ Spec
  /\ WF_vars(TickBegins) /\ WF_vars(TickLink) /\ WF_vars(TickPasses) /\ SF_vars(TickDue)
  /\ \A p \in Conns : WF_vars(HelloStep(p)) /\ WF_vars(Flush(p) \/ SendFails(p))

-----------------------------------------------------------------------------
(* Properties                                                              *)

\* The messages and fields have their types.
TypeOK ==
  /\ cur \in Conns \cup {None} /\ conn \in Conns \cup {None} /\ link \in BOOLEAN
  /\ session \in [Conns -> {"none", "hello", "active", "closed"}]
  /\ ToSet(active) \cup ToSet(pending) \cup shown \cup answers \cup missed \subseteq SOS
  /\ info \in [SOS -> [sends : 0 .. MaxRetries + 1, acked : BOOLEAN, failed : BOOLEAN]]
  /\ Len(pending) <= MaxPendingClears

\* Nothing is under way on a session that is open at both ends.
Settled ==
  /\ Connected /\ conn = cur /\ loop = Nobody /\ hello[cur].at = "idle"
  /\ wire = <<>> /\ \A p \in Conns : out[p] = <<>>

\* Once nothing is under way on a session the app and the bridge agree about
\* SOSs, over any reconnection: the app shows each one the bridge has active,
\* and one mission has closed only if its clear is kept for the next session,
\* was taken by a connection already dead, or was forgotten with the memory of
\* the bridge or beyond the limit (request(), clear(), on_session_open()).
AppAgrees ==
  Settled => /\ ToSet(active) \subseteq shown
             /\ \A s \in shown : world[s] = "open" \/ s \in missed \cup ToSet(pending)

\* The link status mission acts on is up while a session whose hello is done is
\* active: closing a connection that is not the active one any more, a
\* superseded or a late one, does not take it down (_deactivate()).
LinkFollows == Connected /\ hello[cur].at = "idle" => link

\* The bridge gives an SOS up at most once, and never after an answer: retries
\* that run late, answers after the failure and new sessions in between included
\* (tick(), on_ack()).  An app that then answers no makes SosAck say
\* app_received=false a second time; mission stops at most once (safety.py:109).
FailsOnce ==
  \A s \in SOS : \A i \in DOMAIN said[s] : ~said[s][i] => i = 1 /\ \A j \in 2 .. Len(said[s]) : said[s][j]

\* No SOS stays active without mission being told that the app has it or that
\* nobody answered, whether or not an app is there, for a retry counts without
\* one (_attempt(), tick()).
Told == []<>(\A s \in ToSet(active) : said[s] # <<>>)

\* sos.py:10 and PROTOCOL.md 10.6: a clear the app could not be sent is sent in
\* its next session, so an app in a session shows no SOS mission has closed.
ClosedSosForgotten ==
  Settled => \A s \in shown : world[s] = "open" \/ s \in ToSet(pending)
=============================================================================

--------------------------- MODULE Telemetry_proofs ---------------------------
(***************************************************************************)
(* What the care telemetry agent promises about the SOS nodes of the       *)
(* database, for any number of SOSs, any limit of the outbox, any size of  *)
(* a batch and any number of stops, crashes and power losses: a node that  *)
(* was deleted stays deleted, and an agent that has caught up shows the    *)
(* open SOSs.                                                              *)
(*                                                                         *)
(* Both rest on the order of the operations that are still to be executed: *)
(* those the sender has read, then those that are in the outbox only.      *)
(***************************************************************************)
EXTENDS Telemetry, SequenceTheorems, FiniteSetTheorems, TLAPS

Ops == {Event} \cup [do : {"put", "patch", "delete"}, of : SOS]
Entry == [kind : {"none", "open", "orphan"}, ack : {"none", "failed", "due", "told"},
          locations : 0 .. MaxLocations]

MemOK ==
  /\ up \in {"down", "up", "stopping"} /\ stage \in {"meta", "drain", "swept"}
  /\ waiting \in BOOLEAN /\ sos \in [SOS -> Entry] /\ closed \in SUBSET SOS

SendOK ==
  /\ pc \in {"idle", "sending", "executed", "sweeping"}
  /\ batch \in Seq(Ops) /\ (pc \in {"idle", "sweeping"} <=> batch = <<>>)
  /\ kept \in Nat /\ kept <= Len(batch) /\ kept <= Len(q)

QueueOK ==
  /\ q \in Seq(Ops) /\ Len(q) <= MaxOps
  /\ synced \in Seq(Ops) /\ Len(synced) <= MaxOps

WorldOK ==
  /\ db \in SUBSET SOS /\ lost \in SUBSET SOS /\ gone \in SUBSET SOS
  /\ world \in [SOS -> {"new", "open", "closed"}] /\ stops \in Nat

TeleTypes == MemOK /\ SendOK /\ QueueOK /\ WorldOK

\* A process that is down remembers nothing; an SOS it did not see open has had
\* its locations.
MemoryInv ==
  /\ up = "down" => /\ closed = {} /\ stage = "meta" /\ pc = "idle"
                    /\ \A s \in SOS : sos[s].kind = "none"
  /\ \A s \in SOS : sos[s].kind = "orphan" => sos[s].locations = MaxLocations

-----------------------------------------------------------------------------
(* The order of the operations.                                            *)

Writes(op, s) == op = Op("put", s) \/ op = Op("patch", s)
NoWrite(ops, s) == \A i \in 1 .. Len(ops) : ~Writes(ops[i], s)
NoDelete(ops, s) == \A i \in 1 .. Len(ops) : ops[i] # Op("delete", s)
Has(ops, op) == \E i \in 1 .. Len(ops) : ops[i] = op

\* No SOS is written after its deletion.
Ordered(ops, s) ==
  \A i, j \in 1 .. Len(ops) : i < j /\ ops[i] = Op("delete", s) => ~Writes(ops[j], s)

\* What the sender has read and the outbox still has is the front of the outbox.
AlignInv == \A i \in 1 .. kept : q[i] = batch[Len(batch) - kept + i]

OrderInv(s) ==
  /\ Ordered(q, s) /\ Ordered(batch, s) /\ Ordered(synced, s)
  /\ ~NoDelete(batch, s) => \A j \in kept + 1 .. Len(q) : ~Writes(q[j], s)

\* What the server has just executed.
ExecutedInv ==
  pc = "executed" =>
    \A s \in SOS : /\ Writes(Head(batch), s) => s \in db
                   /\ Head(batch) = Op("delete", s) => s \in gone

-----------------------------------------------------------------------------
(* The life of an SOS.                                                     *)

Untouched(ops, s) == NoWrite(ops, s) /\ NoDelete(ops, s)
NewInv(s) ==
  world[s] = "new" =>
    /\ sos[s].kind = "none" /\ s \notin closed /\ s \notin db /\ s \notin gone
    /\ Untouched(q, s) /\ Untouched(batch, s) /\ Untouched(synced, s)

OpenInv(s) ==
  up = "up" /\ sos[s].kind = "open" =>
    /\ world[s] = "open" /\ s \notin closed /\ s \notin gone
    /\ NoDelete(q, s) /\ NoDelete(batch, s)

GoneInv(s) == s \in gone => s \notin db /\ NoWrite(q, s) /\ NoWrite(batch, s)

Closes(s) ==
  \/ Has(q, Op("delete", s))
  \/ s \notin db /\ NoWrite(q, s) /\ NoWrite(batch, s)

\* The node of a closed SOS is deleted or will be, that of one this run knows nothing
\* of is gone once the sweep is over, that of an open one is there or will be.
ShowInv(s) ==
  up = "up" =>
    /\ s \in closed /\ s \notin lost => Closes(s)
    /\ (pc = "sweeping" \/ stage = "swept") /\ s \notin Live =>
          NoWrite(q, s) /\ NoWrite(batch, s)
    /\ stage = "swept" /\ s \notin Live /\ s \notin lost => s \notin db
    /\ sos[s].kind = "open" /\ s \notin lost => s \in db \/ Has(q, Op("put", s))

SosInv(s) == OrderInv(s) /\ NewInv(s) /\ OpenInv(s) /\ GoneInv(s) /\ ShowInv(s)

TeleInv ==
  TeleTypes /\ MemoryInv /\ AlignInv /\ ExecutedInv /\ \A s \in SOS : SosInv(s)

-----------------------------------------------------------------------------
(* Lemmas about operations and sequences of them.                          *)

LEMMA ConstantFacts ==
  /\ MaxSos \in Nat /\ MaxOps \in Nat \ {0} /\ Batch \in Nat \ {0} /\ MaxLocations \in Nat
  /\ MaxStops \in Nat /\ Nobody \notin SOS
BY TelemetryAssumption DEF SOS, Nobody

LEMMA Rigid == Ops' = Ops /\ SOS' = SOS /\ Entry' = Entry /\ Event' = Event
BY DEF Ops, SOS, Entry, Event, Op, Nobody

LEMMA OpFacts ==
  ASSUME NEW s \in SOS
  PROVE  /\ Event \in Ops
         /\ Op("put", s) \in Ops /\ Op("patch", s) \in Ops /\ Op("delete", s) \in Ops
         /\ Op("put", s) # Op("delete", s) /\ Op("patch", s) # Op("delete", s)
         /\ Event # Op("put", s) /\ Event # Op("patch", s) /\ Event # Op("delete", s)
BY DEF Ops, Op, Event

\* An operation belongs to one SOS.
LEMMA OpOf ==
  ASSUME NEW do1, NEW do2, NEW s, NEW t, Op(do1, s) = Op(do2, t)
  PROVE  do1 = do2 /\ s = t
<1>1. Op(do1, s).do = do1 /\ Op(do1, s).of = s  BY DEF Op
<1>2. Op(do2, t).do = do2 /\ Op(do2, t).of = t  BY DEF Op
<1> QED  BY <1>1, <1>2

LEMMA WritesOne ==
  ASSUME NEW s, NEW t, NEW do, Writes(Op(do, s), t)
  PROVE  s = t /\ do \in {"put", "patch"}
BY OpOf DEF Writes

LEMMA EventWrites == \A s \in SOS : ~Writes(Event, s) /\ Event # Op("delete", s)
BY OpFacts DEF Writes

\* Short sequences of operations.
LEMMA OneOp ==
  ASSUME NEW a \in Ops
  PROVE  <<a>> \in Seq(Ops) /\ Len(<<a>>) = 1 /\ <<a>>[1] = a
OBVIOUS
LEMMA TwoOps ==
  ASSUME NEW a \in Ops, NEW b \in Ops
  PROVE  <<a, b>> \in Seq(Ops) /\ Len(<<a, b>>) = 2 /\ <<a, b>>[1] = a /\ <<a, b>>[2] = b
OBVIOUS
LEMMA NoOps == <<>> \in Seq(Ops) /\ Len(<<>>) = 0
BY EmptySeq

LEMMA SeqFacts ==
  ASSUME NEW ops \in Seq(Ops)
  PROVE  /\ Len(ops) \in Nat /\ (ops = <<>> <=> Len(ops) = 0)
         /\ \A i \in 1 .. Len(ops) : ops[i] \in Ops
BY LenProperties, EmptySeq, ElementOfSeq

\* What is left of a queue after its first d operations and has others behind.
After(r, q0, ops, d) ==
  /\ r \in Seq(Ops) /\ Len(r) = Len(q0) + Len(ops) - d /\ Len(r) <= MaxOps
  /\ \A i \in 1 .. Len(r) :
       r[i] = IF i + d <= Len(q0) THEN q0[i + d] ELSE ops[i + d - Len(q0)]

\* Outbox.put(): the oldest operations make room.
LEMMA CutFacts ==
  ASSUME NEW q0 \in Seq(Ops), NEW ops \in Seq(Ops)
  PROVE  LET all == q0 \o ops
             d == Larger(0, Len(all) - MaxOps)
         IN  d \in 0 .. Len(all) /\ After(SubSeq(all, d + 1, Len(all)), q0, ops, d)
<1> DEFINE all == q0 \o ops
           d == Larger(0, Len(all) - MaxOps)
           r == SubSeq(all, d + 1, Len(all))
<1>1. Len(q0) \in Nat /\ Len(ops) \in Nat  BY SeqFacts
<1>2. /\ all \in Seq(Ops) /\ Len(all) = Len(q0) + Len(ops)
      /\ \A i \in 1 .. Len(q0) + Len(ops) :
           all[i] = IF i <= Len(q0) THEN q0[i] ELSE ops[i - Len(q0)]
  BY ConcatProperties
<1>3. d \in 0 .. Len(all) /\ Len(all) - d <= MaxOps
  BY <1>1, <1>2, ConstantFacts DEF Larger
<1> HIDE DEF d, all
<1>4. \A i \in d + 1 .. Len(all) : all[i] \in Ops
  BY <1>1, <1>2, <1>3, SeqFacts
<1>5. /\ r \in Seq(Ops)
      /\ Len(r) = IF d + 1 <= Len(all) THEN Len(all) - (d + 1) + 1 ELSE 0
      /\ \A i \in 1 .. Len(all) - (d + 1) + 1 : r[i] = all[d + 1 + i - 1]
  <2>1. d + 1 \in Int /\ Len(all) \in Int  BY <1>1, <1>2, <1>3
  <2> QED  BY <1>4, <2>1, SubSeqProperties
<1> HIDE DEF r
<1>6. Len(r) = Len(q0) + Len(ops) - d  BY <1>1, <1>2, <1>3, <1>5
<1>7. \A i \in 1 .. Len(r) : r[i] = all[i + d]  BY <1>1, <1>2, <1>3, <1>5, <1>6
<1>8. \A i \in 1 .. Len(r) :
        r[i] = IF i + d <= Len(q0) THEN q0[i + d] ELSE ops[i + d - Len(q0)]
  BY <1>1, <1>2, <1>3, <1>6, <1>7
<1>9. Len(r) <= MaxOps  BY <1>1, <1>2, <1>3, <1>6
<1>10. After(r, q0, ops, d)  BY <1>5, <1>6, <1>8, <1>9, Zenon DEF After
<1> QED  BY <1>3, <1>10 DEF r, d, all

\* put() as the rest of the proofs knows it: d operations make room.
PutBy(ops, d) ==
  /\ d \in 0 .. Len(q) + Len(ops) /\ After(q', q, ops, d)
  /\ kept' = Larger(0, kept - d)
  /\ lost' = lost \cup GivenUp({(q \o ops)[i] : i \in 1 .. d})

LEMMA PutFacts ==
  ASSUME QueueOK, NEW ops \in Seq(Ops), Put(ops)
  PROVE  \E d \in Nat : PutBy(ops, d)
<1> DEFINE all == q \o ops
           d == Larger(0, Len(all) - MaxOps)
<1>1. Len(all) = Len(q) + Len(ops) /\ Len(q) \in Nat /\ Len(ops) \in Nat
  BY ConcatProperties, SeqFacts DEF QueueOK
<1>2. d \in 0 .. Len(all) /\ After(SubSeq(all, d + 1, Len(all)), q, ops, d)
  BY CutFacts DEF QueueOK
<1>3. q' = SubSeq(all, d + 1, Len(all)) /\ kept' = Larger(0, kept - d)
      /\ lost' = lost \cup GivenUp({all[i] : i \in 1 .. d})
  BY DEF Put
<1> HIDE DEF d
<1>4. d \in Nat /\ d \in 0 .. Len(q) + Len(ops)  BY <1>1, <1>2
<1>5. PutBy(ops, d)  BY <1>2, <1>3, <1>4, Zenon DEF PutBy
<1> QED  BY <1>4, <1>5

\* Where the operations of a queue after put() come from, and where they go.
LEMMA PutFrom ==
  ASSUME QueueOK, NEW ops \in Seq(Ops), NEW d \in Nat, PutBy(ops, d), NEW i \in 1 .. Len(q')
  PROVE  \/ i + d \in 1 .. Len(q) /\ q'[i] = q[i + d]
         \/ /\ i + d > Len(q) /\ i + d - Len(q) \in 1 .. Len(ops)
            /\ q'[i] = ops[i + d - Len(q)]
<1>1. Len(q) \in Nat /\ Len(ops) \in Nat  BY SeqFacts DEF QueueOK
<1>2. Len(q') = Len(q) + Len(ops) - d
      /\ q'[i] = IF i + d <= Len(q) THEN q[i + d] ELSE ops[i + d - Len(q)]
  BY DEF PutBy, After
<1>3. CASE i + d <= Len(q)  BY <1>1, <1>2, <1>3
<1>4. CASE i + d > Len(q)  BY <1>1, <1>2, <1>4
<1> QED  BY <1>1, <1>3, <1>4

LEMMA PutKeeps ==
  ASSUME QueueOK, NEW ops \in Seq(Ops), NEW d \in Nat, PutBy(ops, d),
         NEW s \in SOS, NEW do \in {"put", "delete"},
         Has(q, Op(do, s)) \/ Has(ops, Op(do, s))
  PROVE  Has(q', Op(do, s)) \/ s \in lost'
<1> DEFINE all == q \o ops
<1>1. Len(q) \in Nat /\ Len(ops) \in Nat  BY SeqFacts DEF QueueOK
<1>2. /\ Len(all) = Len(q) + Len(ops)
      /\ \A i \in 1 .. Len(q) + Len(ops) :
           all[i] = IF i <= Len(q) THEN q[i] ELSE ops[i - Len(q)]
  BY ConcatProperties DEF QueueOK
<1>3. PICK k \in 1 .. Len(q) + Len(ops) : all[k] = Op(do, s)
  <2>1. CASE Has(q, Op(do, s))
    <3>1. PICK i \in 1 .. Len(q) : q[i] = Op(do, s)  BY <2>1 DEF Has
    <3> QED  BY <1>1, <1>2, <3>1
  <2>2. CASE Has(ops, Op(do, s))
    <3>1. PICK i \in 1 .. Len(ops) : ops[i] = Op(do, s)  BY <2>2 DEF Has
    <3>2. Len(q) + i \in 1 .. Len(q) + Len(ops) /\ ~(Len(q) + i <= Len(q))
          /\ (Len(q) + i) - Len(q) = i
      BY <1>1, <3>1
    <3>3. all[Len(q) + i] = ops[i]  BY <1>2, <3>2
    <3> QED  BY <3>1, <3>2, <3>3
  <2> QED  BY <2>1, <2>2
<1> HIDE DEF all
<1>4. CASE k <= d
  <2>1. all[k] \in {all[i] : i \in 1 .. d}  BY <1>1, <1>3, <1>4
  <2>2. Op(do, s).do = do /\ Op(do, s).of = s  BY DEF Op
  <2>3. s \in GivenUp({all[i] : i \in 1 .. d})
    BY <1>3, <2>1, <2>2 DEF GivenUp
  <2> QED  BY <2>3 DEF PutBy, all
<1>5. CASE k > d
  <2>1. k - d \in 1 .. Len(q')  BY <1>1, <1>3, <1>5 DEF PutBy, After
  <2>2. q'[k - d] = IF (k - d) + d <= Len(q) THEN q[(k - d) + d] ELSE ops[(k - d) + d - Len(q)]
    BY <2>1 DEF PutBy, After
  <2>3. (k - d) + d = k  BY <1>1, <1>3
  <2>4. q'[k - d] = all[k]  BY <1>2, <1>3, <2>2, <2>3
  <2> QED  BY <1>3, <2>1, <2>4 DEF Has
<1> QED  BY <1>1, <1>3, <1>4, <1>5

LEMMA PutNoWrite ==
  ASSUME QueueOK, NEW ops \in Seq(Ops), NEW d \in Nat, PutBy(ops, d),
         NEW s \in SOS, NoWrite(q, s), NoWrite(ops, s)
  PROVE  NoWrite(q', s)
<1> SUFFICES ASSUME NEW i \in 1 .. Len(q') PROVE ~Writes(q'[i], s)  BY DEF NoWrite
<1> QED  BY PutFrom DEF NoWrite

LEMMA PutNoDelete ==
  ASSUME QueueOK, NEW ops \in Seq(Ops), NEW d \in Nat, PutBy(ops, d),
         NEW s \in SOS, NoDelete(q, s), NoDelete(ops, s)
  PROVE  NoDelete(q', s)
<1> SUFFICES ASSUME NEW i \in 1 .. Len(q') PROVE q'[i] # Op("delete", s)  BY DEF NoDelete
<1> QED  BY PutFrom DEF NoDelete

\* What the sender has read stays in front of what put() appends.
LEMMA PutAlign ==
  ASSUME QueueOK, SendOK, AlignInv, NEW ops \in Seq(Ops), NEW d \in Nat, PutBy(ops, d),
         batch' = batch
  PROVE  AlignInv' /\ kept' \in Nat /\ kept' <= kept /\ kept' <= Len(batch') /\ kept' <= Len(q')
<1>1. Len(q) \in Nat /\ Len(ops) \in Nat /\ Len(batch) \in Nat
      /\ kept \in Nat /\ kept <= Len(batch) /\ kept <= Len(q)
  BY SeqFacts DEF QueueOK, SendOK
<1>2. Len(q') = Len(q) + Len(ops) - d /\ d <= Len(q) + Len(ops)  BY <1>1 DEF PutBy, After
<1>3. kept' = IF 0 > kept - d THEN 0 ELSE kept - d  BY DEF PutBy, Larger
<1>4. kept' \in Nat /\ kept' <= kept /\ kept' <= Len(batch) /\ kept' <= Len(q')
  BY <1>1, <1>2, <1>3
<1>5. SUFFICES ASSUME NEW i \in 1 .. kept' PROVE q'[i] = batch[Len(batch) - kept' + i]
  BY <1>4 DEF AlignInv
<1>6. kept' = kept - d /\ i + d \in 1 .. kept /\ i + d <= Len(q) /\ i \in 1 .. Len(q')
      /\ Len(batch) - kept + (i + d) = Len(batch) - kept' + i
  BY <1>1, <1>2, <1>3, <1>4
<1>7. q'[i] = q[i + d]  BY <1>6 DEF PutBy, After
<1>8. q[i + d] = batch[Len(batch) - kept + (i + d)]  BY <1>6 DEF AlignInv
<1> QED  BY <1>6, <1>7, <1>8

\* Appending what writes no SOS that is being deleted keeps the order.
LEMMA PutOrder ==
  ASSUME QueueOK, SendOK, AlignInv, NEW ops \in Seq(Ops), NEW d \in Nat, PutBy(ops, d),
         NEW s \in SOS, OrderInv(s), batch' = batch, Ordered(synced, s)',
         \/ NoWrite(ops, s)
         \/ NoDelete(ops, s) /\ NoDelete(q, s) /\ NoDelete(batch, s)
  PROVE  OrderInv(s)'
<1>1. Len(q) \in Nat /\ Len(ops) \in Nat /\ Len(batch) \in Nat
      /\ kept \in Nat /\ kept <= Len(batch) /\ kept <= Len(q)
  BY SeqFacts DEF QueueOK, SendOK
<1>2. Len(q') = Len(q) + Len(ops) - d /\ d <= Len(q) + Len(ops)  BY <1>1 DEF PutBy, After
<1>3. kept' = IF 0 > kept - d THEN 0 ELSE kept - d  BY DEF PutBy, Larger
<1>4. Ordered(q', s)
  <2> SUFFICES ASSUME NEW i \in 1 .. Len(q'), NEW j \in 1 .. Len(q'),
                      i < j, q'[i] = Op("delete", s), Writes(q'[j], s)
               PROVE  FALSE
    BY DEF Ordered
  <2>1. CASE j + d <= Len(q)
    <3>1. i + d \in 1 .. Len(q) /\ j + d \in 1 .. Len(q) /\ i + d < j + d
      BY <1>1, <1>2, <2>1
    <3>2. q'[i] = q[i + d] /\ q'[j] = q[j + d]  BY <3>1 DEF PutBy, After
    <3> QED  BY <3>1, <3>2 DEF OrderInv, Ordered
  <2>2. CASE j + d > Len(q)
    <3>1. j + d - Len(q) \in 1 .. Len(ops) /\ q'[j] = ops[j + d - Len(q)]
      BY <1>1, <2>2, PutFrom
    <3>2. ~NoWrite(ops, s)  BY <3>1 DEF NoWrite
    <3>3. NoDelete(ops, s) /\ NoDelete(q, s)  BY <3>2
    <3>4. NoDelete(q', s)  BY <3>3, PutNoDelete
    <3> QED  BY <3>4 DEF NoDelete
  <2> QED  BY <1>1, <2>1, <2>2
<1>5. ASSUME ~NoDelete(batch, s), NEW j \in kept' + 1 .. Len(q')
      PROVE  ~Writes(q'[j], s)
  <2>1. j \in 1 .. Len(q') /\ j + d >= kept + 1  BY <1>1, <1>2, <1>3, <1>5
  <2>2. CASE j + d \in 1 .. Len(q) /\ q'[j] = q[j + d]
    <3>1. j + d \in kept + 1 .. Len(q)  BY <1>1, <2>1, <2>2
    <3>2. ~Writes(q[j + d], s)  BY <1>5, <3>1 DEF OrderInv
    <3> QED  BY <2>2, <3>2
  <2>3. CASE j + d - Len(q) \in 1 .. Len(ops) /\ q'[j] = ops[j + d - Len(q)]
    BY <1>5, <2>3 DEF NoWrite
  <2> QED  BY <2>1, <2>2, <2>3, PutFrom
<1> QED  BY <1>4, <1>5 DEF OrderInv

\* The answer to the sweep: an event and a DELETE for each stale node.
LEMMA StaleFacts ==
  ASSUME NEW S \in SUBSET SOS
  PROVE  /\ SetToSeq(S) \in Seq(SOS)
         /\ \A i \in 1 .. Len(SetToSeq(S)) : SetToSeq(S)[i] \in S
         /\ \A s \in S : \E i \in 1 .. Len(SetToSeq(S)) : SetToSeq(S)[i] = s
<1> DEFINE n == Cardinality(S)
           st == SetToSeq(S)
<1>1. IsFiniteSet(SOS)  BY ConstantFacts, FS_Interval DEF SOS
<1>2. IsFiniteSet(S)  BY <1>1, FS_Subset
<1>3. n \in Nat /\ ExistsBijection(1 .. n, S)  BY <1>2, FS_CardinalityType
<1>4. PICK f : f \in Bijection(1 .. n, S)  BY <1>3 DEF ExistsBijection
<1>5. f \in [1 .. n -> S] /\ IsInjective(f)
  BY <1>4 DEF Bijection, Injection, IsInjective
<1>6. st \in [1 .. n -> S] /\ IsInjective(st)  BY <1>5 DEF SetToSeq
<1> HIDE DEF st
<1>7. st \in Seq(SOS) /\ Len(st) = n /\ \A i \in 1 .. n : st[i] \in S  BY <1>3, <1>6
<1>8. st \in Injection(1 .. n, S)  BY <1>6 DEF Injection, IsInjective
<1>9. IsFiniteSet(1 .. n) /\ Cardinality(1 .. n) = n  BY <1>3, FS_Interval
<1>10. st \in Surjection(1 .. n, S)  BY <1>2, <1>8, <1>9, FS_Injection
<1>11. \A s \in S : \E i \in 1 .. n : st[i] = s  BY <1>10 DEF Surjection
<1> QED  BY <1>7, <1>11 DEF st

LEMMA ClosingFacts ==
  ASSUME NEW st \in Seq(SOS)
  PROVE  /\ Closing(st) \in Seq(Ops)
         /\ \A s \in SOS : NoWrite(Closing(st), s)
         /\ \A i \in 1 .. Len(st) : Has(Closing(st), Op("delete", st[i]))
         /\ \A s \in SOS : (\A i \in 1 .. Len(st) : st[i] # s) => NoDelete(Closing(st), s)
<1> DEFINE n == 2 * Len(st)
           cl == Closing(st)
<1>1. Len(st) \in Nat /\ n \in Nat /\ \A i \in 1 .. Len(st) : st[i] \in SOS
  BY LenProperties, ElementOfSeq
<1>2. ASSUME NEW i \in 1 .. n
      PROVE  cl[i] = Event \/ \E j \in 1 .. Len(st) : cl[i] = Op("delete", st[j])
  <2>1. cl[i] = IF i % 2 = 1 THEN Event ELSE Op("delete", st[i \div 2])  BY DEF Closing
  <2>2. i % 2 # 1 => i \div 2 \in 1 .. Len(st)  BY <1>1
  <2> QED  BY <1>1, <2>1, <2>2
<1>3. cl \in [1 .. n -> Ops]
  <2>1. \A i \in 1 .. n : cl[i] \in Ops  BY <1>1, <1>2, OpFacts DEF Ops
  <2>2. cl = [i \in 1 .. n |-> cl[i]]  BY DEF Closing
  <2> QED  BY <2>1, <2>2
<1>4. cl \in Seq(Ops) /\ Len(cl) = n  BY <1>1, <1>3
<1>5. ASSUME NEW s \in SOS PROVE NoWrite(cl, s)
  <2> SUFFICES ASSUME NEW i \in 1 .. n PROVE ~Writes(cl[i], s)  BY <1>4 DEF NoWrite
  <2>1. CASE cl[i] = Event  BY <2>1, EventWrites
  <2>2. ASSUME NEW j \in 1 .. Len(st), cl[i] = Op("delete", st[j]) PROVE ~Writes(cl[i], s)
    BY <2>2, WritesOne
  <2> QED  BY <1>2, <2>1, <2>2
<1>6. ASSUME NEW i \in 1 .. Len(st) PROVE Has(cl, Op("delete", st[i]))
  <2>1. 2 * i \in 1 .. n /\ (2 * i) % 2 = 0 /\ (2 * i) \div 2 = i  BY <1>1
  <2>2. cl[2 * i] = Op("delete", st[i])  BY <2>1 DEF Closing
  <2> QED  BY <1>4, <2>1, <2>2 DEF Has
<1>7. ASSUME NEW s \in SOS, \A i \in 1 .. Len(st) : st[i] # s PROVE NoDelete(cl, s)
  <2> SUFFICES ASSUME NEW i \in 1 .. n PROVE cl[i] # Op("delete", s)  BY <1>4 DEF NoDelete
  <2>1. CASE cl[i] = Event  BY <2>1, EventWrites
  <2>2. ASSUME NEW j \in 1 .. Len(st), cl[i] = Op("delete", st[j]) PROVE cl[i] # Op("delete", s)
    BY <1>7, <2>2, OpOf
  <2> QED  BY <1>2, <2>1, <2>2
<1> QED  BY <1>4, <1>5, <1>6, <1>7

-----------------------------------------------------------------------------
(* What the ROS callbacks put into the queue.                              *)

LEMMA NoPutFacts ==
  ASSUME QueueOK, SendOK, NoPut
  PROVE  PutBy(<<>>, 0)
<1>1. Len(q) \in Nat /\ q \in Seq(Ops) /\ Len(q) <= MaxOps /\ kept \in Nat
      /\ q' = q /\ kept' = kept /\ lost' = lost
  BY SeqFacts DEF QueueOK, SendOK, NoPut
<1>2. After(q', q, <<>>, 0)  BY <1>1, NoOps DEF After
<1>3. kept' = Larger(0, kept - 0)  BY <1>1 DEF Larger
<1>4. GivenUp({(q \o <<>>)[i] : i \in 1 .. 0}) = {}  BY DEF GivenUp
<1>5. 0 \in 0 .. Len(q) + Len(<<>>)  BY <1>1, NoOps
<1> QED  BY <1>1, <1>2, <1>3, <1>4, <1>5, Zenon DEF PutBy

\* About SOS s nothing but events, or nothing but a write.
Only(ops, r) == \A s \in SOS : s # r => Untouched(ops, s)
Silent(ops) == \A s \in SOS : Untouched(ops, s)

LEMMA NoOpsSilent == Silent(<<>>)
BY NoOps DEF Silent, Untouched, NoWrite, NoDelete

LEMMA EventSilent == <<Event>> \in Seq(Ops) /\ Silent(<<Event>>)
<1>1. Event \in Ops  BY DEF Ops
<1>2. <<Event>> \in Seq(Ops) /\ Len(<<Event>>) = 1 /\ <<Event>>[1] = Event  BY <1>1, OneOp
<1> QED  BY <1>2, EventWrites DEF Silent, Untouched, NoWrite, NoDelete

LEMMA PatchOnly ==
  ASSUME NEW r \in SOS
  PROVE  LET ops == <<Op("patch", r)>>
         IN  ops \in Seq(Ops) /\ Only(ops, r) /\ NoDelete(ops, r)
<1> DEFINE ops == <<Op("patch", r)>>
<1>1. ops \in Seq(Ops) /\ Len(ops) = 1 /\ ops[1] = Op("patch", r)  BY OpFacts, OneOp
<1>2. NoDelete(ops, r)  BY <1>1, OpFacts DEF NoDelete
<1>3. ASSUME NEW s \in SOS, s # r PROVE Untouched(ops, s)
  BY <1>1, <1>3, OpOf, WritesOne DEF Untouched, NoWrite, NoDelete
<1> QED  BY <1>1, <1>2, <1>3 DEF Only

LEMMA PutOnly ==
  ASSUME NEW r \in SOS
  PROVE  LET ops == <<Event, Op("put", r)>>
         IN  /\ ops \in Seq(Ops) /\ Only(ops, r) /\ NoDelete(ops, r)
             /\ Has(ops, Op("put", r))
<1> DEFINE ops == <<Event, Op("put", r)>>
<1>1. ops \in Seq(Ops) /\ Len(ops) = 2 /\ ops[1] = Event /\ ops[2] = Op("put", r)
  BY OpFacts, TwoOps
<1>2. NoDelete(ops, r) /\ Has(ops, Op("put", r))  BY <1>1, OpFacts DEF NoDelete, Has
<1>3. ASSUME NEW s \in SOS, s # r PROVE Untouched(ops, s)
  <2> SUFFICES ASSUME NEW i \in 1 .. Len(ops)
               PROVE  ~Writes(ops[i], s) /\ ops[i] # Op("delete", s)
    BY DEF Untouched, NoWrite, NoDelete
  <2>1. CASE i = 1  BY <1>1, <2>1, EventWrites
  <2>2. CASE i = 2  BY <1>1, <1>3, <2>2, OpOf, WritesOne
  <2> QED  BY <1>1, <2>1, <2>2
<1> QED  BY <1>1, <1>2, <1>3 DEF Only

LEMMA DeleteOnly ==
  ASSUME NEW r \in SOS, NEW front \in {<<>>, <<Event>>}
  PROVE  LET ops == front \o <<Event, Op("delete", r)>>
         IN  /\ ops \in Seq(Ops) /\ Only(ops, r) /\ NoWrite(ops, r)
             /\ Has(ops, Op("delete", r))
<1> DEFINE back == <<Event, Op("delete", r)>>
           ops == front \o back
<1>1. back \in Seq(Ops) /\ Len(back) = 2 /\ back[1] = Event /\ back[2] = Op("delete", r)
  BY OpFacts, TwoOps
<1>2. front \in Seq(Ops) /\ Len(front) \in 0 .. 1 /\ \A i \in 1 .. Len(front) : front[i] = Event
  <2>1. Event \in Ops  BY DEF Ops
  <2>2. CASE front = <<>>  BY <2>2, NoOps
  <2>3. CASE front = <<Event>>  BY <2>1, <2>3, OneOp
  <2> QED  BY <2>2, <2>3
<1> HIDE DEF back
<1>3. /\ ops \in Seq(Ops) /\ Len(ops) = Len(front) + 2
      /\ \A i \in 1 .. Len(front) + 2 : ops[i] = IF i <= Len(front) THEN front[i] ELSE back[i - Len(front)]
  <2>1. /\ ops \in Seq(Ops) /\ Len(ops) = Len(front) + Len(back)
        /\ \A i \in 1 .. Len(front) + Len(back) :
             ops[i] = IF i <= Len(front) THEN front[i] ELSE back[i - Len(front)]
    <3>1. front \in Seq(Ops) /\ back \in Seq(Ops)  BY <1>1, <1>2
    <3> HIDE DEF ops
    <3>2. /\ front \o back \in Seq(Ops) /\ Len(front \o back) = Len(front) + Len(back)
          /\ \A i \in 1 .. Len(front) + Len(back) :
               (front \o back)[i] = IF i <= Len(front) THEN front[i] ELSE back[i - Len(front)]
      BY <3>1, ConcatProperties
    <3> QED  BY <3>2 DEF ops
  <2> QED  BY <1>1, <2>1
<1> HIDE DEF ops
<1>4. ASSUME NEW i \in 1 .. Len(ops)
      PROVE  ops[i] = Event \/ ops[i] = Op("delete", r)
  <2>1. CASE i <= Len(front)  BY <1>2, <1>3, <2>1
  <2>2. CASE i = Len(front) + 1  BY <1>1, <1>2, <1>3, <2>2
  <2>3. CASE i = Len(front) + 2  BY <1>1, <1>2, <1>3, <2>3
  <2> QED  BY <1>2, <1>3, <2>1, <2>2, <2>3
<1>5. ops[Len(front) + 2] = Op("delete", r)  BY <1>1, <1>2, <1>3
<1>6. Has(ops, Op("delete", r))  BY <1>2, <1>3, <1>5 DEF Has
<1>7. ASSUME NEW s \in SOS PROVE NoWrite(ops, s)
  BY <1>4, EventWrites, WritesOne DEF NoWrite
<1>8. ASSUME NEW s \in SOS, s # r PROVE NoDelete(ops, s)
  BY <1>4, <1>8, EventWrites, OpOf DEF NoDelete
<1> QED  BY <1>3, <1>6, <1>7, <1>8 DEF ops, back, Only, Untouched

-----------------------------------------------------------------------------
(* Type correctness.                                                       *)

LEMMA GivenUpFacts ==
  ASSUME NEW O \in SUBSET Ops
  PROVE  GivenUp(O) \in SUBSET SOS
<1> SUFFICES ASSUME NEW o \in O, o.do \in {"put", "delete"} PROVE o.of \in SOS
  BY DEF GivenUp
<1>1. o # Event  BY DEF Event, Op
<1> QED  BY <1>1 DEF Ops

LEMMA PutTypes ==
  ASSUME SendOK, QueueOK, AlignInv, lost \in SUBSET SOS, NEW ops \in Seq(Ops), NEW d \in Nat,
         PutBy(ops, d), batch' = batch,
         pc' \in {"idle", "sending", "executed", "sweeping"},
         pc \in {"idle", "sweeping"} <=> pc' \in {"idle", "sweeping"},
         synced' \in Seq(Ops), Len(synced') <= MaxOps
  PROVE  SendOK' /\ QueueOK' /\ lost' \in SUBSET SOS
<1>1. SendOK'
  <2>1. kept' \in Nat /\ kept' <= Len(batch') /\ kept' <= Len(q')  BY PutAlign
  <2>2. batch' \in Seq(Ops') /\ (pc' \in {"idle", "sweeping"} <=> batch' = <<>>)
    BY Rigid DEF SendOK
  <2> QED  BY <2>1, <2>2 DEF SendOK
<1>2. QueueOK'  BY Rigid DEF PutBy, After, QueueOK
<1>3. lost' \in SUBSET SOS
  <2> DEFINE all == q \o ops
  <2>1. Len(q) \in Nat /\ Len(ops) \in Nat  BY SeqFacts DEF QueueOK
  <2>2. all \in Seq(Ops) /\ Len(all) = Len(q) + Len(ops)  BY ConcatProperties DEF QueueOK
  <2> HIDE DEF all
  <2>3. \A i \in 1 .. d : all[i] \in Ops
    <3>1. d <= Len(all)  BY <2>1, <2>2 DEF PutBy
    <3> QED  BY <2>1, <2>2, <3>1, ElementOfSeq
  <2>4. {all[i] : i \in 1 .. d} \in SUBSET Ops  BY <2>3
  <2>5. GivenUp({all[i] : i \in 1 .. d}) \in SUBSET SOS  BY <2>4, GivenUpFacts
  <2> QED  BY <2>5 DEF all, PutBy
<1> QED  BY <1>1, <1>2, <1>3

\* A callback, whether it is heard or not.
LEMMA CallTypes ==
  ASSUME SendOK, QueueOK, AlignInv, lost \in SUBSET SOS, batch' = batch, pc' = pc,
         synced' = synced, NoPut \/ \E ops \in Seq(Ops) : Put(ops)
  PROVE  SendOK' /\ QueueOK' /\ lost' \in SUBSET SOS
<1>1. pc' \in {"idle", "sending", "executed", "sweeping"}
      /\ synced' \in Seq(Ops) /\ Len(synced') <= MaxOps
  BY DEF SendOK, QueueOK
<1>2. CASE NoPut
  <2>1. PutBy(<<>>, 0)  BY <1>2, NoPutFacts
  <2> QED  BY <1>1, <2>1, NoOps, PutTypes
<1>3. CASE \E ops \in Seq(Ops) : Put(ops)
  <2>1. PICK ops \in Seq(Ops) : Put(ops)  BY <1>3
  <2>2. PICK d \in Nat : PutBy(ops, d)  BY <2>1, PutFacts
  <2> QED  BY <1>1, <2>2, PutTypes
<1> QED  BY <1>2, <1>3

LEMMA KindFacts ==
  ASSUME NEW e \in Entry, NEW k \in {"none", "open", "orphan"}
  PROVE  [e EXCEPT !.kind = k] \in Entry /\ [e EXCEPT !.kind = k].kind = k
BY DEF Entry

LEMMA OrphanFacts ==
  Orphan \in Entry /\ Orphan.kind = "orphan" /\ Orphan.locations = MaxLocations
BY ConstantFacts DEF Entry, Orphan

LEMMA AckFacts ==
  ASSUME NEW e \in Entry, NEW a \in {"none", "failed", "due", "told"}
  PROVE  LET f == [e EXCEPT !.ack = a]
         IN  f \in Entry /\ f.kind = e.kind /\ f.locations = e.locations
BY DEF Entry

LEMMA FixFacts ==
  ASSUME NEW e \in Entry, e.locations < MaxLocations
  PROVE  LET f == [e EXCEPT !.locations = @ + 1]
         IN  f \in Entry /\ f.kind = e.kind
BY ConstantFacts DEF Entry

LEMMA UnknownFacts == Unknown \in Entry /\ Unknown.kind = "none"
BY ConstantFacts DEF Entry, Unknown

\* The entry of an SOS after its acknowledgement, and what the callback says.
LEMMA AckStep ==
  ASSUME MemOK, MemoryInv, NEW r \in SOS, NEW received \in BOOLEAN, SosAck(r, received)
  PROVE  /\ sos' \in [SOS -> Entry] /\ \A s \in SOS : s # r => sos'[s] = sos[s]
         /\ \/ sos'[r].kind = sos[r].kind
            \/ sos[r].kind = "none" /\ sos'[r].kind = "orphan"
         /\ sos'[r].kind = "orphan" => sos'[r].locations = MaxLocations
         /\ world[r] = "open" /\ up = "up" /\ UNCHANGED <<closed, world>> /\ Quiet
         /\ \E ops \in Seq(Ops) :
              /\ Put(ops) /\ Only(ops, r) /\ NoDelete(ops, r)
              /\ NoWrite(ops, r) \/ sos[r].kind = "open"
<1> DEFINE e == IF sos[r].kind # "none" THEN sos[r] ELSE Orphan
           a == IF received THEN "due" ELSE "failed"
           one == IF received /\ e.kind = "open" THEN <<Op("patch", r)>> ELSE <<>>
           two == IF received THEN <<>> ELSE <<Event>>
<1>1. /\ world[r] = "open" /\ up = "up" /\ UNCHANGED <<closed, world>> /\ Quiet
      /\ sos' = [sos EXCEPT ![r] = [e EXCEPT !.ack = a]] /\ Put(one \o two)
  BY Zenon DEF SosAck, Delivered
<1>2. sos[r] \in Entry  BY DEF MemOK
<1>3. /\ e \in Entry
      /\ \/ e.kind = sos[r].kind
         \/ sos[r].kind = "none" /\ e.kind = "orphan"
      /\ e.kind = "orphan" => e.locations = MaxLocations
      /\ e.kind = "open" => sos[r].kind = "open"
  <2>1. CASE sos[r].kind # "none"
    <3>1. e = sos[r]  BY <2>1
    <3>2. sos[r].kind = "orphan" => sos[r].locations = MaxLocations  BY DEF MemoryInv
    <3> QED  BY <1>2, <3>1, <3>2
  <2>2. CASE sos[r].kind = "none"
    <3>1. e = Orphan  BY <2>2
    <3> QED  BY <2>2, <3>1, OrphanFacts
  <2> QED  BY <2>1, <2>2
<1>4. a \in {"none", "failed", "due", "told"}  OBVIOUS
<1> HIDE DEF e, a
<1>5. [e EXCEPT !.ack = a] \in Entry /\ [e EXCEPT !.ack = a].kind = e.kind
      /\ [e EXCEPT !.ack = a].locations = e.locations
  BY <1>3, <1>4, AckFacts
<1>6. sos' \in [SOS -> Entry] /\ sos'[r] = [e EXCEPT !.ack = a]
      /\ \A s \in SOS : s # r => sos'[s] = sos[s]
  BY <1>1, <1>5 DEF MemOK
<1>7. \E ops \in Seq(Ops) :
        /\ Put(ops) /\ Only(ops, r) /\ NoDelete(ops, r)
        /\ NoWrite(ops, r) \/ sos[r].kind = "open"
  <2>1. CASE ~received
    <3>1. one = <<>> /\ two = <<Event>>  BY <2>1
    <3>2. one \o two = <<Event>>  BY <3>1, EventSilent, ConcatEmptySeq
    <3> QED  BY <1>1, <3>2, EventSilent DEF Silent, Only, Untouched
  <2>2. CASE received /\ e.kind = "open"
    <3>1. one = <<Op("patch", r)>> /\ two = <<>>  BY <2>2
    <3>2. one \o two = <<Op("patch", r)>>  BY <3>1, PatchOnly, ConcatEmptySeq
    <3> QED  BY <1>1, <1>3, <2>2, <3>2, PatchOnly
  <2>3. CASE received /\ e.kind # "open"
    <3>1. one = <<>> /\ two = <<>>  BY <2>3
    <3>2. one \o two = <<>>  BY <3>1, NoOps, ConcatEmptySeq
    <3> QED  BY <1>1, <3>2, NoOps, NoOpsSilent DEF Silent, Only, Untouched
  <2> QED  BY <2>1, <2>2, <2>3
<1> HIDE DEF one, two
<1>8. /\ \/ sos'[r].kind = sos[r].kind
         \/ sos[r].kind = "none" /\ sos'[r].kind = "orphan"
      /\ sos'[r].kind = "orphan" => sos'[r].locations = MaxLocations
  <2>1. sos'[r].kind = e.kind /\ sos'[r].locations = e.locations  BY <1>5, <1>6
  <2> QED  BY <1>3, <2>1
<1> QED  BY <1>1, <1>6, <1>7, <1>8

LEMMA FixStep ==
  ASSUME MemOK, MemoryInv, NEW r \in SOS, Location(r)
  PROVE  /\ sos' \in [SOS -> Entry] /\ \A s \in SOS : sos'[s].kind = sos[s].kind
         /\ \A s \in SOS : sos'[s].kind = "orphan" => sos'[s].locations = MaxLocations
         /\ world[r] = "open" /\ up = "up" /\ sos[r].kind = "open"
         /\ UNCHANGED <<closed, world>> /\ Quiet
         /\ \E ops \in Seq(Ops) : Put(ops) /\ Only(ops, r) /\ NoDelete(ops, r)
<1>1. /\ world[r] = "open" /\ up = "up" /\ UNCHANGED <<closed, world>> /\ Quiet
      /\ sos[r].kind # "none" /\ sos[r].locations < MaxLocations
      /\ sos' = [sos EXCEPT ![r] = [sos[r] EXCEPT !.locations = @ + 1]]
      /\ Put(<<Op("patch", r)>>)
  BY Zenon DEF Location, Delivered
<1>2. sos[r] \in Entry /\ sos \in [SOS -> Entry]  BY DEF MemOK
<1> DEFINE f == [sos[r] EXCEPT !.locations = @ + 1]
<1>3. f \in Entry /\ f.kind = sos[r].kind  BY <1>1, <1>2, FixFacts
<1> HIDE DEF f
<1>4. sos' = [sos EXCEPT ![r] = f]  BY <1>1 DEF f
<1>5. sos' \in [SOS -> Entry] /\ sos'[r] = f /\ \A s \in SOS : s # r => sos'[s] = sos[s]
  BY <1>2, <1>3, <1>4
<1>6. sos[r].kind = "open"
  <2>1. sos[r].kind \in {"none", "open", "orphan"} /\ sos[r].locations \in Nat
    BY <1>2, ConstantFacts DEF Entry
  <2>2. sos[r].kind # "orphan"  BY <1>1, <2>1, ConstantFacts DEF MemoryInv
  <2> QED  BY <1>1, <2>1, <2>2
<1>7. \A s \in SOS : sos'[s].kind = "orphan" => sos'[s].locations = MaxLocations
  BY <1>3, <1>5, <1>6 DEF MemoryInv
<1> QED  BY <1>1, <1>3, <1>5, <1>6, <1>7, PatchOnly

LEMMA RequestStep ==
  ASSUME MemOK, NEW r \in SOS, SosRequest(r)
  PROVE  /\ sos' \in [SOS -> Entry] /\ \A s \in SOS : s # r => sos'[s] = sos[s]
         /\ world[r] = "new" /\ world' = [world EXCEPT ![r] = "open"]
         /\ UNCHANGED closed /\ Quiet
         /\ \/ ~(up = "up" /\ sos[r].kind = "none" /\ r \notin closed) /\ sos' = sos /\ NoPut
            \/ /\ up = "up" /\ sos[r].kind = "none" /\ sos'[r].kind = "open"
               /\ Put(<<Event, Op("put", r)>>)
<1>1. /\ world[r] = "new" /\ world' = [world EXCEPT ![r] = "open"]
      /\ UNCHANGED closed /\ Quiet /\ OnSosRequest(r)
  BY DEF SosRequest
<1>2. CASE up = "up" /\ sos[r].kind = "none" /\ r \notin closed
  <2> DEFINE f == [Unknown EXCEPT !.kind = "open"]
  <2>1. f \in Entry /\ f.kind = "open"  BY UnknownFacts, KindFacts
  <2>2. sos' = [sos EXCEPT ![r] = f] /\ Put(<<Event, Op("put", r)>>)
    BY <1>1, <1>2 DEF OnSosRequest, Delivered
  <2> HIDE DEF f
  <2>3. sos' \in [SOS -> Entry] /\ sos'[r] = f /\ \A s \in SOS : s # r => sos'[s] = sos[s]
    BY <2>1, <2>2 DEF MemOK
  <2> QED  BY <1>1, <1>2, <2>1, <2>2, <2>3
<1>3. CASE ~(up = "up" /\ sos[r].kind = "none" /\ r \notin closed)
  <2>1. sos' = sos /\ NoPut  BY <1>1, <1>3 DEF OnSosRequest, Delivered
  <2> QED  BY <1>1, <1>3, <2>1 DEF MemOK
<1> QED  BY <1>2, <1>3

LEMMA ClearStep ==
  ASSUME MemOK, NEW r \in SOS, SosClear(r)
  PROVE  /\ sos' \in [SOS -> Entry] /\ \A s \in SOS : s # r => sos'[s] = sos[s]
         /\ world[r] = "open" /\ world' = [world EXCEPT ![r] = "closed"] /\ Quiet
         /\ \/ ~(up = "up" /\ r \notin closed) /\ sos' = sos /\ closed' = closed /\ NoPut
            \/ /\ up = "up" /\ r \notin closed /\ closed' = closed \cup {r}
               /\ sos'[r].kind = "none"
               /\ \E ops \in Seq(Ops) : /\ Put(ops) /\ Only(ops, r) /\ NoWrite(ops, r)
                                        /\ Has(ops, Op("delete", r))
<1>1. world[r] = "open" /\ world' = [world EXCEPT ![r] = "closed"] /\ Quiet /\ OnSosClear(r)
  BY DEF SosClear
<1>2. CASE up = "up" /\ r \notin closed
  <2> DEFINE front == IF sos[r].ack = "due" THEN <<Event>> ELSE <<>>
  <2>1. sos' = [sos EXCEPT ![r] = Unknown] /\ closed' = closed \cup {r}
        /\ Put(front \o <<Event, Op("delete", r)>>)
    BY <1>1, <1>2, Zenon DEF OnSosClear, Delivered
  <2>2. front \in {<<>>, <<Event>>}  OBVIOUS
  <2> HIDE DEF front
  <2>3. sos' \in [SOS -> Entry] /\ sos'[r] = Unknown /\ \A s \in SOS : s # r => sos'[s] = sos[s]
    BY <2>1, UnknownFacts DEF MemOK
  <2> QED  BY <1>1, <1>2, <2>1, <2>2, <2>3, UnknownFacts, DeleteOnly
<1>3. CASE ~(up = "up" /\ r \notin closed)
  <2>1. sos' = sos /\ closed' = closed /\ NoPut  BY <1>1, <1>3 DEF OnSosClear, Delivered
  <2> QED  BY <1>1, <1>3, <2>1 DEF MemOK
<1> QED  BY <1>2, <1>3

LEMMA DueStep ==
  ASSUME MemOK, MemoryInv, NEW r \in SOS, AckDue(r)
  PROVE  /\ sos' \in [SOS -> Entry] /\ \A s \in SOS : sos'[s].kind = sos[s].kind
         /\ \A s \in SOS : sos'[s].kind = "orphan" => sos'[s].locations = MaxLocations
         /\ up = "up" /\ Put(<<Event>>)
         /\ UNCHANGED <<up, closed, stage, waiting, pc, batch, db, gone, synced, world, stops>>
<1>1. /\ up = "up" /\ Put(<<Event>>)
      /\ sos' = [sos EXCEPT ![r] = [sos[r] EXCEPT !.ack = "told"]]
      /\ UNCHANGED <<up, closed, stage, waiting, pc, batch, db, gone, synced, world, stops>>
  BY Zenon DEF AckDue, Idle, Delivered
<1> DEFINE f == [sos[r] EXCEPT !.ack = "told"]
<1>2. sos[r] \in Entry /\ sos \in [SOS -> Entry]  BY DEF MemOK
<1>3. f \in Entry /\ f.kind = sos[r].kind /\ f.locations = sos[r].locations
  BY <1>2, AckFacts
<1> HIDE DEF f
<1>4. sos' = [sos EXCEPT ![r] = f]  BY <1>1 DEF f
<1>5. sos' \in [SOS -> Entry] /\ sos'[r] = f /\ \A s \in SOS : s # r => sos'[s] = sos[s]
  BY <1>2, <1>3, <1>4
<1> QED  BY <1>1, <1>3, <1>5 DEF MemoryInv

\* The sender's part of a step that leaves nothing in hand.
LEMMA EmptyHand ==
  ASSUME q' \in Seq(Ops), Len(q') <= MaxOps, synced' \in Seq(Ops), Len(synced') <= MaxOps,
         batch' = <<>>, kept' = 0, pc' \in {"idle", "sweeping"}
  PROVE  SendOK' /\ QueueOK' /\ AlignInv'
<1>1. SendOK'
  <2>1. Len(q') \in Nat  BY SeqFacts
  <2>2. <<>> \in Seq(Ops) /\ Len(<<>>) = 0  BY NoOps
  <2> QED  BY <2>1, <2>2, Rigid DEF SendOK
<1>2. QueueOK'  BY Rigid DEF QueueOK
<1>3. AlignInv'  BY DEF AlignInv
<1> QED  BY <1>1, <1>2, <1>3

LEMMA ForgetTypes ==
  ASSUME Forget
  PROVE  MemOK' /\ MemoryInv'
<1>1. sos' = [s \in SOS |-> Unknown] /\ closed' = {} /\ stage' = "meta" /\ waiting' = FALSE
      /\ pc' = "idle" /\ up' = "down"
  BY DEF Forget
<1>2. sos' \in [SOS -> Entry] /\ \A s \in SOS : sos'[s].kind = "none"
  BY <1>1, UnknownFacts
<1>3. MemOK'  BY <1>1, <1>2, Rigid DEF MemOK
<1> QED  BY <1>1, <1>2, <1>3, Rigid DEF MemoryInv

\* Taking the operation in hand off both ends.
LEMMA DoneFacts ==
  ASSUME SendOK, QueueOK, AlignInv, pc \in {"sending", "executed"}, Finish, synced' = synced
  PROVE  /\ SendOK' /\ QueueOK' /\ AlignInv' /\ batch # <<>>
         /\ batch' = Tail(batch) /\ waiting' = FALSE
         /\ \/ /\ kept = Len(batch) /\ q # <<>> /\ q[1] = batch[1] /\ q' = Tail(q)
               /\ kept' = kept - 1
            \/ kept < Len(batch) /\ q' = q /\ kept' = kept
<1>1. batch \in Seq(Ops) /\ batch # <<>> /\ Len(batch) \in Nat \ {0} /\ q \in Seq(Ops)
      /\ Len(q) \in Nat /\ kept \in Nat /\ kept <= Len(batch) /\ kept <= Len(q)
      /\ Len(q) <= MaxOps /\ (q # <<>> <=> Len(q) # 0)
  BY SeqFacts DEF SendOK, QueueOK
<1>2. batch' = Tail(batch) /\ waiting' = FALSE
      /\ pc' = IF batch' = <<>> THEN "idle" ELSE "sending"
  BY DEF Finish
<1>3. batch' \in Seq(Ops) /\ Len(batch') = Len(batch) - 1
      /\ \A i \in 1 .. Len(batch') : batch'[i] = batch[i + 1]
  BY <1>1, <1>2, HeadTailProperties
<1>4. pc' \in {"idle", "sending", "executed", "sweeping"}
      /\ (pc' \in {"idle", "sweeping"} <=> batch' = <<>>)
  BY <1>2
<1>5. CASE kept = Len(batch)
  <2>1. q' = Tail(q) /\ kept' = kept - 1  BY <1>1, <1>5 DEF Finish, Done
  <2>2. q # <<>> /\ 1 \in 1 .. kept  BY <1>1, <1>5
  <2>3. q[1] = batch[1]
    <3>1. q[1] = batch[Len(batch) - kept + 1]  BY <2>2 DEF AlignInv
    <3>2. Len(batch) - kept + 1 = 1  BY <1>1, <1>5
    <3> QED  BY <3>1, <3>2
  <2>4. q' \in Seq(Ops) /\ Len(q') = Len(q) - 1 /\ \A i \in 1 .. Len(q') : q'[i] = q[i + 1]
    BY <1>1, <2>1, <2>2, HeadTailProperties
  <2>5. kept' \in Nat /\ kept' <= Len(batch') /\ kept' <= Len(q') /\ Len(q') <= MaxOps
    BY <1>1, <1>3, <1>5, <2>1, <2>4, ConstantFacts
  <2>6. AlignInv'
    <3> SUFFICES ASSUME NEW i \in 1 .. kept' PROVE q'[i] = batch'[Len(batch') - kept' + i]
      BY DEF AlignInv
    <3>1. i \in 1 .. Len(q') /\ i + 1 \in 1 .. kept /\ i \in 1 .. Len(batch')
          /\ Len(batch') - kept' + i = i /\ Len(batch) - kept + (i + 1) = i + 1
      BY <1>1, <1>3, <1>5, <2>1, <2>5
    <3>2. q'[i] = q[i + 1] /\ batch'[i] = batch[i + 1]  BY <1>3, <2>4, <3>1
    <3>3. q[i + 1] = batch[Len(batch) - kept + (i + 1)]  BY <3>1 DEF AlignInv
    <3> QED  BY <3>1, <3>2, <3>3
  <2>7. SendOK'  BY <1>3, <1>4, <2>5, Rigid, Zenon DEF SendOK
  <2>8. QueueOK'  BY <2>4, <2>5, Rigid DEF QueueOK
  <2> QED  BY <1>1, <1>2, <1>5, <2>1, <2>2, <2>3, <2>6, <2>7, <2>8
<1>6. CASE kept < Len(batch)
  <2>1. q' = q /\ kept' = kept  BY <1>1, <1>6 DEF Finish, Done
  <2>2. kept' \in Nat /\ kept' <= Len(batch') /\ kept' <= Len(q')
    BY <1>1, <1>3, <1>6, <2>1
  <2>3. AlignInv'
    <3> SUFFICES ASSUME NEW i \in 1 .. kept' PROVE q'[i] = batch'[Len(batch') - kept' + i]
      BY DEF AlignInv
    <3>1. i \in 1 .. kept /\ Len(batch') - kept' + i \in 1 .. Len(batch')
          /\ (Len(batch') - kept' + i) + 1 = Len(batch) - kept + i
      BY <1>1, <1>3, <1>6, <2>1, <2>2
    <3>2. batch'[Len(batch') - kept' + i] = batch[(Len(batch') - kept' + i) + 1]
      BY <1>3, <3>1
    <3>3. q[i] = batch[Len(batch) - kept + i]  BY <3>1 DEF AlignInv
    <3> QED  BY <2>1, <3>1, <3>2, <3>3
  <2>4. SendOK'  BY <1>3, <1>4, <2>2, Rigid, Zenon DEF SendOK
  <2>5. QueueOK'  BY <1>1, <2>1, Rigid DEF QueueOK
  <2> QED  BY <1>1, <1>2, <1>6, <2>1, <2>3, <2>4, <2>5
<1>7. kept = Len(batch) \/ kept < Len(batch)  BY <1>1
<1> QED  BY <1>5, <1>6, <1>7, Zenon

\* Reading the front of the outbox.
LEMMA PeekFacts ==
  ASSUME QueueOK, q # <<>>, batch' = Peek, kept' = Len(batch'), pc' = "sending",
         q' = q, synced' = synced
  PROVE  /\ SendOK' /\ QueueOK' /\ AlignInv'
         /\ Len(batch') <= Len(q) /\ \A i \in 1 .. Len(batch') : batch'[i] = q[i]
<1> DEFINE n == IF Len(q) < Batch THEN Len(q) ELSE Batch
<1>1. q \in Seq(Ops) /\ Len(q) \in Nat /\ Len(q) # 0 /\ Len(q) <= MaxOps
  BY SeqFacts DEF QueueOK
<1>2. n \in Nat \ {0} /\ n <= Len(q)  BY <1>1, ConstantFacts
<1>3. batch' = SubSeq(q, 1, n)  BY DEF Peek
<1> HIDE DEF n
<1>4. \A i \in 1 .. n : q[i] \in Ops  BY <1>1, <1>2, ElementOfSeq
<1>5. /\ SubSeq(q, 1, n) \in Seq(Ops)
      /\ Len(SubSeq(q, 1, n)) = IF 1 <= n THEN n - 1 + 1 ELSE 0
      /\ \A i \in 1 .. n - 1 + 1 : SubSeq(q, 1, n)[i] = q[1 + i - 1]
  <2>1. 1 \in Int /\ n \in Int  BY <1>2
  <2> QED  BY <1>4, <2>1, SubSeqProperties
<1>6. Len(batch') = n /\ \A i \in 1 .. Len(batch') : batch'[i] = q[i]
  BY <1>2, <1>3, <1>5
<1>7. SendOK'
  <2>1. batch' \in Seq(Ops') /\ kept' \in Nat /\ kept' <= Len(batch') /\ kept' <= Len(q')
    BY <1>1, <1>2, <1>3, <1>5, <1>6, Rigid
  <2>2. batch' # <<>>  BY <1>2, <1>6, NoOps
  <2> QED  BY <2>1, <2>2 DEF SendOK
<1>8. QueueOK'  BY Rigid DEF QueueOK
<1>9. AlignInv'
  <2> SUFFICES ASSUME NEW i \in 1 .. kept' PROVE q'[i] = batch'[Len(batch') - kept' + i]
    BY DEF AlignInv
  <2>1. Len(batch') - kept' + i = i /\ i \in 1 .. Len(batch')  BY <1>2, <1>6
  <2> QED  BY <1>6, <2>1
<1> QED  BY <1>1, <1>2, <1>6, <1>7, <1>8, <1>9

LEMMA TypeStep ==
  ASSUME TeleTypes, MemoryInv, AlignInv, [Next]_vars
  PROVE  TeleTypes' /\ MemoryInv' /\ AlignInv'
<1> USE DEF TeleTypes
<1> DEFINE Good == TeleTypes' /\ MemoryInv' /\ AlignInv'
\* The parts of the state most steps leave alone.
<1>a. ASSUME UNCHANGED <<db, gone, stops>>, world' \in [SOS -> {"new", "open", "closed"}],
             lost' \in SUBSET SOS
      PROVE  WorldOK'
  BY <1>a, Rigid DEF WorldOK
<1>b. ASSUME UNCHANGED <<up, sos, closed>>, waiting' \in BOOLEAN,
             stage' \in {"meta", "drain", "swept"},
             up = "down" => stage' = "meta" /\ pc' = "idle"
      PROVE  MemOK' /\ MemoryInv'
  BY <1>b, Rigid DEF MemOK, MemoryInv
<1>c. ASSUME UNCHANGED <<batch, pc, synced>>, NoPut \/ \E ops \in Seq(Ops) : Put(ops)
      PROVE  SendOK' /\ QueueOK' /\ lost' \in SUBSET SOS /\ AlignInv'
  <2>1. SendOK' /\ QueueOK' /\ lost' \in SUBSET SOS  BY <1>c, CallTypes DEF WorldOK
  <2>2. AlignInv'
    <3>1. CASE NoPut  BY <1>c, <3>1, NoPutFacts, NoOps, PutAlign
    <3>2. CASE \E ops \in Seq(Ops) : Put(ops)  BY <1>c, <3>2, PutFacts, PutAlign
    <3> QED  BY <1>c, <3>1, <3>2
  <2> QED  BY <2>1, <2>2
<1>d. ASSUME UNCHANGED <<batch, pc, synced, up, stage, waiting, db, gone, stops>>,
             NoPut \/ \E ops \in Seq(Ops) : Put(ops),
             sos' \in [SOS -> Entry], closed' \in SUBSET SOS,
             world' \in [SOS -> {"new", "open", "closed"}],
             up = "up" \/ UNCHANGED <<sos, closed>>,
             \A s \in SOS : sos'[s].kind = "orphan" => sos'[s].locations = MaxLocations
      PROVE  Good
  <2>1. SendOK' /\ QueueOK' /\ lost' \in SUBSET SOS /\ AlignInv'  BY <1>c, <1>d
  <2>2. WorldOK'  BY <1>a, <1>d, <2>1
  <2>3. MemOK'  BY <1>d, Rigid DEF MemOK
  <2>4. MemoryInv'  BY <1>d, Rigid DEF MemoryInv
  <2> QED  BY <2>1, <2>2, <2>3, <2>4
\* What was in hand is dropped.
<1>e. ASSUME Forget, synced' \in Seq(Ops), Len(synced') <= MaxOps,
             q' \in Seq(Ops), Len(q') <= MaxOps, WorldOK'
      PROVE  Good
  BY <1>e, EmptyHand, ForgetTypes DEF Forget
<1>f. ASSUME MemOK', MemoryInv', WorldOK', batch' = <<>>, kept' = 0,
             pc' \in {"idle", "sweeping"}, UNCHANGED <<q, synced>>
      PROVE  Good
  BY <1>f, EmptyHand DEF QueueOK
<1>g. \A s \in SOS : sos[s].kind = "orphan" => sos[s].locations = MaxLocations
  BY DEF MemoryInv
<1>h. lost \in SUBSET SOS /\ world \in [SOS -> {"new", "open", "closed"}]  BY DEF WorldOK
<1>1. ASSUME NEW s \in SOS, SosRequest(s) PROVE Good
  <2>1. world' \in [SOS -> {"new", "open", "closed"}]  BY <1>1, RequestStep DEF WorldOK
  <2>2. UNCHANGED <<batch, pc, synced, up, stage, waiting, db, gone, stops, closed>>
        /\ sos' \in [SOS -> Entry] /\ (up = "up" \/ sos' = sos)
        /\ (NoPut \/ \E ops \in Seq(Ops) : Put(ops))
    BY <1>1, RequestStep, PutOnly, Zenon DEF Quiet, histVars
  <2>3. \A t \in SOS : sos'[t].kind = "orphan" => sos'[t].locations = MaxLocations
    BY <1>1, <1>g, RequestStep
  <2> QED  BY <1>d, <2>1, <2>2, <2>3 DEF MemOK
<1>2. ASSUME NEW s \in SOS, Location(s) PROVE Good
  <2>1. UNCHANGED <<batch, pc, synced, up, stage, waiting, db, gone, stops, closed, world>>
        /\ sos' \in [SOS -> Entry] /\ up = "up" /\ (\E ops \in Seq(Ops) : Put(ops))
        /\ \A t \in SOS : sos'[t].kind = "orphan" => sos'[t].locations = MaxLocations
    BY <1>2, FixStep, Zenon DEF Quiet, histVars
  <2> QED  BY <1>d, <1>h, <2>1 DEF MemOK
<1>3. ASSUME NEW s \in SOS, SosClear(s) PROVE Good
  <2>1. world' \in [SOS -> {"new", "open", "closed"}] /\ closed' \in SUBSET SOS
    BY <1>3, ClearStep DEF WorldOK, MemOK
  <2>2. UNCHANGED <<batch, pc, synced, up, stage, waiting, db, gone, stops>>
        /\ sos' \in [SOS -> Entry] /\ (up = "up" \/ UNCHANGED <<sos, closed>>)
        /\ (NoPut \/ \E ops \in Seq(Ops) : Put(ops))
    BY <1>3, ClearStep, Zenon DEF Quiet, histVars
  <2>3. \A t \in SOS : sos'[t].kind = "orphan" => sos'[t].locations = MaxLocations
    BY <1>3, <1>g, ClearStep
  <2> QED  BY <1>d, <2>1, <2>2, <2>3
<1>4. ASSUME NEW s \in SOS, AckDue(s) PROVE Good
  <2>1. UNCHANGED <<batch, pc, synced, up, stage, waiting, db, gone, stops, closed, world>>
        /\ sos' \in [SOS -> Entry] /\ up = "up" /\ Put(<<Event>>)
        /\ \A t \in SOS : sos'[t].kind = "orphan" => sos'[t].locations = MaxLocations
    BY <1>4, DueStep, Zenon
  <2>2. \E ops \in Seq(Ops) : Put(ops)  BY <2>1, EventSilent
  <2> QED  BY <1>d, <1>h, <2>1, <2>2 DEF MemOK
<1>5. ASSUME NEW s \in SOS, NEW r \in BOOLEAN, SosAck(s, r) PROVE Good
  <2>1. UNCHANGED <<batch, pc, synced, up, stage, waiting, db, gone, stops, closed, world>>
        /\ sos' \in [SOS -> Entry] /\ up = "up" /\ (\E ops \in Seq(Ops) : Put(ops))
    BY <1>5, AckStep, Zenon DEF Quiet, histVars
  <2>2. \A t \in SOS : sos'[t].kind = "orphan" => sos'[t].locations = MaxLocations
    BY <1>5, <1>g, AckStep
  <2> QED  BY <1>d, <1>h, <2>1, <2>2 DEF MemOK
<1>6. ASSUME BackoffEnds PROVE Good
  <2>1. /\ UNCHANGED <<up, sos, closed, stage, pc, batch, q, kept, db, lost, gone, synced, world, stops>>
        /\ waiting' = FALSE /\ pc = "idle"
    BY <1>6 DEF BackoffEnds, Idle
  <2>2. MemOK' /\ MemoryInv'  BY <1>b, <2>1 DEF MemOK, MemoryInv
  <2>3. WorldOK'  BY <1>a, <1>h, <2>1
  <2>4. SendOK' /\ QueueOK' /\ AlignInv'  BY <2>1, Rigid DEF SendOK, QueueOK, AlignInv
  <2> QED  BY <2>2, <2>3, <2>4
<1>7. ASSUME SyncMeta PROVE Good
  <2>1. /\ UNCHANGED <<up, sos, closed, waiting, pc, batch, q, kept, db, lost, gone, synced, world, stops>>
        /\ stage' = "drain" /\ up = "up"
    BY <1>7 DEF SyncMeta, Idle, Delivered
  <2>2. MemOK' /\ MemoryInv'  BY <1>b, <2>1 DEF MemOK, MemoryInv
  <2>3. WorldOK'  BY <1>a, <1>h, <2>1
  <2>4. SendOK' /\ QueueOK' /\ AlignInv'  BY <2>1, Rigid DEF SendOK, QueueOK, AlignInv
  <2> QED  BY <2>2, <2>3, <2>4
<1>8. ASSUME Fail, UNCHANGED <<up, sos, closed, q, synced, db, world, lost, gone, stops>>,
             stage' \in {"meta", "drain", "swept"}, up = "down" => stage' = "meta"
      PROVE Good
  <2>1. MemOK' /\ MemoryInv'  BY <1>b, <1>8 DEF Fail
  <2>2. WorldOK'  BY <1>a, <1>h, <1>8
  <2> QED  BY <1>8, <1>f, <2>1, <2>2 DEF Fail
<1>9. ASSUME MetaFails \/ Unanswered \/ SweepFails PROVE Good
  <2>1. Fail /\ UNCHANGED <<up, sos, closed, stage, q, synced, db, world, lost, gone, stops>>
    BY <1>9 DEF MetaFails, Unanswered, SweepFails, Idle, Busy, histVars
  <2> QED  BY <1>8, <2>1 DEF MemOK, MemoryInv
<1>10. ASSUME Drain PROVE Good
  <2>1. /\ pc = "idle" /\ q # <<>> /\ (up = "stopping" \/ up = "up")
        /\ batch' = Peek /\ kept' = Len(batch') /\ pc' = "sending"
        /\ UNCHANGED <<up, sos, closed, stage, waiting, q, db, lost, gone, synced, world, stops>>
    BY <1>10 DEF Drain, Idle, Delivered, memVars
  <2>2. MemOK' /\ MemoryInv'  BY <1>b, <2>1 DEF MemOK
  <2>3. WorldOK'  BY <1>a, <1>h, <2>1
  <2>4. SendOK' /\ QueueOK' /\ AlignInv'  BY <2>1, PeekFacts
  <2> QED  BY <2>2, <2>3, <2>4
<1>11. ASSUME Execute PROVE Good
  <2> DEFINE op == Head(batch)
  <2>1. /\ pc = "sending" /\ pc' = "executed"
        /\ UNCHANGED <<up, sos, closed, stage, waiting, batch, kept, q, lost, synced, world, stops>>
    BY <1>11 DEF Execute, Busy, memVars
  <2>2. db' = CASE op.do \in {"put", "patch"} -> db \cup {op.of}
                [] op.do = "delete" -> db \ {op.of}
                [] OTHER -> db
    BY <1>11 DEF Execute
  <2>3. gone' = IF op.do = "delete" THEN gone \cup {op.of} ELSE gone
    BY <1>11 DEF Execute
  <2>4. op \in Ops /\ batch # <<>>
    <3>1. batch \in Seq(Ops) /\ batch # <<>>  BY <2>1 DEF SendOK
    <3> QED  BY <3>1, HeadTailProperties
  <2>5. op.do \in {"put", "patch", "delete"} => op.of \in SOS
    <3>1. Event.do = "event"  BY DEF Event, Op
    <3> QED  BY <2>4, <3>1 DEF Ops
  <2>6. db' \in SUBSET SOS /\ gone' \in SUBSET SOS
    <3>1. CASE op.do \in {"put", "patch"}  BY <2>2, <2>3, <2>5, <3>1 DEF WorldOK
    <3>2. CASE op.do = "delete"  BY <2>2, <2>3, <2>5, <3>2 DEF WorldOK
    <3>3. CASE op.do \notin {"put", "patch", "delete"}  BY <2>2, <2>3, <3>3 DEF WorldOK
    <3> QED  BY <3>1, <3>2, <3>3
  <2>7. WorldOK'  BY <2>1, <2>6, Rigid DEF WorldOK
  <2>8. up # "down"  BY <2>1 DEF MemoryInv
  <2>9. MemOK' /\ MemoryInv'  BY <1>b, <2>1, <2>8 DEF MemOK
  <2>10. SendOK' /\ QueueOK' /\ AlignInv'
    BY <2>1, <2>4, Rigid DEF SendOK, QueueOK, AlignInv
  <2> QED  BY <2>7, <2>9, <2>10
<1>12. ASSUME Answered \/ Rejected PROVE Good
  <2>1. /\ pc \in {"sending", "executed"} /\ Finish
        /\ UNCHANGED <<up, sos, closed, stage, db, gone, synced, world, stops>>
        /\ lost' = lost \/ lost' = lost \cup GivenUp({Head(batch)})
    BY <1>12 DEF Answered, Rejected, Busy
  <2>2. SendOK' /\ QueueOK' /\ AlignInv' /\ batch # <<>> /\ waiting' = FALSE
    BY <2>1, DoneFacts, Zenon
  <2>3. Head(batch) \in Ops  BY <2>2, HeadTailProperties DEF SendOK
  <2>4. lost' \in SUBSET SOS
    <3>1. {Head(batch)} \in SUBSET Ops  BY <2>3
    <3>2. GivenUp({Head(batch)}) \in SUBSET SOS  BY <3>1, GivenUpFacts
    <3> QED  BY <1>h, <2>1, <3>2
  <2>5. WorldOK'  BY <1>a, <1>h, <2>1, <2>4
  <2>6. up # "down"  BY <2>1 DEF MemoryInv
  <2>7. MemOK' /\ MemoryInv'  BY <1>b, <2>1, <2>2, <2>6 DEF MemOK
  <2> QED  BY <2>2, <2>5, <2>7
<1>13. ASSUME Sweep PROVE Good
  <2>1. /\ pc = "idle" /\ pc' = "sweeping" /\ up # "down"
        /\ UNCHANGED <<up, sos, closed, stage, waiting, batch, kept, q, db, lost, gone, synced, world, stops>>
    BY <1>13 DEF Sweep, Idle, memVars
  <2>2. MemOK' /\ MemoryInv'  BY <1>b, <2>1 DEF MemOK
  <2>3. WorldOK'  BY <1>a, <1>h, <2>1
  <2>4. SendOK' /\ QueueOK' /\ AlignInv'  BY <2>1, Rigid DEF SendOK, QueueOK, AlignInv
  <2> QED  BY <2>2, <2>3, <2>4
<1>14. ASSUME SweepAnswered PROVE Good
  <2>1. /\ pc = "sweeping" /\ pc' = "idle" /\ stage' = "swept"
        /\ closed' = closed \cup (db \ Live)
        /\ Put(Closing(SetToSeq(db \ Live)))
        /\ UNCHANGED <<up, sos, waiting, batch, db, gone, synced, world, stops>>
    BY <1>14 DEF SweepAnswered, Busy
  <2>2. db \ Live \in SUBSET SOS  BY DEF WorldOK
  <2>3. Closing(SetToSeq(db \ Live)) \in Seq(Ops)  BY <2>2, StaleFacts, ClosingFacts
  <2> HIDE DEF Good
  <2>4. PICK d \in Nat : PutBy(Closing(SetToSeq(db \ Live)), d)  BY <2>1, <2>3, PutFacts
  <2>5. AlignInv'  BY <2>1, <2>3, <2>4, PutAlign
  <2>6. SendOK' /\ QueueOK' /\ lost' \in SUBSET SOS
    BY <1>h, <2>1, <2>3, <2>4, PutTypes DEF QueueOK
  <2>7. up # "down"  BY <2>1 DEF MemoryInv
  <2>8. MemOK'  BY <2>1, <2>2, Rigid DEF MemOK
  <2>9. MemoryInv'  BY <1>g, <2>1, <2>7, Rigid DEF MemoryInv
  <2>10. WorldOK'  BY <1>a, <1>h, <2>1, <2>6
  <2> QED  BY <2>5, <2>6, <2>8, <2>9, <2>10 DEF Good
<1>15. ASSUME SweepRejected PROVE Good
  <2>1. /\ pc = "sweeping" /\ pc' = "idle" /\ stage' = "swept" /\ lost' = SOS
        /\ UNCHANGED <<up, sos, closed, waiting, batch, kept, q, db, gone, synced, world, stops>>
    BY <1>15 DEF SweepRejected, Busy
  <2>2. up # "down"  BY <2>1 DEF MemoryInv
  <2>3. MemOK' /\ MemoryInv'  BY <1>b, <2>1, <2>2 DEF MemOK
  <2>4. WorldOK'  BY <1>a, <1>h, <2>1
  <2>5. SendOK' /\ QueueOK' /\ AlignInv'  BY <2>1, Rigid DEF SendOK, QueueOK, AlignInv
  <2> QED  BY <2>3, <2>4, <2>5
<1>16. ASSUME Start PROVE Good
  <2>1. /\ up = "down" /\ up' = "up" /\ lost' = {}
        /\ UNCHANGED <<sos, closed, stage, waiting, pc, batch, kept, synced, db, world, gone, stops>>
    BY <1>16 DEF Start, memVars, sendVars, histVars
  <2>2. q' \in Seq(Ops) /\ Len(q') <= MaxOps
    <3>1. Append(q, Event) = q \o <<Event>>
      BY EventSilent, OpFacts, AppendIsConcat DEF QueueOK, Ops
    <3>2. q' = SubSeq(q \o <<Event>>, Larger(0, Len(q \o <<Event>>) - MaxOps) + 1, Len(q \o <<Event>>))
      BY <1>16, <3>1 DEF Start
    <3> QED  BY <3>2, EventSilent, CutFacts DEF QueueOK, After
  <2>3. pc' = "idle" /\ batch' = <<>> /\ kept' = 0
    <3>1. pc = "idle" /\ batch = <<>>  BY <2>1 DEF MemoryInv, SendOK
    <3>2. kept = 0  BY <3>1, NoOps DEF SendOK
    <3> QED  BY <2>1, <3>1, <3>2
  <2>4. SendOK' /\ QueueOK' /\ AlignInv'  BY <2>1, <2>2, <2>3, EmptyHand DEF QueueOK
  <2>5. MemOK' /\ MemoryInv'  BY <2>1, Rigid DEF MemOK, MemoryInv
  <2>6. WorldOK'  BY <1>a, <1>h, <2>1
  <2> QED  BY <2>4, <2>5, <2>6
<1>i. AfterStop(synced) => synced' \in Seq(Ops) /\ Len(synced') <= MaxOps
  BY NoOps, ConstantFacts DEF AfterStop, QueueOK
<1>17. ASSUME Stop PROVE Good
  <2>1. /\ up = "up" /\ up' = "stopping" /\ stops' = stops + 1 /\ Put(<<Event>>)
        /\ AfterStop(synced)
        /\ UNCHANGED <<sos, closed, stage, waiting, pc, batch, db, world, gone>>
    BY <1>17 DEF Stop, Delivered, memVars
  <2>2. PICK d \in Nat : PutBy(<<Event>>, d)  BY <2>1, EventSilent, PutFacts
  <2>3. AlignInv'  BY <2>1, <2>2, EventSilent, PutAlign
  <2>4. SendOK' /\ QueueOK' /\ lost' \in SUBSET SOS
    <3>1. pc' \in {"idle", "sending", "executed", "sweeping"}  BY <2>1 DEF SendOK
    <3> QED  BY <1>h, <1>i, <2>1, <2>2, <3>1, EventSilent, PutTypes
  <2>5. WorldOK'  BY <2>1, <2>4, Rigid DEF WorldOK
  <2>6. MemOK' /\ MemoryInv'  BY <2>1, Rigid DEF MemOK, MemoryInv
  <2> QED  BY <2>3, <2>4, <2>5, <2>6
<1>18. ASSUME FlushEnds PROVE Good
  <2>1. Forget /\ UNCHANGED <<q, synced, db, world, lost, gone, stops>>
    BY <1>18 DEF FlushEnds, histVars
  <2>2. WorldOK'  BY <1>a, <1>h, <2>1
  <2> QED  BY <1>e, <2>1, <2>2 DEF QueueOK
<1>19. ASSUME Crash PROVE Good
  <2>1. /\ Forget /\ stops' = stops + 1 /\ AfterStop(synced)
        /\ UNCHANGED <<q, db, world, lost, gone>>
    BY <1>19 DEF Crash
  <2>2. WorldOK'  BY <2>1, Rigid DEF WorldOK
  <2> QED  BY <1>e, <1>i, <2>1, <2>2 DEF QueueOK
<1>20. ASSUME PowerLoss PROVE Good
  <2>1. /\ Forget /\ stops' = stops + 1 /\ AfterStop(synced) /\ q' = synced /\ gone' = {}
        /\ world' = [s \in SOS |-> IF world[s] = "open" THEN "closed" ELSE world[s]]
        /\ UNCHANGED <<db, lost>>
    BY <1>20 DEF PowerLoss
  <2>2. WorldOK'  BY <2>1, Rigid DEF WorldOK
  <2> QED  BY <1>e, <1>i, <2>1, <2>2 DEF QueueOK
<1>21. ASSUME Checkpoint PROVE Good
  <2>1. /\ synced' = q
        /\ UNCHANGED <<up, sos, closed, stage, waiting, pc, batch, kept, q, db, world, lost, gone, stops>>
    BY <1>21 DEF Checkpoint, memVars, sendVars, histVars
  <2>2. MemOK' /\ MemoryInv'  BY <2>1, Rigid DEF MemOK, MemoryInv
  <2>3. WorldOK'  BY <1>a, <1>h, <2>1
  <2>4. SendOK' /\ QueueOK' /\ AlignInv'  BY <2>1, Rigid DEF SendOK, QueueOK, AlignInv
  <2> QED  BY <2>2, <2>3, <2>4
<1>22. ASSUME UNCHANGED vars PROVE Good
  <2>1. UNCHANGED <<up, sos, closed, stage, waiting, pc, batch, kept, q, synced, db, world, lost, gone, stops>>
    BY <1>22 DEF vars, memVars, sendVars, histVars
  <2>2. MemOK' /\ MemoryInv'  BY <2>1, Rigid DEF MemOK, MemoryInv
  <2>3. WorldOK'  BY <1>a, <1>h, <2>1
  <2>4. SendOK' /\ QueueOK' /\ AlignInv'  BY <2>1, Rigid DEF SendOK, QueueOK, AlignInv
  <2> QED  BY <2>2, <2>3, <2>4
<1> HIDE DEF Good
<1>23. Good
  BY <1>1, <1>2, <1>3, <1>4, <1>5, <1>6, <1>7, <1>9, <1>10, <1>11, <1>12, <1>13, <1>14,
     <1>15, <1>16, <1>17, <1>18, <1>19, <1>20, <1>21, <1>22, Zenon DEF Next
<1> QED  BY <1>23 DEF Good

-----------------------------------------------------------------------------
(* The steps, from the point of view of one SOS.                           *)

LEMMA EmptyFacts ==
  ASSUME NEW s
  PROVE  Ordered(<<>>, s) /\ NoWrite(<<>>, s) /\ NoDelete(<<>>, s)
BY NoOps DEF Ordered, NoWrite, NoDelete

LEMMA LiveFacts ==
  ASSUME NEW s \in SOS
  PROVE  /\ s \in Live <=> sos[s].kind # "none" \/ s \in closed
         /\ (s \in Live)' <=> sos'[s].kind # "none" \/ s \in closed'
BY Rigid DEF Live

\* A callback that is not the request or the clear of this SOS, or the answer to a
\* sweep that does not find it stale.
LEMMA CallKeeps ==
  ASSUME SendOK, QueueOK, AlignInv, NEW s \in SOS, SosInv(s),
         NEW ops \in Seq(Ops), NEW d \in Nat, PutBy(ops, d),
         UNCHANGED <<batch, db, gone>>,
         \/ UNCHANGED <<pc, stage>>
         \/ pc = "sweeping" /\ stage' = "swept" /\ (s \in Live \/ s \notin db),
         synced' = synced \/ synced' = <<>>, up' = up \/ up' = "stopping",
         s \in closed' <=> s \in closed, world'[s] = world[s],
         \/ sos'[s].kind = sos[s].kind
         \/ sos[s].kind = "none" /\ sos'[s].kind = "orphan" /\ world[s] # "new",
         NoDelete(ops, s), NoWrite(ops, s) \/ (up = "up" /\ sos[s].kind = "open")
  PROVE  SosInv(s)'
<1>1. OrderInv(s) /\ NewInv(s) /\ OpenInv(s) /\ GoneInv(s) /\ ShowInv(s)  BY DEF SosInv
<1>2. \/ NoWrite(ops, s)
      \/ /\ up = "up" /\ sos[s].kind = "open" /\ world[s] = "open" /\ s \notin closed
         /\ s \notin gone /\ NoDelete(q, s) /\ NoDelete(batch, s)
  BY <1>1 DEF OpenInv
<1>3. OrderInv(s)'
  <2>1. Ordered(synced, s)'  BY <1>1, EmptyFacts DEF OrderInv
  <2> QED  BY <1>1, <1>2, <2>1, PutOrder
<1>4. NewInv(s)'
  <2> SUFFICES ASSUME world'[s] = "new" PROVE NewInv(s)'  BY DEF NewInv
  <2>1. /\ sos[s].kind = "none" /\ s \notin closed /\ s \notin db /\ s \notin gone
        /\ Untouched(q, s) /\ Untouched(batch, s) /\ Untouched(synced, s)
    BY <1>1 DEF NewInv
  <2>2. Untouched(q', s)  BY <1>2, <2>1, PutNoWrite, PutNoDelete DEF Untouched
  <2>3. Untouched(synced', s)  BY <2>1, EmptyFacts DEF Untouched
  <2> QED  BY <2>1, <2>2, <2>3 DEF NewInv
<1>5. OpenInv(s)'
  <2> SUFFICES ASSUME up' = "up", sos'[s].kind = "open" PROVE OpenInv(s)'  BY DEF OpenInv
  <2>1. world[s] = "open" /\ s \notin closed /\ s \notin gone
        /\ NoDelete(q, s) /\ NoDelete(batch, s)
    BY <1>1 DEF OpenInv
  <2>2. NoDelete(q', s)  BY <2>1, PutNoDelete
  <2> QED  BY <2>1, <2>2 DEF OpenInv
<1>6. GoneInv(s)'
  <2> SUFFICES ASSUME s \in gone' PROVE GoneInv(s)'  BY DEF GoneInv
  <2>1. s \notin db /\ NoWrite(q, s) /\ NoWrite(batch, s)  BY <1>1 DEF GoneInv
  <2>2. NoWrite(q', s)  BY <1>2, <2>1, PutNoWrite
  <2> QED  BY <2>1, <2>2 DEF GoneInv
<1>7. ShowInv(s)'
  <2> SUFFICES ASSUME up' = "up" PROVE ShowInv(s)'  BY DEF ShowInv
  <2>0. up = "up" /\ lost \subseteq lost'  BY DEF PutBy
  <2>1. (s \in closed)' /\ (s \notin lost)' => Closes(s)'
    <3> SUFFICES ASSUME s \in closed, s \notin lost' PROVE Closes(s)'  OBVIOUS
    <3>1. Closes(s)  BY <1>1, <2>0 DEF ShowInv
    <3>2. CASE Has(q, Op("delete", s))
      BY <3>2, PutKeeps DEF Closes
    <3>3. CASE s \notin db /\ NoWrite(q, s) /\ NoWrite(batch, s)
      <4>1. NoWrite(q', s)  BY <1>2, <3>3, PutNoWrite
      <4> QED  BY <3>3, <4>1 DEF Closes
    <3> QED  BY <3>1, <3>2, <3>3 DEF Closes
  <2>2. ASSUME pc' = "sweeping" \/ stage' = "swept", ~(s \in Live)'
        PROVE  NoWrite(q', s) /\ NoWrite(batch', s)
    <3>1. s \notin Live /\ sos[s].kind = "none"  BY <2>2, LiveFacts
    <3>2. NoWrite(q, s) /\ NoWrite(batch, s)  BY <1>1, <2>0, <2>2, <3>1 DEF ShowInv
    <3>3. NoWrite(ops, s)  BY <1>2, <3>1
    <3> QED  BY <3>2, <3>3, PutNoWrite
  <2>3. ASSUME stage' = "swept", ~(s \in Live)', s \notin lost'
        PROVE  s \notin db'
    <3>1. s \notin Live  BY <2>3, LiveFacts
    <3> QED  BY <1>1, <2>0, <2>3, <3>1 DEF ShowInv
  <2>4. ASSUME sos'[s].kind = "open", s \notin lost'
        PROVE  s \in db' \/ Has(q', Op("put", s))
    <3>1. s \in db \/ Has(q, Op("put", s))  BY <1>1, <2>0, <2>4 DEF ShowInv
    <3> QED  BY <2>4, <3>1, PutKeeps
  <2> QED  BY <2>1, <2>2, <2>3, <2>4 DEF ShowInv
<1> QED  BY <1>3, <1>4, <1>5, <1>6, <1>7 DEF SosInv

\* The request of this SOS, heard.
LEMMA RequestKeeps ==
  ASSUME SendOK, QueueOK, AlignInv, NEW s \in SOS, SosInv(s), world[s] = "new",
         NEW d \in Nat, PutBy(<<Event, Op("put", s)>>, d),
         UNCHANGED <<up, batch, pc, db, gone, stage, synced, closed>>,
         world'[s] = "open", sos'[s].kind = "open"
  PROVE  SosInv(s)'
<1> DEFINE ops == <<Event, Op("put", s)>>
<1>1. ops \in Seq(Ops) /\ NoDelete(ops, s) /\ Has(ops, Op("put", s))  BY PutOnly
<1> HIDE DEF ops
<1>2. /\ s \notin closed /\ s \notin db /\ s \notin gone
      /\ Untouched(q, s) /\ Untouched(batch, s) /\ Untouched(synced, s)
  BY DEF SosInv, NewInv
<1>3. PutBy(ops, d)  BY DEF ops
<1>4. OrderInv(s)'
  <2>1. Ordered(synced, s)' /\ OrderInv(s)  BY DEF SosInv, OrderInv
  <2> QED  BY <1>1, <1>2, <1>3, <2>1, PutOrder DEF Untouched
<1>5. NoDelete(q', s)  BY <1>1, <1>2, <1>3, PutNoDelete DEF Untouched
<1>6. NewInv(s)'  BY DEF NewInv
<1>7. OpenInv(s)'  BY <1>2, <1>5 DEF OpenInv, Untouched
<1>8. GoneInv(s)'  BY <1>2 DEF GoneInv
<1>9. ShowInv(s)'
  <2>1. (s \in Live)' /\ s \notin closed'  BY <1>2, LiveFacts
  <2>2. Has(q', Op("put", s)) \/ s \in lost'  BY <1>1, <1>3, PutKeeps
  <2> QED  BY <2>1, <2>2 DEF ShowInv
<1> QED  BY <1>4, <1>6, <1>7, <1>8, <1>9 DEF SosInv

\* The request or the clear of this SOS, not heard or of no use.
LEMMA UnheardKeeps ==
  ASSUME NEW s \in SOS, SosInv(s), world[s] # "closed", world'[s] # "new",
         UNCHANGED <<up, q, kept, lost, batch, pc, db, gone, stage, synced, sos, closed>>,
         ~(up = "up" /\ sos[s].kind = "open")
  PROVE  SosInv(s)'
<1>1. OrderInv(s)'  BY DEF SosInv, OrderInv
<1>2. NewInv(s)' /\ OpenInv(s)'  BY DEF NewInv, OpenInv
<1>3. GoneInv(s)'  BY DEF SosInv, GoneInv
<1>4. ShowInv(s)'
  <2>1. (s \in Live)' <=> s \in Live  BY LiveFacts
  <2>2. Closes(s)' <=> Closes(s)  BY DEF Closes
  <2> QED  BY <2>1, <2>2 DEF SosInv, ShowInv
<1> QED  BY <1>1, <1>2, <1>3, <1>4 DEF SosInv

\* The clear of this SOS, heard.
LEMMA ClearKeeps ==
  ASSUME SendOK, QueueOK, AlignInv, NEW s \in SOS, SosInv(s),
         NEW ops \in Seq(Ops), NEW d \in Nat, PutBy(ops, d),
         NoWrite(ops, s), Has(ops, Op("delete", s)),
         UNCHANGED <<up, batch, pc, db, gone, stage, synced>>,
         world'[s] = "closed", sos'[s].kind = "none", s \in closed'
  PROVE  SosInv(s)'
<1>1. OrderInv(s)'
  <2>1. Ordered(synced, s)' /\ OrderInv(s)  BY DEF SosInv, OrderInv
  <2> QED  BY <2>1, PutOrder
<1>2. NewInv(s)' /\ OpenInv(s)'  BY DEF NewInv, OpenInv
<1>3. GoneInv(s)'  BY PutNoWrite DEF SosInv, GoneInv
<1>4. ShowInv(s)'
  <2>1. (s \in Live)'  BY LiveFacts
  <2>2. Has(q', Op("delete", s)) \/ s \in lost'  BY PutKeeps
  <2> QED  BY <2>1, <2>2 DEF ShowInv, Closes
<1> QED  BY <1>1, <1>2, <1>3, <1>4 DEF SosInv

\* The queue stays, and the sender keeps or drops what it has in hand.
LEMMA RestKeeps ==
  ASSUME SendOK, NEW s \in SOS, SosInv(s),
         \/ batch' = batch /\ kept' = kept
         \/ batch' = <<>> /\ kept' = 0,
         synced' = synced \/ synced' = q,
         UNCHANGED <<up, q, sos, closed, db, gone, world>>, lost \subseteq lost',
         pc' = "sweeping" \/ stage' = "swept" =>
           pc = "sweeping" \/ stage = "swept" \/ (q = <<>> /\ batch = <<>>),
         stage' = "swept" => stage = "swept" \/ s \in lost'
  PROVE  SosInv(s)'
<1>1. OrderInv(s) /\ NewInv(s) /\ OpenInv(s) /\ GoneInv(s) /\ ShowInv(s)  BY DEF SosInv
<1>2. /\ NoWrite(batch, s) => NoWrite(batch', s)
      /\ NoDelete(batch, s) => NoDelete(batch', s)
      /\ Ordered(batch, s) => Ordered(batch', s)
  BY EmptyFacts
<1>3. OrderInv(s)'
  <2>1. Ordered(q', s) /\ Ordered(batch', s) /\ Ordered(synced', s)  BY <1>1, <1>2 DEF OrderInv
  <2>2. ASSUME ~NoDelete(batch', s), NEW j \in kept' + 1 .. Len(q') PROVE ~Writes(q'[j], s)
    <3>1. batch' = batch /\ kept' = kept  BY <2>2, EmptyFacts
    <3> QED  BY <1>1, <2>2, <3>1 DEF OrderInv
  <2> QED  BY <2>1, <2>2 DEF OrderInv
<1>4. NewInv(s)'  BY <1>1, <1>2 DEF NewInv, Untouched
<1>5. OpenInv(s)'  BY <1>1, <1>2 DEF OpenInv
<1>6. GoneInv(s)'  BY <1>1, <1>2 DEF GoneInv
<1>7. ShowInv(s)'
  <2>1. (s \in Live)' <=> s \in Live  BY LiveFacts
  <2>2. Closes(s) => Closes(s)'  BY <1>2 DEF Closes
  <2>3. q = <<>> => NoWrite(q, s)  BY EmptyFacts
  <2>4. batch = <<>> => NoWrite(batch, s)  BY EmptyFacts
  <2>5. up' = "up" /\ (pc' = "sweeping" \/ stage' = "swept") /\ ~(s \in Live)' =>
          NoWrite(q', s) /\ NoWrite(batch', s)
    BY <1>1, <1>2, <2>1, <2>3, <2>4 DEF ShowInv
  <2> QED  BY <1>1, <2>1, <2>2, <2>5 DEF ShowInv
<1> QED  BY <1>3, <1>4, <1>5, <1>6, <1>7 DEF SosInv

\* The process ends, with its memory or with the outbox of the last checkpoint.
LEMMA ForgetKeeps ==
  ASSUME NEW s \in SOS, SosInv(s), Forget, db' = db, synced' = synced \/ synced' = <<>>,
         \/ UNCHANGED <<q, world, gone>>
         \/ q' = synced /\ gone' = {} /\ (world'[s] = "new" => world[s] = "new")
  PROVE  SosInv(s)'
<1>1. OrderInv(s) /\ NewInv(s) /\ GoneInv(s)  BY DEF SosInv
<1>2. batch' = <<>> /\ kept' = 0 /\ up' = "down" /\ closed' = {}
      /\ sos' = [t \in SOS |-> Unknown]
  BY DEF Forget
<1>3. OrderInv(s)'
  <2>1. Ordered(q', s) /\ Ordered(synced', s)  BY <1>1, EmptyFacts DEF OrderInv
  <2>2. Ordered(batch', s) /\ NoDelete(batch', s)  BY <1>2, EmptyFacts
  <2> QED  BY <2>1, <2>2 DEF OrderInv
<1>4. NewInv(s)'
  <2> SUFFICES ASSUME world'[s] = "new" PROVE NewInv(s)'  BY DEF NewInv
  <2>1. /\ s \notin db /\ s \notin gone /\ Untouched(q, s) /\ Untouched(synced, s)
    BY <1>1 DEF NewInv
  <2>2. Untouched(<<>>, s)  BY EmptyFacts DEF Untouched
  <2>3. sos'[s].kind = "none"  BY <1>2, UnknownFacts
  <2> QED  BY <1>2, <2>1, <2>2, <2>3 DEF NewInv
<1>5. OpenInv(s)' /\ ShowInv(s)'  BY <1>2 DEF OpenInv, ShowInv
<1>6. GoneInv(s)'  BY <1>1, <1>2, EmptyFacts DEF GoneInv
<1> QED  BY <1>3, <1>4, <1>5, <1>6 DEF SosInv

\* The sender reads the front of the outbox.
LEMMA DrainKeeps ==
  ASSUME SendOK, QueueOK, NEW s \in SOS, SosInv(s), pc = "idle", q # <<>>,
         batch' = Peek, kept' = Len(batch'), pc' = "sending",
         UNCHANGED <<up, sos, closed, stage, q, db, lost, gone, synced, world>>
  PROVE  SosInv(s)'
<1>1. OrderInv(s) /\ NewInv(s) /\ OpenInv(s) /\ GoneInv(s) /\ ShowInv(s)  BY DEF SosInv
<1>2. Len(batch') <= Len(q) /\ \A i \in 1 .. Len(batch') : batch'[i] = q[i]
  BY PeekFacts
<1>3. Len(q) \in Nat /\ Len(batch') \in Nat
  <2>1. q \in Seq(Ops)  BY DEF QueueOK
  <2>2. batch' \in Seq(Ops)  BY PeekFacts, Rigid DEF SendOK
  <2> QED  BY <2>1, <2>2, SeqFacts
<1>4. /\ NoWrite(q, s) => NoWrite(batch', s)
      /\ NoDelete(q, s) => NoDelete(batch', s)
      /\ Ordered(q, s) => Ordered(batch', s)
  BY <1>2, <1>3 DEF NoWrite, NoDelete, Ordered
<1>5. OrderInv(s)'
  <2>1. Ordered(q', s) /\ Ordered(batch', s) /\ Ordered(synced', s)  BY <1>1, <1>4 DEF OrderInv
  <2>2. ASSUME ~NoDelete(batch', s), NEW j \in kept' + 1 .. Len(q') PROVE ~Writes(q'[j], s)
    <3>1. PICK i \in 1 .. Len(batch') : batch'[i] = Op("delete", s)  BY <2>2 DEF NoDelete
    <3>2. i \in 1 .. Len(q) /\ j \in 1 .. Len(q) /\ i < j  BY <1>2, <1>3, <2>2, <3>1
    <3>3. q[i] = Op("delete", s)  BY <1>2, <3>1
    <3> QED  BY <1>1, <3>2, <3>3 DEF OrderInv, Ordered
  <2> QED  BY <2>1, <2>2 DEF OrderInv
<1>6. NewInv(s)'  BY <1>1, <1>4 DEF NewInv, Untouched
<1>7. OpenInv(s)'  BY <1>1, <1>4 DEF OpenInv
<1>8. GoneInv(s)'  BY <1>1, <1>4 DEF GoneInv
<1>9. ShowInv(s)'
  <2>1. (s \in Live)' <=> s \in Live  BY LiveFacts
  <2>2. Closes(s) => Closes(s)'  BY <1>4 DEF Closes
  <2> QED  BY <1>1, <1>4, <2>1, <2>2 DEF ShowInv
<1> QED  BY <1>5, <1>6, <1>7, <1>8, <1>9 DEF SosInv

\* What the server makes of an operation.
LEMMA ExecuteFacts ==
  ASSUME SendOK, WorldOK, Execute
  PROVE  /\ batch # <<>> /\ Head(batch) = batch[1] /\ Len(batch) \in Nat \ {0}
         /\ pc = "sending" /\ pc' = "executed"
         /\ UNCHANGED <<up, sos, closed, stage, waiting, batch, kept, q, lost, synced, world, stops>>
         /\ \A s \in SOS :
              /\ Writes(batch[1], s) => s \in db' /\ gone' = gone
              /\ batch[1] = Op("delete", s) => s \notin db' /\ s \in gone'
              /\ ~Writes(batch[1], s) /\ s \in db' => s \in db
              /\ batch[1] # Op("delete", s) =>
                   (s \in db => s \in db') /\ (s \in gone' <=> s \in gone)
<1> DEFINE op == batch[1]
<1>1. /\ pc = "sending" /\ pc' = "executed"
      /\ UNCHANGED <<up, sos, closed, stage, waiting, batch, kept, q, lost, synced, world, stops>>
  BY DEF Execute, Busy, memVars
<1>2. batch \in Seq(Ops) /\ batch # <<>> /\ Head(batch) = op /\ Len(batch) \in Nat \ {0}
  <2>1. batch \in Seq(Ops) /\ batch # <<>>  BY <1>1 DEF SendOK
  <2>2. Head(batch) = batch[1]  BY <2>1
  <2> QED  BY <2>1, <2>2, SeqFacts
<1>3. op \in Ops  BY <1>2, SeqFacts
<1>4. /\ db' = CASE op.do \in {"put", "patch"} -> db \cup {op.of}
                 [] op.do = "delete" -> db \ {op.of}
                 [] OTHER -> db
      /\ gone' = IF op.do = "delete" THEN gone \cup {op.of} ELSE gone
  BY <1>2 DEF Execute
<1> HIDE DEF op
<1>5. CASE op = Event
  <2>1. op.do = "event"  BY <1>5 DEF Event, Op
  <2>2. db' = db /\ gone' = gone  BY <1>4, <2>1
  <2> QED  BY <1>1, <1>2, <1>5, <2>2, EventWrites DEF op
<1>6. CASE \E t \in SOS, do \in {"put", "patch"} : op = Op(do, t)
  <2>1. PICK t \in SOS, do \in {"put", "patch"} : op = Op(do, t)  BY <1>6
  <2>2. op.do = do /\ op.of = t  BY <2>1 DEF Op
  <2>3. db' = db \cup {t} /\ gone' = gone  BY <1>4, <2>1, <2>2
  <2>4. Writes(op, t)  BY <2>1 DEF Writes
  <2>5. \A s \in SOS : Writes(op, s) => s = t  BY <2>1, WritesOne
  <2>6. \A s \in SOS : op # Op("delete", s)  BY <2>1, OpOf
  <2> QED  BY <1>1, <1>2, <2>3, <2>4, <2>5, <2>6 DEF op
<1>7. CASE \E t \in SOS : op = Op("delete", t)
  <2>1. PICK t \in SOS : op = Op("delete", t)  BY <1>7
  <2>2. op.do = "delete" /\ op.of = t  BY <2>1 DEF Op
  <2>3. db' = db \ {t} /\ gone' = gone \cup {t}  BY <1>4, <2>2
  <2>4. \A s \in SOS : ~Writes(op, s)  BY <2>1, WritesOne
  <2>5. \A s \in SOS : op = Op("delete", s) => s = t  BY <2>1, OpOf
  <2> QED  BY <1>1, <1>2, <2>1, <2>3, <2>4, <2>5 DEF op
<1>8. op = Event \/ (\E t \in SOS, do \in {"put", "patch"} : op = Op(do, t))
      \/ \E t \in SOS : op = Op("delete", t)
  BY <1>3 DEF Ops, Op
<1> QED  BY <1>5, <1>6, <1>7, <1>8

\* The server executes what the sender asked for.
LEMMA ExecuteKeeps ==
  ASSUME SendOK, QueueOK, WorldOK, AlignInv, NEW s \in SOS, SosInv(s), Execute
  PROVE  SosInv(s)'
<1>1. OrderInv(s) /\ NewInv(s) /\ OpenInv(s) /\ GoneInv(s) /\ ShowInv(s)  BY DEF SosInv
<1> DEFINE op == batch[1]
<1>2. /\ Len(batch) \in Nat \ {0} /\ pc = "sending" /\ pc' = "executed"
      /\ UNCHANGED <<up, sos, closed, stage, batch, kept, q, lost, synced, world>>
      /\ Writes(op, s) => s \in db' /\ gone' = gone
      /\ op = Op("delete", s) => s \notin db' /\ s \in gone'
      /\ ~Writes(op, s) /\ s \in db' => s \in db
      /\ op # Op("delete", s) => (s \in db => s \in db') /\ (s \in gone' <=> s \in gone)
  BY ExecuteFacts
<1> HIDE DEF op
<1>3. 1 \in 1 .. Len(batch)  BY <1>2
<1>4. NoWrite(batch, s) => ~Writes(op, s)  BY <1>3 DEF NoWrite, op
<1>5. NoDelete(batch, s) => op # Op("delete", s)  BY <1>3 DEF NoDelete, op
<1>6. OrderInv(s)'  BY <1>1, <1>2 DEF OrderInv
<1>7. NewInv(s)'  BY <1>1, <1>2, <1>4, <1>5 DEF NewInv, Untouched
<1>8. OpenInv(s)'  BY <1>1, <1>2, <1>5 DEF OpenInv
<1>9. GoneInv(s)'
  <2>1. CASE op = Op("delete", s)
    <3>1. ~Writes(op, s)  BY <2>1, OpFacts DEF Writes
    <3>2. NoWrite(batch, s)
      <4> SUFFICES ASSUME NEW j \in 1 .. Len(batch) PROVE ~Writes(batch[j], s)  BY DEF NoWrite
      <4>1. CASE j = 1  BY <3>1, <4>1 DEF op
      <4>2. CASE j > 1  BY <1>1, <1>3, <2>1, <4>2 DEF OrderInv, Ordered, op
      <4> QED  BY <4>1, <4>2
    <3>3. NoWrite(q, s)
      <4> SUFFICES ASSUME NEW j \in 1 .. Len(q) PROVE ~Writes(q[j], s)  BY DEF NoWrite
      <4>1. kept \in Nat /\ kept <= Len(batch)  BY DEF SendOK
      <4>2. CASE j \in 1 .. kept
        <5>1. q[j] = batch[Len(batch) - kept + j]  BY <4>2 DEF AlignInv
        <5>2. Len(batch) - kept + j \in 1 .. Len(batch)  BY <1>2, <4>1, <4>2
        <5> QED  BY <3>2, <5>1, <5>2 DEF NoWrite
      <4>3. CASE j \in kept + 1 .. Len(q)
        <5>1. ~NoDelete(batch, s)  BY <1>5, <2>1
        <5> QED  BY <1>1, <4>3, <5>1 DEF OrderInv
      <4>4. Len(q) \in Nat  BY SeqFacts DEF QueueOK
      <4> QED  BY <4>1, <4>2, <4>3, <4>4
    <3> QED  BY <1>2, <2>1, <3>2, <3>3 DEF GoneInv
  <2>2. CASE op # Op("delete", s)
    BY <1>1, <1>2, <1>4, <2>2 DEF GoneInv
  <2> QED  BY <2>1, <2>2
<1>10. ShowInv(s)'
  <2> SUFFICES ASSUME up' = "up" PROVE ShowInv(s)'  BY DEF ShowInv
  <2>1. (s \in Live)' <=> s \in Live  BY <1>2, LiveFacts
  <2>2. Closes(s) => Closes(s)'  BY <1>2, <1>4 DEF Closes
  <2>3. stage = "swept" /\ s \notin Live /\ s \notin lost => s \notin db'
    BY <1>1, <1>2, <1>4 DEF ShowInv
  <2>4. sos[s].kind = "open" => NoDelete(batch, s)  BY <1>1, <1>2 DEF OpenInv
  <2>5. sos[s].kind = "open" /\ s \notin lost => s \in db' \/ Has(q, Op("put", s))
    BY <1>1, <1>2, <1>5, <2>4 DEF ShowInv
  <2> QED  BY <1>1, <1>2, <2>1, <2>2, <2>3, <2>5 DEF ShowInv
<1> QED  BY <1>6, <1>7, <1>8, <1>9, <1>10 DEF SosInv

\* What is left of a queue after its first operation.
LEMMA TailFacts ==
  ASSUME NEW x \in Seq(Ops), x # <<>>, NEW s \in SOS
  PROVE  /\ NoWrite(x, s) => NoWrite(Tail(x), s)
         /\ NoDelete(x, s) => NoDelete(Tail(x), s)
         /\ Ordered(x, s) => Ordered(Tail(x), s)
         /\ \A op : Has(x, op) => x[1] = op \/ Has(Tail(x), op)
         /\ Len(Tail(x)) = Len(x) - 1 /\ \A i \in 1 .. Len(x) - 1 : Tail(x)[i] = x[i + 1]
<1> DEFINE t == Tail(x)
<1>1. Len(x) \in Nat \ {0} /\ Len(t) = Len(x) - 1 /\ \A i \in 1 .. Len(t) : t[i] = x[i + 1]
  BY HeadTailProperties, SeqFacts
<1> HIDE DEF t
<1>2. \A i \in 1 .. Len(t) : i + 1 \in 1 .. Len(x)  BY <1>1
<1>3. NoWrite(x, s) => NoWrite(t, s)  BY <1>1, <1>2 DEF NoWrite
<1>4. NoDelete(x, s) => NoDelete(t, s)  BY <1>1, <1>2 DEF NoDelete
<1>5. ASSUME Ordered(x, s) PROVE Ordered(t, s)
  <2> SUFFICES ASSUME NEW i \in 1 .. Len(t), NEW j \in 1 .. Len(t), i < j, t[i] = Op("delete", s)
               PROVE  ~Writes(t[j], s)
    BY DEF Ordered
  <2>1. i + 1 \in 1 .. Len(x) /\ j + 1 \in 1 .. Len(x) /\ i + 1 < j + 1  BY <1>1
  <2>2. t[i] = x[i + 1] /\ t[j] = x[j + 1]  BY <1>1
  <2> QED  BY <1>5, <2>1, <2>2 DEF Ordered
<1>6. ASSUME NEW op, Has(x, op), x[1] # op PROVE Has(t, op)
  <2>1. PICK i \in 1 .. Len(x) : x[i] = op  BY <1>6 DEF Has
  <2>2. i - 1 \in 1 .. Len(t) /\ (i - 1) + 1 = i  BY <1>1, <1>6, <2>1
  <2>3. t[i - 1] = op  BY <1>1, <2>1, <2>2
  <2> QED  BY <2>2, <2>3 DEF Has
<1> QED  BY <1>1, <1>3, <1>4, <1>5, <1>6 DEF t

\* The answer to the operation in hand, or its rejection.
LEMMA FinishKeeps ==
  ASSUME SendOK, QueueOK, AlignInv, ExecutedInv, NEW s \in SOS, SosInv(s),
         pc \in {"sending", "executed"}, Finish,
         UNCHANGED <<up, sos, closed, stage, db, gone, synced, world>>,
         \/ pc = "executed" /\ lost' = lost
         \/ lost' = lost \cup GivenUp({Head(batch)})
  PROVE  SosInv(s)'
<1> DEFINE op == batch[1]
<1>1. OrderInv(s) /\ NewInv(s) /\ OpenInv(s) /\ GoneInv(s) /\ ShowInv(s)  BY DEF SosInv
<1>2. batch \in Seq(Ops) /\ q \in Seq(Ops) /\ Len(batch) \in Nat /\ Len(q) \in Nat
      /\ kept \in Nat /\ kept <= Len(batch) /\ kept <= Len(q)
  BY SeqFacts DEF SendOK, QueueOK
<1>3. /\ batch # <<>> /\ batch' = Tail(batch)
      /\ \/ kept = Len(batch) /\ q # <<>> /\ q[1] = op /\ q' = Tail(q) /\ kept' = kept - 1
         \/ kept < Len(batch) /\ q' = q /\ kept' = kept
  BY DoneFacts, Zenon
<1>4. pc' # "sweeping"  BY DEF Finish
<1>5. Head(batch) = op  BY <1>2, <1>3
<1> HIDE DEF op
<1>6. /\ NoWrite(batch, s) => NoWrite(batch', s)
      /\ NoDelete(batch, s) => NoDelete(batch', s)
      /\ Ordered(batch, s) => Ordered(batch', s)
  BY <1>2, <1>3, TailFacts
<1>7. /\ NoWrite(q, s) => NoWrite(q', s)
      /\ NoDelete(q, s) => NoDelete(q', s)
      /\ Ordered(q, s) => Ordered(q', s)
  BY <1>2, <1>3, TailFacts
<1>8. \A o : Has(q, o) => op = o \/ Has(q', o)
  BY <1>2, <1>3, TailFacts
\* The operation that leaves the queue was executed or is given up.
<1>9. /\ op = Op("put", s) => s \in lost' \/ s \in db
      /\ op = Op("delete", s) => s \in lost' \/ s \in gone
  <2>1. CASE pc = "executed"
    <3>1. (Writes(op, s) => s \in db) /\ (op = Op("delete", s) => s \in gone)
      BY <1>5, <2>1 DEF ExecutedInv
    <3> QED  BY <3>1 DEF Writes
  <2>2. CASE lost' = lost \cup GivenUp({op})
    <3>1. ASSUME NEW do \in {"put", "delete"}, op = Op(do, s) PROVE s \in lost'
      <4>1. op.do = do /\ op.of = s  BY <3>1 DEF Op
      <4>2. s \in GivenUp({op})  BY <4>1 DEF GivenUp
      <4> QED  BY <2>2, <4>2
    <3> QED  BY <3>1
  <2> QED  BY <1>5, <2>1, <2>2
<1>10. OrderInv(s)'
  <2>1. Ordered(q', s) /\ Ordered(batch', s) /\ Ordered(synced', s)
    BY <1>1, <1>6, <1>7 DEF OrderInv
  <2>2. ASSUME ~NoDelete(batch', s), NEW j \in kept' + 1 .. Len(q') PROVE ~Writes(q'[j], s)
    <3>1. ~NoDelete(batch, s)  BY <1>6, <2>2
    <3>2. \A i \in kept + 1 .. Len(q) : ~Writes(q[i], s)  BY <1>1, <3>1 DEF OrderInv
    <3>3. CASE q # <<>> /\ q' = Tail(q) /\ kept' = kept - 1
      <4>1. Len(q') = Len(q) - 1 /\ \A i \in 1 .. Len(q) - 1 : q'[i] = q[i + 1]
        BY <1>2, <3>3, TailFacts
      <4>2. j \in 1 .. Len(q) - 1 /\ j + 1 \in kept + 1 .. Len(q)
        <5>1. kept \in Nat \ {0}  BY <1>2, <1>3, <3>3, SeqFacts
        <5> QED  BY <1>2, <2>2, <3>3, <4>1, <5>1
      <4> QED  BY <3>2, <4>1, <4>2
    <3>4. CASE q' = q /\ kept' = kept  BY <2>2, <3>2, <3>4
    <3> QED  BY <1>3, <3>3, <3>4
  <2> QED  BY <2>1, <2>2 DEF OrderInv
<1>11. NewInv(s)'  BY <1>1, <1>6, <1>7 DEF NewInv, Untouched
<1>12. OpenInv(s)'  BY <1>1, <1>6, <1>7 DEF OpenInv
<1>13. GoneInv(s)'  BY <1>1, <1>6, <1>7 DEF GoneInv
<1>14. ShowInv(s)'
  <2> SUFFICES ASSUME up' = "up" PROVE ShowInv(s)'  BY DEF ShowInv
  <2>0. lost \subseteq lost' /\ up = "up"  OBVIOUS
  <2>1. (s \in Live)' <=> s \in Live  BY LiveFacts
  <2>2. ASSUME s \in closed, s \notin lost' PROVE Closes(s)'
    <3>1. Closes(s)  BY <1>1, <2>0, <2>2 DEF ShowInv
    <3>2. CASE Has(q, Op("delete", s))
      <4>1. CASE op = Op("delete", s)
        <5>1. s \in gone  BY <1>9, <2>2, <4>1
        <5>2. s \notin db /\ NoWrite(q, s) /\ NoWrite(batch, s)  BY <1>1, <5>1 DEF GoneInv
        <5> QED  BY <1>6, <1>7, <5>2 DEF Closes
      <4>2. CASE op # Op("delete", s)  BY <1>8, <3>2, <4>2 DEF Closes
      <4> QED  BY <4>1, <4>2
    <3>3. CASE s \notin db /\ NoWrite(q, s) /\ NoWrite(batch, s)
      BY <1>6, <1>7, <3>3 DEF Closes
    <3> QED  BY <3>1, <3>2, <3>3 DEF Closes
  <2>3. ASSUME sos[s].kind = "open", s \notin lost' PROVE s \in db \/ Has(q', Op("put", s))
    <3>1. s \in db \/ Has(q, Op("put", s))  BY <1>1, <2>0, <2>3 DEF ShowInv
    <3>2. op = Op("put", s) => s \in db  BY <1>9, <2>3
    <3> QED  BY <1>8, <3>1, <3>2
  <2>4. ASSUME stage = "swept", s \notin Live
        PROVE  NoWrite(q', s) /\ NoWrite(batch', s) /\ (s \notin lost' => s \notin db)
    BY <1>1, <1>6, <1>7, <2>0, <2>4 DEF ShowInv
  <2> QED  BY <1>4, <2>1, <2>2, <2>3, <2>4 DEF ShowInv
<1> QED  BY <1>10, <1>11, <1>12, <1>13, <1>14 DEF SosInv

\* The answer to the sweep.
LEMMA SweepKeeps ==
  ASSUME SendOK, QueueOK, WorldOK, AlignInv, NEW s \in SOS, SosInv(s), SweepAnswered
  PROVE  SosInv(s)'
<1> DEFINE st == SetToSeq(db \ Live)
           ops == Closing(st)
<1>1. /\ pc = "sweeping" /\ pc' = "idle" /\ stage' = "swept" /\ closed' = closed \cup (db \ Live)
      /\ Put(ops) /\ UNCHANGED <<up, sos, batch, db, gone, synced, world>>
  BY DEF SweepAnswered, Busy
<1>2. /\ st \in Seq(SOS) /\ \A i \in 1 .. Len(st) : st[i] \in db \ Live
      /\ \A t \in db \ Live : \E i \in 1 .. Len(st) : st[i] = t
  BY StaleFacts DEF WorldOK
<1> HIDE DEF st
<1>3. /\ ops \in Seq(Ops) /\ NoWrite(ops, s)
      /\ s \in db \ Live => Has(ops, Op("delete", s))
      /\ s \notin db \ Live => NoDelete(ops, s)
  <2>1. /\ ops \in Seq(Ops) /\ NoWrite(ops, s)
        /\ \A i \in 1 .. Len(st) : Has(ops, Op("delete", st[i]))
        /\ (\A i \in 1 .. Len(st) : st[i] # s) => NoDelete(ops, s)
    BY <1>2, ClosingFacts
  <2> HIDE DEF ops
  <2> QED  BY <1>2, <2>1
<1> HIDE DEF ops
<1>4. PICK d \in Nat : PutBy(ops, d)  BY <1>1, <1>3, PutFacts
<1>5. s \in Live <=> sos[s].kind # "none" \/ s \in closed  BY LiveFacts
<1>6. CASE s \in db \ Live
  <2>1. s \in closed' /\ sos'[s].kind = "none" /\ sos[s].kind = "none"  BY <1>1, <1>5, <1>6
  <2>2. OrderInv(s)'
    <3>1. Ordered(synced, s)' /\ OrderInv(s)  BY <1>1 DEF SosInv, OrderInv
    <3> QED  BY <1>1, <1>3, <1>4, <3>1, PutOrder
  <2>3. NewInv(s)'  BY <1>1, <1>6 DEF SosInv, NewInv
  <2>4. OpenInv(s)'  BY <2>1 DEF OpenInv
  <2>5. GoneInv(s)'  BY <1>1, <1>6 DEF SosInv, GoneInv
  <2>6. ShowInv(s)'
    <3>1. (s \in Live)'  BY <2>1, LiveFacts
    <3>2. Has(q', Op("delete", s)) \/ s \in lost'  BY <1>3, <1>4, <1>6, PutKeeps
    <3> QED  BY <2>1, <3>1, <3>2 DEF ShowInv, Closes
  <2> QED  BY <2>2, <2>3, <2>4, <2>5, <2>6 DEF SosInv
<1>7. CASE s \notin db \ Live
  <2>1. (s \in closed' <=> s \in closed) /\ world'[s] = world[s] /\ sos'[s].kind = sos[s].kind
    BY <1>1, <1>7
  <2>2. s \in Live \/ s \notin db  BY <1>7
  <2> QED  BY <1>1, <1>3, <1>4, <1>7, <2>1, <2>2, CallKeeps
<1> QED  BY <1>6, <1>7

\* A new process finds the outbox of the last one.
LEMMA StartKeeps ==
  ASSUME SendOK, QueueOK, MemoryInv, NEW s \in SOS, SosInv(s), Start
  PROVE  SosInv(s)'
<1>1. /\ up = "down" /\ UNCHANGED <<sos, closed, stage, pc, batch, kept, synced, db, world, gone>>
  BY DEF Start, memVars, sendVars, histVars
<1>2. /\ closed = {} /\ stage = "meta" /\ pc = "idle" /\ sos[s].kind = "none"
      /\ batch = <<>> /\ kept \in Nat /\ Len(q) \in Nat
  BY <1>1, SeqFacts DEF MemoryInv, SendOK, QueueOK
<1>3. PICK d \in Nat : After(q', q, <<Event>>, d)
  <2> DEFINE all == q \o <<Event>>
             d == Larger(0, Len(all) - MaxOps)
  <2>1. Append(q, Event) = all
    BY EventSilent, OpFacts, AppendIsConcat DEF QueueOK, Ops
  <2>2. q' = SubSeq(all, d + 1, Len(all))  BY <2>1 DEF Start
  <2>3. d \in 0 .. Len(all) /\ After(SubSeq(all, d + 1, Len(all)), q, <<Event>>, d)
    BY EventSilent, CutFacts DEF QueueOK
  <2> HIDE DEF d
  <2> QED  BY <2>2, <2>3
<1>4. /\ Len(q') \in Nat /\ Len(q') = Len(q) + 1 - d
      /\ \A i \in 1 .. Len(q') : \/ i + d \in 1 .. Len(q) /\ q'[i] = q[i + d]
                                 \/ i + d > Len(q) /\ q'[i] = Event
  <2>1. Len(<<Event>>) = 1 /\ <<Event>>[1] = Event  OBVIOUS
  <2>2. q' \in Seq(Ops) /\ Len(q') = Len(q) + 1 - d
        /\ \A i \in 1 .. Len(q') :
             q'[i] = IF i + d <= Len(q) THEN q[i + d] ELSE <<Event>>[i + d - Len(q)]
    BY <1>3, <2>1 DEF After
  <2>3. Len(q') \in Nat  BY <2>2, SeqFacts
  <2>4. ASSUME NEW i \in 1 .. Len(q'), i + d > Len(q) PROVE i + d - Len(q) = 1
    BY <1>2, <2>2, <2>3, <2>4
  <2> QED  BY <1>2, <2>1, <2>2, <2>3, <2>4
<1>5. NoWrite(q, s) => NoWrite(q', s)  BY <1>4, EventWrites DEF NoWrite
<1>6. NoDelete(q, s) => NoDelete(q', s)  BY <1>4, EventWrites DEF NoDelete
<1>7. ASSUME Ordered(q, s) PROVE Ordered(q', s)
  <2> SUFFICES ASSUME NEW i \in 1 .. Len(q'), NEW j \in 1 .. Len(q'), i < j,
                      q'[i] = Op("delete", s), Writes(q'[j], s)
               PROVE  FALSE
    BY DEF Ordered
  <2>1. i + d \in 1 .. Len(q) /\ q'[i] = q[i + d]  BY <1>4, EventWrites
  <2>2. j + d \in 1 .. Len(q) /\ q'[j] = q[j + d]  BY <1>4, EventWrites
  <2>3. i + d < j + d  OBVIOUS
  <2> QED  BY <1>7, <2>1, <2>2, <2>3 DEF Ordered
<1>8. OrderInv(s) /\ NewInv(s) /\ GoneInv(s)  BY DEF SosInv
<1>9. OrderInv(s)'
  <2>1. Ordered(q', s) /\ Ordered(batch', s) /\ Ordered(synced', s)
    BY <1>1, <1>7, <1>8 DEF OrderInv
  <2>2. NoDelete(batch', s)  BY <1>1, <1>2, EmptyFacts
  <2> QED  BY <2>1, <2>2 DEF OrderInv
<1>10. NewInv(s)'  BY <1>1, <1>5, <1>6, <1>8 DEF NewInv, Untouched
<1>11. OpenInv(s)'  BY <1>1, <1>2 DEF OpenInv
<1>12. GoneInv(s)'  BY <1>1, <1>5, <1>8 DEF GoneInv
<1>13. ShowInv(s)'  BY <1>1, <1>2 DEF ShowInv
<1> QED  BY <1>9, <1>10, <1>11, <1>12, <1>13 DEF SosInv

LEMMA ExecutedStep ==
  ASSUME TeleTypes, MemoryInv, ExecutedInv, [Next]_vars
  PROVE  ExecutedInv'
<1> SUFFICES ASSUME pc' = "executed" PROVE ExecutedInv'  BY DEF ExecutedInv
<1>1. CASE Execute
  <2>1. batch # <<>> /\ Head(batch) = batch[1] /\ batch' = batch
        /\ \A s \in SOS : /\ Writes(batch[1], s) => s \in db'
                          /\ batch[1] = Op("delete", s) => s \in gone'
    BY <1>1, ExecuteFacts DEF TeleTypes
  <2>2. Head(batch') = batch[1]  BY <2>1
  <2> QED  BY <2>1, <2>2, Rigid DEF ExecutedInv, Writes, Op
<1>2. CASE pc = "executed" /\ UNCHANGED <<batch, db, gone>>
  BY <1>2, Rigid DEF ExecutedInv, Writes, Op
<1>3. ASSUME ~Execute PROVE pc = "executed" /\ UNCHANGED <<batch, db, gone>>
  <2>1. ASSUME NEW s \in SOS, SosRequest(s) \/ Location(s) \/ SosClear(s) \/ AckDue(s)
        PROVE  pc' = pc /\ UNCHANGED <<batch, db, gone>>
    BY <2>1 DEF SosRequest, Location, SosClear, AckDue, Quiet, histVars
  <2>2. ASSUME NEW s \in SOS, NEW r \in BOOLEAN, SosAck(s, r)
        PROVE  pc' = pc /\ UNCHANGED <<batch, db, gone>>
    BY <2>2 DEF SosAck, Quiet, histVars
  <2>3. ASSUME BackoffEnds \/ SyncMeta \/ Start \/ Stop \/ Checkpoint \/ UNCHANGED vars
        PROVE  pc' = pc /\ UNCHANGED <<batch, db, gone>>
    BY <2>3 DEF BackoffEnds, SyncMeta, Start, Stop, Checkpoint, vars, sendVars, histVars
  <2>4. ~(MetaFails \/ Drain \/ Answered \/ Rejected \/ Unanswered \/ Sweep \/ SweepAnswered
          \/ SweepFails \/ SweepRejected \/ FlushEnds \/ Crash \/ PowerLoss)
    BY DEF MetaFails, Drain, Answered, Rejected, Finish, Unanswered, Sweep, SweepAnswered,
           SweepFails, SweepRejected, FlushEnds, Crash, PowerLoss, Forget, Fail
  <2>5. pc' = pc /\ UNCHANGED <<batch, db, gone>>
    BY <1>3, <2>1, <2>2, <2>3, <2>4 DEF Next
  <2> QED  BY <2>5
<1> QED  BY <1>1, <1>2, <1>3

LEMMA SosStep ==
  ASSUME TeleTypes, MemoryInv, AlignInv, ExecutedInv, NEW s \in SOS, SosInv(s), [Next]_vars
  PROVE  SosInv(s)'
<1> USE DEF TeleTypes
<1>a. NewInv(s) /\ OpenInv(s) /\ ShowInv(s)  BY DEF SosInv
\* Callbacks about this SOS or another one.
<1>1. ASSUME NEW r \in SOS, SosRequest(r) PROVE SosInv(s)'
  <2>1. /\ \A t \in SOS : t # r => sos'[t] = sos[t]
        /\ world[r] = "new" /\ world' = [world EXCEPT ![r] = "open"]
        /\ UNCHANGED <<closed, up, stage, pc, batch, synced, db, gone>>
        /\ \/ ~(up = "up" /\ sos[r].kind = "none" /\ r \notin closed) /\ sos' = sos /\ NoPut
           \/ /\ up = "up" /\ sos[r].kind = "none" /\ sos'[r].kind = "open"
              /\ Put(<<Event, Op("put", r)>>)
    BY <1>1, RequestStep, Zenon DEF Quiet, histVars
  <2>2. CASE s # r
    <3>1. sos'[s].kind = sos[s].kind /\ world'[s] = world[s]  BY <2>1, <2>2 DEF WorldOK
    <3>2. CASE NoPut
      <4>1. PutBy(<<>>, 0)  BY <3>2, NoPutFacts
      <4>2. NoDelete(<<>>, s) /\ NoWrite(<<>>, s)  BY EmptyFacts
      <4> QED  BY <2>1, <3>1, <4>1, <4>2, NoOps, CallKeeps
    <3>3. CASE Put(<<Event, Op("put", r)>>)
      <4> DEFINE ops == <<Event, Op("put", r)>>
      <4>1. ops \in Seq(Ops) /\ NoDelete(ops, s) /\ NoWrite(ops, s)
        BY <2>2, PutOnly DEF Only, Untouched
      <4> HIDE DEF ops
      <4>2. Put(ops)  BY <3>3 DEF ops
      <4>3. PICK d \in Nat : PutBy(ops, d)  BY <4>1, <4>2, PutFacts
      <4> QED  BY <2>1, <3>1, <4>1, <4>3, CallKeeps
    <3> QED  BY <2>1, <3>2, <3>3
  <2>3. CASE s = r
    <3>1. world[s] = "new" /\ world'[s] = "open"  BY <2>1, <2>3 DEF WorldOK
    <3>2. sos[s].kind = "none"  BY <1>a, <3>1 DEF NewInv
    <3>3. CASE sos' = sos /\ NoPut
      BY <2>1, <3>1, <3>2, <3>3, UnheardKeeps DEF NoPut
    <3>4. CASE sos'[r].kind = "open" /\ Put(<<Event, Op("put", r)>>)
      <4>1. <<Event, Op("put", s)>> \in Seq(Ops)  BY PutOnly
      <4>2. Put(<<Event, Op("put", s)>>)  BY <2>3, <3>4
      <4>3. PICK d \in Nat : PutBy(<<Event, Op("put", s)>>, d)  BY <4>1, <4>2, PutFacts
      <4> QED  BY <2>1, <2>3, <3>1, <3>4, <4>3, RequestKeeps
    <3> QED  BY <2>1, <3>3, <3>4
  <2> QED  BY <2>2, <2>3
<1>2. ASSUME NEW r \in SOS, Location(r) PROVE SosInv(s)'
  <2>1. /\ \A t \in SOS : sos'[t].kind = sos[t].kind
        /\ up = "up" /\ sos[r].kind = "open"
        /\ UNCHANGED <<closed, world, up, stage, pc, batch, synced, db, gone>>
        /\ \E ops \in Seq(Ops) : Put(ops) /\ Only(ops, r) /\ NoDelete(ops, r)
    BY <1>2, FixStep, Zenon DEF Quiet, histVars
  <2>2. PICK ops \in Seq(Ops) : Put(ops) /\ Only(ops, r) /\ NoDelete(ops, r)  BY <2>1
  <2>3. PICK d \in Nat : PutBy(ops, d)  BY <2>2, PutFacts
  <2>4. NoDelete(ops, s) /\ (NoWrite(ops, s) \/ (up = "up" /\ sos[s].kind = "open"))
    BY <2>1, <2>2 DEF Only, Untouched
  <2> QED  BY <2>1, <2>3, <2>4, CallKeeps
<1>3. ASSUME NEW r \in SOS, SosClear(r) PROVE SosInv(s)'
  <2>1. /\ \A t \in SOS : t # r => sos'[t] = sos[t]
        /\ world[r] = "open" /\ world' = [world EXCEPT ![r] = "closed"]
        /\ UNCHANGED <<up, stage, pc, batch, synced, db, gone>>
        /\ \/ ~(up = "up" /\ r \notin closed) /\ sos' = sos /\ closed' = closed /\ NoPut
           \/ /\ up = "up" /\ r \notin closed /\ closed' = closed \cup {r}
              /\ sos'[r].kind = "none"
              /\ \E ops \in Seq(Ops) : /\ Put(ops) /\ Only(ops, r) /\ NoWrite(ops, r)
                                       /\ Has(ops, Op("delete", r))
    BY <1>3, ClearStep, Zenon DEF Quiet, histVars
  <2>2. CASE ~(up = "up" /\ r \notin closed) /\ sos' = sos /\ closed' = closed /\ NoPut
    <3>1. CASE s # r
      <4>1. world'[s] = world[s]  BY <2>1, <3>1 DEF WorldOK
      <4>2. PutBy(<<>>, 0)  BY <2>2, NoPutFacts
      <4>3. NoDelete(<<>>, s) /\ NoWrite(<<>>, s)  BY EmptyFacts
      <4> QED  BY <2>1, <2>2, <4>1, <4>2, <4>3, NoOps, CallKeeps
    <3>2. CASE s = r
      <4>1. world[s] = "open" /\ world'[s] = "closed"  BY <2>1, <3>2 DEF WorldOK
      <4>2. ~(up = "up" /\ sos[s].kind = "open")  BY <1>a, <2>2, <3>2 DEF OpenInv
      <4> QED  BY <2>1, <2>2, <4>1, <4>2, UnheardKeeps DEF NoPut
    <3> QED  BY <3>1, <3>2
  <2>3. CASE /\ closed' = closed \cup {r} /\ sos'[r].kind = "none"
             /\ \E ops \in Seq(Ops) : /\ Put(ops) /\ Only(ops, r) /\ NoWrite(ops, r)
                                      /\ Has(ops, Op("delete", r))
    <3>1. PICK ops \in Seq(Ops) : /\ Put(ops) /\ Only(ops, r) /\ NoWrite(ops, r)
                                  /\ Has(ops, Op("delete", r))
      BY <2>3
    <3>2. PICK d \in Nat : PutBy(ops, d)  BY <3>1, PutFacts
    <3>3. CASE s # r
      <4>1. sos'[s].kind = sos[s].kind /\ world'[s] = world[s] /\ (s \in closed' <=> s \in closed)
        BY <2>1, <2>3, <3>3 DEF WorldOK
      <4>2. NoDelete(ops, s) /\ NoWrite(ops, s)  BY <3>1, <3>3 DEF Only, Untouched
      <4> QED  BY <2>1, <3>2, <4>1, <4>2, CallKeeps
    <3>4. CASE s = r
      <4>1. world'[s] = "closed"  BY <2>1, <3>4 DEF WorldOK
      <4> QED  BY <2>1, <2>3, <3>1, <3>2, <3>4, <4>1, ClearKeeps
    <3> QED  BY <3>3, <3>4
  <2> QED  BY <2>1, <2>2, <2>3
<1>4. ASSUME NEW r \in SOS, NEW b \in BOOLEAN, SosAck(r, b) PROVE SosInv(s)'
  <2>1. /\ \A t \in SOS : t # r => sos'[t] = sos[t]
        /\ \/ sos'[r].kind = sos[r].kind
           \/ sos[r].kind = "none" /\ sos'[r].kind = "orphan"
        /\ world[r] = "open" /\ up = "up"
        /\ UNCHANGED <<closed, world, up, stage, pc, batch, synced, db, gone>>
        /\ \E ops \in Seq(Ops) :
             /\ Put(ops) /\ Only(ops, r) /\ NoDelete(ops, r)
             /\ NoWrite(ops, r) \/ sos[r].kind = "open"
    BY <1>4, AckStep, Zenon DEF Quiet, histVars
  <2>2. PICK ops \in Seq(Ops) : /\ Put(ops) /\ Only(ops, r) /\ NoDelete(ops, r)
                                /\ NoWrite(ops, r) \/ sos[r].kind = "open"
    BY <2>1
  <2>3. PICK d \in Nat : PutBy(ops, d)  BY <2>2, PutFacts
  <2>4. NoDelete(ops, s) /\ (NoWrite(ops, s) \/ (up = "up" /\ sos[s].kind = "open"))
    BY <2>1, <2>2 DEF Only, Untouched
  <2>5. \/ sos'[s].kind = sos[s].kind
        \/ sos[s].kind = "none" /\ sos'[s].kind = "orphan" /\ world[s] # "new"
    BY <2>1
  <2> QED  BY <2>1, <2>3, <2>4, <2>5, CallKeeps
<1>5. ASSUME NEW r \in SOS, AckDue(r) PROVE SosInv(s)'
  <2>1. /\ \A t \in SOS : sos'[t].kind = sos[t].kind
        /\ Put(<<Event>>) /\ UNCHANGED <<closed, world, up, stage, pc, batch, synced, db, gone>>
    BY <1>5, DueStep, Zenon
  <2>2. PICK d \in Nat : PutBy(<<Event>>, d)  BY <2>1, EventSilent, PutFacts
  <2>3. <<Event>> \in Seq(Ops) /\ NoDelete(<<Event>>, s) /\ NoWrite(<<Event>>, s)
    BY EventSilent DEF Silent, Untouched
  <2> QED  BY <2>1, <2>2, <2>3, CallKeeps
<1>6. ASSUME Stop PROVE SosInv(s)'
  <2>1. /\ up' = "stopping" /\ Put(<<Event>>) /\ (synced' = synced \/ synced' = <<>>)
        /\ UNCHANGED <<sos, closed, stage, pc, batch, db, world, gone>>
    BY <1>6 DEF Stop, AfterStop, memVars
  <2>2. PICK d \in Nat : PutBy(<<Event>>, d)  BY <2>1, EventSilent, PutFacts
  <2>3. <<Event>> \in Seq(Ops) /\ NoDelete(<<Event>>, s) /\ NoWrite(<<Event>>, s)
    BY EventSilent DEF Silent, Untouched
  <2> QED  BY <2>1, <2>2, <2>3, CallKeeps
\* The sender and what ends a request.
<1>7. ASSUME BackoffEnds \/ SyncMeta \/ Checkpoint \/ UNCHANGED vars PROVE SosInv(s)'
  <2>1. /\ UNCHANGED <<up, sos, closed, batch, kept, q, db, gone, world, lost, pc>>
        /\ synced' = synced \/ synced' = q
        /\ stage' = stage \/ stage' = "drain"
    BY <1>7 DEF BackoffEnds, SyncMeta, Checkpoint, Idle, vars, memVars, sendVars, histVars
  <2>2. pc' = "sweeping" \/ stage' = "swept" =>
          pc = "sweeping" \/ stage = "swept" \/ (q = <<>> /\ batch = <<>>)
    BY <2>1
  <2> QED  BY <2>1, <2>2, RestKeeps
<1>8. ASSUME MetaFails \/ Unanswered \/ SweepFails PROVE SosInv(s)'
  <2>1. /\ batch' = <<>> /\ kept' = 0 /\ pc' = "idle"
        /\ UNCHANGED <<up, sos, closed, stage, q, synced, db, world, lost, gone>>
    BY <1>8 DEF MetaFails, Unanswered, SweepFails, Fail, Idle, Busy, histVars
  <2> QED  BY <2>1, RestKeeps
<1>9. ASSUME Sweep PROVE SosInv(s)'
  <2>1. /\ pc = "idle" /\ q = <<>>
        /\ UNCHANGED <<up, sos, closed, stage, batch, kept, q, db, lost, gone, synced, world>>
    BY <1>9 DEF Sweep, Idle, memVars
  <2>2. batch = <<>>  BY <2>1 DEF SendOK
  <2> QED  BY <2>1, <2>2, RestKeeps
<1>10. ASSUME SweepRejected PROVE SosInv(s)'
  <2>1. /\ pc = "sweeping" /\ lost' = SOS
        /\ UNCHANGED <<up, sos, closed, batch, kept, q, db, gone, synced, world>>
    BY <1>10 DEF SweepRejected, Busy
  <2>2. lost \subseteq lost' /\ s \in lost'  BY <2>1 DEF WorldOK
  <2> QED  BY <2>1, <2>2, RestKeeps
<1>11. ASSUME Drain PROVE SosInv(s)'
  <2>1. /\ pc = "idle" /\ q # <<>> /\ batch' = Peek /\ kept' = Len(batch') /\ pc' = "sending"
        /\ UNCHANGED <<up, sos, closed, stage, q, db, lost, gone, synced, world>>
    BY <1>11 DEF Drain, Idle, memVars
  <2> QED  BY <2>1, DrainKeeps
<1>12. ASSUME Execute PROVE SosInv(s)'
  BY <1>12, ExecuteKeeps
<1>13. ASSUME Answered \/ Rejected PROVE SosInv(s)'
  <2>1. /\ pc \in {"sending", "executed"} /\ Finish
        /\ UNCHANGED <<up, sos, closed, stage, db, gone, synced, world>>
        /\ \/ pc = "executed" /\ lost' = lost
           \/ lost' = lost \cup GivenUp({Head(batch)})
    BY <1>13 DEF Answered, Rejected, Busy
  <2> QED  BY <2>1, FinishKeeps
<1>14. ASSUME SweepAnswered PROVE SosInv(s)'
  BY <1>14, SweepKeeps
\* Starts and ends of the process.
<1>15. ASSUME Start PROVE SosInv(s)'
  BY <1>15, StartKeeps
<1>16. ASSUME FlushEnds \/ Crash PROVE SosInv(s)'
  <2>1. /\ Forget /\ UNCHANGED <<q, db, world, gone>> /\ (synced' = synced \/ synced' = <<>>)
    BY <1>16 DEF FlushEnds, Crash, AfterStop, histVars
  <2> QED  BY <2>1, ForgetKeeps
<1>17. ASSUME PowerLoss PROVE SosInv(s)'
  <2>1. /\ Forget /\ q' = synced /\ gone' = {} /\ db' = db
        /\ world' = [t \in SOS |-> IF world[t] = "open" THEN "closed" ELSE world[t]]
        /\ (synced' = synced \/ synced' = <<>>)
    BY <1>17 DEF PowerLoss, AfterStop
  <2>2. world'[s] = "new" => world[s] = "new"  BY <2>1
  <2> QED  BY <2>1, <2>2, ForgetKeeps
<1> QED
  BY <1>1, <1>2, <1>3, <1>4, <1>5, <1>6, <1>7, <1>8, <1>9, <1>10, <1>11, <1>12, <1>13,
     <1>14, <1>15, <1>16, <1>17, Zenon DEF Next

-----------------------------------------------------------------------------
(* The invariant and what it says.                                         *)

LEMMA TeleInit == Init => TeleInv
<1> SUFFICES ASSUME Init PROVE TeleInv  OBVIOUS
<1>1. /\ up = "down" /\ sos = [s \in SOS |-> Unknown] /\ closed = {}
      /\ stage = "meta" /\ waiting = FALSE /\ pc = "idle" /\ batch = <<>> /\ kept = 0
      /\ q = <<>> /\ synced = <<>> /\ db = {} /\ world = [s \in SOS |-> "new"]
      /\ lost = {} /\ gone = {} /\ stops = 0
  BY DEF Init
<1>2. \A s \in SOS : sos[s] \in Entry /\ sos[s].kind = "none"  BY <1>1, UnknownFacts
<1>3. MemOK /\ MemoryInv  BY <1>1, <1>2 DEF MemOK, MemoryInv
<1>4. SendOK /\ QueueOK /\ AlignInv  BY <1>1, NoOps, ConstantFacts DEF SendOK, QueueOK, AlignInv
<1>5. WorldOK /\ ExecutedInv  BY <1>1 DEF WorldOK, ExecutedInv
<1>6. ASSUME NEW s \in SOS PROVE SosInv(s)
  <2>1. OrderInv(s)  BY <1>1, EmptyFacts DEF OrderInv
  <2>2. NewInv(s) /\ OpenInv(s) /\ GoneInv(s)
    BY <1>1, <1>2, EmptyFacts DEF NewInv, OpenInv, GoneInv, Untouched
  <2>3. ShowInv(s)  BY <1>1 DEF ShowInv
  <2> QED  BY <2>1, <2>2, <2>3 DEF SosInv
<1> QED  BY <1>3, <1>4, <1>5, <1>6 DEF TeleInv, TeleTypes

LEMMA TeleStep == TeleInv /\ [Next]_vars => TeleInv'
<1> SUFFICES ASSUME TeleInv, [Next]_vars PROVE TeleInv'  OBVIOUS
<1>1. TeleTypes /\ MemoryInv /\ AlignInv /\ ExecutedInv /\ \A s \in SOS : SosInv(s)
  BY DEF TeleInv
<1>2. TeleTypes' /\ MemoryInv' /\ AlignInv'  BY <1>1, TypeStep
<1>3. ExecutedInv'  BY <1>1, ExecutedStep
<1>4. \A s \in SOS : SosInv(s)'  BY <1>1, SosStep
<1> QED  BY <1>2, <1>3, <1>4, Rigid DEF TeleInv

\* In every reachable state of the agent, the operations it still has to execute are
\* in an order that ends with the deletion of a closed SOS (_drain, _sweep_stale_sos,
\* Outbox.put).
THEOREM TelemetryInvariant == Spec => []TeleInv
<1>1. Init => TeleInv  BY TeleInit
<1>2. TeleInv /\ [Next]_vars => TeleInv'  BY TeleStep
<1> QED  BY <1>1, <1>2, PTL DEF Spec

\* The agent's memory, the sender's place in its batch, and the outbox have their
\* types; the outbox keeps to max_ops (Outbox.put).
THEOREM TelemetryTypes == Spec => []TypeOK
<1>1. TeleInv => TypeOK
  <2> SUFFICES ASSUME TeleInv PROVE TypeOK  OBVIOUS
  <2>1. MemOK /\ SendOK /\ QueueOK /\ WorldOK  BY DEF TeleInv, TeleTypes
  <2>2. kept \in 0 .. Len(batch)  BY <2>1, SeqFacts DEF SendOK
  <2> QED  BY <2>1, <2>2 DEF TypeOK, MemOK, SendOK, QueueOK, WorldOK
<1> QED  BY <1>1, TelemetryInvariant, PTL

\* A node that was deleted is never written again, whatever was read from the outbox
\* before, repeated after a lost answer, dropped at its limit, or left over by an
\* earlier run (_drain, _sweep_stale_sos).
THEOREM DeletedNodesStayAway == Spec => []NoResurrection
<1>1. TeleInv => NoResurrection
  BY DEF TeleInv, TeleTypes, WorldOK, SosInv, GoneInv, NoResurrection
<1> QED  BY <1>1, TelemetryInvariant, PTL

\* An agent that has caught up shows the open SOSs and no other, except those of which
\* a PUT or a DELETE was given up (agent.py:11-12).
THEOREM OpenSosIsShown == Spec => []ShowsOpenSos
<1>1. TeleInv => ShowsOpenSos
  <2> SUFFICES ASSUME TeleInv, Settled PROVE
        /\ db \ lost \subseteq {s \in SOS : sos[s].kind # "none"}
        /\ {s \in SOS : sos[s].kind = "open"} \ lost \subseteq db
    BY DEF ShowsOpenSos
  <2>1. up = "up" /\ stage = "swept" /\ q = <<>> /\ pc = "idle"  BY DEF Settled
  <2>2. db \in SUBSET SOS /\ \A s \in SOS : ShowInv(s)
    BY DEF TeleInv, TeleTypes, WorldOK, SosInv
  <2>3. \A op : ~Has(q, op)  BY <2>1, NoOps DEF Has
  <2>4. ASSUME NEW s \in SOS, s \in db, s \notin lost PROVE sos[s].kind # "none"
    <3>1. s \in Live  BY <2>1, <2>2, <2>4 DEF ShowInv
    <3>2. s \notin closed  BY <2>1, <2>2, <2>3, <2>4 DEF ShowInv, Closes
    <3> QED  BY <3>1, <3>2, LiveFacts
  <2>5. ASSUME NEW s \in SOS, sos[s].kind = "open", s \notin lost PROVE s \in db
    BY <2>1, <2>2, <2>3, <2>5 DEF ShowInv
  <2> QED  BY <2>2, <2>4, <2>5
<1> QED  BY <1>1, TelemetryInvariant, PTL
=============================================================================

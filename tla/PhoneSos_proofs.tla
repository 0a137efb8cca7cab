---------------------------- MODULE PhoneSos_proofs ----------------------------
(***************************************************************************)
(* What the phone bridge promises about SOSs, for any number of SOSs,      *)
(* connections, retries, kept clears and restarts: once nothing is under   *)
(* way the app shows what the bridge has active and nothing that mission   *)
(* has closed, unless its clear is kept or nobody keeps it; the link       *)
(* status follows the session; mission hears of one failure at most.       *)
(*                                                                         *)
(* The proof follows a message on its way to the app: in the send queue of *)
(* a connection, then on the wire.  Only the app's own connection leads    *)
(* anywhere, and it is the one of the active session or has nothing in its *)
(* queue.                                                                  *)
(***************************************************************************)
EXTENDS PhoneSos, SequenceTheorems, FiniteSetTheorems, TLAPS

SosLetters == [type : {"sos.request", "sos.clear"}, sos : SOS]
Letters == SosLetters \cup [type : {"hello.ack", "robot.status"}, sos : {None}]
Tasks == {Nobody, Ticker} \cup [task : {"hello"}, id : Conns]
           \cup [task : {"request", "clear", "stray"}, id : SOS]
Posts == [msg : Letters, by : Tasks]
Entry == [sends : 0 .. MaxRetries + 1, acked : BOOLEAN, failed : BOOLEAN]

LinkOK ==
  /\ cur \in Conns \cup {None} /\ conn \in Conns \cup {None} /\ link \in BOOLEAN
  /\ session \in [Conns -> {"none", "hello", "active", "closed"}]
TaskOK ==
  /\ loop \in Tasks
  /\ hello \in [Conns -> [at : {"idle", "ack", "clears", "requests"}, todo : Seq(SOS)]]
  /\ tick \in [at : {"idle", "status", "sos"}, todo : Seq(SOS)]
MailOK == out \in [Conns -> Seq(Posts)] /\ wire \in Seq(SosLetters)
SosOK ==
  /\ active \in Seq(SOS) /\ pending \in Seq(SOS) /\ Len(pending) <= MaxPendingClears
  /\ info \in [SOS -> Entry]
AppOK == shown \in SUBSET SOS /\ answers \in SUBSET SOS /\ missed \in SUBSET SOS
WorldOK ==
  /\ world \in [SOS -> {"new", "open", "closed"}] /\ said \in [SOS -> Seq(BOOLEAN)]
PhoneTypes == LinkOK /\ TaskOK /\ MailOK /\ SosOK /\ AppOK /\ WorldOK

-----------------------------------------------------------------------------
(* Connections and coroutines.                                             *)

\* Connections are used in order; the active session is the current one; the app is
\* never on a connection that is closed at the bridge.
ConnInv ==
  /\ \E k \in 0 .. MaxConns : Opened = 1 .. k
  /\ \A p \in Conns : session[p] = "active" <=> p = cur
  /\ conn # None => session[conn] \in {"hello", "active"}
  /\ conn = None => wire = <<>>
  /\ \A p \in Conns : session[p] \in {"none", "hello"} => out[p] = <<>>

\* Mission has one SOS open at a time, so that no coroutine is suspended with SOSs
\* left to send.
ActiveInv ==
  /\ active = <<>> \/ \E s \in SOS : active = <<s>> /\ world[s] = "open"
  /\ tick.todo # <<>> => loop = Ticker /\ tick.at = "sos" /\ tick.todo = active
  /\ \A p \in Conns : hello[p].at # "clears" => hello[p].todo = <<>>

-----------------------------------------------------------------------------
(* What is under way about one SOS.                                        *)

Ask(s) == Msg("sos.request", s)
Close(s) == Msg("sos.clear", s)
InWire(m) == \E i \in 1 .. Len(wire) : wire[i] = m
InOut(p, m) == \E i \in 1 .. Len(out[p]) : out[p][i].msg = m
\* On the way to the app.
Coming(m) == InWire(m) \/ (conn # None /\ InOut(conn, m))

\* A new SOS is not asked about, an open one is not cleared.
WorldInv(s) ==
  /\ world[s] = "new" =>
       /\ s \notin shown /\ said[s] = <<>> /\ ~InWire(Ask(s))
       /\ \A p \in Conns : ~InOut(p, Ask(s))
  /\ world[s] # "closed" =>
       /\ ~InWire(Close(s)) /\ s \notin ToSet(pending)
       /\ \A p \in Conns : ~InOut(p, Close(s)) /\ s \notin ToSet(hello[p].todo)

\* No request comes behind a clear.
WireOrder(s) ==
  \A i, j \in 1 .. Len(wire) : i < j /\ wire[i] = Close(s) => wire[j] # Ask(s)
OutOrder(p, s) ==
  \A i, j \in 1 .. Len(out[p]) : i < j /\ out[p][i].msg = Close(s) => out[p][j].msg # Ask(s)
OrderInv(s) ==
  /\ WireOrder(s) /\ \A p \in Conns : OutOrder(p, s)
  /\ conn # None /\ InWire(Close(s)) => ~InOut(conn, Ask(s))

\* The app shows an active SOS, or is being asked to, or the hello of the session is
\* not that far.
AskedInv(s) ==
  s \in ToSet(active) /\ Connected /\ conn = cur =>
    hello[cur].at \in {"ack", "clears"} \/ s \in shown \/ Coming(Ask(s))

\* A clear that its sender will account for, delivered or not.
Accounted(s) ==
  \E p \in Conns : \E i \in 1 .. Len(out[p]) :
    out[p][i].msg = Close(s) /\ out[p][i].by.task \in {"clear", "stray"}
ClearedInv(s) ==
  world[s] = "closed" =>
    \/ s \in missed \cup ToSet(pending)
    \/ InWire(Close(s)) \/ Accounted(s)
    \/ s \notin shown /\ ~Coming(Ask(s))

\* What mission was told follows the fields of the SOS.
ToldInv(s) ==
  /\ \A i \in 1 .. Len(said[s]) : ~said[s][i] => i = 1
  /\ s \in ToSet(active) /\ ~info[s].acked =>
       /\ Len(said[s]) <= 1 /\ (~info[s].failed => said[s] = <<>>)

SosInv(s) ==
  WorldInv(s) /\ OrderInv(s) /\ AskedInv(s) /\ ClearedInv(s) /\ ToldInv(s)

PhoneInv ==
  PhoneTypes /\ ConnInv /\ ActiveInv /\ LinkFollows /\ \A s \in SOS : SosInv(s)

-----------------------------------------------------------------------------
LEMMA ConstantFacts ==
  /\ MaxSos \in Nat /\ MaxConns \in Nat /\ MaxRetries \in Nat
  /\ MaxPendingClears \in Nat \ {0} /\ MaxRestarts \in Nat
  /\ None \notin SOS /\ None \notin Conns
BY PhoneSosAssumption DEF SOS, Conns, None

-----------------------------------------------------------------------------
(* Sequences.                                                              *)

LEMMA SetOfSeq ==
  ASSUME NEW S, NEW q \in Seq(S)
  PROVE  /\ Len(q) \in Nat /\ (q = <<>> <=> Len(q) = 0)
         /\ ToSet(q) \in SUBSET S
         /\ \A x : x \in ToSet(q) <=> \E i \in 1 .. Len(q) : q[i] = x
<1>1. Len(q) \in Nat /\ DOMAIN q = 1 .. Len(q) /\ (q = <<>> <=> Len(q) = 0)
  BY LenProperties, EmptySeq
<1>2. \A i \in 1 .. Len(q) : q[i] \in S  BY ElementOfSeq
<1> QED  BY <1>1, <1>2 DEF ToSet

LEMMA EmptyFacts ==
  ASSUME NEW S
  PROVE  <<>> \in Seq(S) /\ Len(<<>>) = 0 /\ ToSet(<<>>) = {}
<1> DEFINE q == <<>>
<1>1. q \in Seq(S) /\ Len(q) = 0  BY EmptySeq
<1> HIDE DEF q
<1>2. \A x : x \in ToSet(q) <=> \E i \in 1 .. Len(q) : q[i] = x  BY <1>1, SetOfSeq
<1>3. ToSet(q) = {}  BY <1>1, <1>2
<1> QED  BY <1>1, <1>3 DEF q

LEMMA AppendFacts ==
  ASSUME NEW S, NEW q \in Seq(S), NEW e \in S
  PROVE  /\ Append(q, e) \in Seq(S) /\ Len(Append(q, e)) = Len(q) + 1 /\ Len(q) \in Nat
         /\ \A i \in 1 .. Len(q) : Append(q, e)[i] = q[i]
         /\ Append(q, e)[Len(q) + 1] = e
         /\ ToSet(Append(q, e)) = ToSet(q) \cup {e}
<1> DEFINE a == Append(q, e)
<1>1. /\ a \in Seq(S) /\ Len(a) = Len(q) + 1 /\ Len(q) \in Nat
      /\ \A i \in 1 .. Len(q) : a[i] = q[i]
      /\ a[Len(q) + 1] = e
  BY AppendProperties, LenProperties
<1>2. /\ \A x : x \in ToSet(a) <=> \E i \in 1 .. Len(a) : a[i] = x
      /\ \A x : x \in ToSet(q) <=> \E i \in 1 .. Len(q) : q[i] = x
  BY <1>1, SetOfSeq
<1> HIDE DEF a
<1>3. \A x : x \in ToSet(a) <=> x \in ToSet(q) \cup {e}  BY <1>1, <1>2
<1>4. ToSet(a) = ToSet(q) \cup {e}  BY <1>3
<1> QED  BY <1>1, <1>4 DEF a

LEMMA TailFacts ==
  ASSUME NEW S, NEW q \in Seq(S), q # <<>>
  PROVE  /\ Head(q) \in S /\ Head(q) = q[1] /\ Len(q) \in Nat /\ Len(q) >= 1
         /\ Tail(q) \in Seq(S) /\ Len(Tail(q)) = Len(q) - 1
         /\ \A i \in 1 .. Len(q) - 1 : Tail(q)[i] = q[i + 1]
         /\ ToSet(q) = ToSet(Tail(q)) \cup {Head(q)}
<1> DEFINE t == Tail(q)
           h == Head(q)
<1>1. /\ h \in S /\ t \in Seq(S) /\ Len(t) = Len(q) - 1
      /\ \A i \in 1 .. Len(q) - 1 : t[i] = q[i + 1]
  BY HeadTailProperties
<1>2. Len(q) \in Nat /\ Len(q) >= 1 /\ h = q[1]  BY SetOfSeq
<1>3. /\ \A x : x \in ToSet(t) <=> \E i \in 1 .. Len(t) : t[i] = x
      /\ \A x : x \in ToSet(q) <=> \E i \in 1 .. Len(q) : q[i] = x
  BY <1>1, SetOfSeq
<1> HIDE DEF t, h
<1>4. ASSUME NEW x \in ToSet(q) PROVE x \in ToSet(t) \cup {h}
  <2>1. PICK i \in 1 .. Len(q) : q[i] = x  BY <1>3, <1>4
  <2>2. CASE i = 1  BY <1>2, <2>1, <2>2
  <2>3. CASE i # 1
    <3>1. i - 1 \in 1 .. Len(t) /\ t[i - 1] = q[(i - 1) + 1] /\ (i - 1) + 1 = i
      BY <1>1, <1>2, <2>3
    <3> QED  BY <1>3, <2>1, <3>1
  <2> QED  BY <2>2, <2>3
<1>5. ASSUME NEW x \in ToSet(t) PROVE x \in ToSet(q)
  <2>1. PICK i \in 1 .. Len(t) : t[i] = x  BY <1>3, <1>5
  <2>2. i + 1 \in 1 .. Len(q) /\ q[i + 1] = x  BY <1>1, <1>2, <2>1
  <2> QED  BY <1>3, <2>2
<1>6. h \in ToSet(q)  BY <1>2, <1>3
<1>7. ToSet(q) = ToSet(t) \cup {h}  BY <1>4, <1>5, <1>6
<1> QED  BY <1>1, <1>2, <1>7 DEF t, h

\* pop() removes one entry and no other.
LEMMA WithoutFacts ==
  ASSUME NEW q \in Seq(SOS), NEW s
  PROVE  /\ Without(q, s) \in Seq(SOS) /\ Len(Without(q, s)) <= Len(q)
         /\ ToSet(q) \subseteq ToSet(Without(q, s)) \cup {s}
         /\ ToSet(Without(q, s)) \subseteq ToSet(q)
         /\ s \in ToSet(q) => Len(Without(q, s)) = Len(q) - 1
<1>1. CASE s \notin ToSet(q)  BY <1>1, SetOfSeq DEF Without
<1>2. CASE s \in ToSet(q)
  <2> DEFINE i == CHOOSE j \in DOMAIN q : q[j] = s
             a == SubSeq(q, 1, i - 1)
             b == SubSeq(q, i + 1, Len(q))
             w == a \o b
  <2>1. Len(q) \in Nat /\ DOMAIN q = 1 .. Len(q) /\ \A j \in 1 .. Len(q) : q[j] \in SOS
    BY LenProperties, ElementOfSeq
  <2>2. i \in 1 .. Len(q) /\ q[i] = s  BY <1>2, <2>1 DEF ToSet
  <2>3. Without(q, s) = w  BY <1>2 DEF Without, RemoveAt
  <2> HIDE DEF i
  <2>4. /\ a \in Seq(SOS) /\ Len(a) = i - 1
        /\ \A j \in 1 .. i - 1 : a[j] = q[j]
    <3>1. i - 1 \in Int /\ \A j \in 1 .. i - 1 : q[j] \in SOS  BY <2>1, <2>2
    <3>2. a \in Seq(SOS) /\ Len(a) = (IF 1 <= i - 1 THEN (i - 1) - 1 + 1 ELSE 0)
          /\ \A j \in 1 .. (i - 1) - 1 + 1 : a[j] = q[1 + j - 1]
      BY <3>1, SubSeqProperties
    <3> QED  BY <2>1, <2>2, <3>2
  <2>5. /\ b \in Seq(SOS) /\ Len(b) = Len(q) - i
        /\ \A j \in 1 .. Len(q) - i : b[j] = q[i + j]
    <3>1. i + 1 \in Int /\ Len(q) \in Int /\ \A j \in i + 1 .. Len(q) : q[j] \in SOS
      BY <2>1, <2>2
    <3>2. /\ b \in Seq(SOS)
          /\ Len(b) = IF i + 1 <= Len(q) THEN Len(q) - (i + 1) + 1 ELSE 0
          /\ \A j \in 1 .. Len(q) - (i + 1) + 1 : b[j] = q[(i + 1) + j - 1]
      BY <3>1, SubSeqProperties
    <3> HIDE DEF b
    <3>3. Len(b) = Len(q) - i
      <4>1. CASE i + 1 <= Len(q)
        <5>1. Len(q) - (i + 1) + 1 = Len(q) - i  BY <2>1, <2>2
        <5> QED  BY <3>2, <4>1, <5>1
      <4>2. CASE ~(i + 1 <= Len(q))
        <5>1. Len(q) \in Int /\ i \in Int /\ i <= Len(q)  BY <2>1, <2>2
        <5>2. Len(q) - i = 0  BY <4>2, <5>1
        <5> QED  BY <3>2, <4>2, <5>2
      <4> QED  BY <4>1, <4>2
    <3>4. ASSUME NEW j \in 1 .. Len(q) - i PROVE b[j] = q[i + j]
      <4>1. j \in 1 .. Len(q) - (i + 1) + 1 /\ (i + 1) + j - 1 = i + j  BY <2>1, <2>2
      <4> QED  BY <3>2, <4>1
    <3> QED  BY <3>2, <3>3, <3>4
  <2> HIDE DEF a, b
  <2>6. /\ w \in Seq(SOS) /\ Len(w) = Len(a) + Len(b)
        /\ \A j \in 1 .. Len(a) + Len(b) : w[j] = IF j <= Len(a) THEN a[j] ELSE b[j - Len(a)]
    BY <2>4, <2>5, ConcatProperties
  <2> HIDE DEF w
  <2>7. Len(w) = Len(q) - 1
        /\ \A j \in 1 .. Len(q) - 1 : w[j] = IF j < i THEN q[j] ELSE q[j + 1]
    <3>1. Len(w) = Len(q) - 1 /\ Len(a) + Len(b) = Len(q) - 1 /\ Len(a) = i - 1
      BY <2>1, <2>2, <2>4, <2>5, <2>6
    <3>2. ASSUME NEW j \in 1 .. Len(q) - 1 PROVE w[j] = IF j < i THEN q[j] ELSE q[j + 1]
      <4>1. w[j] = IF j <= Len(a) THEN a[j] ELSE b[j - Len(a)]  BY <2>6, <3>1
      <4>2. CASE j < i
        <5>1. j <= Len(a) /\ j \in 1 .. i - 1  BY <2>1, <2>2, <3>1, <4>2
        <5> QED  BY <2>4, <4>1, <4>2, <5>1
      <4>3. CASE ~(j < i)
        <5>1. /\ ~(j <= Len(a)) /\ j - Len(a) \in 1 .. Len(q) - i
              /\ i + (j - Len(a)) = j + 1
          BY <2>1, <2>2, <3>1, <4>3
        <5> QED  BY <2>5, <4>1, <4>3, <5>1
      <4> QED  BY <4>2, <4>3
    <3> QED  BY <3>1, <3>2
  <2>8. /\ \A x : x \in ToSet(w) <=> \E j \in 1 .. Len(w) : w[j] = x
        /\ \A x : x \in ToSet(q) <=> \E j \in 1 .. Len(q) : q[j] = x
    BY <2>6, SetOfSeq
  <2>9. ASSUME NEW x \in ToSet(q), x # s PROVE x \in ToSet(w)
    <3>1. PICK j \in 1 .. Len(q) : q[j] = x  BY <2>8, <2>9
    <3>2. CASE j < i
      <4>1. j \in 1 .. Len(w) /\ w[j] = x  BY <2>1, <2>2, <2>7, <3>1, <3>2
      <4> QED  BY <2>8, <4>1
    <3>3. CASE j > i
      <4>1. j - 1 \in 1 .. Len(w) /\ ~(j - 1 < i) /\ (j - 1) + 1 = j
        BY <2>1, <2>2, <2>7, <3>1, <3>3
      <4>2. w[j - 1] = x  BY <2>7, <3>1, <4>1
      <4> QED  BY <2>8, <4>1, <4>2
    <3> QED  BY <2>1, <2>2, <2>9, <3>1, <3>2, <3>3
  <2>10. ASSUME NEW x \in ToSet(w) PROVE x \in ToSet(q)
    <3>1. PICK j \in 1 .. Len(w) : w[j] = x  BY <2>8, <2>10
    <3> QED  BY <2>1, <2>2, <2>7, <2>8, <3>1
  <2>11. ToSet(q) \subseteq ToSet(w) \cup {s} /\ ToSet(w) \subseteq ToSet(q)
    BY <2>9, <2>10
  <2>12. Len(w) <= Len(q)  BY <2>1, <2>7
  <2> QED  BY <2>3, <2>6, <2>7, <2>11, <2>12
<1> QED  BY <1>1, <1>2

-----------------------------------------------------------------------------
(* The send queues and the wire.                                           *)

LEMMA LetterFacts ==
  /\ \A s \in SOS : Ask(s) \in SosLetters /\ Close(s) \in SosLetters /\ Ask(s) # Close(s)
  /\ \A s, t \in SOS : (Ask(s) = Ask(t) => s = t) /\ (Close(s) = Close(t) => s = t)
  /\ \A s, t \in SOS : Ask(s) # Close(t)
  /\ SosLetters \subseteq Letters
  /\ Msg("hello.ack", None) \in Letters /\ Msg("robot.status", None) \in Letters
  /\ \A s \in SOS : Msg("hello.ack", None) \notin {Ask(s), Close(s)}
                    /\ Msg("robot.status", None) \notin {Ask(s), Close(s)}
  /\ \A s \in SOS : Ask(s).type = "sos.request" /\ Ask(s).sos = s
                    /\ Close(s).type = "sos.clear" /\ Close(s).sos = s
  /\ \A m \in SosLetters : m = Ask(m.sos) \/ m = Close(m.sos)
  /\ \A m \in SosLetters : m.sos \in SOS /\ (m.type = "sos.clear" <=> m = Close(m.sos))
  /\ \A m \in Letters : m.sos # None => m \in SosLetters
  /\ \A m \in Letters : m.type = "sos.clear" => m \in SosLetters
BY ConstantFacts DEF Ask, Close, Msg, SosLetters, Letters

LEMMA TaskFacts ==
  /\ Nobody \in Tasks /\ Ticker \in Tasks /\ Nobody # Ticker
  /\ \A p \in Conns : By("hello", p) \in Tasks /\ By("hello", p) # Nobody
                      /\ By("hello", p) # Ticker /\ By("hello", p).task = "hello"
                      /\ By("hello", p).id = p
  /\ \A s \in SOS : \A t \in {"request", "clear", "stray"} :
       By(t, s) \in Tasks /\ By(t, s).task = t
  /\ Ticker.task = "tick"
  /\ \A b \in Tasks : b.task = "tick" <=> b = Ticker
BY ConstantFacts DEF By, Nobody, Ticker, Tasks

LEMMA PostFacts ==
  ASSUME MailOK, NEW p \in Conns, NEW msg \in Letters, NEW by \in Tasks, SendOn(p, msg, by)
  PROVE  /\ out' \in [Conns -> Seq(Posts)]
         /\ out'[p] # <<>> /\ \A c \in Conns : c # p => out'[c] = out[c]
         /\ \A c \in Conns, m \in Letters : InOut(c, m)' <=> InOut(c, m) \/ (c = p /\ m = msg)
         /\ \A s \in SOS : Accounted(s) => Accounted(s)'
         /\ \A s \in SOS : msg = Close(s) /\ by.task \in {"clear", "stray"} => Accounted(s)'
         /\ \A s \in SOS, c \in Conns :
              OutOrder(c, s) /\ (c = p /\ msg = Ask(s) => ~InOut(p, Close(s))) => OutOrder(c, s)'
<1> DEFINE e == [msg |-> msg, by |-> by]
           o == out[p]
           a == Append(o, e)
<1>1. e \in Posts /\ e.msg = msg /\ e.by = by  BY DEF Posts
<1>2. o \in Seq(Posts)  BY DEF MailOK
<1>3. out' = [out EXCEPT ![p] = a]  BY DEF SendOn
<1> HIDE DEF e
<1>4. /\ a \in Seq(Posts) /\ Len(a) = Len(o) + 1 /\ Len(o) \in Nat /\ a # <<>>
      /\ \A i \in 1 .. Len(o) : a[i] = o[i]
      /\ a[Len(o) + 1] = e
  BY <1>1, <1>2, AppendFacts, AppendProperties
<1> HIDE DEF a
<1>5. out' \in [Conns -> Seq(Posts)] /\ out'[p] = a /\ \A c \in Conns : c # p => out'[c] = out[c]
  BY <1>3, <1>4 DEF MailOK
<1>6. ASSUME NEW i \in 1 .. Len(a)
      PROVE  (i \in 1 .. Len(o) /\ a[i] = o[i]) \/ (i = Len(o) + 1 /\ a[i] = e)
  <2>1. i \in 1 .. Len(o) \/ i = Len(o) + 1  BY <1>4
  <2>2. CASE i \in 1 .. Len(o)  BY <1>4, <2>2
  <2>3. CASE i = Len(o) + 1  BY <1>4, <2>3
  <2> QED  BY <2>1, <2>2, <2>3
<1>7. \A i \in 1 .. Len(o) : i \in 1 .. Len(a) /\ i < Len(o) + 1  BY <1>4
<1>8. Len(o) + 1 \in 1 .. Len(a)  BY <1>4
<1>9. ASSUME NEW c \in Conns, NEW m \in Letters
      PROVE  InOut(c, m)' <=> InOut(c, m) \/ (c = p /\ m = msg)
  <2>1. CASE c # p  BY <1>5, <2>1 DEF InOut
  <2>2. CASE c = p
    <3>1. InOut(c, m)' <=> \E i \in 1 .. Len(a) : a[i].msg = m  BY <1>5, <2>2 DEF InOut
    <3>2. InOut(c, m) <=> \E i \in 1 .. Len(o) : o[i].msg = m  BY <2>2 DEF InOut
    <3> HIDE DEF o
    <3> QED  BY <1>1, <1>4, <1>6, <1>7, <1>8, <2>2, <3>1, <3>2
  <2> QED  BY <2>1, <2>2
<1>10. ASSUME NEW s \in SOS, Accounted(s) PROVE Accounted(s)'
  <2>0. PICK c \in Conns : \E i \in 1 .. Len(out[c]) :
          out[c][i].msg = Close(s) /\ out[c][i].by.task \in {"clear", "stray"}
    BY <1>10 DEF Accounted
  <2>1. PICK i \in 1 .. Len(out[c]) :
          out[c][i].msg = Close(s) /\ out[c][i].by.task \in {"clear", "stray"}
    BY <2>0
  <2>2. i \in 1 .. Len(out'[c]) /\ out'[c][i] = out[c][i]
    BY <1>4, <1>5, <1>7
  <2> QED  BY <2>1, <2>2 DEF Accounted, Close
<1>11. ASSUME NEW s \in SOS, msg = Close(s), by.task \in {"clear", "stray"} PROVE Accounted(s)'
  <2>1. Len(o) + 1 \in 1 .. Len(out'[p]) /\ out'[p][Len(o) + 1] = e  BY <1>4, <1>5, <1>8
  <2> QED  BY <1>1, <1>11, <2>1 DEF Accounted, Close
<1>12. ASSUME NEW s \in SOS, NEW c \in Conns, OutOrder(c, s),
              c = p /\ msg = Ask(s) => ~InOut(p, Close(s))
       PROVE  OutOrder(c, s)'
  <2>1. CASE c # p  BY <1>5, <1>12, <2>1 DEF OutOrder, Ask, Close
  <2>2. CASE c = p
    <3>1. SUFFICES ASSUME NEW i \in 1 .. Len(a), NEW j \in 1 .. Len(a), i < j,
                          a[i].msg = Close(s), a[j].msg = Ask(s)
                   PROVE  FALSE
      BY <1>5, <2>2 DEF OutOrder, Ask, Close
    <3>2. i \in 1 .. Len(o) /\ a[i] = o[i]  BY <1>4, <1>6, <3>1
    <3>3. CASE j \in 1 .. Len(o) /\ a[j] = o[j]
      BY <1>12, <2>2, <3>1, <3>2, <3>3 DEF OutOrder
    <3>4. CASE a[j] = e
      <4>1. msg = Ask(s)  BY <1>1, <3>1, <3>4
      <4>2. InOut(p, Close(s))  BY <3>1, <3>2 DEF InOut
      <4> QED  BY <1>12, <2>2, <4>1, <4>2
    <3> QED  BY <1>6, <3>3, <3>4
  <2> QED  BY <2>1, <2>2
<1> QED  BY <1>4, <1>5, <1>9, <1>10, <1>11, <1>12

LEMMA TakeFacts ==
  ASSUME MailOK, NEW p \in Conns, out[p] # <<>>, out' = [out EXCEPT ![p] = Tail(@)]
  PROVE  LET e == Head(out[p]) IN
         /\ out' \in [Conns -> Seq(Posts)] /\ \A c \in Conns : out[c] = <<>> => out'[c] = <<>>
         /\ e \in Posts /\ e.msg \in Letters /\ e.by \in Tasks
         /\ InOut(p, e.msg)
         /\ \A c \in Conns, m \in Letters : InOut(c, m)' => InOut(c, m)
         /\ \A c \in Conns, m \in Letters : InOut(c, m) => InOut(c, m)' \/ (c = p /\ m = e.msg)
         /\ \A s \in SOS : Accounted(s) =>
              Accounted(s)' \/ (e.msg = Close(s) /\ e.by.task \in {"clear", "stray"})
         /\ \A s \in SOS, c \in Conns : OutOrder(c, s) => OutOrder(c, s)'
         /\ \A s \in SOS : OutOrder(p, s) /\ e.msg = Close(s) => ~InOut(p, Ask(s))'
<1> DEFINE o == out[p]
           e == Head(o)
           a == Tail(o)
<1>1. o \in Seq(Posts)  BY DEF MailOK
<1>2. /\ e \in Posts /\ e = o[1] /\ Len(o) \in Nat /\ Len(o) >= 1
      /\ a \in Seq(Posts) /\ Len(a) = Len(o) - 1
      /\ \A i \in 1 .. Len(o) - 1 : a[i] = o[i + 1]
  BY <1>1, TailFacts
<1> HIDE DEF e, a
<1>3. out' \in [Conns -> Seq(Posts)] /\ out'[p] = a /\ \A c \in Conns : c # p => out'[c] = out[c]
  BY <1>2 DEF MailOK, a
<1>4. ASSUME NEW i \in 1 .. Len(a) PROVE i + 1 \in 1 .. Len(o) /\ a[i] = o[i + 1]
  BY <1>2
<1>5. ASSUME NEW i \in 1 .. Len(o), i # 1
      PROVE  \E k \in 1 .. Len(a) : i = k + 1 /\ a[k] = o[i]
  <2>1. i - 1 \in 1 .. Len(o) - 1 /\ (i - 1) + 1 = i  BY <1>2, <1>5
  <2> QED  BY <1>2, <2>1
<1>6. e.msg \in Letters /\ e.by \in Tasks  BY <1>2 DEF Posts
<1>7. InOut(p, e.msg)
  <2>1. 1 \in 1 .. Len(out[p]) /\ out[p][1].msg = e.msg  BY <1>2
  <2> QED  BY <2>1 DEF InOut
<1>8. ASSUME NEW c \in Conns, NEW m \in Letters, InOut(c, m)' PROVE InOut(c, m)
  <2>1. CASE c # p  BY <1>3, <1>8, <2>1 DEF InOut
  <2>2. CASE c = p
    <3>1. PICK i \in 1 .. Len(a) : a[i].msg = m  BY <1>3, <1>8, <2>2 DEF InOut
    <3> QED  BY <1>4, <2>2, <3>1 DEF InOut
  <2> QED  BY <2>1, <2>2
<1>9. ASSUME NEW c \in Conns, NEW m \in Letters, InOut(c, m)
      PROVE  InOut(c, m)' \/ (c = p /\ m = e.msg)
  <2>1. CASE c # p  BY <1>3, <1>9, <2>1 DEF InOut
  <2>2. CASE c = p
    <3>1. PICK i \in 1 .. Len(o) : o[i].msg = m  BY <1>9, <2>2 DEF InOut
    <3>2. CASE i = 1  BY <1>2, <2>2, <3>1, <3>2
    <3>3. CASE i # 1
      <4>1. PICK k \in 1 .. Len(a) : a[k] = o[i]  BY <1>5, <3>3
      <4> QED  BY <1>3, <2>2, <3>1, <4>1 DEF InOut
    <3> QED  BY <3>2, <3>3
  <2> QED  BY <2>1, <2>2
<1>10. ASSUME NEW s \in SOS, Accounted(s)
       PROVE  Accounted(s)' \/ (e.msg = Close(s) /\ e.by.task \in {"clear", "stray"})
  <2>0. PICK c \in Conns : \E i \in 1 .. Len(out[c]) :
          out[c][i].msg = Close(s) /\ out[c][i].by.task \in {"clear", "stray"}
    BY <1>10 DEF Accounted
  <2>1. PICK i \in 1 .. Len(out[c]) :
          out[c][i].msg = Close(s) /\ out[c][i].by.task \in {"clear", "stray"}
    BY <2>0
  <2>2. CASE c # p  BY <1>3, <2>1, <2>2 DEF Accounted, Close
  <2>3. CASE c = p /\ i = 1  BY <1>2, <2>1, <2>3
  <2>4. CASE c = p /\ i # 1
    <3>1. PICK k \in 1 .. Len(a) : a[k] = o[i]  BY <1>5, <2>4
    <3>2. k \in 1 .. Len(out'[c]) /\ out'[c][k] = out[c][i]  BY <1>3, <2>4, <3>1
    <3> QED  BY <2>1, <3>2 DEF Accounted, Close
  <2> QED  BY <2>2, <2>3, <2>4
<1>11. ASSUME NEW s \in SOS, NEW c \in Conns, OutOrder(c, s) PROVE OutOrder(c, s)'
  <2>1. CASE c # p  BY <1>3, <1>11, <2>1 DEF OutOrder, Ask, Close
  <2>2. CASE c = p
    <3>1. SUFFICES ASSUME NEW i \in 1 .. Len(a), NEW j \in 1 .. Len(a), i < j,
                          a[i].msg = Close(s), a[j].msg = Ask(s)
                   PROVE  FALSE
      BY <1>3, <2>2 DEF OutOrder, Ask, Close
    <3>2. /\ i + 1 \in 1 .. Len(o) /\ j + 1 \in 1 .. Len(o) /\ i + 1 < j + 1
          /\ o[i + 1].msg = Close(s) /\ o[j + 1].msg = Ask(s)
      BY <1>4, <3>1
    <3> QED  BY <1>11, <2>2, <3>2 DEF OutOrder
  <2> QED  BY <2>1, <2>2
<1>12. ASSUME NEW s \in SOS, OutOrder(p, s), e.msg = Close(s), InOut(p, Ask(s))' PROVE FALSE
  <2>1. PICK i \in 1 .. Len(a) : a[i].msg = Ask(s)  BY <1>3, <1>12 DEF InOut, Ask
  <2>2. 1 \in 1 .. Len(o) /\ i + 1 \in 1 .. Len(o) /\ 1 < i + 1 /\ o[i + 1].msg = Ask(s)
    BY <1>2, <1>4, <2>1
  <2> QED  BY <1>2, <1>12, <2>2 DEF OutOrder
<1>13. \A c \in Conns : out[c] = <<>> => out'[c] = <<>>  BY <1>3
<1> QED  BY <1>2, <1>3, <1>6, <1>7, <1>8, <1>9, <1>10, <1>11, <1>12, <1>13 DEF e

\* A letter arrives at the end of the wire.
LEMMA WirePutFacts ==
  ASSUME wire \in Seq(SosLetters), NEW msg \in SosLetters, wire' = Append(wire, msg)
  PROVE  /\ wire' \in Seq(SosLetters) /\ wire' # <<>>
         /\ \A m \in SosLetters : InWire(m)' <=> InWire(m) \/ m = msg
         /\ \A s \in SOS : WireOrder(s) /\ (msg = Ask(s) => ~InWire(Close(s))) => WireOrder(s)'
<1>1. /\ wire' \in Seq(SosLetters) /\ Len(wire') = Len(wire) + 1 /\ Len(wire) \in Nat
      /\ wire' # <<>>
      /\ \A i \in 1 .. Len(wire) : wire'[i] = wire[i]
      /\ wire'[Len(wire) + 1] = msg
  BY AppendFacts, AppendProperties
<1>2. ASSUME NEW i \in 1 .. Len(wire')
      PROVE  \/ i \in 1 .. Len(wire) /\ wire'[i] = wire[i]
             \/ i = Len(wire) + 1 /\ wire'[i] = msg
  <2>1. i \in 1 .. Len(wire) \/ i = Len(wire) + 1  BY <1>1
  <2>2. CASE i \in 1 .. Len(wire)  BY <1>1, <2>2
  <2>3. CASE i = Len(wire) + 1  BY <1>1, <2>3
  <2> QED  BY <2>1, <2>2, <2>3
<1>3. \A i \in 1 .. Len(wire) : i \in 1 .. Len(wire')  BY <1>1
<1>4. Len(wire) + 1 \in 1 .. Len(wire')  BY <1>1
<1>5. \A m \in SosLetters : InWire(m)' <=> InWire(m) \/ m = msg
  BY <1>1, <1>2, <1>3, <1>4 DEF InWire
<1>6. ASSUME NEW s \in SOS, WireOrder(s), msg = Ask(s) => ~InWire(Close(s))
      PROVE  WireOrder(s)'
  <2>1. SUFFICES ASSUME NEW i \in 1 .. Len(wire'), NEW j \in 1 .. Len(wire'), i < j,
                        wire'[i] = Close(s), wire'[j] = Ask(s)
                 PROVE  FALSE
    BY DEF WireOrder, Ask, Close
  <2>2. i \in 1 .. Len(wire) /\ wire'[i] = wire[i]  BY <1>1, <1>2, <2>1
  <2>3. CASE j \in 1 .. Len(wire) /\ wire'[j] = wire[j]
    BY <1>6, <2>1, <2>2, <2>3 DEF WireOrder
  <2>4. CASE wire'[j] = msg
    <3>1. InWire(Close(s))  BY <2>1, <2>2 DEF InWire
    <3> QED  BY <1>6, <2>1, <2>4, <3>1
  <2> QED  BY <1>2, <2>3, <2>4
<1> QED  BY <1>1, <1>5, <1>6

LEMMA WireTakeFacts ==
  ASSUME wire \in Seq(SosLetters), wire # <<>>, wire' = Tail(wire)
  PROVE  LET h == Head(wire) IN
         /\ wire' \in Seq(SosLetters) /\ h \in SosLetters /\ InWire(h)
         /\ \A m \in SosLetters : InWire(m)' => InWire(m)
         /\ \A m \in SosLetters : InWire(m) => InWire(m)' \/ m = h
         /\ \A s \in SOS : WireOrder(s) => WireOrder(s)'
         /\ \A s \in SOS : WireOrder(s) /\ h = Close(s) => ~InWire(Ask(s))'
<1> DEFINE h == Head(wire)
<1>1. /\ h \in SosLetters /\ h = wire[1] /\ Len(wire) \in Nat /\ Len(wire) >= 1
      /\ wire' \in Seq(SosLetters) /\ Len(wire') = Len(wire) - 1
      /\ \A i \in 1 .. Len(wire) - 1 : wire'[i] = wire[i + 1]
  BY TailFacts
<1> HIDE DEF h
<1>2. ASSUME NEW i \in 1 .. Len(wire') PROVE i + 1 \in 1 .. Len(wire) /\ wire'[i] = wire[i + 1]
  BY <1>1
<1>3. ASSUME NEW i \in 1 .. Len(wire), i # 1
      PROVE  \E k \in 1 .. Len(wire') : wire'[k] = wire[i]
  <2>1. i - 1 \in 1 .. Len(wire) - 1 /\ (i - 1) + 1 = i  BY <1>1, <1>3
  <2> QED  BY <1>1, <2>1
<1>4. InWire(h)
  <2>1. 1 \in 1 .. Len(wire) /\ wire[1] = h  BY <1>1
  <2> QED  BY <2>1 DEF InWire
<1>5. ASSUME NEW m \in SosLetters, InWire(m)' PROVE InWire(m)
  BY <1>2, <1>5 DEF InWire
<1>6. ASSUME NEW m \in SosLetters, InWire(m) PROVE InWire(m)' \/ m = h
  <2>1. PICK i \in 1 .. Len(wire) : wire[i] = m  BY <1>6 DEF InWire
  <2>2. CASE i = 1  BY <1>1, <2>1, <2>2
  <2>3. CASE i # 1  BY <1>3, <2>1, <2>3 DEF InWire
  <2> QED  BY <2>2, <2>3
<1>7. ASSUME NEW s \in SOS, WireOrder(s) PROVE WireOrder(s)'
  <2>1. SUFFICES ASSUME NEW i \in 1 .. Len(wire'), NEW j \in 1 .. Len(wire'), i < j,
                        wire'[i] = Close(s), wire'[j] = Ask(s)
                 PROVE  FALSE
    BY DEF WireOrder, Ask, Close
  <2>2. /\ i + 1 \in 1 .. Len(wire) /\ j + 1 \in 1 .. Len(wire) /\ i + 1 < j + 1
        /\ wire[i + 1] = Close(s) /\ wire[j + 1] = Ask(s)
    BY <1>2, <2>1
  <2> QED  BY <1>7, <2>2 DEF WireOrder
<1>8. ASSUME NEW s \in SOS, WireOrder(s), h = Close(s), InWire(Ask(s))' PROVE FALSE
  <2>1. PICK i \in 1 .. Len(wire') : wire'[i] = Ask(s)  BY <1>8 DEF InWire, Ask
  <2>2. 1 \in 1 .. Len(wire) /\ i + 1 \in 1 .. Len(wire) /\ 1 < i + 1 /\ wire[i + 1] = Ask(s)
    BY <1>1, <1>2, <2>1
  <2> QED  BY <1>1, <1>8, <2>2 DEF WireOrder
<1> QED  BY <1>1, <1>4, <1>5, <1>6, <1>7, <1>8 DEF h

\* The connection of the app goes down: what was on the wire is lost, its clears are
\* in missed.
LEMMA DropFacts ==
  ASSUME wire \in Seq(SosLetters), missed \in SUBSET SOS, DropConn
  PROVE  /\ wire' \in Seq(SosLetters) /\ answers' \in SUBSET SOS /\ missed' \in SUBSET SOS
         /\ \A m \in SosLetters : ~InWire(m)'
         /\ \A s \in SOS : WireOrder(s)'
         /\ missed \subseteq missed' /\ \A s \in SOS : InWire(Close(s)) => s \in missed'
<1>1. wire' = <<>> /\ answers' = {} /\ missed' = missed \cup ClearsIn(wire)  BY DEF DropConn
<1>2. wire' \in Seq(SosLetters) /\ Len(wire') = 0  BY <1>1, EmptyFacts
<1>3. DOMAIN wire = 1 .. Len(wire) /\ \A i \in 1 .. Len(wire) : wire[i] \in SosLetters
  BY LenProperties, ElementOfSeq
<1>4. ClearsIn(wire) \in SUBSET SOS  BY <1>3 DEF ClearsIn, SosLetters
<1>5. ASSUME NEW s \in SOS, InWire(Close(s)) PROVE s \in ClearsIn(wire)
  <2>1. PICK i \in 1 .. Len(wire) : wire[i] = Close(s)  BY <1>5 DEF InWire
  <2>2. wire[i].type = "sos.clear" /\ wire[i].sos = s  BY <2>1, LetterFacts
  <2> QED  BY <1>3, <2>2 DEF ClearsIn
<1>6. \A m \in SosLetters : ~InWire(m)'  BY <1>2 DEF InWire
<1>7. \A s \in SOS : WireOrder(s)'  BY <1>2 DEF WireOrder
<1> QED  BY <1>1, <1>2, <1>4, <1>5, <1>6, <1>7

\* keep(): what is not kept any more is in missed.
LEMMA KeepFacts ==
  ASSUME SosOK, missed \in SUBSET SOS, NEW s \in SOS, Keep(s)
  PROVE  /\ pending' \in Seq(SOS) /\ Len(pending') <= MaxPendingClears
         /\ missed' \in SUBSET SOS /\ missed \subseteq missed'
         /\ ToSet(pending) \cup {s} \subseteq missed' \cup ToSet(pending')
         /\ ToSet(pending') \subseteq ToSet(pending) \cup {s}
<1> DEFINE w == Without(pending, s)
           kept == Append(w, s)
           over == IF Len(kept) > MaxPendingClears THEN Len(kept) - MaxPendingClears ELSE 0
           old == SubSeq(kept, 1, over)
           new == SubSeq(kept, over + 1, Len(kept))
<1>1. pending' = new /\ missed' = missed \cup ToSet(old)  BY DEF Keep
<1>2. /\ w \in Seq(SOS) /\ ToSet(pending) \subseteq ToSet(w) \cup {s}
      /\ ToSet(w) \subseteq ToSet(pending)
  BY WithoutFacts DEF SosOK
<1> HIDE DEF w
<1>3. kept \in Seq(SOS) /\ ToSet(kept) = ToSet(w) \cup {s}  BY <1>2, AppendFacts
<1> HIDE DEF kept
<1>4. /\ Len(kept) \in Nat /\ \A i \in 1 .. Len(kept) : kept[i] \in SOS
      /\ \A x : x \in ToSet(kept) <=> \E i \in 1 .. Len(kept) : kept[i] = x
  BY <1>3, SetOfSeq, ElementOfSeq
<1>5. over \in Nat /\ over <= Len(kept) /\ Len(kept) - over <= MaxPendingClears
  BY <1>4, ConstantFacts
<1> HIDE DEF over
<1>6. /\ old \in Seq(SOS) /\ Len(old) = over
      /\ \A i \in 1 .. over : old[i] = kept[i]
  <2>1. over \in Int /\ \A i \in 1 .. over : kept[i] \in SOS  BY <1>4, <1>5
  <2>2. /\ old \in Seq(SOS) /\ Len(old) = IF 1 <= over THEN over - 1 + 1 ELSE 0
        /\ \A i \in 1 .. over - 1 + 1 : old[i] = kept[1 + i - 1]
    BY <2>1, SubSeqProperties
  <2> HIDE DEF old
  <2>3. \A i \in 1 .. over : i \in 1 .. over - 1 + 1 /\ 1 + i - 1 = i  BY <1>5
  <2>4. Len(old) = over  BY <1>5, <2>2
  <2> QED  BY <2>2, <2>3, <2>4
<1>7. /\ new \in Seq(SOS) /\ Len(new) = Len(kept) - over
      /\ \A i \in 1 .. Len(kept) - over : new[i] = kept[over + i]
  <2>1. over + 1 \in Int /\ Len(kept) \in Int /\ \A i \in over + 1 .. Len(kept) : kept[i] \in SOS
    BY <1>4, <1>5
  <2>2. /\ new \in Seq(SOS)
        /\ Len(new) = IF over + 1 <= Len(kept) THEN Len(kept) - (over + 1) + 1 ELSE 0
        /\ \A i \in 1 .. Len(kept) - (over + 1) + 1 : new[i] = kept[(over + 1) + i - 1]
    BY <2>1, SubSeqProperties
  <2> HIDE DEF new
  <2>3. over \in Int /\ Len(kept) \in Int /\ over <= Len(kept)  BY <1>4, <1>5
  <2>4. \A i \in 1 .. Len(kept) - over :
          i \in 1 .. Len(kept) - (over + 1) + 1 /\ (over + 1) + i - 1 = over + i
    BY <2>3
  <2>5. Len(new) = Len(kept) - over  BY <2>2, <2>3
  <2> QED  BY <2>2, <2>4, <2>5
<1> HIDE DEF old, new
<1>8. /\ \A x : x \in ToSet(old) <=> \E i \in 1 .. Len(old) : old[i] = x
      /\ \A x : x \in ToSet(new) <=> \E i \in 1 .. Len(new) : new[i] = x
      /\ ToSet(old) \in SUBSET SOS
  BY <1>6, <1>7, SetOfSeq
<1>9. ASSUME NEW x \in ToSet(kept) PROVE x \in ToSet(old) \cup ToSet(new)
  <2>1. PICK i \in 1 .. Len(kept) : kept[i] = x  BY <1>4, <1>9
  <2>2. CASE i <= over
    <3>1. i \in 1 .. Len(old) /\ old[i] = x  BY <1>5, <1>6, <2>1, <2>2
    <3> QED  BY <1>8, <3>1
  <2>3. CASE i > over
    <3>1. i - over \in 1 .. Len(kept) - over /\ over + (i - over) = i  BY <1>4, <1>5, <2>3
    <3>2. i - over \in 1 .. Len(new) /\ new[i - over] = x  BY <1>7, <2>1, <3>1
    <3> QED  BY <1>8, <3>2
  <2> QED  BY <1>5, <2>2, <2>3
<1>10. ASSUME NEW x \in ToSet(new) PROVE x \in ToSet(kept)
  <2>1. PICK i \in 1 .. Len(new) : new[i] = x  BY <1>8, <1>10
  <2>2. over + i \in 1 .. Len(kept) /\ kept[over + i] = x  BY <1>4, <1>5, <1>7, <2>1
  <2> QED  BY <1>4, <2>2
<1>11. Len(pending') <= MaxPendingClears  BY <1>1, <1>5, <1>7
<1>12. missed' \in SUBSET SOS /\ missed \subseteq missed'  BY <1>1, <1>8
<1> QED  BY <1>1, <1>2, <1>3, <1>7, <1>9, <1>10, <1>11, <1>12

-----------------------------------------------------------------------------
(* Types.                                                                  *)

Place == [at : {"idle", "ack", "clears", "requests"}, todo : Seq(SOS)]

LEMMA Rigid ==
  /\ SOS' = SOS /\ Conns' = Conns /\ SosLetters' = SosLetters /\ Letters' = Letters
  /\ Tasks' = Tasks /\ Posts' = Posts /\ Entry' = Entry /\ Place' = Place
BY DEF SOS, Conns, SosLetters, Letters, Tasks, Posts, Entry, Place, None, By, Nobody, Ticker

LEMMA EntryFacts ==
  ASSUME NEW e \in Entry
  PROVE  /\ [e EXCEPT !.sends = 1] \in Entry /\ [e EXCEPT !.sends = 1].acked = e.acked
         /\ [e EXCEPT !.acked = TRUE] \in Entry /\ [e EXCEPT !.acked = TRUE].acked
         /\ [e EXCEPT !.failed = TRUE] \in Entry /\ [e EXCEPT !.failed = TRUE].failed
         /\ [e EXCEPT !.failed = TRUE].acked = e.acked
         /\ e.sends <= MaxRetries => [e EXCEPT !.sends = e.sends + 1] \in Entry
         /\ [e EXCEPT !.sends = e.sends + 1].acked = e.acked
         /\ [e EXCEPT !.sends = e.sends + 1].failed = e.failed
<1>1. [e EXCEPT !.sends = 1] \in Entry  BY ConstantFacts DEF Entry
<1>2. [e EXCEPT !.sends = 1].acked = e.acked  BY DEF Entry
<1>3. [e EXCEPT !.acked = TRUE] \in Entry /\ [e EXCEPT !.acked = TRUE].acked  BY DEF Entry
<1>4. /\ [e EXCEPT !.failed = TRUE] \in Entry /\ [e EXCEPT !.failed = TRUE].failed
      /\ [e EXCEPT !.failed = TRUE].acked = e.acked
  BY DEF Entry
<1>5. e.sends <= MaxRetries => [e EXCEPT !.sends = e.sends + 1] \in Entry
  BY ConstantFacts DEF Entry
<1>6. /\ [e EXCEPT !.sends = e.sends + 1].acked = e.acked
      /\ [e EXCEPT !.sends = e.sends + 1].failed = e.failed
  BY DEF Entry
<1> QED  BY <1>1, <1>2, <1>3, <1>4, <1>5, <1>6

LEMMA FreshFacts == Fresh \in Entry /\ ~Fresh.acked /\ ~Fresh.failed
BY ConstantFacts DEF Fresh, Entry

LEMMA PlaceFacts ==
  ASSUME NEW h \in Place, NEW q \in Seq(SOS)
  PROVE  /\ Asleep \in Place /\ Asleep.at = "idle" /\ Asleep.todo = <<>>
         /\ \A a \in {"ack", "clears", "requests"} :
              /\ [at |-> a, todo |-> q] \in Place
              /\ [at |-> a, todo |-> q].at = a /\ [at |-> a, todo |-> q].todo = q
         /\ [h EXCEPT !.todo = q] \in Place
         /\ [h EXCEPT !.todo = q].at = h.at /\ [h EXCEPT !.todo = q].todo = q
<1>1. <<>> \in Seq(SOS)  BY EmptyFacts
<1> QED  BY <1>1 DEF Asleep, Place

\* What comes next in _on_hello().
LEMMA RestFacts ==
  ASSUME PhoneTypes, ActiveInv, NEW p \in Conns
  PROVE  LET h == Rest(p) IN
         /\ h \in Place
         /\ \/ h = hello[p] /\ h.todo # <<>> /\ h.at = "clears"
            \/ h.at = "clears" /\ h.todo = pending /\ h.todo # <<>> /\ hello[p].at = "ack"
            \/ h.at = "requests" /\ h.todo = active /\ h.todo # <<>>
            \/ /\ h = Asleep /\ hello[p].todo = <<>>
               /\ hello[p].at = "requests" \/ active = <<>>
<1> DEFINE g == hello[p]
<1>1. g \in Place  BY DEF PhoneTypes, TaskOK, Place
<1>2. active \in Seq(SOS) /\ pending \in Seq(SOS)  BY DEF PhoneTypes, SosOK
<1>3. g.at # "clears" => g.todo = <<>>  BY DEF ActiveInv
<1>4. CASE g.todo # <<>>
  <2>1. Rest(p) = g  BY <1>4 DEF Rest
  <2> QED  BY <1>1, <1>3, <1>4, <2>1
<1>5. CASE g.todo = <<>> /\ g.at = "ack" /\ pending # <<>>
  <2>1. Rest(p) = [at |-> "clears", todo |-> pending]  BY <1>5 DEF Rest
  <2>2. Rest(p) \in Place  BY <1>2, <2>1 DEF Place
  <2>3. Rest(p).at = "clears" /\ Rest(p).todo = pending  BY <2>1
  <2> QED  BY <1>5, <2>2, <2>3
<1>6. CASE g.todo = <<>> /\ ~(g.at = "ack" /\ pending # <<>>)
           /\ g.at # "requests" /\ active # <<>>
  <2>1. Rest(p) = [at |-> "requests", todo |-> active]  BY <1>6 DEF Rest
  <2>2. Rest(p) \in Place  BY <1>2, <2>1 DEF Place
  <2>3. Rest(p).at = "requests" /\ Rest(p).todo = active  BY <2>1
  <2> QED  BY <1>6, <2>2, <2>3
<1>7. CASE g.todo = <<>> /\ ~(g.at = "ack" /\ pending # <<>>)
           /\ ~(g.at # "requests" /\ active # <<>>)
  <2>1. Rest(p) = Asleep  BY <1>7 DEF Rest
  <2> QED  BY <1>1, <1>2, <1>7, <2>1, PlaceFacts
<1> QED  BY <1>4, <1>5, <1>6, <1>7

\* A send is over: the kept clears and the ones nobody keeps.
LEMMA ResumeFacts ==
  ASSUME SosOK, missed \in SUBSET SOS, NEW p \in Conns, NEW e \in Posts, NEW sent \in BOOLEAN,
         Resume(p, e, sent)
  PROVE  /\ loop' \in Tasks
         /\ loop' = Nobody \/ loop' = e.by
         /\ pending' \in Seq(SOS) /\ Len(pending') <= MaxPendingClears
         /\ missed' \in SUBSET SOS /\ missed \subseteq missed'
         /\ \A s \in SOS : s \in ToSet(pending) =>
              \/ s \in missed' \cup ToSet(pending')
              \/ e.msg = Close(s) /\ e.by.task = "hello" /\ sent
         /\ \A s \in SOS : s \in ToSet(pending') => s \in ToSet(pending) \/ e.msg = Close(s)
         /\ \A s \in SOS : e.msg = Close(s) /\ e.by.task \in {"clear", "stray"} /\ ~sent =>
              s \in missed' \cup ToSet(pending')
         /\ \A s \in SOS : e.msg = Close(s) /\ sent /\ conn # p => s \in missed'
<1>1. e.msg \in Letters /\ e.by \in Tasks /\ Nobody \in Tasks  BY TaskFacts DEF Posts
<1>2. loop' = IF e.by.task \in {"hello", "tick"} THEN e.by ELSE Nobody  BY DEF Resume
<1>3. pending \in Seq(SOS) /\ Len(pending) <= MaxPendingClears /\ Len(pending) \in Nat
  BY LenProperties DEF SosOK
<1>4. e.msg.type = "sos.clear" => e.msg.sos \in SOS /\ e.msg = Close(e.msg.sos)
  BY <1>1, LetterFacts
<1>5. \A s \in SOS : e.msg = Close(s) => e.msg.type = "sos.clear" /\ e.msg.sos = s
  BY LetterFacts
<1>6. CASE e.msg.type = "sos.clear" /\ e.by.task = "clear" /\ ~sent
  <2>1. Keep(e.msg.sos)  BY <1>6 DEF Resume
  <2>2. e.msg.sos \in SOS  BY <1>4, <1>6
  <2>3. /\ pending' \in Seq(SOS) /\ Len(pending') <= MaxPendingClears
        /\ missed' \in SUBSET SOS /\ missed \subseteq missed'
        /\ ToSet(pending) \cup {e.msg.sos} \subseteq missed' \cup ToSet(pending')
        /\ ToSet(pending') \subseteq ToSet(pending) \cup {e.msg.sos}
    BY <2>1, <2>2, KeepFacts
  <2> QED  BY <1>1, <1>2, <1>4, <1>5, <1>6, <2>3
<1>7. CASE ~(e.msg.type = "sos.clear" /\ e.by.task = "clear" /\ ~sent)
  <2> DEFINE w == Without(pending, e.msg.sos)
  <2>1. /\ pending' = IF e.msg.type = "sos.clear" /\ e.by.task = "hello" /\ sent
                      THEN w ELSE pending
        /\ missed' = IF /\ e.msg.type = "sos.clear"
                        /\ IF sent THEN conn # p ELSE e.by.task = "stray"
                     THEN missed \cup {e.msg.sos} ELSE missed
    BY <1>7 DEF Resume
  <2>2. /\ w \in Seq(SOS) /\ Len(w) <= Len(pending)
        /\ ToSet(pending) \subseteq ToSet(w) \cup {e.msg.sos}
        /\ ToSet(w) \subseteq ToSet(pending)
    BY <1>3, WithoutFacts
  <2>3. Len(w) \in Nat  BY <2>2, LenProperties
  <2> HIDE DEF w
  <2>4. Len(w) <= MaxPendingClears  BY <1>3, <2>2, <2>3, ConstantFacts
  <2>5. missed' \in SUBSET SOS /\ missed \subseteq missed'  BY <1>4, <2>1
  <2>6. pending' \in Seq(SOS) /\ Len(pending') <= MaxPendingClears
    BY <1>3, <2>1, <2>2, <2>4
  <2>7. ASSUME NEW s \in SOS, s \in ToSet(pending)
        PROVE  \/ s \in missed' \cup ToSet(pending')
               \/ e.msg = Close(s) /\ e.by.task = "hello" /\ sent
    BY <1>4, <2>1, <2>2, <2>7
  <2>8. ToSet(pending') \subseteq ToSet(pending)  BY <2>1, <2>2
  <2>9. ASSUME NEW s \in SOS, e.msg = Close(s), e.by.task \in {"clear", "stray"}, ~sent
        PROVE  s \in missed'
    BY <1>5, <1>7, <2>1, <2>9
  <2>10. ASSUME NEW s \in SOS, e.msg = Close(s), sent, conn # p PROVE s \in missed'
    BY <1>5, <2>1, <2>10
  <2>11. loop' \in Tasks /\ (loop' = Nobody \/ loop' = e.by)  BY <1>1, <1>2
  <2> QED  BY <2>5, <2>6, <2>7, <2>8, <2>9, <2>10, <2>11
<1> QED  BY <1>6, <1>7

\* A session ends, whoever ends it.
LEMMA DeactivateTypes ==
  ASSUME LinkOK, NEW p \in Conns, Deactivate(p)
  PROVE  /\ cur' \in Conns \cup {None} /\ link' \in BOOLEAN
         /\ session' \in [Conns -> {"none", "hello", "active", "closed"}]
BY DEF LinkOK, Deactivate

LEMMA OpenedFacts ==
  ASSUME ConnInv, Cardinality(Opened) < MaxConns
  PROVE  /\ Cardinality(Opened) + 1 \in Conns
         /\ session[Cardinality(Opened) + 1] = "none"
         /\ Opened \cup {Cardinality(Opened) + 1} = 1 .. Cardinality(Opened) + 1
<1>1. PICK k \in 0 .. MaxConns : Opened = 1 .. k  BY DEF ConnInv
<1>2. Cardinality(Opened) = k  BY <1>1, ConstantFacts, FS_Interval
<1>3. k + 1 \in Conns /\ k + 1 \notin Opened  BY <1>1, <1>2, ConstantFacts DEF Conns
<1>4. Opened \cup {k + 1} = 1 .. k + 1  BY <1>1
<1> QED  BY <1>2, <1>3, <1>4 DEF Opened

\* A coroutine sends on the active session, or finds none.
LEMMA SendTypes ==
  ASSUME LinkOK, MailOK, NEW msg \in Letters, NEW by \in Tasks, SendActive(msg, by)
  PROVE  /\ out' \in [Conns -> Seq(Posts)]
         /\ Connected => cur \in Conns /\ SendOn(cur, msg, by)
         /\ ~Connected => out' = out
<1>1. Connected => cur \in Conns /\ SendOn(cur, msg, by)
  BY DEF LinkOK, Connected, SendActive
<1>2. ~Connected => out' = out  BY DEF SendActive
<1>3. out \in [Conns -> Seq(Posts)]  BY DEF MailOK
<1> QED  BY <1>1, <1>2, <1>3, PostFacts

LEMMA TypesStep ==
  ASSUME PhoneInv, Next
  PROVE  PhoneTypes'
<1> USE Rigid
<1>1. LinkOK /\ TaskOK /\ MailOK /\ SosOK /\ AppOK /\ WorldOK /\ ConnInv /\ ActiveInv /\ PhoneTypes
  BY DEF PhoneInv, PhoneTypes
<1>2. None \in Conns \cup {None} /\ Nobody \in Tasks /\ Ticker \in Tasks  BY TaskFacts
<1>3. /\ wire \in Seq(SosLetters) /\ missed \in SUBSET SOS
      /\ active \in Seq(SOS) /\ pending \in Seq(SOS) /\ tick.todo \in Seq(SOS)
  BY <1>1 DEF MailOK, AppOK, SosOK, TaskOK
<1>4. CASE Connect
  <2>1. conn' \in Conns  BY <1>1, <1>4, OpenedFacts DEF Connect
  <2>2. wire' \in Seq(SosLetters) /\ answers' \in SUBSET SOS /\ missed' \in SUBSET SOS
    BY <1>3, <1>4, DropFacts DEF Connect
  <2>3. LinkOK'  BY <1>1, <1>4, <2>1 DEF LinkOK, Connect
  <2>4. TaskOK' /\ SosOK' /\ WorldOK' /\ MailOK' /\ AppOK'
    BY <1>1, <1>4, <2>2
    DEF Connect, TaskOK, SosOK, WorldOK, MailOK, AppOK, tasks, sosVars, missionVars, Place
  <2> QED  BY <2>3, <2>4 DEF PhoneTypes
<1>5. CASE Break
  <2>1. wire' \in Seq(SosLetters) /\ answers' \in SUBSET SOS /\ missed' \in SUBSET SOS
    BY <1>3, <1>5, DropFacts DEF Break
  <2>2. LinkOK'  BY <1>1, <1>2, <1>5 DEF LinkOK, Break, bridgeVars
  <2>3. TaskOK' /\ SosOK' /\ WorldOK' /\ MailOK' /\ AppOK'
    BY <1>1, <1>5, <2>1
    DEF Break, TaskOK, SosOK, WorldOK, MailOK, AppOK, tasks, sosVars, missionVars
  <2> QED  BY <2>2, <2>3 DEF PhoneTypes
<1>6. CASE \E p \in Conns : Closed(p)
  <2>1. LinkOK'  BY <1>1, <1>6, DeactivateTypes DEF LinkOK, Closed, appVars
  <2>2. TaskOK' /\ SosOK' /\ WorldOK' /\ MailOK' /\ AppOK'
    BY <1>1, <1>6
    DEF Closed, TaskOK, SosOK, WorldOK, MailOK, AppOK, tasks, sosVars, missionVars, appVars
  <2> QED  BY <2>1, <2>2 DEF PhoneTypes
<1>7. CASE \E p \in Conns : Expire(p)
  <2>1. PICK p \in Conns : Expire(p)  BY <1>7
  <2>2. /\ wire' \in Seq(SosLetters) /\ answers' \in SUBSET SOS /\ missed' \in SUBSET SOS
        /\ conn' \in Conns \cup {None}
    <3>1. CASE conn = p  BY <1>2, <1>3, <2>1, <3>1, DropFacts DEF Expire
    <3>2. CASE conn # p  BY <1>1, <2>1, <3>2 DEF Expire, LinkOK, MailOK, AppOK
    <3> QED  BY <3>1, <3>2
  <2>3. LinkOK'  BY <1>1, <2>1, <2>2, DeactivateTypes DEF LinkOK, Expire
  <2>4. TaskOK' /\ SosOK' /\ WorldOK' /\ MailOK' /\ AppOK'
    BY <1>1, <2>1, <2>2
    DEF Expire, TaskOK, SosOK, WorldOK, MailOK, AppOK, tasks, sosVars, missionVars
  <2> QED  BY <2>3, <2>4 DEF PhoneTypes
<1>8. CASE \E p \in Conns : Hello(p)
  <2>1. PICK p \in Conns : Hello(p)  BY <1>8
  <2>2. By("hello", p) \in Tasks /\ Msg("hello.ack", None) \in Letters
    BY TaskFacts, LetterFacts
  <2>3. MailOK'  BY <1>1, <1>3, <2>1, <2>2, PostFacts DEF Hello, MailOK, appVars
  <2>4. LinkOK'
    <3>1. session' \in [Conns -> {"none", "hello", "active", "closed"}]
      BY <1>1, <2>1 DEF Hello, LinkOK
    <3> QED  BY <1>1, <2>1, <3>1 DEF Hello, LinkOK, appVars
  <2>5. TaskOK'
    <3>1. [at |-> "ack", todo |-> <<>>] \in Place  BY EmptyFacts DEF Place
    <3> QED  BY <1>1, <2>1, <3>1 DEF Hello, TaskOK, Place
  <2>6. SosOK' /\ WorldOK' /\ AppOK'
    BY <1>1, <2>1 DEF Hello, SosOK, WorldOK, AppOK, sosVars, missionVars, appVars
  <2> QED  BY <2>3, <2>4, <2>5, <2>6 DEF PhoneTypes
<1>9. CASE \E p \in Conns : HelloStep(p)
  <2>1. PICK p \in Conns : HelloStep(p)  BY <1>9
  <2> DEFINE h == Rest(p)
  <2>2. h \in Place  BY <1>1, RestFacts
  <2>3. h.todo \in Seq(SOS)  BY <2>2 DEF Place
  <2>4. loop \in Tasks  BY <1>1 DEF TaskOK
  <2>5. SosOK' /\ WorldOK' /\ AppOK' /\ cur' = cur /\ session' = session /\ conn' = conn
        /\ tick' = tick /\ wire' = wire
    BY <1>1, <2>1 DEF HelloStep, SosOK, WorldOK, AppOK, sosVars, missionVars, appVars
  <2>6. CASE /\ h.todo # <<>>
             /\ SendActive(Msg(IF h.at = "clears" THEN "sos.clear" ELSE "sos.request", Head(h.todo)), loop)
             /\ YieldIfSent
             /\ hello' = [hello EXCEPT ![p] = [h EXCEPT !.todo = Tail(@)]]
             /\ UNCHANGED link
    <3>1. Head(h.todo) \in SOS /\ Tail(h.todo) \in Seq(SOS)  BY <2>3, <2>6, TailFacts
    <3>2. Msg(IF h.at = "clears" THEN "sos.clear" ELSE "sos.request", Head(h.todo)) \in Letters
      BY <3>1, LetterFacts DEF Ask, Close
    <3>3. out' \in [Conns -> Seq(Posts)]  BY <1>1, <2>4, <2>6, <3>2, SendTypes
    <3>4. loop' \in Tasks  BY <1>2, <2>4, <2>6 DEF YieldIfSent
    <3> HIDE DEF h
    <3>5. [h EXCEPT !.todo = Tail(h.todo)] \in Place  BY <2>2, <3>1, PlaceFacts
    <3>6. hello' = [hello EXCEPT ![p] = [h EXCEPT !.todo = Tail(h.todo)]]  BY <2>6
    <3>7. TaskOK'  BY <1>1, <2>5, <3>4, <3>5, <3>6 DEF TaskOK, Place
    <3>8. LinkOK' /\ MailOK'  BY <1>1, <1>3, <2>5, <2>6, <3>3 DEF LinkOK, MailOK
    <3> QED  BY <2>5, <3>7, <3>8 DEF PhoneTypes
  <2>7. CASE /\ h = Asleep
             /\ hello' = [hello EXCEPT ![p] = h]
             /\ link' = TRUE /\ Yield
             /\ UNCHANGED out
    <3> HIDE DEF h
    <3>1. TaskOK'  BY <1>1, <1>2, <2>2, <2>5, <2>7 DEF TaskOK, Place, Yield
    <3>2. LinkOK' /\ MailOK'  BY <1>1, <2>5, <2>7 DEF LinkOK, MailOK
    <3> QED  BY <2>5, <3>1, <3>2 DEF PhoneTypes
  <2> QED  BY <2>1, <2>6, <2>7 DEF HelloStep
<1>10. CASE \E s \in SOS : Request(s)
  <2>1. PICK s \in SOS : Request(s)  BY <1>10
  <2>2. Ask(s) \in Letters /\ By("request", s) \in Tasks  BY LetterFacts, TaskFacts
  <2>3. SendActive(Ask(s), By("request", s))  BY <2>1 DEF Request, Ask
  <2>4. MailOK'  BY <1>1, <1>3, <2>1, <2>2, <2>3, SendTypes DEF Request, MailOK, appVars
  <2>5. SosOK'
    <3> DEFINE f == [Fresh EXCEPT !.sends = 1]
    <3>1. f \in Entry  BY FreshFacts, EntryFacts
    <3>2. info' = [info EXCEPT ![s] = f]  BY <2>1 DEF Request
    <3> HIDE DEF f
    <3>3. info' \in [SOS -> Entry]  BY <1>1, <3>1, <3>2 DEF SosOK
    <3>4. active' \in Seq(SOS)  BY <1>3, <2>1, AppendFacts DEF Request
    <3>5. pending' \in Seq(SOS) /\ Len(pending') <= Len(pending)
      BY <1>3, <2>1, WithoutFacts DEF Request
    <3>6. Len(pending') \in Nat /\ Len(pending) \in Nat /\ Len(pending) <= MaxPendingClears
      BY <1>1, <3>5, LenProperties DEF SosOK
    <3>7. Len(pending') <= MaxPendingClears  BY <3>5, <3>6, ConstantFacts
    <3> QED  BY <3>3, <3>4, <3>5, <3>7 DEF SosOK
  <2>6. LinkOK' /\ TaskOK' /\ AppOK' /\ WorldOK'
    BY <1>1, <2>1 DEF Request, LinkOK, TaskOK, AppOK, WorldOK, bridgeVars, tasks, appVars
  <2> QED  BY <2>4, <2>5, <2>6 DEF PhoneTypes
<1>11. CASE \E s \in SOS : Clear(s)
  <2>1. PICK s \in SOS : Clear(s)  BY <1>11
  <2> DEFINE b == By(IF s \in ToSet(active) THEN "clear" ELSE "stray", s)
  <2>2. Close(s) \in Letters /\ b \in Tasks  BY LetterFacts, TaskFacts
  <2>3. SendActive(Close(s), b)  BY <2>1 DEF Clear, Close
  <2> HIDE DEF b
  <2>4. MailOK'  BY <1>1, <1>3, <2>1, <2>2, <2>3, SendTypes DEF Clear, MailOK, appVars
  <2>5. /\ pending' \in Seq(SOS) /\ Len(pending') <= MaxPendingClears
        /\ missed' \in SUBSET SOS
    <3>1. CASE Keep(s)  BY <1>1, <1>3, <3>1, KeepFacts
    <3>2. CASE UNCHANGED pending /\ (missed' = missed \/ missed' = missed \cup {s})
      BY <1>1, <1>3, <3>2 DEF SosOK
    <3>3. Keep(s) \/ (UNCHANGED pending /\ (missed' = missed \/ missed' = missed \cup {s}))
      BY <2>1 DEF Clear
    <3> QED  BY <3>1, <3>2, <3>3
  <2>6. SosOK'
    <3>1. active' \in Seq(SOS)  BY <1>3, <2>1, WithoutFacts DEF Clear
    <3>2. info' \in [SOS -> Entry]  BY <1>1, <2>1, FreshFacts DEF Clear, SosOK
    <3> QED  BY <2>5, <3>1, <3>2 DEF SosOK
  <2>7. LinkOK' /\ TaskOK' /\ AppOK' /\ WorldOK'
    BY <1>1, <2>1, <2>5 DEF Clear, LinkOK, TaskOK, AppOK, WorldOK, bridgeVars, tasks, appVars
  <2> QED  BY <2>4, <2>6, <2>7 DEF PhoneTypes
<1>12. CASE TickBegins
  <2>1. MailOK'
    <3>1. CASE SendActive(Msg("robot.status", None), Ticker)
      BY <1>1, <1>2, <1>3, <1>12, <3>1, LetterFacts, SendTypes DEF TickBegins, MailOK, appVars
    <3>2. CASE UNCHANGED out
      BY <1>1, <1>12, <3>2 DEF TickBegins, MailOK, appVars
    <3>3. SendActive(Msg("robot.status", None), Ticker) \/ UNCHANGED out
      BY <1>12 DEF TickBegins
    <3> QED  BY <3>1, <3>2, <3>3
  <2>2. TaskOK'
    <3>1. tick' \in [at : {"idle", "status", "sos"}, todo : Seq(SOS)]
      <4>1. <<>> \in Seq(SOS)  BY EmptyFacts
      <4>2. CASE tick' = [at |-> "status", todo |-> <<>>]  BY <4>1, <4>2
      <4>3. CASE tick' = [at |-> "sos", todo |-> active]  BY <1>3, <4>3
      <4> QED  BY <1>12, <4>2, <4>3 DEF TickBegins
    <3>2. loop' \in Tasks /\ hello' = hello  BY <1>1, <1>2, <1>12 DEF TickBegins, TaskOK
    <3> QED  BY <1>1, <3>1, <3>2 DEF TaskOK
  <2>3. LinkOK' /\ SosOK' /\ AppOK' /\ WorldOK'
    BY <1>1, <1>12
    DEF TickBegins, LinkOK, SosOK, AppOK, WorldOK, bridgeVars, sosVars, appVars, missionVars
  <2> QED  BY <2>1, <2>2, <2>3 DEF PhoneTypes
<1>13. CASE TickLink
  <2>1. TaskOK'  BY <1>1, <1>3, <1>13 DEF TickLink, TaskOK
  <2>2. LinkOK' /\ SosOK' /\ AppOK' /\ WorldOK' /\ MailOK'
    BY <1>1, <1>13
    DEF TickLink, LinkOK, SosOK, AppOK, WorldOK, MailOK, sosVars, appVars, missionVars
  <2> QED  BY <2>1, <2>2 DEF PhoneTypes
<1>14. CASE TickDue
  <2> DEFINE s == Head(tick.todo)
  <2>1. s \in SOS /\ Tail(tick.todo) \in Seq(SOS)  BY <1>3, <1>14, TailFacts DEF TickDue
  <2>2. LinkOK' /\ AppOK' /\ wire' = wire /\ hello' = hello /\ active' = active
        /\ pending' = pending /\ world' = world /\ tick' = [tick EXCEPT !.todo = Tail(@)]
    BY <1>1, <1>14 DEF TickDue, LinkOK, AppOK, bridgeVars, appVars
  <2>3. tick' \in [at : {"idle", "status", "sos"}, todo : Seq(SOS)]
    BY <1>1, <2>1, <2>2 DEF TaskOK
  <2>4. info[s] \in Entry  BY <1>1, <2>1 DEF SosOK
  <2>5. CASE /\ info[s].sends <= MaxRetries /\ Attempted(s)
             /\ SendActive(Msg("sos.request", s), Ticker) /\ YieldIfSent /\ UNCHANGED said
    <3>1. Ask(s) \in Letters  BY <2>1, LetterFacts
    <3>2. MailOK'  BY <1>1, <1>2, <1>3, <2>2, <2>5, <3>1, SendTypes DEF MailOK, Ask
    <3>3. TaskOK'  BY <1>1, <1>2, <2>2, <2>3, <2>5 DEF TaskOK, YieldIfSent
    <3>4. [info[s] EXCEPT !.sends = info[s].sends + 1] \in Entry  BY <2>4, <2>5, EntryFacts
    <3>5. info' = [info EXCEPT ![s] = [info[s] EXCEPT !.sends = info[s].sends + 1]]
      BY <2>5, Zenon DEF Attempted
    <3> HIDE DEF s
    <3>6. SosOK'  BY <1>1, <2>1, <2>2, <3>4, <3>5 DEF SosOK
    <3>7. WorldOK'  BY <1>1, <2>2, <2>5 DEF WorldOK
    <3> QED  BY <2>2, <3>2, <3>3, <3>6, <3>7 DEF PhoneTypes
  <2>6. CASE /\ FailedOnce(s) /\ said' = [said EXCEPT ![s] = Append(@, FALSE)]
             /\ UNCHANGED <<out, loop>>
    <3>1. [info[s] EXCEPT !.failed = TRUE] \in Entry  BY <2>4, EntryFacts
    <3>2. info' = [info EXCEPT ![s] = [info[s] EXCEPT !.failed = TRUE]]
      BY <2>6, Zenon DEF FailedOnce
    <3> HIDE DEF s
    <3>3. SosOK'  BY <1>1, <2>1, <2>2, <3>1, <3>2 DEF SosOK
    <3>4. said[s] \in Seq(BOOLEAN)  BY <1>1, <2>1 DEF WorldOK
    <3>5. Append(said[s], FALSE) \in Seq(BOOLEAN)  BY <3>4, AppendProperties
    <3>6. said' \in [SOS -> Seq(BOOLEAN)]  BY <1>1, <2>6, <3>5 DEF WorldOK
    <3>7. WorldOK' /\ MailOK' /\ TaskOK'
      BY <1>1, <2>2, <2>3, <2>6, <3>6 DEF WorldOK, MailOK, TaskOK
    <3> QED  BY <2>2, <3>3, <3>7 DEF PhoneTypes
  <2> QED  BY <1>14, <2>5, <2>6 DEF TickDue
<1>15. CASE TickPasses
  <2>1. TaskOK'
    <3>1. hello' = hello /\ loop' \in Tasks  BY <1>1, <1>2, <1>15 DEF TickPasses, TaskOK, Yield
    <3>2. CASE tick.todo # <<>> /\ tick' = [tick EXCEPT !.todo = Tail(@)]
      <4>1. Tail(tick.todo) \in Seq(SOS)  BY <1>3, <3>2, TailFacts
      <4> QED  BY <1>1, <3>1, <3>2, <4>1 DEF TaskOK
    <3>3. CASE tick' = Asleep
      <4>1. tick' \in [at : {"idle", "status", "sos"}, todo : Seq(SOS)]
        BY <3>3, EmptyFacts DEF Asleep
      <4> QED  BY <1>1, <3>1, <4>1 DEF TaskOK
    <3> QED  BY <1>15, <3>2, <3>3 DEF TickPasses
  <2>2. LinkOK' /\ SosOK' /\ AppOK' /\ WorldOK' /\ MailOK'
    BY <1>1, <1>15
    DEF TickPasses, LinkOK, SosOK, AppOK, WorldOK, MailOK, bridgeVars, sosVars, appVars, missionVars
  <2> QED  BY <2>1, <2>2 DEF PhoneTypes
<1>16. CASE \E s \in SOS : Answer(s)
  <2>1. PICK s \in SOS : Answer(s)  BY <1>16
  <2>2. LinkOK' /\ TaskOK' /\ MailOK' /\ AppOK' /\ active' = active /\ pending' = pending
        /\ world' = world
    BY <1>1, <2>1 DEF Answer, LinkOK, TaskOK, MailOK, AppOK, bridgeVars, tasks
  <2>3. CASE s \in ToSet(active)
    <3>1. info[s] \in Entry  BY <1>1 DEF SosOK
    <3>2. [info[s] EXCEPT !.acked = TRUE] \in Entry  BY <3>1, EntryFacts
    <3>3. info' = [info EXCEPT ![s] = [info[s] EXCEPT !.acked = TRUE]]
      BY <2>1, <2>3, Zenon DEF Answer
    <3>4. SosOK'  BY <1>1, <2>2, <3>2, <3>3 DEF SosOK
    <3>5. said[s] \in Seq(BOOLEAN)  BY <1>1 DEF WorldOK
    <3>6. Append(said[s], TRUE) \in Seq(BOOLEAN)  BY <3>5, AppendProperties
    <3>7. said' = said \/ said' = [said EXCEPT ![s] = Append(said[s], TRUE)]
      BY <2>1, <2>3, Zenon DEF Answer
    <3>8. WorldOK'  BY <1>1, <2>2, <3>6, <3>7 DEF WorldOK
    <3> QED  BY <2>2, <3>4, <3>8 DEF PhoneTypes
  <2>4. CASE s \notin ToSet(active)
    <3>1. SosOK' /\ WorldOK'  BY <1>1, <2>1, <2>2, <2>4 DEF Answer, SosOK, WorldOK
    <3> QED  BY <2>2, <3>1 DEF PhoneTypes
  <2> QED  BY <2>3, <2>4
<1>17. CASE \E p \in Conns : Flush(p)
  <2>1. PICK p \in Conns : Flush(p)  BY <1>17
  <2> DEFINE e == Head(out[p])
  <2>2. out' \in [Conns -> Seq(Posts)] /\ e \in Posts /\ e.msg \in Letters
    BY <1>1, <2>1, TakeFacts DEF Flush
  <2>3. Resume(p, e, TRUE) /\ wire' = IF conn = p /\ e.msg.sos # None THEN Append(wire, e.msg) ELSE wire
    BY <2>1 DEF Flush
  <2>4. LinkOK' /\ WorldOK' /\ hello' = hello /\ tick' = tick /\ active' = active /\ info' = info
        /\ shown' = shown /\ answers' = answers
    BY <1>1, <2>1 DEF Flush, LinkOK, WorldOK, bridgeVars, missionVars
  <2> HIDE DEF e
  <2>5. /\ loop' \in Tasks /\ missed' \in SUBSET SOS
        /\ pending' \in Seq(SOS) /\ Len(pending') <= MaxPendingClears
    BY <1>1, <1>3, <2>2, <2>3, ResumeFacts
  <2>6. wire' \in Seq(SosLetters)
    <3>1. e.msg.sos # None => e.msg \in SosLetters  BY <2>2, LetterFacts
    <3> QED  BY <1>3, <2>3, <3>1, AppendFacts
  <2>7. TaskOK' /\ MailOK' /\ SosOK' /\ AppOK'
    BY <1>1, <2>2, <2>4, <2>5, <2>6 DEF TaskOK, MailOK, SosOK, AppOK
  <2> QED  BY <2>4, <2>7 DEF PhoneTypes
<1>18. CASE \E p \in Conns : SendFails(p)
  <2>1. PICK p \in Conns : SendFails(p)  BY <1>18
  <2> DEFINE e == Head(out[p])
  <2>2. out' \in [Conns -> Seq(Posts)] /\ e \in Posts
    BY <1>1, <2>1, TakeFacts DEF SendFails
  <2>3. Resume(p, e, FALSE)  BY <2>1 DEF SendFails
  <2>4. LinkOK' /\ WorldOK' /\ hello' = hello /\ tick' = tick /\ active' = active /\ info' = info
        /\ shown' = shown /\ answers' = answers /\ wire' = wire
    BY <1>1, <2>1 DEF SendFails, LinkOK, WorldOK, bridgeVars, missionVars, appVars
  <2> HIDE DEF e
  <2>5. /\ loop' \in Tasks /\ missed' \in SUBSET SOS
        /\ pending' \in Seq(SOS) /\ Len(pending') <= MaxPendingClears
    BY <1>1, <1>3, <2>2, <2>3, ResumeFacts
  <2>6. TaskOK' /\ MailOK' /\ SosOK' /\ AppOK'
    BY <1>1, <1>3, <2>2, <2>4, <2>5 DEF TaskOK, MailOK, SosOK, AppOK
  <2> QED  BY <2>4, <2>6 DEF PhoneTypes
<1>19. CASE AppReceives
  <2>1. Head(wire) \in SosLetters /\ wire' \in Seq(SosLetters)
    BY <1>3, <1>19, WireTakeFacts DEF AppReceives
  <2>2. Head(wire).sos \in SOS  BY <2>1, LetterFacts
  <2>3. AppOK'  BY <1>1, <1>19, <2>2 DEF AppReceives, AppOK
  <2>4. LinkOK' /\ TaskOK' /\ MailOK' /\ SosOK' /\ WorldOK'
    BY <1>1, <1>19, <2>1
    DEF AppReceives, LinkOK, TaskOK, MailOK, SosOK, WorldOK, bridgeVars, sosVars, tasks, missionVars
  <2> QED  BY <2>3, <2>4 DEF PhoneTypes
<1>20. CASE BridgeRestarts
  <2>1. /\ session' \in [Conns -> {"none", "hello", "active", "closed"}]
        /\ LinkOK'
    BY <1>1, <1>2, <1>20 DEF BridgeRestarts, LinkOK
  <2>2. TaskOK'
    <3>1. Asleep \in Place /\ Asleep \in [at : {"idle", "status", "sos"}, todo : Seq(SOS)]
      BY EmptyFacts DEF Asleep, Place
    <3> QED  BY <1>2, <1>20, <3>1 DEF BridgeRestarts, TaskOK, Place
  <2>3. MailOK'
    <3>1. <<>> \in Seq(Posts) /\ <<>> \in Seq(SosLetters)  BY EmptyFacts
    <3> QED  BY <1>20, <3>1 DEF BridgeRestarts, MailOK
  <2>4. SosOK'
    <3>1. <<>> \in Seq(SOS) /\ Len(<<>>) <= MaxPendingClears  BY EmptyFacts, ConstantFacts
    <3> QED  BY <1>20, <3>1, FreshFacts DEF BridgeRestarts, SosOK
  <2>5. AppOK' /\ WorldOK'  BY <1>1, <1>20 DEF BridgeRestarts, AppOK, WorldOK, missionVars
  <2> QED  BY <2>1, <2>2, <2>3, <2>4, <2>5 DEF PhoneTypes
<1> QED  BY <1>4, <1>5, <1>6, <1>7, <1>8, <1>9, <1>10, <1>11, <1>12, <1>13, <1>14, <1>15,
            <1>16, <1>17, <1>18, <1>19, <1>20 DEF Next

-----------------------------------------------------------------------------
(* Connections and the link.                                               *)

\* Only the connection of the active session gets messages to send.
LEMMA SendConn ==
  ASSUME LinkOK, MailOK, ConnInv, NEW msg \in Letters, NEW by \in Tasks, SendActive(msg, by)
  PROVE  \A c \in Conns : session[c] \in {"none", "hello"} => out'[c] = <<>>
<1>1. \A c \in Conns : session[c] \in {"none", "hello"} => out[c] = <<>> /\ c # cur
  BY DEF ConnInv
<1>2. CASE Connected
  <2>1. cur \in Conns /\ SendOn(cur, msg, by)  BY <1>2, SendTypes
  <2> QED  BY <1>1, <2>1, PostFacts
<1>3. CASE ~Connected  BY <1>1, <1>3, SendTypes
<1> QED  BY <1>2, <1>3

LEMMA DeactivateConn ==
  ASSUME LinkOK, ConnInv, NEW p \in Conns, session[p] \in {"hello", "active"}, Deactivate(p),
         out' = out,
         conn' = conn \/ conn' = None, conn' # p, conn' = None => wire' = <<>>
  PROVE  ConnInv'
<1>1. session' = [session EXCEPT ![p] = "closed"] /\ cur' = IF cur = p THEN None ELSE cur
  BY DEF Deactivate
<1>2. \A c \in Conns : session'[c] = IF c = p THEN "closed" ELSE session[c]
  BY <1>1 DEF LinkOK
<1>3. Opened' = Opened  BY <1>2, Rigid DEF Opened
<1>4. \A c \in Conns : session'[c] = "active" <=> c = cur'
  BY <1>1, <1>2, ConstantFacts DEF ConnInv
<1>5. conn' # None => session'[conn'] \in {"hello", "active"}
  BY <1>2 DEF ConnInv, LinkOK
<1>6. \A c \in Conns : session'[c] \in {"none", "hello"} => out'[c] = <<>>
  BY <1>2 DEF ConnInv
<1>7. \E k \in 0 .. MaxConns : Opened' = 1 .. k  BY <1>3 DEF ConnInv
<1> QED  BY <1>4, <1>5, <1>6, <1>7, Rigid DEF ConnInv, None

LEMMA QuietConn ==
  ASSUME ConnInv, cur' = cur, session' = session, conn' = conn,
         conn = None /\ wire = <<>> => wire' = <<>>,
         \A c \in Conns : session[c] \in {"none", "hello"} => out'[c] = <<>>
  PROVE  ConnInv'
<1>1. Opened' = Opened  BY Rigid DEF Opened
<1>2. \E k \in 0 .. MaxConns : Opened' = 1 .. k  BY <1>1 DEF ConnInv
<1> QED  BY <1>2, Rigid DEF ConnInv, None

LEMMA ConnStep ==
  ASSUME PhoneInv, Next
  PROVE  ConnInv'
<1>1. LinkOK /\ TaskOK /\ MailOK /\ SosOK /\ ConnInv /\ ActiveInv /\ PhoneTypes
  BY DEF PhoneInv, PhoneTypes
<1>2. Ticker \in Tasks  BY TaskFacts
<1>3. \A c \in Conns : session[c] \in {"none", "hello"} => out[c] = <<>>  BY <1>1 DEF ConnInv
<1>4. CASE Connect
  <2> DEFINE k == Cardinality(Opened)
  <2>1. k + 1 \in Conns /\ session[k + 1] = "none" /\ Opened \cup {k + 1} = 1 .. k + 1
    BY <1>1, <1>4, OpenedFacts DEF Connect
  <2>2. k \in 0 .. MaxConns
    <3>1. PICK j \in 0 .. MaxConns : Opened = 1 .. j  BY <1>1 DEF ConnInv
    <3>2. Cardinality(Opened) = j  BY <3>1, ConstantFacts, FS_Interval
    <3> QED  BY <3>2
  <2>3. /\ conn' = k + 1 /\ session' = [session EXCEPT ![k + 1] = "hello"]
        /\ cur' = cur /\ out' = out /\ wire' = <<>>
    BY <1>4 DEF Connect, DropConn
  <2>4. k + 1 \in 0 .. MaxConns  BY <2>1, <2>2, ConstantFacts DEF Conns
  <2> HIDE DEF k
  <2>5. \A c \in Conns : session'[c] = IF c = k + 1 THEN "hello" ELSE session[c]
    BY <1>1, <2>1, <2>3 DEF LinkOK
  <2>6. Opened' = Opened \cup {k + 1}  BY <2>1, <2>5, Rigid DEF Opened
  <2>7. \A c \in Conns : session'[c] = "active" <=> c = cur'
    BY <1>1, <2>1, <2>3, <2>5 DEF ConnInv
  <2>8. \A c \in Conns : session'[c] \in {"none", "hello"} => out'[c] = <<>>
    BY <1>3, <2>1, <2>3, <2>5
  <2>9. \E j \in 0 .. MaxConns : Opened' = 1 .. j  BY <2>1, <2>4, <2>6
  <2> QED  BY <2>1, <2>3, <2>5, <2>7, <2>8, <2>9, Rigid DEF ConnInv, None
<1>5. CASE Break
  <2>1. Opened' = Opened  BY <1>5, Rigid DEF Break, bridgeVars, Opened
  <2>2. \E j \in 0 .. MaxConns : Opened' = 1 .. j  BY <1>1, <2>1 DEF ConnInv
  <2> QED  BY <1>1, <1>5, <2>2, Rigid DEF Break, bridgeVars, DropConn, ConnInv, None
<1>6. CASE \E p \in Conns : Closed(p)
  BY <1>1, <1>6, DeactivateConn DEF Closed, appVars, ConnInv
<1>7. CASE \E p \in Conns : Expire(p)
  <2>1. PICK p \in Conns : Expire(p)  BY <1>7
  <2>2. /\ conn' = conn \/ conn' = None
        /\ conn' # p
        /\ conn' = None => wire' = <<>>
    <3>1. CASE conn = p  BY <2>1, <3>1, ConstantFacts DEF Expire, DropConn
    <3>2. CASE conn # p  BY <1>1, <2>1, <3>2 DEF Expire, ConnInv
    <3> QED  BY <3>1, <3>2
  <2> QED  BY <1>1, <2>1, <2>2, DeactivateConn DEF Expire
<1>8. CASE \E p \in Conns : Hello(p)
  <2>1. PICK p \in Conns : Hello(p)  BY <1>8
  <2>2. By("hello", p) \in Tasks /\ Msg("hello.ack", None) \in Letters
    BY TaskFacts, LetterFacts
  <2>3. \A c \in Conns : c # p => out'[c] = out[c]  BY <1>1, <2>1, <2>2, PostFacts DEF Hello
  <2>4. \A c \in Conns :
          session'[c] = IF c = p THEN "active" ELSE IF c = cur THEN "closed" ELSE session[c]
    BY <2>1 DEF Hello
  <2>5. conn' = conn /\ conn = p /\ cur' = p /\ wire' = wire /\ session[p] = "hello"
    BY <2>1 DEF Hello, appVars
  <2>6. \A c \in Conns : session[c] = "active" <=> c = cur  BY <1>1 DEF ConnInv
  <2>7. Opened' = Opened
    <3>1. \A c \in Conns : session'[c] # "none" <=> session[c] # "none"  BY <2>4, <2>5, <2>6
    <3> QED  BY <3>1, Rigid DEF Opened
  <2>8. \A c \in Conns : session'[c] = "active" <=> c = cur'  BY <2>4, <2>5, <2>6
  <2>9. \A c \in Conns : session'[c] \in {"none", "hello"} => out'[c] = <<>>
    BY <1>3, <2>3, <2>4
  <2>10. \E j \in 0 .. MaxConns : Opened' = 1 .. j  BY <1>1, <2>7 DEF ConnInv
  <2>11. session'[conn'] = "active" /\ conn' # None  BY <2>4, <2>5, ConstantFacts
  <2> QED  BY <2>8, <2>9, <2>10, <2>11, Rigid DEF ConnInv, None
<1>9. CASE \E p \in Conns : HelloStep(p)
  <2>1. PICK p \in Conns : HelloStep(p)  BY <1>9
  <2> DEFINE h == Rest(p)
             msg == Msg(IF h.at = "clears" THEN "sos.clear" ELSE "sos.request", Head(h.todo))
  <2>2. cur' = cur /\ session' = session /\ conn' = conn /\ wire' = wire
    BY <2>1 DEF HelloStep, appVars
  <2>3. CASE h.todo # <<>> /\ SendActive(msg, loop)
    <3>1. h \in Place  BY <1>1, RestFacts
    <3>2. h.todo \in Seq(SOS)  BY <3>1 DEF Place
    <3>3. Head(h.todo) \in SOS  BY <2>3, <3>2, TailFacts
    <3>4. msg \in Letters  BY <3>3, LetterFacts DEF Ask, Close
    <3>5. loop \in Tasks  BY <1>1 DEF TaskOK
    <3> HIDE DEF msg
    <3>6. \A c \in Conns : session[c] \in {"none", "hello"} => out'[c] = <<>>
      BY <1>1, <2>3, <3>4, <3>5, SendConn
    <3> QED  BY <1>1, <2>2, <3>6, QuietConn
  <2>4. CASE UNCHANGED out  BY <1>1, <1>3, <2>2, <2>4, QuietConn
  <2> QED  BY <2>1, <2>3, <2>4 DEF HelloStep
<1>10. CASE \E s \in SOS : Request(s)
  <2>1. PICK s \in SOS : Request(s)  BY <1>10
  <2>2. Ask(s) \in Letters /\ By("request", s) \in Tasks  BY LetterFacts, TaskFacts
  <2>3. SendActive(Ask(s), By("request", s))  BY <2>1 DEF Request, Ask
  <2>4. \A c \in Conns : session[c] \in {"none", "hello"} => out'[c] = <<>>
    BY <1>1, <2>2, <2>3, SendConn
  <2> QED  BY <1>1, <2>1, <2>4, QuietConn DEF Request, bridgeVars, appVars
<1>11. CASE \E s \in SOS : Clear(s)
  <2>1. PICK s \in SOS : Clear(s)  BY <1>11
  <2> DEFINE b == By(IF s \in ToSet(active) THEN "clear" ELSE "stray", s)
  <2>2. Close(s) \in Letters /\ b \in Tasks  BY LetterFacts, TaskFacts
  <2>3. SendActive(Close(s), b)  BY <2>1 DEF Clear, Close
  <2> HIDE DEF b
  <2>4. \A c \in Conns : session[c] \in {"none", "hello"} => out'[c] = <<>>
    BY <1>1, <2>2, <2>3, SendConn
  <2> QED  BY <1>1, <2>1, <2>4, QuietConn DEF Clear, bridgeVars, appVars
<1>12. CASE TickBegins
  <2>1. CASE SendActive(Msg("robot.status", None), Ticker)
    <3>1. \A c \in Conns : session[c] \in {"none", "hello"} => out'[c] = <<>>
      BY <1>1, <1>2, <2>1, LetterFacts, SendConn
    <3> QED  BY <1>1, <1>12, <3>1, QuietConn DEF TickBegins, bridgeVars, appVars
  <2>2. CASE UNCHANGED out
    BY <1>1, <1>3, <1>12, <2>2, QuietConn DEF TickBegins, bridgeVars, appVars
  <2> QED  BY <1>12, <2>1, <2>2 DEF TickBegins
<1>13. CASE TickLink  BY <1>1, <1>3, <1>13, QuietConn DEF TickLink, appVars
<1>14. CASE TickDue
  <2> DEFINE s == Head(tick.todo)
  <2>1. tick.todo \in Seq(SOS)  BY <1>1 DEF TaskOK
  <2>2. s \in SOS  BY <1>14, <2>1, TailFacts DEF TickDue
  <2>3. cur' = cur /\ session' = session /\ conn' = conn /\ wire' = wire
    BY <1>14 DEF TickDue, bridgeVars, appVars
  <2>4. CASE SendActive(Ask(s), Ticker)
    <3>1. Ask(s) \in Letters  BY <2>2, LetterFacts
    <3>2. \A c \in Conns : session[c] \in {"none", "hello"} => out'[c] = <<>>
      BY <1>1, <1>2, <2>4, <3>1, SendConn
    <3> QED  BY <1>1, <2>3, <3>2, QuietConn
  <2>5. CASE UNCHANGED out  BY <1>1, <1>3, <2>3, <2>5, QuietConn
  <2> QED  BY <1>14, <2>4, <2>5 DEF TickDue, Ask
<1>15. CASE TickPasses  BY <1>1, <1>3, <1>15, QuietConn DEF TickPasses, bridgeVars, appVars
<1>16. CASE \E s \in SOS : Answer(s)  BY <1>1, <1>3, <1>16, QuietConn DEF Answer, bridgeVars
<1>17. CASE \E p \in Conns : Flush(p)
  <2>1. PICK p \in Conns : Flush(p)  BY <1>17
  <2>2. \A c \in Conns : out[c] = <<>> => out'[c] = <<>>
    BY <1>1, <2>1, TakeFacts DEF Flush
  <2>3. conn = None => wire' = wire  BY <2>1, ConstantFacts DEF Flush
  <2> QED  BY <1>1, <1>3, <2>1, <2>2, <2>3, QuietConn DEF Flush, bridgeVars
<1>18. CASE \E p \in Conns : SendFails(p)
  <2>1. PICK p \in Conns : SendFails(p)  BY <1>18
  <2>2. \A c \in Conns : out[c] = <<>> => out'[c] = <<>>
    BY <1>1, <2>1, TakeFacts DEF SendFails
  <2> QED  BY <1>1, <1>3, <2>1, <2>2, QuietConn DEF SendFails, bridgeVars, appVars
<1>19. CASE AppReceives
  BY <1>1, <1>3, <1>19, QuietConn DEF AppReceives, bridgeVars
<1>20. CASE BridgeRestarts
  <2>1. \A c \in Conns : session'[c] = IF session[c] = "none" THEN "none" ELSE "closed"
    BY <1>20 DEF BridgeRestarts
  <2>2. Opened' = Opened  BY <2>1, Rigid DEF Opened
  <2>3. \E j \in 0 .. MaxConns : Opened' = 1 .. j  BY <1>1, <2>2 DEF ConnInv
  <2>4. /\ cur' = None /\ conn' = None /\ wire' = <<>>
        /\ \A c \in Conns : out'[c] = <<>> /\ session'[c] # "active" /\ c # None
    BY <1>20, <2>1, ConstantFacts DEF BridgeRestarts
  <2> QED  BY <2>3, <2>4, Rigid DEF ConnInv, None
<1> QED  BY <1>4, <1>5, <1>6, <1>7, <1>8, <1>9, <1>10, <1>11, <1>12, <1>13, <1>14, <1>15,
            <1>16, <1>17, <1>18, <1>19, <1>20 DEF Next

\* The link is up while a greeted session is active.
LEMMA QuietLink ==
  ASSUME LinkFollows, link' = link \/ link',
         Connected' => Connected /\ cur' = cur /\ hello'[cur].at = hello[cur].at
  PROVE  LinkFollows'
BY DEF LinkFollows

LEMMA LinkStep ==
  ASSUME PhoneInv, Next
  PROVE  LinkFollows'
<1>1. LinkOK /\ TaskOK /\ ConnInv /\ ActiveInv /\ PhoneTypes /\ LinkFollows
  BY DEF PhoneInv, PhoneTypes
<1>2. Connected => cur \in Conns  BY <1>1 DEF LinkOK, Connected
<1>3. CASE Connect \/ Break \/ BridgeRestarts
  <2>1. CASE Connect \/ Break
    <3>1. cur' = cur /\ link' = link /\ hello' = hello
      BY <2>1 DEF Connect, Break, tasks, bridgeVars
    <3> QED  BY <1>1, <3>1, QuietLink DEF Connected, None
  <2>2. CASE BridgeRestarts
    <3>1. ~Connected'  BY <2>2 DEF BridgeRestarts, Connected, None
    <3> QED  BY <3>1 DEF LinkFollows
  <2> QED  BY <1>3, <2>1, <2>2
<1>4. CASE \E p \in Conns : Closed(p) \/ Expire(p)
  <2>1. PICK p \in Conns : Closed(p) \/ Expire(p)  BY <1>4
  <2>2. Deactivate(p) /\ hello' = hello  BY <2>1 DEF Closed, Expire, tasks
  <2>3. CASE cur = p
    <3>1. ~Connected'  BY <2>2, <2>3 DEF Deactivate, Connected, None
    <3> QED  BY <3>1 DEF LinkFollows
  <2>4. CASE cur # p
    <3>1. cur' = cur /\ link' = link  BY <2>2, <2>4 DEF Deactivate
    <3> QED  BY <1>1, <2>2, <3>1, QuietLink DEF Connected, None
  <2> QED  BY <2>3, <2>4
<1>5. CASE \E p \in Conns : Hello(p)
  <2>1. PICK p \in Conns : Hello(p)  BY <1>5
  <2>2. cur' = p /\ hello'[p].at = "ack"  BY <1>1, <2>1 DEF Hello, TaskOK
  <2> QED  BY <2>2 DEF LinkFollows
<1>6. CASE \E p \in Conns : HelloStep(p)
  <2>1. PICK p \in Conns : HelloStep(p)  BY <1>6
  <2> DEFINE h == Rest(p)
  <2>2. h \in Place /\ (h.todo # <<>> => h.at # "idle")
    <3>1. h = Asleep => h.todo = <<>>  BY DEF Asleep
    <3>2. /\ h \in Place
          /\ \/ h.at = "clears"
             \/ h.at = "requests"
             \/ h = Asleep
      BY <1>1, RestFacts
    <3> QED  BY <3>1, <3>2
  <2>3. cur' = cur  BY <2>1 DEF HelloStep
  <2>4. CASE link'  BY <2>4 DEF LinkFollows
  <2>5. CASE h.todo # <<>> /\ hello' = [hello EXCEPT ![p] = [h EXCEPT !.todo = Tail(@)]] /\ link' = link
    <3> HIDE DEF h
    <3>1. hello'[p].at # "idle" /\ \A c \in Conns : c # p => hello'[c] = hello[c]
      BY <1>1, <2>2, <2>5 DEF TaskOK, Place
    <3>2. CASE cur = p  BY <2>3, <3>1, <3>2 DEF LinkFollows
    <3>3. CASE cur # p
      <4>1. Connected' => hello'[cur'] = hello[cur]  BY <1>2, <2>3, <3>1, <3>3 DEF Connected, None
      <4> QED  BY <1>1, <2>3, <2>5, <4>1 DEF LinkFollows, Connected, None
    <3> QED  BY <3>2, <3>3
  <2> QED  BY <2>1, <2>4, <2>5 DEF HelloStep
<1>7. CASE \E s \in SOS : Request(s) \/ Clear(s) \/ Answer(s)
  BY <1>1, <1>7, QuietLink DEF Request, Clear, Answer, bridgeVars, tasks, Connected, None
<1>8. CASE TickBegins \/ TickLink \/ TickDue \/ TickPasses
  BY <1>1, <1>8, QuietLink
  DEF TickBegins, TickLink, TickDue, TickPasses, bridgeVars, Connected, None
<1>9. CASE AppReceives \/ \E p \in Conns : Flush(p) \/ SendFails(p)
  BY <1>1, <1>9, QuietLink DEF AppReceives, Flush, SendFails, bridgeVars, tasks, Connected, None
<1> QED  BY <1>3, <1>4, <1>5, <1>6, <1>7, <1>8, <1>9 DEF Next

-----------------------------------------------------------------------------
(* At most one SOS is active, and no coroutine has SOSs left to ask about. *)

LEMMA OneActive ==
  ASSUME NEW s \in SOS
  PROVE  /\ <<s>> \in Seq(SOS) /\ Len(<<s>>) = 1 /\ ToSet(<<s>>) = {s}
         /\ Head(<<s>>) = s /\ Tail(<<s>>) = <<>>
         /\ Append(<<>>, s) = <<s>> /\ Without(<<s>>, s) = <<>>
<1> DEFINE q == <<s>>
<1>1. q \in Seq(SOS) /\ Len(q) = 1 /\ q[1] = s  OBVIOUS
<1>2. Head(q) = s /\ Tail(q) = <<>> /\ Append(<<>>, s) = q  OBVIOUS
<1> HIDE DEF q
<1>3. \A x : x \in ToSet(q) <=> \E i \in 1 .. Len(q) : q[i] = x  BY <1>1, SetOfSeq
<1>4. ToSet(q) = {s}  BY <1>1, <1>3
<1>5. Without(q, s) \in Seq(SOS) /\ Len(Without(q, s)) = 0  BY <1>1, <1>4, WithoutFacts
<1>6. Without(q, s) = <<>>  BY <1>5, EmptySeq
<1> QED  BY <1>1, <1>2, <1>4, <1>6 DEF q

LEMMA QuietActive ==
  ASSUME ActiveInv, loop # Ticker, active' = active, world' = world, tick' = tick, hello' = hello
  PROVE  ActiveInv'
<1>1. tick.todo = <<>>  BY DEF ActiveInv
<1> QED  BY <1>1, Rigid DEF ActiveInv

LEMMA ActiveStep ==
  ASSUME PhoneInv, Next
  PROVE  ActiveInv'
<1> USE Rigid
<1>1. LinkOK /\ TaskOK /\ SosOK /\ WorldOK /\ ConnInv /\ ActiveInv /\ PhoneTypes
  BY DEF PhoneInv, PhoneTypes
<1>2. Nobody # Ticker /\ \A p \in Conns : By("hello", p) # Ticker  BY TaskFacts
<1>3. loop # Ticker => tick.todo = <<>>  BY <1>1 DEF ActiveInv
<1>4. CASE Connect \/ Break \/ AppReceives
  BY <1>1, <1>2, <1>4, QuietActive
  DEF Connect, Break, AppReceives, sosVars, tasks, missionVars
<1>5. CASE \E p \in Conns : Closed(p) \/ Expire(p) \/ Flush(p) \/ SendFails(p)
  BY <1>1, <1>2, <1>5, QuietActive
  DEF Closed, Expire, Flush, SendFails, sosVars, tasks, missionVars
<1>6. CASE \E p \in Conns : Hello(p)
  <2>1. PICK p \in Conns : Hello(p)  BY <1>6
  <2>2. /\ active' = active /\ world' = world /\ tick' = tick /\ tick.todo = <<>>
        /\ hello' = [hello EXCEPT ![p] = [at |-> "ack", todo |-> <<>>]]
    BY <1>2, <1>3, <2>1 DEF Hello, sosVars, missionVars
  <2>3. \A c \in Conns : hello'[c].at # "clears" => hello'[c].todo = <<>>
    BY <1>1, <2>2 DEF ActiveInv, TaskOK
  <2> QED  BY <1>1, <2>2, <2>3 DEF ActiveInv
<1>7. CASE \E p \in Conns : HelloStep(p)
  <2>1. PICK p \in Conns : HelloStep(p)  BY <1>7
  <2> DEFINE h == Rest(p)
  <2>2. active' = active /\ world' = world /\ tick' = tick /\ tick.todo = <<>>
    BY <1>2, <1>3, <2>1 DEF HelloStep, sosVars, missionVars
  <2>3. h \in Place
        /\ (h.at # "clears" => h = Asleep \/ (h.at = "requests" /\ h.todo = active /\ h.todo # <<>>))
    BY <1>1, RestFacts
  <2>4. hello \in [Conns -> Place]  BY <1>1 DEF TaskOK, Place
  <2>5. \E g \in Place :
          hello' = [hello EXCEPT ![p] = g] /\ (g.at # "clears" => g.todo = <<>>)
    <3>1. CASE h = Asleep /\ hello' = [hello EXCEPT ![p] = h]
      <4>1. h.todo = <<>>  BY <3>1 DEF Asleep
      <4> QED  BY <2>3, <3>1, <4>1
    <3>2. CASE h.todo # <<>> /\ hello' = [hello EXCEPT ![p] = [h EXCEPT !.todo = Tail(@)]]
      <4>1. h.todo \in Seq(SOS)  BY <2>3 DEF Place
      <4>2. Tail(h.todo) \in Seq(SOS)  BY <3>2, <4>1, TailFacts
      <4>3. h.at # "clears" => Tail(h.todo) = <<>>
        <5>1. h = Asleep => h.todo = <<>>  BY DEF Asleep
        <5>2. h.at # "clears" => h.todo = active /\ active # <<>>  BY <2>3, <3>2, <5>1
        <5>3. active # <<>> => Tail(active) = <<>>  BY <1>1, OneActive DEF ActiveInv
        <5> QED  BY <5>2, <5>3
      <4> HIDE DEF h
      <4> DEFINE g == [h EXCEPT !.todo = Tail(h.todo)]
      <4>4. g \in Place /\ g.at = h.at /\ g.todo = Tail(h.todo)  BY <2>3, <4>2, PlaceFacts
      <4>5. hello' = [hello EXCEPT ![p] = g]  BY <3>2
      <4> QED  BY <4>3, <4>4, <4>5
    <3> QED  BY <2>1, <3>1, <3>2 DEF HelloStep
  <2>6. PICK g \in Place :
          hello' = [hello EXCEPT ![p] = g] /\ (g.at # "clears" => g.todo = <<>>)
    BY <2>5
  <2>7. \A c \in Conns : hello'[c].at # "clears" => hello'[c].todo = <<>>
    BY <1>1, <2>4, <2>6 DEF ActiveInv
  <2> QED  BY <1>1, <2>2, <2>7 DEF ActiveInv
<1>8. CASE \E s \in SOS : Request(s)
  <2>1. PICK s \in SOS : Request(s)  BY <1>8
  <2>2. /\ tick' = tick /\ hello' = hello /\ tick.todo = <<>>
        /\ world' = [world EXCEPT ![s] = "open"] /\ active' = Append(active, s)
        /\ \A t \in SOS : world[t] # "open"
    BY <1>2, <1>3, <2>1 DEF Request, tasks
  <2>3. active = <<>>  BY <1>1, <2>2 DEF ActiveInv
  <2>4. active' = <<s>> /\ world'[s] = "open"  BY <1>1, <2>2, <2>3, OneActive DEF WorldOK
  <2> QED  BY <1>1, <2>2, <2>4 DEF ActiveInv
<1>9. CASE \E s \in SOS : Clear(s)
  <2>1. PICK s \in SOS : Clear(s)  BY <1>9
  <2>2. /\ tick' = tick /\ hello' = hello /\ tick.todo = <<>>
        /\ world' = [world EXCEPT ![s] = "closed"] /\ active' = Without(active, s)
    BY <1>2, <1>3, <2>1 DEF Clear, tasks
  <2>3. active' = <<>> \/ \E t \in SOS : active' = <<t>> /\ world'[t] = "open"
    <3>1. CASE active = <<>>
      <4>1. s \notin ToSet(active)  BY <3>1, EmptyFacts
      <4> QED  BY <2>2, <3>1, <4>1 DEF Without
    <3>2. CASE active # <<>>
      <4>1. PICK t \in SOS : active = <<t>> /\ world[t] = "open"  BY <1>1, <3>2 DEF ActiveInv
      <4>2. CASE t = s  BY <2>2, <4>1, <4>2, OneActive
      <4>3. CASE t # s
        <5>1. s \notin ToSet(active)  BY <4>1, <4>3, OneActive
        <5>2. active' = <<t>> /\ world'[t] = "open"
          BY <1>1, <2>2, <4>1, <4>3, <5>1 DEF Without, WorldOK
        <5> QED  BY <5>2
      <4> QED  BY <4>2, <4>3
    <3> QED  BY <3>1, <3>2
  <2> QED  BY <1>1, <2>2, <2>3 DEF ActiveInv
<1>10. CASE \E s \in SOS : Answer(s)
  BY <1>1, <1>2, <1>10, QuietActive DEF Answer, tasks
<1>11. CASE TickBegins
  BY <1>1, <1>2, <1>11 DEF TickBegins, ActiveInv, sosVars, missionVars
<1>12. CASE TickLink
  <2>1. tick'.todo = active /\ tick'.at = "sos" /\ loop' = Ticker /\ hello' = hello
        /\ active' = active /\ world' = world
    BY <1>12 DEF TickLink, sosVars, missionVars
  <2> QED  BY <1>1, <2>1 DEF ActiveInv
<1>13. CASE TickDue \/ TickPasses
  <2>1. hello' = hello /\ active' = active /\ world' = world
    BY <1>13 DEF TickDue, TickPasses, sosVars, missionVars
  <2>2. tick'.todo = <<>>
    <3>1. CASE tick' = Asleep  BY <3>1 DEF Asleep
    <3>2. CASE tick.todo # <<>> /\ tick' = [tick EXCEPT !.todo = Tail(@)]
      <4>1. tick.todo = active /\ active # <<>>  BY <1>1, <3>2 DEF ActiveInv
      <4>2. Tail(tick.todo) = <<>>  BY <1>1, <4>1, OneActive DEF ActiveInv
      <4> QED  BY <1>1, <3>2, <4>2 DEF TaskOK
    <3> QED  BY <1>13, <3>1, <3>2 DEF TickDue, TickPasses
  <2> QED  BY <1>1, <2>1, <2>2 DEF ActiveInv
<1>14. CASE BridgeRestarts
  <2>1. /\ tick'.todo = <<>> /\ active' = <<>>
        /\ \A c \in Conns : hello'[c].todo = <<>>
    BY <1>14 DEF BridgeRestarts, Asleep
  <2> QED  BY <2>1 DEF ActiveInv
<1> QED  BY <1>4, <1>5, <1>6, <1>7, <1>8, <1>9, <1>10, <1>11, <1>12, <1>13, <1>14 DEF Next

-----------------------------------------------------------------------------
(* What mission is told.                                                   *)

QuietSos == active' = active /\ info' = info /\ said' = said

LEMMA QuietTold ==
  ASSUME NEW s \in SOS, ToldInv(s), QuietSos
  PROVE  ToldInv(s)'
BY DEF ToldInv, QuietSos

LEMMA QuietNext ==
  ASSUME Next
  PROVE  \/ QuietSos /\ world' = world
         \/ \E r \in SOS : Request(r) \/ Clear(r) \/ Answer(r)
         \/ TickDue \/ BridgeRestarts
<1> USE DEF QuietSos, sosVars, missionVars
<1>1. Connect \/ Break \/ AppReceives => QuietSos /\ world' = world
  BY DEF Connect, Break, AppReceives
<1>2. TickBegins \/ TickLink \/ TickPasses => QuietSos /\ world' = world
  BY DEF TickBegins, TickLink, TickPasses
<1>3. \A p \in Conns : Hello(p) \/ HelloStep(p) => QuietSos /\ world' = world
  BY DEF Hello, HelloStep
<1>4. \A p \in Conns : Closed(p) \/ Expire(p) => QuietSos /\ world' = world
  BY DEF Closed, Expire
<1>5. \A p \in Conns : Flush(p) \/ SendFails(p) => QuietSos /\ world' = world
  BY DEF Flush, SendFails
<1> QED  BY <1>1, <1>2, <1>3, <1>4, <1>5 DEF Next

\* A word more for mission.
LEMMA SayFacts ==
  ASSUME WorldOK, NEW s \in SOS, NEW b \in BOOLEAN, said' = [said EXCEPT ![s] = Append(@, b)],
         NEW t \in SOS
  PROVE  /\ t # s => said'[t] = said[t]
         /\ Len(said'[s]) = Len(said[s]) + 1 /\ Len(said[s]) \in Nat
         /\ \A i \in 1 .. Len(said[s]) : said'[s][i] = said[s][i]
         /\ said'[s][Len(said[s]) + 1] = b
<1>1. said[s] \in Seq(BOOLEAN)  BY DEF WorldOK
<1>2. said'[s] = Append(said[s], b) /\ (t # s => said'[t] = said[t])  BY DEF WorldOK
<1> QED  BY <1>1, <1>2, AppendProperties, LenProperties

LEMMA ToldStep ==
  ASSUME PhoneInv, Next, NEW s \in SOS
  PROVE  ToldInv(s)'
<1>1. SosOK /\ WorldOK /\ TaskOK /\ ActiveInv /\ ToldInv(s) /\ WorldInv(s)
  BY DEF PhoneInv, PhoneTypes, SosInv
<1>2. active \in Seq(SOS) /\ info[s] \in Entry /\ info \in [SOS -> Entry]  BY <1>1 DEF SosOK
<1>3. said[s] \in Seq(BOOLEAN) /\ Len(said[s]) \in Nat
      /\ \A i \in 1 .. Len(said[s]) : said[s][i] \in BOOLEAN
  <2>1. said[s] \in Seq(BOOLEAN)  BY <1>1 DEF WorldOK
  <2> QED  BY <2>1, LenProperties, ElementOfSeq
<1>4. CASE QuietSos  BY <1>1, <1>4, QuietTold
<1>5. CASE \E r \in SOS : Request(r)
  <2>1. PICK r \in SOS : Request(r)  BY <1>5
  <2>2. /\ world[r] = "new" /\ active' = Append(active, r) /\ said' = said
        /\ info' = [info EXCEPT ![r] = [Fresh EXCEPT !.sends = 1]]
    BY <2>1 DEF Request, missionVars
  <2>3. ToSet(active') = ToSet(active) \cup {r}  BY <1>2, <2>2, AppendFacts
  <2>4. CASE s = r
    <3>1. said'[s] = <<>>  BY <1>1, <2>2, <2>4 DEF WorldInv
    <3>2. Len(said'[s]) = 0  BY <3>1, EmptyFacts
    <3> QED  BY <3>1, <3>2 DEF ToldInv
  <2>5. CASE s # r
    <3>1. info'[s] = info[s]  BY <1>2, <2>2, <2>5
    <3> QED  BY <1>1, <2>2, <2>3, <2>5, <3>1 DEF ToldInv
  <2> QED  BY <2>4, <2>5
<1>6. CASE \E r \in SOS : Clear(r)
  <2>1. PICK r \in SOS : Clear(r)  BY <1>6
  <2>2. /\ active' = Without(active, r) /\ info' = [info EXCEPT ![r] = Fresh] /\ said' = said
    BY <2>1 DEF Clear
  <2>3. ToSet(active') \subseteq ToSet(active)  BY <1>2, <2>2, WithoutFacts
  <2>4. r \notin ToSet(active')
    <3>1. CASE r \notin ToSet(active)  BY <2>3, <3>1
    <3>2. CASE r \in ToSet(active)
      <4>1. active # <<>>  BY <3>2, EmptyFacts
      <4>2. active = <<r>>  BY <1>1, <3>2, <4>1, OneActive DEF ActiveInv
      <4>3. active' = <<>>  BY <2>2, <4>2, OneActive
      <4> QED  BY <4>3, EmptyFacts
    <3> QED  BY <3>1, <3>2
  <2>5. s # r => info'[s] = info[s]  BY <1>2, <2>2
  <2> QED  BY <1>1, <2>2, <2>3, <2>4, <2>5 DEF ToldInv
<1>7. CASE \E r \in SOS : Answer(r)
  <2>1. PICK r \in SOS : Answer(r)  BY <1>7
  <2>2. active' = active  BY <2>1 DEF Answer
  <2>3. CASE r \notin ToSet(active)
    <3>1. QuietSos  BY <2>1, <2>2, <2>3 DEF Answer, QuietSos
    <3> QED  BY <1>1, <3>1, QuietTold
  <2>4. CASE r \in ToSet(active)
    <3>1. info' = [info EXCEPT ![r] = [info[r] EXCEPT !.acked = TRUE]]
      BY <2>1, <2>4, Zenon DEF Answer
    <3>2. [info[r] EXCEPT !.acked = TRUE].acked  BY <1>2, EntryFacts
    <3>3. said' = said \/ said' = [said EXCEPT ![r] = Append(@, TRUE)]
      BY <2>1, <2>4, Zenon DEF Answer
    <3>4. CASE s # r
      <4>1. info'[s] = info[s]  BY <1>2, <3>1, <3>4
      <4>2. said'[s] = said[s]  BY <1>1, <3>3, <3>4, SayFacts
      <4> QED  BY <1>1, <2>2, <4>1, <4>2 DEF ToldInv
    <3>5. CASE s = r
      <4>1. info'[s].acked  BY <1>2, <3>1, <3>2, <3>5
      <4>2. CASE said' = said  BY <1>1, <4>1, <4>2 DEF ToldInv
      <4>3. CASE said' = [said EXCEPT ![r] = Append(@, TRUE)]
        <5>1. /\ Len(said'[s]) = Len(said[s]) + 1 /\ Len(said[s]) \in Nat
              /\ \A i \in 1 .. Len(said[s]) : said'[s][i] = said[s][i]
              /\ said'[s][Len(said[s]) + 1] = TRUE
          BY <1>1, <3>5, <4>3, SayFacts
        <5>2. ASSUME NEW i \in 1 .. Len(said'[s]), ~said'[s][i] PROVE i = 1
          <6>1. i # Len(said[s]) + 1  BY <5>1, <5>2
          <6>2. i \in 1 .. Len(said[s])  BY <5>1, <6>1
          <6>3. ~said[s][i]  BY <5>1, <5>2, <6>2
          <6> QED  BY <1>1, <6>2, <6>3 DEF ToldInv
        <5> QED  BY <4>1, <5>2 DEF ToldInv
      <4> QED  BY <3>3, <4>2, <4>3
    <3> QED  BY <3>4, <3>5
  <2> QED  BY <2>3, <2>4
<1>8. CASE TickDue
  <2> DEFINE r == Head(tick.todo)
  <2>1. tick.todo # <<>> /\ active' = active /\ Due(r)  BY <1>8 DEF TickDue
  <2>2. tick.todo \in Seq(SOS) /\ tick.todo = active  BY <1>1, <2>1 DEF TaskOK, ActiveInv
  <2>3. r \in SOS /\ r \in ToSet(active)  BY <2>1, <2>2, TailFacts
  <2>4. \/ Attempted(r) /\ said' = said
        \/ FailedOnce(r) /\ said' = [said EXCEPT ![r] = Append(@, FALSE)]
    BY <1>8 DEF TickDue
  <2> HIDE DEF r
  <2>5. CASE Attempted(r) /\ said' = said
    <3>1. info' = [info EXCEPT ![r] = [info[r] EXCEPT !.sends = info[r].sends + 1]]
      BY <2>5, Zenon DEF Attempted
    <3>2. info[r] \in Entry  BY <1>2, <2>3
    <3>3. info'[s].acked = info[s].acked /\ info'[s].failed = info[s].failed
      <4>1. CASE s = r
        <5>1. info'[s] = [info[r] EXCEPT !.sends = info[r].sends + 1]  BY <1>2, <3>1, <4>1
        <5> QED  BY <3>2, <4>1, <5>1, EntryFacts
      <4>2. CASE s # r  BY <1>2, <3>1, <4>2
      <4> QED  BY <4>1, <4>2
    <3> QED  BY <1>1, <2>1, <2>5, <3>3 DEF ToldInv
  <2>6. CASE FailedOnce(r) /\ said' = [said EXCEPT ![r] = Append(@, FALSE)]
    <3>1. info' = [info EXCEPT ![r] = [info[r] EXCEPT !.failed = TRUE]]
      BY <2>6, Zenon DEF FailedOnce
    <3>2. CASE s # r
      <4>1. info'[s] = info[s]  BY <1>2, <3>1, <3>2
      <4>2. said'[s] = said[s]  BY <1>1, <2>3, <2>6, <3>2, SayFacts
      <4> QED  BY <1>1, <2>1, <4>1, <4>2 DEF ToldInv
    <3>3. CASE s = r
      <4>1. ~info[s].acked /\ ~info[s].failed /\ s \in ToSet(active)
        BY <2>1, <2>3, <3>3 DEF Due
      <4>2. said[s] = <<>>  BY <1>1, <4>1 DEF ToldInv
      <4>3. Len(said[s]) = 0  BY <4>2, EmptyFacts
      <4>4. Len(said'[s]) = Len(said[s]) + 1  BY <1>1, <2>3, <2>6, <3>3, SayFacts
      <4>5. Len(said'[s]) = 1  BY <4>3, <4>4
      <4>6. info'[s].failed
        <5>1. info'[s] = [info[r] EXCEPT !.failed = TRUE]  BY <1>2, <2>3, <3>1, <3>3
        <5> QED  BY <1>2, <3>3, <5>1, EntryFacts
      <4> QED  BY <4>5, <4>6 DEF ToldInv
    <3> QED  BY <3>2, <3>3
  <2> QED  BY <2>4, <2>5, <2>6
<1>9. CASE BridgeRestarts
  <2>1. active' = <<>> /\ said' = said  BY <1>9 DEF BridgeRestarts, missionVars
  <2>2. s \notin ToSet(active')  BY <2>1, EmptyFacts
  <2> QED  BY <1>1, <2>1, <2>2 DEF ToldInv
<1> QED  BY <1>4, <1>5, <1>6, <1>7, <1>8, <1>9, QuietNext

-----------------------------------------------------------------------------
(* What is under way about an SOS.                                         *)

MailInv(s) == WorldInv(s) /\ OrderInv(s) /\ ClearedInv(s)

LEMMA LetterRigid ==
  ASSUME NEW s \in SOS
  PROVE  /\ Ask(s) \in SosLetters /\ Close(s) \in SosLetters
         /\ Ask(s) \in Letters /\ Close(s) \in Letters
         /\ Ask(s)' = Ask(s) /\ Close(s)' = Close(s)
BY LetterFacts DEF Ask, Close, Msg

LEMMA ActiveOpen ==
  ASSUME PhoneTypes, ActiveInv, NEW s \in SOS, s \in ToSet(active)
  PROVE  world[s] = "open" /\ active = <<s>>
<1>1. active # <<>>  BY EmptyFacts
<1>2. PICK t \in SOS : active = <<t>> /\ world[t] = "open"  BY <1>1 DEF ActiveInv
<1> QED  BY <1>2, OneActive

\* A step that only sends, forgets or loses, and that sends a request only for an
\* open SOS and a clear only for a closed one.
LEMMA Frame ==
  ASSUME NEW s \in SOS, MailInv(s),
         world'[s] = world[s], world[s] = "new" => said'[s] = <<>>,
         shown' = shown, conn' = conn, wire' = wire,
         s \in ToSet(pending') => s \in ToSet(pending) \/ world[s] = "closed",
         s \in missed \cup ToSet(pending) => s \in missed' \cup ToSet(pending'),
         \A c \in Conns : InOut(c, Ask(s))' => InOut(c, Ask(s)) \/ world[s] = "open",
         \A c \in Conns : InOut(c, Close(s))' => InOut(c, Close(s)) \/ world[s] = "closed",
         \A c \in Conns : OutOrder(c, s) => OutOrder(c, s)',
         Accounted(s) => Accounted(s)' \/ s \in missed' \cup ToSet(pending'),
         \A c \in Conns : s \in ToSet(hello'[c].todo) =>
                            s \in ToSet(hello[c].todo) \/ world[s] = "closed",
         LinkOK
  PROVE  MailInv(s)'
<1>1. /\ InWire(Ask(s))' <=> InWire(Ask(s))
      /\ InWire(Close(s))' <=> InWire(Close(s))
      /\ WireOrder(s)' <=> WireOrder(s)
  BY DEF InWire, WireOrder, Ask, Close, Msg
<1>2. WorldInv(s) /\ OrderInv(s) /\ ClearedInv(s)  BY DEF MailInv
<1>3. WorldInv(s)'
  <2>1. world[s] = "new" => world[s] # "open" /\ world[s] # "closed"  OBVIOUS
  <2> QED  BY <1>1, <1>2, <2>1, Rigid DEF WorldInv
<1>4. OrderInv(s)'
  <2>1. InWire(Close(s)) => world[s] = "closed"  BY <1>2 DEF WorldInv
  <2>2. conn # None => conn \in Conns  BY DEF LinkOK
  <2>3. conn' # None /\ InWire(Close(s))' => ~InOut(conn, Ask(s))'
    BY <1>1, <1>2, <2>1, <2>2 DEF OrderInv
  <2>4. \A c \in Conns : OutOrder(c, s)'  BY <1>2 DEF OrderInv
  <2> QED  BY <1>1, <1>2, <2>3, <2>4, Rigid DEF OrderInv
<1>5. ClearedInv(s)'
  <2>1. SUFFICES ASSUME world[s] = "closed" PROVE ClearedInv(s)'  BY DEF ClearedInv
  <2>2. conn # None => conn \in Conns  BY DEF LinkOK
  <2>3. ~Coming(Ask(s)) => ~Coming(Ask(s))'  BY <1>1, <2>1, <2>2 DEF Coming
  <2> QED  BY <1>1, <1>2, <2>1, <2>3 DEF ClearedInv
<1> QED  BY <1>3, <1>4, <1>5 DEF MailInv

\* A coroutine sends a letter, or finds no session.
LEMMA FrameSend ==
  ASSUME NEW s \in SOS, MailInv(s), LinkOK, MailOK,
         NEW msg \in Letters, NEW by \in Tasks, SendActive(msg, by),
         msg = Ask(s) => world[s] = "open", msg = Close(s) => world[s] = "closed",
         world'[s] = world[s], world[s] = "new" => said'[s] = <<>>,
         shown' = shown, conn' = conn, wire' = wire,
         s \in ToSet(pending') => s \in ToSet(pending),
         s \in missed \cup ToSet(pending) => s \in missed' \cup ToSet(pending'),
         \A c \in Conns : s \in ToSet(hello'[c].todo) =>
                            s \in ToSet(hello[c].todo) \/ world[s] = "closed"
  PROVE  MailInv(s)'
<1>1. CASE ~Connected
  <2>1. out' = out  BY <1>1, SendTypes
  <2>2. /\ Accounted(s) => Accounted(s)'
        /\ \A c \in Conns : OutOrder(c, s) => OutOrder(c, s)'
        /\ \A c \in Conns : InOut(c, Ask(s))' => InOut(c, Ask(s))
        /\ \A c \in Conns : InOut(c, Close(s))' => InOut(c, Close(s))
    BY <2>1, Rigid DEF Accounted, OutOrder, InOut, Ask, Close, Msg
  <2> QED  BY <2>2, Frame
<1>2. CASE Connected
  <2>1. cur \in Conns /\ SendOn(cur, msg, by)  BY <1>2, SendTypes
  <2>2. /\ \A c \in Conns, m \in Letters : InOut(c, m)' <=> InOut(c, m) \/ (c = cur /\ m = msg)
        /\ Accounted(s) => Accounted(s)'
        /\ \A c \in Conns : OutOrder(c, s) /\ (c = cur /\ msg = Ask(s) => ~InOut(cur, Close(s)))
                              => OutOrder(c, s)'
    BY <2>1, PostFacts
  <2>3. world[s] = "open" => ~InOut(cur, Close(s))  BY <2>1 DEF MailInv, WorldInv
  <2>4. \A c \in Conns : OutOrder(c, s) => OutOrder(c, s)'  BY <2>2, <2>3
  <2>5. \A c \in Conns : InOut(c, Ask(s))' => InOut(c, Ask(s)) \/ world[s] = "open"
    BY <2>2, LetterRigid
  <2>6. \A c \in Conns : InOut(c, Close(s))' => InOut(c, Close(s)) \/ world[s] = "closed"
    BY <2>2, LetterRigid
  <2> QED  BY <2>2, <2>4, <2>5, <2>6, Frame
<1> QED  BY <1>1, <1>2

\* Nothing is sent.
LEMMA FrameQuiet ==
  ASSUME NEW s \in SOS, MailInv(s), LinkOK,
         world' = world, world[s] = "new" => said'[s] = said[s],
         shown' = shown, conn' = conn, wire' = wire, out' = out,
         pending' = pending, missed' = missed, hello' = hello
  PROVE  MailInv(s)'
<1>1. /\ Accounted(s) => Accounted(s)'
      /\ \A c \in Conns : OutOrder(c, s) => OutOrder(c, s)'
      /\ \A c \in Conns : InOut(c, Ask(s))' => InOut(c, Ask(s))
      /\ \A c \in Conns : InOut(c, Close(s))' => InOut(c, Close(s))
  BY Rigid DEF Accounted, OutOrder, InOut, Ask, Close, Msg
<1>2. world[s] = "new" => said'[s] = <<>>  BY DEF MailInv, WorldInv
<1> QED  BY <1>1, <1>2, Frame

\* The app's connection goes, and a new one has nothing to send.
LEMMA DropMail ==
  ASSUME NEW s \in SOS, MailInv(s), LinkOK, MailOK, missed \in SUBSET SOS, DropConn,
         world' = world, said' = said, shown' = shown, out' = out, pending' = pending,
         hello' = hello, conn' # None => conn' \in Conns /\ out[conn'] = <<>>
  PROVE  MailInv(s)'
<1>1. /\ \A m \in SosLetters : ~InWire(m)'
      /\ WireOrder(s)' /\ missed \subseteq missed' /\ (InWire(Close(s)) => s \in missed')
  BY DropFacts DEF MailOK
<1>2. ~InWire(Ask(s))' /\ ~InWire(Close(s))'  BY <1>1, LetterRigid
<1>3. /\ Accounted(s) => Accounted(s)'
      /\ \A c \in Conns : OutOrder(c, s) => OutOrder(c, s)'
      /\ \A c \in Conns : InOut(c, Ask(s))' <=> InOut(c, Ask(s))
      /\ \A c \in Conns : InOut(c, Close(s))' <=> InOut(c, Close(s))
  BY Rigid DEF Accounted, OutOrder, InOut, Ask, Close, Msg
<1>4. WorldInv(s) /\ OrderInv(s) /\ ClearedInv(s)  BY DEF MailInv
<1>5. WorldInv(s)'  BY <1>2, <1>3, <1>4, Rigid DEF WorldInv
<1>6. OrderInv(s)'  BY <1>1, <1>2, <1>3, <1>4, Rigid DEF OrderInv
<1>7. ~Coming(Ask(s))'
  <2>1. conn' # None => ~InOut(conn, Ask(s))'
    <3>1. SUFFICES ASSUME conn' # None PROVE ~InOut(conn, Ask(s))'  OBVIOUS
    <3>2. Len(out'[conn']) = 0  BY <3>1, EmptyFacts
    <3> QED  BY <3>2 DEF InOut
  <2> QED  BY <1>2, <2>1 DEF Coming
<1>8. ClearedInv(s)'  BY <1>1, <1>3, <1>4, <1>7 DEF ClearedInv
<1> QED  BY <1>5, <1>6, <1>8 DEF MailInv

\* The calls of mission.
LEMMA RequestMail ==
  ASSUME PhoneInv, NEW r \in SOS, Request(r), NEW s \in SOS
  PROVE  MailInv(s)'
<1>1. /\ LinkOK /\ TaskOK /\ MailOK /\ SosOK /\ WorldOK /\ ActiveInv /\ ConnInv /\ MailInv(s)
  BY DEF PhoneInv, PhoneTypes, SosInv, MailInv
<1>2. Ask(r) \in Letters /\ By("request", r) \in Tasks /\ Ask(r) # Close(s) /\ (Ask(r) = Ask(s) => r = s)
  BY LetterFacts, TaskFacts
<1>3. SendActive(Ask(r), By("request", r))  BY DEF Request, Ask
<1>4. /\ world[r] = "new" /\ world' = [world EXCEPT ![r] = "open"]
      /\ pending' = Without(pending, r) /\ missed' = missed /\ said' = said /\ hello' = hello
      /\ shown' = shown /\ conn' = conn /\ wire' = wire
  BY DEF Request, tasks, appVars
<1>5. pending \in Seq(SOS)  BY <1>1 DEF SosOK
<1>6. ToSet(pending) \subseteq ToSet(pending') \cup {r} /\ ToSet(pending') \subseteq ToSet(pending)
  BY <1>4, <1>5, WithoutFacts
<1>7. CASE s # r
  <2>1. world'[s] = world[s]  BY <1>1, <1>4, <1>7 DEF WorldOK
  <2>2. world[s] = "new" => said'[s] = <<>>  BY <1>1, <1>4 DEF MailInv, WorldInv
  <2> QED  BY <1>1, <1>2, <1>3, <1>4, <1>6, <1>7, <2>1, <2>2, FrameSend
<1>8. CASE s = r
  <2>1. WorldInv(s) /\ OrderInv(s)  BY <1>1 DEF MailInv
  <2>2. world'[s] = "open"  BY <1>1, <1>4, <1>8 DEF WorldOK
  <2>3. /\ ~InWire(Close(s)) /\ s \notin ToSet(pending)
        /\ \A c \in Conns : ~InOut(c, Close(s)) /\ s \notin ToSet(hello[c].todo)
    BY <1>4, <1>8, <2>1 DEF WorldInv
  <2>4. /\ \A c \in Conns : ~InOut(c, Close(s))'
        /\ \A c \in Conns : OutOrder(c, s)'
    <3>1. CASE Connected
      <4>1. cur \in Conns /\ SendOn(cur, Ask(r), By("request", r))
        BY <1>1, <1>2, <1>3, <3>1, SendTypes
      <4>2. /\ \A c \in Conns, m \in Letters :
                 InOut(c, m)' <=> InOut(c, m) \/ (c = cur /\ m = Ask(r))
            /\ \A c \in Conns :
                 OutOrder(c, s) /\ (c = cur /\ Ask(r) = Ask(s) => ~InOut(cur, Close(s)))
                   => OutOrder(c, s)'
        BY <1>1, <1>2, <4>1, PostFacts
      <4>3. \A c \in Conns : ~InOut(c, Close(s))'  BY <1>2, <2>3, <4>2, LetterRigid
      <4> QED  BY <2>1, <2>3, <4>1, <4>2, <4>3 DEF OrderInv
    <3>2. CASE ~Connected
      <4>1. out' = out  BY <1>1, <1>2, <1>3, <3>2, SendTypes
      <4>2. /\ \A c \in Conns : InOut(c, Close(s))' <=> InOut(c, Close(s))
            /\ \A c \in Conns : OutOrder(c, s)' <=> OutOrder(c, s)
        BY <4>1 DEF InOut, OutOrder, Ask, Close, Msg
      <4> QED  BY <2>1, <2>3, <4>2 DEF OrderInv
    <3> QED  BY <3>1, <3>2
  <2>5. ~InWire(Close(s))' /\ WireOrder(s)'
    <3>1. (InWire(Close(s))' <=> InWire(Close(s))) /\ (WireOrder(s)' <=> WireOrder(s))
      BY <1>4 DEF InWire, WireOrder, Ask, Close, Msg
    <3> QED  BY <2>1, <2>3, <3>1 DEF OrderInv
  <2>6. s \notin ToSet(pending') /\ \A c \in Conns : s \notin ToSet(hello'[c].todo)
    BY <1>4, <1>6, <2>3
  <2>7. WorldInv(s)'  BY <2>2, <2>4, <2>5, <2>6, Rigid DEF WorldInv
  <2>8. OrderInv(s)'  BY <2>4, <2>5, Rigid DEF OrderInv
  <2>9. ClearedInv(s)'  BY <2>2 DEF ClearedInv
  <2> QED  BY <2>7, <2>8, <2>9 DEF MailInv
<1> QED  BY <1>7, <1>8

LEMMA ClearMail ==
  ASSUME PhoneInv, NEW r \in SOS, Clear(r), NEW s \in SOS
  PROVE  MailInv(s)'
<1> DEFINE b == By(IF r \in ToSet(active) THEN "clear" ELSE "stray", r)
<1>1. /\ LinkOK /\ TaskOK /\ MailOK /\ SosOK /\ WorldOK /\ ActiveInv /\ ConnInv /\ MailInv(s)
      /\ missed \in SUBSET SOS
  BY DEF PhoneInv, PhoneTypes, SosInv, MailInv, AppOK
<1>2. /\ Close(r) \in Letters /\ b \in Tasks /\ b.task \in {"clear", "stray"}
      /\ Close(r) # Ask(s) /\ (Close(r) = Close(s) => r = s)
  BY LetterFacts, TaskFacts
<1>3. SendActive(Close(r), b)  BY DEF Clear, Close
<1> HIDE DEF b
<1>4. /\ world[r] = "open" /\ world' = [world EXCEPT ![r] = "closed"]
      /\ said' = said /\ hello' = hello
      /\ shown' = shown /\ conn' = conn /\ wire' = wire
  BY DEF Clear, tasks, appVars
<1>5. /\ ToSet(pending') \subseteq ToSet(pending) \cup {r}
      /\ missed \cup ToSet(pending) \subseteq missed' \cup ToSet(pending')
      /\ ~Connected => r \in missed' \cup ToSet(pending')
  <2>1. CASE Connected /\ UNCHANGED <<pending, missed>>  BY <2>1
  <2>2. CASE Keep(r)  BY <1>1, <2>2, KeepFacts
  <2>3. CASE UNCHANGED pending /\ missed' = missed \cup {r}  BY <2>3
  <2> QED  BY <2>1, <2>2, <2>3 DEF Clear
<1>6. CASE s # r
  <2>1. world'[s] = world[s]  BY <1>1, <1>4, <1>6 DEF WorldOK
  <2>2. world[s] = "new" => said'[s] = <<>>  BY <1>1, <1>4 DEF MailInv, WorldInv
  <2> QED  BY <1>1, <1>2, <1>3, <1>4, <1>5, <1>6, <2>1, <2>2, FrameSend
<1>7. CASE s = r
  <2>1. WorldInv(s) /\ OrderInv(s)  BY <1>1 DEF MailInv
  <2>2. world'[s] = "closed"  BY <1>1, <1>4, <1>7 DEF WorldOK
  <2>3. (Connected => Accounted(s)') /\ \A c \in Conns : OutOrder(c, s)'
    <3>1. CASE Connected
      <4>1. cur \in Conns /\ SendOn(cur, Close(r), b)
        BY <1>1, <1>2, <1>3, <3>1, SendTypes
      <4>2. Accounted(s)'  BY <1>1, <1>2, <1>7, <4>1, PostFacts
      <4>3. \A c \in Conns : OutOrder(c, s) => OutOrder(c, s)'
        BY <1>1, <1>2, <4>1, PostFacts
      <4> QED  BY <2>1, <4>2, <4>3 DEF OrderInv
    <3>2. CASE ~Connected
      <4>1. out' = out  BY <1>1, <1>2, <1>3, <3>2, SendTypes
      <4>2. \A c \in Conns : OutOrder(c, s)' <=> OutOrder(c, s)
        BY <4>1 DEF OutOrder, Ask, Close, Msg
      <4> QED  BY <2>1, <3>2, <4>2 DEF OrderInv
    <3> QED  BY <3>1, <3>2
  <2>4. ~InWire(Close(s))' /\ WireOrder(s)'
    <3>1. (InWire(Close(s))' <=> InWire(Close(s))) /\ (WireOrder(s)' <=> WireOrder(s))
      BY <1>4 DEF InWire, WireOrder, Ask, Close, Msg
    <3>2. ~InWire(Close(s))  BY <1>4, <1>7, <2>1 DEF WorldInv
    <3> QED  BY <2>1, <3>1, <3>2 DEF OrderInv
  <2>5. WorldInv(s)'  BY <2>2 DEF WorldInv
  <2>6. OrderInv(s)'  BY <2>3, <2>4, Rigid DEF OrderInv
  <2>7. ClearedInv(s)'  BY <1>5, <1>7, <2>3 DEF ClearedInv
  <2> QED  BY <2>5, <2>6, <2>7 DEF MailInv
<1> QED  BY <1>6, <1>7

\* The hello of a session.
LEMMA HelloMail ==
  ASSUME PhoneInv, NEW p \in Conns, Hello(p), NEW s \in SOS
  PROVE  MailInv(s)'
<1> DEFINE msg == Msg("hello.ack", None)
           b == By("hello", p)
<1>1. /\ LinkOK /\ TaskOK /\ MailOK /\ MailInv(s)
  BY DEF PhoneInv, PhoneTypes, SosInv, MailInv
<1>2. msg \in Letters /\ b \in Tasks /\ msg # Ask(s) /\ msg # Close(s)
  BY LetterFacts, TaskFacts
<1>3. /\ SendOn(p, msg, b) /\ hello' = [hello EXCEPT ![p] = [at |-> "ack", todo |-> <<>>]]
      /\ world' = world /\ said' = said /\ shown' = shown /\ conn' = conn /\ wire' = wire
      /\ pending' = pending /\ missed' = missed
  BY DEF Hello, sosVars, missionVars, appVars
<1> HIDE DEF msg, b
<1>4. /\ \A c \in Conns, m \in Letters : InOut(c, m)' <=> InOut(c, m) \/ (c = p /\ m = msg)
      /\ Accounted(s) => Accounted(s)'
      /\ \A c \in Conns : OutOrder(c, s) /\ (c = p /\ msg = Ask(s) => ~InOut(p, Close(s)))
                            => OutOrder(c, s)'
  BY <1>1, <1>2, <1>3, PostFacts
<1>5. \A c \in Conns : InOut(c, Ask(s))' => InOut(c, Ask(s))  BY <1>2, <1>4, LetterRigid
<1>6. \A c \in Conns : InOut(c, Close(s))' => InOut(c, Close(s))  BY <1>2, <1>4, LetterRigid
<1>7. \A c \in Conns : s \in ToSet(hello'[c].todo) => s \in ToSet(hello[c].todo)
  <2>1. s \notin ToSet(<<>>)  BY EmptyFacts
  <2> QED  BY <1>1, <1>3, <2>1 DEF TaskOK
<1>8. world[s] = "new" => said'[s] = <<>>  BY <1>1, <1>3 DEF MailInv, WorldInv
<1> QED  BY <1>1, <1>2, <1>3, <1>4, <1>5, <1>6, <1>7, <1>8, Frame

LEMMA HelloStepMail ==
  ASSUME PhoneInv, NEW p \in Conns, HelloStep(p), NEW s \in SOS
  PROVE  MailInv(s)'
<1> DEFINE h == Rest(p)
           msg == Msg(IF h.at = "clears" THEN "sos.clear" ELSE "sos.request", Head(h.todo))
<1>1. /\ LinkOK /\ TaskOK /\ MailOK /\ SosOK /\ MailInv(s) /\ PhoneTypes /\ ActiveInv
  BY DEF PhoneInv, PhoneTypes, SosInv, MailInv
<1>2. /\ world' = world /\ said' = said /\ shown' = shown /\ conn' = conn /\ wire' = wire
      /\ pending' = pending /\ missed' = missed
  BY DEF HelloStep, sosVars, missionVars, appVars
<1>3. world[s] = "new" => said'[s] = <<>>  BY <1>1, <1>2 DEF MailInv, WorldInv
<1>4. hello \in [Conns -> Place] /\ loop \in Tasks  BY <1>1 DEF TaskOK, Place
<1>5. CASE h = Asleep /\ hello' = [hello EXCEPT ![p] = h] /\ UNCHANGED out
  <2>1. /\ Accounted(s) => Accounted(s)'
        /\ \A c \in Conns : OutOrder(c, s) => OutOrder(c, s)'
        /\ \A c \in Conns : InOut(c, Ask(s))' => InOut(c, Ask(s))
        /\ \A c \in Conns : InOut(c, Close(s))' => InOut(c, Close(s))
    BY <1>5, Rigid DEF Accounted, OutOrder, InOut, Ask, Close, Msg
  <2>2. s \notin ToSet(h.todo)
    <3>1. h.todo = <<>>  BY <1>5 DEF Asleep
    <3> QED  BY <3>1, EmptyFacts
  <2> HIDE DEF h
  <2>3. \A c \in Conns : s \in ToSet(hello'[c].todo) => s \in ToSet(hello[c].todo)
    BY <1>4, <1>5, <2>2
  <2> QED  BY <1>1, <1>2, <1>3, <2>1, <2>3, Frame
<1>6. CASE /\ h.todo # <<>> /\ SendActive(msg, loop)
           /\ hello' = [hello EXCEPT ![p] = [h EXCEPT !.todo = Tail(@)]]
  <2> DEFINE r == Head(h.todo)
  <2>1. /\ h \in Place
        /\ \/ h = hello[p] /\ h.at = "clears"
           \/ h.at = "clears" /\ h.todo = pending
           \/ h.at = "requests" /\ h.todo = active /\ h.todo # <<>>
           \/ h = Asleep
    BY <1>1, RestFacts
  <2>2. h # Asleep  BY <1>6 DEF Asleep
  <2>3. h.todo \in Seq(SOS)  BY <2>1 DEF Place
  <2>4. r \in SOS /\ Tail(h.todo) \in Seq(SOS) /\ ToSet(h.todo) = ToSet(Tail(h.todo)) \cup {r}
    BY <1>6, <2>3, TailFacts
  <2>5. msg = IF h.at = "clears" THEN Close(r) ELSE Ask(r)  BY DEF Ask, Close
  <2>6. msg \in Letters  BY <2>4, <2>5, LetterFacts
  <2> HIDE DEF msg
  <2>7. h.at = "clears" => \A t \in ToSet(h.todo) :
          t \in ToSet(hello[p].todo) \/ t \in ToSet(pending)
    BY <2>1, <2>2
  <2>8. s \in ToSet(hello[p].todo) \/ s \in ToSet(pending) => world[s] = "closed"
    BY <1>1 DEF MailInv, WorldInv
  <2>9. CASE h.at = "clears"
    <3>1. msg = Close(r)  BY <2>5, <2>9
    <3>2. msg # Ask(s) /\ (msg = Close(s) => s \in ToSet(h.todo))
      BY <2>4, <3>1, LetterFacts
    <3>3. msg = Close(s) => world[s] = "closed"  BY <2>7, <2>8, <2>9, <3>2
    <3>4. s \in ToSet(Tail(h.todo)) => world[s] = "closed"  BY <2>4, <2>7, <2>8, <2>9
    <3> HIDE DEF h
    <3> DEFINE g == [h EXCEPT !.todo = Tail(h.todo)]
    <3>5. g.todo = Tail(h.todo) /\ g \in Place
      <4>1. Tail(h.todo) \in Seq(SOS) /\ h \in Place  BY <2>1, <2>4
      <4> QED  BY <4>1 DEF Place
    <3>6. hello' = [hello EXCEPT ![p] = g]  BY <1>6
    <3> HIDE DEF g
    <3>7. \A c \in Conns : s \in ToSet(hello'[c].todo) =>
                             s \in ToSet(hello[c].todo) \/ world[s] = "closed"
      BY <1>4, <3>4, <3>5, <3>6
    <3> QED  BY <1>1, <1>2, <1>3, <1>4, <1>6, <2>6, <3>2, <3>3, <3>7, FrameSend
  <2>10. CASE h.at # "clears"
    <3>1. msg = Ask(r) /\ h.todo = active  BY <2>1, <2>2, <2>5, <2>10
    <3>2. r \in ToSet(active)  BY <2>4, <3>1
    <3>3. world[r] = "open" /\ active = <<r>>  BY <1>1, <2>4, <3>2, ActiveOpen
    <3>4. msg # Close(s) /\ (msg = Ask(s) => r = s)  BY <2>4, <3>1, LetterFacts
    <3>5. msg = Ask(s) => world[s] = "open"  BY <3>3, <3>4
    <3>6. Tail(h.todo) = <<>>  BY <2>4, <3>1, <3>3, OneActive
    <3>7. s \notin ToSet(Tail(h.todo))  BY <3>6, EmptyFacts
    <3> HIDE DEF h
    <3> DEFINE g == [h EXCEPT !.todo = Tail(h.todo)]
    <3>8. g.todo = Tail(h.todo) /\ g \in Place
      <4>1. Tail(h.todo) \in Seq(SOS) /\ h \in Place  BY <2>1, <2>4
      <4> QED  BY <4>1 DEF Place
    <3>9. hello' = [hello EXCEPT ![p] = g]  BY <1>6
    <3> HIDE DEF g
    <3>10. \A c \in Conns : s \in ToSet(hello'[c].todo) => s \in ToSet(hello[c].todo)
      BY <1>4, <3>7, <3>8, <3>9
    <3> QED  BY <1>1, <1>2, <1>3, <1>4, <1>6, <2>6, <3>4, <3>5, <3>10, FrameSend
  <2> QED  BY <2>9, <2>10
<1> QED  BY <1>5, <1>6 DEF HelloStep

\* A tick, and the answers of the app.
LEMMA TickMail ==
  ASSUME PhoneInv, TickBegins \/ TickLink \/ TickDue \/ TickPasses \/ \E r \in SOS : Answer(r),
         NEW s \in SOS
  PROVE  MailInv(s)'
<1>1. /\ LinkOK /\ TaskOK /\ MailOK /\ SosOK /\ WorldOK /\ MailInv(s) /\ PhoneTypes /\ ActiveInv
  BY DEF PhoneInv, PhoneTypes, SosInv, MailInv
<1>2. /\ world' = world /\ shown' = shown /\ conn' = conn /\ wire' = wire
      /\ pending' = pending /\ missed' = missed /\ hello' = hello
  BY DEF TickBegins, TickLink, TickDue, TickPasses, Answer, sosVars, missionVars, appVars, tasks
<1>3. Ticker \in Tasks  BY TaskFacts
<1>4. CASE TickBegins
  <2>1. said' = said  BY <1>4 DEF TickBegins, missionVars
  <2>2. CASE UNCHANGED out  BY <1>1, <1>2, <2>1, <2>2, FrameQuiet
  <2>3. CASE SendActive(Msg("robot.status", None), Ticker)
    <3> DEFINE msg == Msg("robot.status", None)
    <3>1. msg \in Letters /\ msg # Ask(s) /\ msg # Close(s)  BY LetterFacts
    <3>2. SendActive(msg, Ticker)  BY <2>3
    <3> HIDE DEF msg
    <3>3. world[s] = "new" => said'[s] = <<>>  BY <1>1, <2>1 DEF MailInv, WorldInv
    <3> QED  BY <1>1, <1>2, <1>3, <3>1, <3>2, <3>3, FrameSend
  <2> QED  BY <1>4, <2>2, <2>3 DEF TickBegins
<1>5. CASE TickLink  BY <1>1, <1>2, <1>5, FrameQuiet DEF TickLink, missionVars
<1>6. CASE TickPasses  BY <1>1, <1>2, <1>6, FrameQuiet DEF TickPasses, missionVars
<1>7. CASE TickDue
  <2> DEFINE r == Head(tick.todo)
  <2>1. tick.todo # <<>>  BY <1>7 DEF TickDue
  <2>2. tick.todo \in Seq(SOS) /\ tick.todo = active  BY <1>1, <2>1 DEF TaskOK, ActiveInv
  <2>3. r \in SOS /\ r \in ToSet(active)  BY <2>1, <2>2, TailFacts
  <2>4. \/ SendActive(Msg("sos.request", r), Ticker) /\ UNCHANGED said
        \/ said' = [said EXCEPT ![r] = Append(@, FALSE)] /\ UNCHANGED out
    BY <1>7 DEF TickDue
  <2> HIDE DEF r
  <2>5. world[r] = "open"  BY <1>1, <2>3, ActiveOpen
  <2>6. CASE SendActive(Msg("sos.request", r), Ticker) /\ UNCHANGED said
    <3>1. SendActive(Ask(r), Ticker)  BY <2>6 DEF Ask
    <3>2. Ask(r) \in Letters /\ Ask(r) # Close(s) /\ (Ask(r) = Ask(s) => r = s)
      BY <2>3, LetterFacts
    <3>3. Ask(r) = Ask(s) => world[s] = "open"  BY <2>5, <3>2
    <3>4. world[s] = "new" => said'[s] = <<>>  BY <1>1, <2>6 DEF MailInv, WorldInv
    <3> QED  BY <1>1, <1>2, <1>3, <3>1, <3>2, <3>3, <3>4, FrameSend
  <2>7. CASE said' = [said EXCEPT ![r] = Append(@, FALSE)] /\ UNCHANGED out
    <3>1. world[s] = "new" => said'[s] = said[s]
      <4>1. world[s] = "new" => s # r  BY <2>5
      <4> QED  BY <1>1, <2>7, <4>1 DEF WorldOK
    <3> QED  BY <1>1, <1>2, <2>7, <3>1, FrameQuiet
  <2> QED  BY <2>4, <2>6, <2>7
<1>8. CASE \E r \in SOS : Answer(r)
  <2>1. PICK r \in SOS : Answer(r)  BY <1>8
  <2>2. out' = out  BY <2>1 DEF Answer
  <2>3. world[s] = "new" => said'[s] = said[s]
    <3>1. CASE r \in ToSet(active)
      <4>1. world[r] = "open"  BY <1>1, <3>1, ActiveOpen
      <4>2. world[s] = "new" => s # r  BY <4>1
      <4>3. said' = said \/ said' = [said EXCEPT ![r] = Append(@, TRUE)]
        BY <2>1, <3>1, Zenon DEF Answer
      <4> QED  BY <1>1, <4>2, <4>3 DEF WorldOK
    <3>2. CASE r \notin ToSet(active)  BY <2>1, <3>2 DEF Answer
    <3> QED  BY <3>1, <3>2
  <2> QED  BY <1>1, <1>2, <2>2, <2>3, FrameQuiet
<1> QED  BY <1>4, <1>5, <1>6, <1>7, <1>8

\* Connections come and go.
LEMMA ConnMail ==
  ASSUME PhoneInv, NEW s \in SOS,
         Connect \/ Break \/ \E p \in Conns : Closed(p) \/ Expire(p)
  PROVE  MailInv(s)'
<1>1. /\ LinkOK /\ MailOK /\ ConnInv /\ MailInv(s) /\ missed \in SUBSET SOS
  BY DEF PhoneInv, PhoneTypes, SosInv, MailInv, AppOK
<1>2. /\ world' = world /\ said' = said /\ shown' = shown /\ out' = out
      /\ pending' = pending /\ hello' = hello
  BY DEF Connect, Break, Closed, Expire, sosVars, missionVars, appVars, tasks
<1>3. CASE Connect
  <2>1. conn' \in Conns /\ session[conn'] = "none" /\ DropConn
    BY <1>1, <1>3, OpenedFacts DEF Connect
  <2>2. out[conn'] = <<>>  BY <1>1, <2>1 DEF ConnInv
  <2> QED  BY <1>1, <1>2, <2>1, <2>2, DropMail
<1>4. CASE Break  BY <1>1, <1>2, <1>4, DropMail DEF Break
<1>5. CASE \E p \in Conns : Closed(p)
  <2>1. conn' = conn /\ wire' = wire /\ missed' = missed  BY <1>5 DEF Closed, appVars
  <2> QED  BY <1>1, <1>2, <2>1, FrameQuiet
<1>6. CASE \E p \in Conns : Expire(p)
  <2>1. PICK p \in Conns : Expire(p)  BY <1>6
  <2>2. CASE conn = p
    <3>1. conn' = None /\ DropConn  BY <2>1, <2>2 DEF Expire
    <3> QED  BY <1>1, <1>2, <3>1, DropMail
  <2>3. CASE conn # p
    <3>1. conn' = conn /\ wire' = wire /\ missed' = missed  BY <2>1, <2>3 DEF Expire
    <3> QED  BY <1>1, <1>2, <3>1, FrameQuiet
  <2> QED  BY <2>2, <2>3
<1> QED  BY <1>3, <1>4, <1>5, <1>6

\* A send fails, or completes into a connection the app has left.
LEMMA LostMail ==
  ASSUME PhoneInv, NEW p \in Conns, SendFails(p) \/ (Flush(p) /\ conn # p), NEW s \in SOS
  PROVE  MailInv(s)'
<1> DEFINE e == Head(out[p])
<1>1. /\ LinkOK /\ MailOK /\ SosOK /\ MailInv(s) /\ missed \in SUBSET SOS
  BY DEF PhoneInv, PhoneTypes, SosInv, MailInv, AppOK
<1>2. /\ world' = world /\ said' = said /\ shown' = shown /\ conn' = conn /\ wire' = wire
      /\ hello' = hello
      /\ out[p] # <<>> /\ out' = [out EXCEPT ![p] = Tail(@)]
  BY DEF SendFails, Flush, missionVars, appVars
<1>3. \E sent \in BOOLEAN : Resume(p, e, sent) /\ (sent => conn # p)
  BY DEF SendFails, Flush
<1>4. /\ e \in Posts /\ e.msg \in Letters /\ InOut(p, e.msg)
      /\ \A c \in Conns, m \in Letters : InOut(c, m)' => InOut(c, m)
      /\ Accounted(s) => Accounted(s)' \/ (e.msg = Close(s) /\ e.by.task \in {"clear", "stray"})
      /\ \A c \in Conns : OutOrder(c, s) => OutOrder(c, s)'
  BY <1>1, <1>2, TakeFacts
<1> HIDE DEF e
<1>5. PICK sent \in BOOLEAN : Resume(p, e, sent) /\ (sent => conn # p)  BY <1>3
<1>6. /\ missed \subseteq missed'
      /\ s \in ToSet(pending) =>
           s \in missed' \cup ToSet(pending') \/ (e.msg = Close(s) /\ sent)
      /\ s \in ToSet(pending') => s \in ToSet(pending) \/ e.msg = Close(s)
      /\ e.msg = Close(s) /\ e.by.task \in {"clear", "stray"} /\ ~sent =>
           s \in missed' \cup ToSet(pending')
      /\ e.msg = Close(s) /\ sent /\ conn # p => s \in missed'
  BY <1>1, <1>4, <1>5, ResumeFacts
<1>7. e.msg = Close(s) => world[s] = "closed"
  <2>1. e.msg = Close(s) => InOut(p, Close(s))  BY <1>4
  <2> QED  BY <1>1, <2>1 DEF MailInv, WorldInv, WorldOK
<1>8. s \in ToSet(pending') => s \in ToSet(pending) \/ world[s] = "closed"  BY <1>6, <1>7
<1>9. s \in missed \cup ToSet(pending) => s \in missed' \cup ToSet(pending')  BY <1>5, <1>6
<1>10. Accounted(s) => Accounted(s)' \/ s \in missed' \cup ToSet(pending')
  BY <1>4, <1>5, <1>6
<1>11. /\ \A c \in Conns : InOut(c, Ask(s))' => InOut(c, Ask(s))
       /\ \A c \in Conns : InOut(c, Close(s))' => InOut(c, Close(s))
  BY <1>4, LetterRigid
<1>12. world[s] = "new" => said'[s] = <<>>  BY <1>1, <1>2 DEF MailInv, WorldInv
<1> QED  BY <1>1, <1>2, <1>4, <1>8, <1>9, <1>10, <1>11, <1>12, Frame

\* A send completes on the app's connection: the letter is on the wire, behind the
\* others and before those that still wait.
LEMMA FlushMail ==
  ASSUME PhoneInv, NEW p \in Conns, Flush(p), conn = p, NEW s \in SOS
  PROVE  MailInv(s)'
<1> DEFINE e == Head(out[p])
<1>1. /\ LinkOK /\ MailOK /\ SosOK /\ WorldInv(s) /\ OrderInv(s) /\ ClearedInv(s)
      /\ missed \in SUBSET SOS
  BY DEF PhoneInv, PhoneTypes, SosInv, AppOK
<1>2. /\ world' = world /\ said' = said /\ shown' = shown /\ conn' = conn
      /\ hello' = hello /\ conn # None
      /\ out[p] # <<>> /\ out' = [out EXCEPT ![p] = Tail(@)]
      /\ wire' = IF e.msg.sos # None THEN Append(wire, e.msg) ELSE wire
      /\ Resume(p, e, TRUE)
  BY ConstantFacts DEF Flush, missionVars
<1>3. /\ e \in Posts /\ e.msg \in Letters /\ InOut(p, e.msg)
      /\ \A c \in Conns, m \in Letters : InOut(c, m)' => InOut(c, m)
      /\ Accounted(s) => Accounted(s)' \/ (e.msg = Close(s) /\ e.by.task \in {"clear", "stray"})
      /\ \A c \in Conns : OutOrder(c, s) => OutOrder(c, s)'
      /\ OutOrder(p, s) /\ e.msg = Close(s) => ~InOut(p, Ask(s))'
  BY <1>1, <1>2, TakeFacts
<1> HIDE DEF e
<1>4. /\ missed \subseteq missed'
      /\ s \in ToSet(pending) => s \in missed' \cup ToSet(pending') \/ e.msg = Close(s)
      /\ s \in ToSet(pending') => s \in ToSet(pending) \/ e.msg = Close(s)
  BY <1>1, <1>2, <1>3, ResumeFacts
<1>5. /\ InWire(Ask(s))' <=> InWire(Ask(s)) \/ e.msg = Ask(s)
      /\ InWire(Close(s))' <=> InWire(Close(s)) \/ e.msg = Close(s)
      /\ WireOrder(s) /\ (e.msg = Ask(s) => ~InWire(Close(s))) => WireOrder(s)'
  <2>1. CASE e.msg.sos # None
    <3>1. e.msg \in SosLetters  BY <1>3, <2>1, LetterFacts
    <3>2. wire' = Append(wire, e.msg) /\ wire \in Seq(SosLetters)
      BY <1>1, <1>2, <2>1 DEF MailOK
    <3> QED  BY <3>1, <3>2, WirePutFacts, LetterRigid
  <2>2. CASE e.msg.sos = None
    <3>1. e.msg # Ask(s) /\ e.msg # Close(s)
      <4>1. Ask(s).sos = s /\ Close(s).sos = s /\ s # None  BY LetterFacts, ConstantFacts
      <4> QED  BY <2>2, <4>1
    <3>2. wire' = wire  BY <1>2, <2>2
    <3>3. /\ InWire(Ask(s))' <=> InWire(Ask(s))
          /\ InWire(Close(s))' <=> InWire(Close(s))
          /\ WireOrder(s)' <=> WireOrder(s)
      BY <3>2 DEF InWire, WireOrder, Ask, Close, Msg
    <3> QED  BY <3>1, <3>3
  <2> QED  BY <2>1, <2>2
<1>6. /\ \A c \in Conns : InOut(c, Ask(s))' => InOut(c, Ask(s))
      /\ \A c \in Conns : InOut(c, Close(s))' => InOut(c, Close(s))
      /\ e.msg = Ask(s) => InOut(p, Ask(s))
      /\ e.msg = Close(s) => InOut(p, Close(s))
  BY <1>3, LetterRigid
<1>7. InOut(conn, Ask(s))' => InOut(p, Ask(s))'  BY <1>2 DEF InOut, Ask, Msg
<1>8. e.msg = Close(s) => world[s] \notin {"new", "open"}  BY <1>1, <1>6 DEF WorldInv
<1>9. e.msg = Ask(s) => world[s] # "new"  BY <1>1, <1>6 DEF WorldInv
<1>10. WorldInv(s)'
  <2>1. world[s] = "new" => ~InWire(Ask(s))'  BY <1>1, <1>5, <1>9 DEF WorldInv
  <2>2. world[s] = "new" => s \notin shown' /\ said'[s] = <<>> /\ \A c \in Conns : ~InOut(c, Ask(s))'
    BY <1>1, <1>2, <1>6 DEF WorldInv
  <2>3. world[s] # "closed" => e.msg # Close(s)  BY <1>1, <1>6 DEF WorldInv
  <2>4. world[s] # "closed" =>
          /\ ~InWire(Close(s))' /\ s \notin ToSet(pending')
          /\ \A c \in Conns : ~InOut(c, Close(s))' /\ s \notin ToSet(hello'[c].todo)
    BY <1>1, <1>2, <1>4, <1>5, <1>6, <2>3 DEF WorldInv
  <2> QED  BY <1>2, <2>1, <2>2, <2>4, Rigid DEF WorldInv
<1>11. OrderInv(s)'
  <2>1. InWire(Close(s)) => ~InOut(p, Ask(s))  BY <1>1, <1>2 DEF OrderInv
  <2>2. WireOrder(s)'  BY <1>1, <1>5, <1>6, <2>1 DEF OrderInv
  <2>3. \A c \in Conns : OutOrder(c, s)'  BY <1>1, <1>3 DEF OrderInv
  <2>4. e.msg = Close(s) => ~InOut(p, Ask(s))'  BY <1>1, <1>3 DEF OrderInv
  <2>5. InWire(Close(s))' => ~InOut(p, Ask(s))'  BY <1>5, <1>6, <2>1, <2>4
  <2>6. InWire(Close(s))' => ~InOut(conn, Ask(s))'  BY <1>7, <2>5
  <2> QED  BY <2>2, <2>3, <2>6, Rigid DEF OrderInv
<1>12. ClearedInv(s)'
  <2>1. SUFFICES ASSUME world[s] = "closed" PROVE ClearedInv(s)'  BY <1>2 DEF ClearedInv
  <2>2. CASE InWire(Close(s)) \/ e.msg = Close(s)  BY <1>5, <2>2 DEF ClearedInv
  <2>3. CASE e.msg # Close(s) /\ s \in missed \cup ToSet(pending)
    BY <1>4, <2>3 DEF ClearedInv
  <2>4. CASE e.msg # Close(s) /\ Accounted(s)  BY <1>3, <2>4 DEF ClearedInv
  <2>5. CASE s \notin shown /\ ~Coming(Ask(s))
    <3>1. ~InWire(Ask(s)) /\ ~InOut(p, Ask(s))  BY <1>2, <2>5 DEF Coming
    <3>2. ~InWire(Ask(s))' /\ ~InOut(conn, Ask(s))'  BY <1>5, <1>6, <1>7, <3>1
    <3>3. ~Coming(Ask(s))'  BY <3>2 DEF Coming
    <3> QED  BY <1>2, <2>5, <3>3 DEF ClearedInv
  <2> QED  BY <1>1, <2>1, <2>2, <2>3, <2>4, <2>5 DEF ClearedInv
<1> QED  BY <1>10, <1>11, <1>12 DEF MailInv

\* The app takes a letter from the wire.
LEMMA ReceiveMail ==
  ASSUME PhoneInv, AppReceives, NEW s \in SOS
  PROVE  MailInv(s)'
<1> DEFINE h == Head(wire)
<1>1. /\ LinkOK /\ MailOK /\ WorldInv(s) /\ OrderInv(s) /\ ClearedInv(s) /\ ConnInv
  BY DEF PhoneInv, PhoneTypes, SosInv
<1>2. /\ world' = world /\ said' = said /\ out' = out /\ pending' = pending /\ missed' = missed
      /\ hello' = hello /\ conn' = conn
      /\ wire # <<>> /\ wire' = Tail(wire)
  BY DEF AppReceives, sosVars, missionVars, tasks
<1>3. /\ h \in SosLetters /\ InWire(h)
      /\ \A m \in SosLetters : InWire(m)' => InWire(m)
      /\ \A m \in SosLetters : InWire(m) => InWire(m)' \/ m = h
      /\ WireOrder(s) => WireOrder(s)'
      /\ WireOrder(s) /\ h = Close(s) => ~InWire(Ask(s))'
  BY <1>1, <1>2, WireTakeFacts DEF MailOK
<1>4. \/ h.type = "sos.request" /\ shown' = shown \cup {h.sos}
      \/ h.type = "sos.clear" /\ shown' = shown \ {h.sos}
  BY DEF AppReceives
<1> HIDE DEF h
<1>5. /\ s \in shown' => s \in shown \/ h = Ask(s)
      /\ h = Close(s) => s \notin shown'
  <2>1. /\ h.sos \in SOS /\ (h = Ask(h.sos) \/ h = Close(h.sos))
        /\ (h = Close(h.sos) <=> h.type = "sos.clear")
    BY <1>3, LetterFacts
  <2>2. h = Close(s) => h.type = "sos.clear" /\ h.sos = s  BY LetterFacts
  <2>3. h.type = "sos.request" => h = Ask(h.sos)  BY <2>1
  <2> QED  BY <1>4, <2>2, <2>3
<1>6. /\ InWire(Ask(s))' => InWire(Ask(s))
      /\ InWire(Close(s))' => InWire(Close(s))
      /\ InWire(Close(s)) => InWire(Close(s))' \/ h = Close(s)
      /\ h = Ask(s) => InWire(Ask(s))
  BY <1>3, LetterRigid
<1>7. /\ Accounted(s) => Accounted(s)'
      /\ \A c \in Conns : OutOrder(c, s) <=> OutOrder(c, s)'
      /\ \A c \in Conns : InOut(c, Ask(s))' <=> InOut(c, Ask(s))
      /\ \A c \in Conns : InOut(c, Close(s))' <=> InOut(c, Close(s))
      /\ InOut(conn, Ask(s))' <=> InOut(conn, Ask(s))
  BY <1>2, Rigid DEF Accounted, OutOrder, InOut, Ask, Close, Msg
<1>8. WorldInv(s)'
  <2>1. world[s] = "new" => s \notin shown'  BY <1>1, <1>5, <1>6 DEF WorldInv
  <2> QED  BY <1>1, <1>2, <1>6, <1>7, <2>1, Rigid DEF WorldInv
<1>9. OrderInv(s)'  BY <1>1, <1>2, <1>3, <1>6, <1>7, Rigid DEF OrderInv
<1>10. ClearedInv(s)'
  <2>1. SUFFICES ASSUME world[s] = "closed" PROVE ClearedInv(s)'  BY <1>2 DEF ClearedInv
  <2>2. CASE InWire(Close(s)) /\ h # Close(s)  BY <1>6, <2>2 DEF ClearedInv
  <2>3. CASE InWire(Close(s)) /\ h = Close(s)
    <3>1. ~InWire(Ask(s))'  BY <1>1, <1>3, <2>3 DEF OrderInv
    <3>2. conn # None => ~InOut(conn, Ask(s))  BY <1>1, <2>3 DEF OrderInv
    <3>3. ~Coming(Ask(s))'  BY <1>2, <1>7, <3>1, <3>2 DEF Coming, None
    <3> QED  BY <1>5, <2>3, <3>3 DEF ClearedInv
  <2>4. CASE s \in missed \cup ToSet(pending) \/ Accounted(s)
    BY <1>2, <1>7, <2>4 DEF ClearedInv
  <2>5. CASE s \notin shown /\ ~Coming(Ask(s))
    <3>1. ~Coming(Ask(s))'  BY <1>2, <1>6, <1>7, <2>5 DEF Coming, None
    <3>2. h # Ask(s)  BY <1>6, <2>5 DEF Coming
    <3> QED  BY <1>5, <2>5, <3>1, <3>2 DEF ClearedInv
  <2> QED  BY <1>1, <2>1, <2>2, <2>3, <2>4, <2>5 DEF ClearedInv
<1> QED  BY <1>8, <1>9, <1>10 DEF MailInv

LEMMA RestartMail ==
  ASSUME PhoneInv, BridgeRestarts, NEW s \in SOS
  PROVE  MailInv(s)'
<1>1. WorldInv(s)  BY DEF PhoneInv, SosInv
<1>2. /\ world' = world /\ said' = said /\ shown' = shown /\ pending' = <<>> /\ wire' = <<>>
      /\ missed' = missed \cup {r \in SOS : world[r] = "closed"}
      /\ \A c \in Conns : out'[c] = <<>> /\ hello'[c] = Asleep
  BY DEF BridgeRestarts, missionVars
<1>3. Len(wire') = 0 /\ ToSet(pending') = {}
      /\ \A c \in Conns : Len(out'[c]) = 0 /\ ToSet(hello'[c].todo) = {}
  <2>1. Asleep.todo = <<>>  BY DEF Asleep
  <2> QED  BY <1>2, <2>1, EmptyFacts
<1>4. /\ ~InWire(Ask(s))' /\ ~InWire(Close(s))' /\ WireOrder(s)'
      /\ \A c \in Conns : ~InOut(c, Ask(s))' /\ ~InOut(c, Close(s))' /\ OutOrder(c, s)'
  BY <1>3 DEF InWire, WireOrder, InOut, OutOrder
<1>5. WorldInv(s)'  BY <1>1, <1>2, <1>3, <1>4, Rigid DEF WorldInv
<1>6. OrderInv(s)'  BY <1>4, Rigid DEF OrderInv
<1>7. ClearedInv(s)'  BY <1>2 DEF ClearedInv
<1> QED  BY <1>5, <1>6, <1>7 DEF MailInv

LEMMA MailStep ==
  ASSUME PhoneInv, Next, NEW s \in SOS
  PROVE  MailInv(s)'
<1>1. CASE \E p \in Conns : Flush(p) \/ SendFails(p)
  <2>1. PICK p \in Conns : Flush(p) \/ SendFails(p)  BY <1>1
  <2> QED  BY <2>1, LostMail, FlushMail
<1>2. CASE \E p \in Conns : Hello(p) \/ HelloStep(p)  BY <1>2, HelloMail, HelloStepMail
<1>3. CASE \E r \in SOS : Request(r) \/ Clear(r)  BY <1>3, RequestMail, ClearMail
<1>4. CASE TickBegins \/ TickLink \/ TickDue \/ TickPasses \/ \E r \in SOS : Answer(r)
  BY <1>4, TickMail
<1>5. CASE Connect \/ Break \/ \E p \in Conns : Closed(p) \/ Expire(p)  BY <1>5, ConnMail
<1>6. CASE AppReceives  BY <1>6, ReceiveMail
<1>7. CASE BridgeRestarts  BY <1>7, RestartMail
<1> QED  BY <1>1, <1>2, <1>3, <1>4, <1>5, <1>6, <1>7 DEF Next

-----------------------------------------------------------------------------
(* The app is asked about every active SOS.                                *)

\* A step after which the app still knows what it knew, or is about to.
LEMMA AskedFrame ==
  ASSUME NEW s \in SOS, AskedInv(s), s \in ToSet(active') => s \in ToSet(active),
         Connected' /\ conn' = cur' =>
           /\ cur' = cur /\ conn' = conn
           /\ hello[cur].at \in {"ack", "clears"} => hello'[cur].at \in {"ack", "clears"}
           /\ s \in shown => s \in shown'
           /\ Coming(Ask(s)) => s \in shown' \/ Coming(Ask(s))'
  PROVE  AskedInv(s)'
BY DEF AskedInv, Connected, None

\* Sending takes nothing back.
LEMMA SendKeeps ==
  ASSUME LinkOK, MailOK, NEW msg \in Letters, NEW by \in Tasks, SendActive(msg, by),
         conn' = conn, wire' = wire, NEW s \in SOS
  PROVE  /\ Coming(Ask(s)) => Coming(Ask(s))'
         /\ Connected /\ conn = cur /\ msg = Ask(s) => Coming(Ask(s))'
<1>1. InWire(Ask(s))' <=> InWire(Ask(s))  BY DEF InWire, Ask, Msg
<1>2. CASE ~Connected
  <2>1. out' = out  BY <1>2, SendTypes
  <2>2. InOut(conn, Ask(s))' <=> InOut(conn, Ask(s))  BY <2>1 DEF InOut, Ask, Msg
  <2> QED  BY <1>1, <1>2, <2>2 DEF Coming, None
<1>3. CASE Connected
  <2>1. cur \in Conns /\ SendOn(cur, msg, by)  BY <1>3, SendTypes
  <2>2. \A c \in Conns, m \in Letters : InOut(c, m)' <=> InOut(c, m) \/ (c = cur /\ m = msg)
    BY <2>1, PostFacts
  <2>3. conn # None => conn \in Conns  BY DEF LinkOK
  <2>4. \A c \in Conns : c = conn => (InOut(conn, Ask(s))' <=> InOut(c, Ask(s))')
    BY DEF InOut, Ask, Msg
  <2>5. conn # None =>
          (InOut(conn, Ask(s))' <=> InOut(conn, Ask(s)) \/ (conn = cur /\ Ask(s) = msg))
    BY <2>2, <2>3, <2>4, LetterRigid
  <2>6. Connected /\ conn = cur => conn # None  BY DEF Connected
  <2> QED  BY <1>1, <2>5, <2>6 DEF Coming, None
<1> QED  BY <1>2, <1>3

LEMMA AskedStep ==
  ASSUME PhoneInv, Next, NEW s \in SOS
  PROVE  AskedInv(s)'
<1>1. /\ LinkOK /\ TaskOK /\ MailOK /\ SosOK /\ WorldOK /\ ConnInv /\ ActiveInv /\ PhoneTypes
      /\ AskedInv(s) /\ WorldInv(s) /\ missed \in SUBSET SOS
  BY DEF PhoneInv, PhoneTypes, SosInv, AppOK
<1>2. \A c \in Conns : session[c] = "active" <=> c = cur  BY <1>1 DEF ConnInv
<1>3. active \in Seq(SOS)  BY <1>1 DEF SosOK
<1>4. Ticker \in Tasks  BY TaskFacts
<1>5. CASE Connect
  <2>1. conn' \in Conns /\ session[conn'] = "none" /\ cur' = cur
    BY <1>1, <1>5, OpenedFacts DEF Connect
  <2>2. conn' # cur'  BY <1>2, <2>1
  <2> QED  BY <2>2 DEF AskedInv
<1>6. CASE Break \/ BridgeRestarts
  <2>1. conn' = None  BY <1>6 DEF Break, BridgeRestarts
  <2> QED  BY <2>1 DEF AskedInv, Connected, None
<1>7. CASE \E p \in Conns : Closed(p) \/ Expire(p)
  <2>1. PICK p \in Conns : Closed(p) \/ Expire(p)  BY <1>7
  <2>2. /\ active' = active /\ hello' = hello /\ shown' = shown /\ out' = out
        /\ cur' = cur \/ cur' = None
        /\ conn' = None \/ (conn' = conn /\ wire' = wire)
    BY <2>1 DEF Closed, Expire, Deactivate, sosVars, tasks, appVars
  <2>3. conn' = conn /\ wire' = wire => (Coming(Ask(s)) => Coming(Ask(s))')
    BY <2>2 DEF Coming, InWire, InOut, Ask, Msg, None
  <2> QED  BY <1>1, <2>2, <2>3, AskedFrame DEF Connected, None
<1>8. CASE \E p \in Conns : Hello(p)
  <2>1. PICK p \in Conns : Hello(p)  BY <1>8
  <2>2. cur' = p /\ hello'[p].at = "ack"  BY <1>1, <2>1 DEF Hello, TaskOK
  <2> QED  BY <2>2 DEF AskedInv
<1>9. CASE \E p \in Conns : HelloStep(p)
  <2>1. PICK p \in Conns : HelloStep(p)  BY <1>9
  <2> DEFINE h == Rest(p)
             msg == Msg(IF h.at = "clears" THEN "sos.clear" ELSE "sos.request", Head(h.todo))
  <2>2. /\ cur' = cur /\ conn' = conn /\ active' = active /\ shown' = shown /\ wire' = wire
    BY <2>1 DEF HelloStep, sosVars, appVars
  <2>3. hello \in [Conns -> Place] /\ loop \in Tasks  BY <1>1 DEF TaskOK, Place
  <2>4. /\ h \in Place
        /\ \/ h = hello[p] /\ h.at = "clears"
           \/ h.at = "clears" /\ h.todo = pending
           \/ h.at = "requests" /\ h.todo = active
           \/ h = Asleep /\ (hello[p].at = "requests" \/ active = <<>>)
    BY <1>1, RestFacts
  <2>5. CASE h = Asleep /\ hello' = [hello EXCEPT ![p] = h] /\ UNCHANGED out
    <3>1. Coming(Ask(s)) => Coming(Ask(s))'
      BY <2>2, <2>5 DEF Coming, InWire, InOut, Ask, Msg, None
    <3>2. h.at = "idle"  BY <2>5 DEF Asleep
    <3>3. hello[p].at = "requests" \/ active = <<>>  BY <2>4, <3>2
    <3>4. active = <<>> => s \notin ToSet(active)  BY EmptyFacts
    <3> HIDE DEF h
    <3>5. CASE s \in ToSet(active)
      <4>1. \A c \in Conns : c # p => hello'[c] = hello[c]  BY <2>3, <2>5
      <4>2. Connected => cur \in Conns  BY <1>1 DEF LinkOK, Connected
      <4>3. Connected /\ hello[cur].at \in {"ack", "clears"} => hello'[cur].at = hello[cur].at
        BY <3>3, <3>4, <3>5, <4>1, <4>2
      <4> QED  BY <1>1, <2>2, <3>1, <4>3, AskedFrame DEF Connected, None
    <3>6. CASE s \notin ToSet(active)
      <4>1. s \notin ToSet(active')  BY <2>2, <3>6
      <4> QED  BY <4>1 DEF AskedInv
    <3> QED  BY <3>5, <3>6
  <2>6. CASE /\ h.todo # <<>> /\ SendActive(msg, loop)
             /\ hello' = [hello EXCEPT ![p] = [h EXCEPT !.todo = Tail(@)]]
    <3> DEFINE r == Head(h.todo)
               g == [h EXCEPT !.todo = Tail(h.todo)]
    <3>1. h # Asleep  BY <2>6 DEF Asleep
    <3>2. h.todo \in Seq(SOS)  BY <2>4 DEF Place
    <3>3. r \in SOS /\ Tail(h.todo) \in Seq(SOS) /\ r \in ToSet(h.todo)  BY <2>6, <3>2, TailFacts
    <3>4. msg = IF h.at = "clears" THEN Close(r) ELSE Ask(r)  BY DEF Ask, Close
    <3>5. msg \in Letters  BY <3>3, <3>4, LetterFacts
    <3>6. Coming(Ask(s)) => Coming(Ask(s))'
      <4> HIDE DEF msg
      <4> QED  BY <1>1, <2>2, <2>3, <2>6, <3>5, SendKeeps
    <3>7. h.at # "clears" /\ s \in ToSet(active) => msg = Ask(s)
      <4>1. SUFFICES ASSUME h.at # "clears", s \in ToSet(active) PROVE msg = Ask(s)  OBVIOUS
      <4>2. h.todo = active /\ msg = Ask(r)  BY <2>4, <3>1, <3>4, <4>1
      <4>3. active = <<s>>  BY <1>1, <4>1, ActiveOpen
      <4>4. r = s  BY <4>2, <4>3, OneActive
      <4> QED  BY <4>2, <4>4
    <3>8. h.at \in {"clears", "requests"}  BY <2>4, <3>1
    <3> HIDE DEF msg, h
    <3>9. g.at = h.at
      <4>1. h \in Place /\ Tail(h.todo) \in Seq(SOS)  BY <2>4, <3>3
      <4> QED  BY <4>1 DEF Place
    <3>10. hello' = [hello EXCEPT ![p] = g]  BY <2>6
    <3> HIDE DEF g
    <3>11. hello'[p].at = h.at /\ \A c \in Conns : c # p => hello'[c] = hello[c]
      BY <2>3, <3>9, <3>10
    <3>12. Connected => cur \in Conns  BY <1>1 DEF LinkOK, Connected
    <3>13. CASE cur = p /\ h.at = "clears"
      BY <2>2, <3>11, <3>13 DEF AskedInv
    <3>14. CASE h.at # "clears" /\ Connected /\ conn = cur
      <4>1. s \in ToSet(active) => Coming(Ask(s))'
        BY <1>1, <2>2, <2>3, <2>6, <3>5, <3>7, <3>14, SendKeeps
      <4> QED  BY <2>2, <4>1 DEF AskedInv
    <3>15. CASE cur # p
      <4>1. Connected => hello'[cur] = hello[cur]  BY <3>11, <3>12, <3>15
      <4> QED  BY <1>1, <2>2, <3>6, <4>1, AskedFrame DEF Connected, None
    <3>16. CASE ~(Connected /\ conn = cur)
      <4>1. ~(Connected' /\ conn' = cur')  BY <2>2, <3>16 DEF Connected, None
      <4> QED  BY <4>1 DEF AskedInv
    <3> QED  BY <3>13, <3>14, <3>15, <3>16
  <2> QED  BY <2>1, <2>5, <2>6 DEF HelloStep
<1>10. CASE \E r \in SOS : Request(r)
  <2>1. PICK r \in SOS : Request(r)  BY <1>10
  <2>2. Ask(r) \in Letters /\ By("request", r) \in Tasks  BY LetterFacts, TaskFacts
  <2>3. SendActive(Ask(r), By("request", r))  BY <2>1 DEF Request, Ask
  <2>4. /\ cur' = cur /\ conn' = conn /\ wire' = wire /\ shown' = shown /\ hello' = hello
        /\ active' = Append(active, r)
    BY <2>1 DEF Request, bridgeVars, tasks, appVars
  <2>5. /\ Coming(Ask(s)) => Coming(Ask(s))'
        /\ Connected /\ conn = cur /\ Ask(r) = Ask(s) => Coming(Ask(s))'
    BY <1>1, <2>2, <2>3, <2>4, SendKeeps
  <2>6. ToSet(active') = ToSet(active) \cup {r}  BY <1>3, <2>4, AppendFacts
  <2>7. CASE s = r
    <3>1. Connected' /\ conn' = cur' => Coming(Ask(s))'  BY <2>4, <2>5, <2>7 DEF Connected, None
    <3> QED  BY <3>1 DEF AskedInv
  <2>8. CASE s # r  BY <1>1, <2>4, <2>5, <2>6, <2>8, AskedFrame
  <2> QED  BY <2>7, <2>8
<1>11. CASE \E r \in SOS : Clear(r)
  <2>1. PICK r \in SOS : Clear(r)  BY <1>11
  <2> DEFINE b == By(IF r \in ToSet(active) THEN "clear" ELSE "stray", r)
  <2>2. Close(r) \in Letters /\ b \in Tasks  BY LetterFacts, TaskFacts
  <2>3. SendActive(Close(r), b)  BY <2>1 DEF Clear, Close
  <2> HIDE DEF b
  <2>4. /\ cur' = cur /\ conn' = conn /\ wire' = wire /\ shown' = shown /\ hello' = hello
        /\ active' = Without(active, r)
    BY <2>1 DEF Clear, bridgeVars, tasks, appVars
  <2>5. Coming(Ask(s)) => Coming(Ask(s))'  BY <1>1, <2>2, <2>3, <2>4, SendKeeps
  <2>6. ToSet(active') \subseteq ToSet(active)  BY <1>3, <2>4, WithoutFacts
  <2> QED  BY <1>1, <2>4, <2>5, <2>6, AskedFrame
<1>12. CASE TickBegins \/ TickLink \/ TickDue \/ TickPasses \/ \E r \in SOS : Answer(r)
  <2>1. /\ cur' = cur /\ conn' = conn /\ wire' = wire /\ shown' = shown /\ hello' = hello
        /\ active' = active
    BY <1>12
    DEF TickBegins, TickLink, TickDue, TickPasses, Answer, sosVars, appVars, tasks, bridgeVars
  <2>2. \/ UNCHANGED out
        \/ \E msg \in Letters : SendActive(msg, Ticker)
    <3>1. CASE TickDue
      <4>1. tick.todo \in Seq(SOS)  BY <1>1 DEF TaskOK
      <4>2. Head(tick.todo) \in SOS  BY <3>1, <4>1, TailFacts DEF TickDue
      <4>3. Ask(Head(tick.todo)) \in Letters  BY <4>2, LetterFacts
      <4> QED  BY <3>1, <4>3 DEF TickDue, Ask
    <3>2. CASE TickBegins  BY <3>2, LetterFacts DEF TickBegins
    <3>3. CASE TickLink \/ TickPasses \/ \E r \in SOS : Answer(r)
      BY <3>3 DEF TickLink, TickPasses, Answer
    <3> QED  BY <1>12, <3>1, <3>2, <3>3
  <2>3. Coming(Ask(s)) => Coming(Ask(s))'
    <3>1. CASE UNCHANGED out
      BY <2>1, <3>1 DEF Coming, InWire, InOut, Ask, Msg, None
    <3>2. CASE \E msg \in Letters : SendActive(msg, Ticker)
      BY <1>1, <1>4, <2>1, <3>2, SendKeeps
    <3> QED  BY <2>2, <3>1, <3>2
  <2> QED  BY <1>1, <2>1, <2>3, AskedFrame
<1>13. CASE \E p \in Conns : Flush(p) \/ SendFails(p)
  <2>1. PICK p \in Conns : Flush(p) \/ SendFails(p)  BY <1>13
  <2> DEFINE e == Head(out[p])
  <2>2. /\ cur' = cur /\ conn' = conn /\ shown' = shown /\ hello' = hello /\ active' = active
        /\ out[p] # <<>> /\ out' = [out EXCEPT ![p] = Tail(@)]
        /\ wire' = wire \/ (conn = p /\ wire' = Append(wire, e.msg))
        /\ conn = p /\ wire' = wire => session[p] = "closed" \/ e.msg.sos = None
    <3>1. CASE Flush(p)
      <4>1. wire' = IF conn = p /\ e.msg.sos # None THEN Append(wire, e.msg) ELSE wire
        BY <3>1 DEF Flush
      <4>2. conn = p /\ wire' = wire => e.msg.sos = None
        <5>1. SUFFICES ASSUME conn = p, wire' = wire, e.msg.sos # None PROVE FALSE  OBVIOUS
        <5>2. wire' = Append(wire, e.msg)  BY <4>1, <5>1
        <5>3. e.msg \in SosLetters  BY <1>1, <3>1, <5>1, TakeFacts, LetterFacts DEF Flush
        <5>4. Len(wire') = Len(wire) + 1 /\ Len(wire) \in Nat
          BY <1>1, <5>2, <5>3, AppendFacts DEF MailOK
        <5> QED  BY <5>1, <5>4
      <4>3. /\ cur' = cur /\ conn' = conn /\ shown' = shown /\ hello' = hello
            /\ active' = active
            /\ out[p] # <<>> /\ out' = [out EXCEPT ![p] = Tail(@)]
        BY <3>1 DEF Flush, bridgeVars
      <4> QED  BY <4>1, <4>2, <4>3
    <3>2. CASE SendFails(p)
      BY <3>2 DEF SendFails, bridgeVars, tasks, appVars
    <3> QED  BY <2>1, <3>1, <3>2
  <2>3. /\ e.msg \in Letters
        /\ \A c \in Conns, m \in Letters : InOut(c, m) => InOut(c, m)' \/ (c = p /\ m = e.msg)
    BY <1>1, <2>2, TakeFacts
  <2> HIDE DEF e
  <2>4. Ask(s).sos = s /\ s # None  BY LetterFacts, ConstantFacts
  <2>5. InWire(Ask(s)) => InWire(Ask(s))'
    <3>1. CASE wire' = wire  BY <3>1 DEF InWire, Ask, Msg
    <3>2. CASE wire' = Append(wire, e.msg) /\ e.msg \in SosLetters
      BY <1>1, <3>2, WirePutFacts, LetterRigid DEF MailOK
    <3>3. CASE wire' = Append(wire, e.msg) /\ e.msg.sos = None /\ conn = p /\ wire' # wire
      <4>1. SUFFICES ASSUME Flush(p) PROVE InWire(Ask(s)) => InWire(Ask(s))'
        BY <2>1, <3>3 DEF SendFails, appVars
      <4>2. wire' = wire  BY <3>3, <4>1 DEF Flush, e
      <4> QED  BY <3>3, <4>2
    <3> QED  BY <2>2, <2>3, <3>1, <3>2, <3>3, LetterFacts
  <2>6. Connected /\ conn = cur => (Coming(Ask(s)) => Coming(Ask(s))')
    <3>1. SUFFICES ASSUME Connected, conn = cur, Coming(Ask(s)) PROVE Coming(Ask(s))'  OBVIOUS
    <3>2. conn \in Conns /\ session[conn] = "active"  BY <1>1, <1>2, <3>1 DEF LinkOK, Connected
    <3>3. CASE InWire(Ask(s))  BY <2>5, <3>3 DEF Coming
    <3>4. CASE InOut(conn, Ask(s))
      <4>1. InOut(conn, Ask(s))' \/ (conn = p /\ Ask(s) = e.msg)
        <5>1. \A c \in Conns : c = conn => (InOut(conn, Ask(s))' <=> InOut(c, Ask(s))')
          BY <2>2 DEF InOut, Ask, Msg
        <5> QED  BY <2>3, <3>2, <3>4, <5>1, LetterRigid
      <4>2. CASE InOut(conn, Ask(s))'  BY <2>2, <3>1, <4>2 DEF Coming, Connected, None
      <4>3. CASE conn = p /\ Ask(s) = e.msg
        <5>1. wire' = Append(wire, e.msg)  BY <2>2, <2>4, <3>2, <4>3
        <5>2. e.msg \in SosLetters  BY <4>3, LetterFacts
        <5>3. InWire(Ask(s))'  BY <1>1, <4>3, <5>1, <5>2, WirePutFacts, LetterRigid DEF MailOK
        <5> QED  BY <5>3 DEF Coming
      <4> QED  BY <4>1, <4>2, <4>3
    <3> QED  BY <3>1, <3>3, <3>4 DEF Coming
  <2> QED  BY <1>1, <2>2, <2>6, AskedFrame DEF Connected, None
<1>14. CASE AppReceives
  <2> DEFINE h == Head(wire)
  <2>1. /\ cur' = cur /\ conn' = conn /\ hello' = hello /\ active' = active /\ out' = out
        /\ wire # <<>> /\ wire' = Tail(wire)
    BY <1>14 DEF AppReceives, bridgeVars, sosVars, tasks
  <2>2. /\ h \in SosLetters /\ InWire(h)
        /\ \A m \in SosLetters : InWire(m) => InWire(m)' \/ m = h
    BY <1>1, <2>1, WireTakeFacts DEF MailOK
  <2>3. \/ h.type = "sos.request" /\ shown' = shown \cup {h.sos}
        \/ h.type = "sos.clear" /\ shown' = shown \ {h.sos}
    BY <1>14 DEF AppReceives
  <2> HIDE DEF h
  <2>4. InOut(conn, Ask(s))' <=> InOut(conn, Ask(s))  BY <2>1 DEF InOut, Ask, Msg
  <2>5. h = Ask(s) => s \in shown'  BY <2>3, LetterFacts
  <2>6. Coming(Ask(s)) => s \in shown' \/ Coming(Ask(s))'
    BY <2>1, <2>2, <2>4, <2>5, LetterRigid DEF Coming, None
  <2>7. s \in ToSet(active) /\ s \in shown => s \in shown'
    <3>1. SUFFICES ASSUME s \in ToSet(active), s \in shown, h.type = "sos.clear" PROVE h.sos # s
      BY <2>3
    <3>2. world[s] = "open"  BY <1>1, <3>1, ActiveOpen
    <3>3. ~InWire(Close(s))  BY <1>1, <3>2 DEF WorldInv
    <3> QED  BY <2>2, <3>1, <3>3, LetterFacts
  <2>8. CASE s \in ToSet(active)  BY <1>1, <2>1, <2>6, <2>7, <2>8, AskedFrame
  <2>9. CASE s \notin ToSet(active)
    <3>1. s \notin ToSet(active')  BY <2>1, <2>9
    <3> QED  BY <3>1 DEF AskedInv
  <2> QED  BY <2>8, <2>9
<1> QED  BY <1>5, <1>6, <1>7, <1>8, <1>9, <1>10, <1>11, <1>12, <1>13, <1>14 DEF Next

-----------------------------------------------------------------------------
LEMMA InitPhone == Init => PhoneInv
<1> SUFFICES ASSUME Init PROVE PhoneInv  OBVIOUS
<1>1. <<>> \in Seq(SOS) /\ <<>> \in Seq(Posts) /\ <<>> \in Seq(SosLetters) /\ <<>> \in Seq(BOOLEAN)
      /\ Len(<<>>) = 0 /\ ToSet(<<>>) = {}
  BY EmptyFacts
<1>2. LinkOK /\ AppOK  BY DEF Init, LinkOK, AppOK
<1>3. TaskOK  BY <1>1, TaskFacts DEF Init, TaskOK, Asleep
<1>4. MailOK /\ WorldOK  BY <1>1 DEF Init, MailOK, WorldOK
<1>5. SosOK
  <2>1. Len(<<>>) <= MaxPendingClears  BY <1>1, ConstantFacts
  <2> QED  BY <1>1, <2>1, FreshFacts DEF Init, SosOK
<1>6. ConnInv
  <2>1. Opened = 1 .. 0  BY DEF Init, Opened
  <2>2. 0 \in 0 .. MaxConns  BY ConstantFacts
  <2>3. \A c \in Conns : session[c] = "none" /\ out[c] = <<>>  BY DEF Init
  <2> QED  BY <2>1, <2>2, <2>3, ConstantFacts DEF Init, ConnInv
<1>7. ActiveInv /\ LinkFollows
  BY DEF Init, ActiveInv, LinkFollows, Connected, Asleep
<1>8. ASSUME NEW s \in SOS PROVE SosInv(s)
  <2>1. /\ Len(wire) = 0 /\ \A c \in Conns : Len(out[c]) = 0 /\ ToSet(hello[c].todo) = {}
        /\ ToSet(pending) = {} /\ ToSet(active) = {} /\ said[s] = <<>> /\ Len(said[s]) = 0
        /\ world[s] = "new" /\ shown = {}
    BY <1>1 DEF Init, Asleep
  <2>2. /\ ~InWire(Ask(s)) /\ ~InWire(Close(s)) /\ WireOrder(s)
        /\ \A c \in Conns : ~InOut(c, Ask(s)) /\ ~InOut(c, Close(s)) /\ OutOrder(c, s)
    BY <2>1 DEF InWire, InOut, WireOrder, OutOrder
  <2> QED  BY <2>1, <2>2 DEF SosInv, WorldInv, OrderInv, AskedInv, ClearedInv, ToldInv
<1> QED  BY <1>2, <1>3, <1>4, <1>5, <1>6, <1>7, <1>8 DEF PhoneInv, PhoneTypes

LEMMA NextPhone == PhoneInv /\ [Next]_vars => PhoneInv'
<1> SUFFICES ASSUME PhoneInv, [Next]_vars PROVE PhoneInv'  OBVIOUS
<1>1. CASE Next
  <2>1. ASSUME NEW s \in SOS PROVE SosInv(s)'
    BY <1>1, <2>1, MailStep, AskedStep, ToldStep DEF MailInv, SosInv
  <2> QED  BY <1>1, <2>1, TypesStep, ConnStep, ActiveStep, LinkStep, Rigid DEF PhoneInv
<1>2. CASE UNCHANGED vars
  <2> USE <1>2 DEF vars, bridgeVars, sosVars, tasks, appVars, missionVars
  <2> USE Rigid
  <2>1. PhoneTypes /\ ConnInv /\ ActiveInv /\ LinkFollows /\ \A s \in SOS : SosInv(s)
    BY DEF PhoneInv
  <2>2. PhoneTypes'
    BY <2>1 DEF PhoneTypes, LinkOK, TaskOK, MailOK, SosOK, AppOK, WorldOK
  <2>3. ConnInv' /\ LinkFollows'  BY <2>1 DEF ConnInv, Opened, None, LinkFollows, Connected
  <2>4. ActiveInv'  BY <2>1 DEF ActiveInv
  <2>5. ASSUME NEW s \in SOS PROVE SosInv(s)'
    <3>1. WorldInv(s)' /\ OrderInv(s)'
      <4>1. /\ InWire(Ask(s))' <=> InWire(Ask(s))
            /\ InWire(Close(s))' <=> InWire(Close(s))
            /\ WireOrder(s)' <=> WireOrder(s)
            /\ \A c \in Conns : InOut(c, Ask(s))' <=> InOut(c, Ask(s))
            /\ \A c \in Conns : InOut(c, Close(s))' <=> InOut(c, Close(s))
            /\ \A c \in Conns : OutOrder(c, s)' <=> OutOrder(c, s)
            /\ InOut(conn, Ask(s))' <=> InOut(conn, Ask(s))
        BY DEF WireOrder, OutOrder, InWire, InOut, Ask, Close, Msg
      <4>2. WorldInv(s) /\ OrderInv(s)  BY <2>1 DEF SosInv
      <4>3. WorldInv(s)'  BY <4>1, <4>2 DEF WorldInv
      <4> QED  BY <4>1, <4>2, <4>3 DEF OrderInv, None
    <3>2. AskedInv(s)'
      BY <2>1 DEF SosInv, AskedInv, Coming, InWire, InOut, Ask, Msg, None, Connected
    <3>3. ClearedInv(s)'
      BY <2>1 DEF SosInv, ClearedInv, Accounted, Coming, InWire, InOut, Ask, Close, Msg, None
    <3>4. ToldInv(s)'  BY <2>1 DEF SosInv, ToldInv
    <3> QED  BY <3>1, <3>2, <3>3, <3>4 DEF SosInv
  <2> QED  BY <2>2, <2>3, <2>4, <2>5 DEF PhoneInv
<1> QED  BY <1>1, <1>2 DEF vars

\* What PhoneInv says holds in every state that the bridge, the app and mission reach.
THEOREM PhoneInvariant == Spec => []PhoneInv
<1>1. Init => PhoneInv  BY InitPhone
<1>2. PhoneInv /\ [Next]_vars => PhoneInv'  BY NextPhone
<1> QED  BY <1>1, <1>2, PTL DEF Spec

\* The types of the messages and fields, and the limit of the clears that are kept.
THEOREM PhoneTypeOK == Spec => []TypeOK
<1>1. PhoneInv => TypeOK
  <2> SUFFICES ASSUME PhoneInv PROVE TypeOK  OBVIOUS
  <2>1. LinkOK /\ SosOK /\ AppOK  BY DEF PhoneInv, PhoneTypes
  <2>2. ToSet(active) \in SUBSET SOS /\ ToSet(pending) \in SUBSET SOS
    BY <2>1, SetOfSeq DEF SosOK
  <2> QED  BY <2>1, <2>2 DEF LinkOK, SosOK, AppOK, TypeOK, Entry
<1> QED  BY <1>1, PhoneInvariant, PTL

\* Once nothing is under way the app shows what the bridge has active, and of what
\* mission has closed only SOSs whose clear is kept or was lost, over any number of
\* connections, time-outs, retries and restarts.
THEOREM SettledAppsAgree == Spec => []AppAgrees
<1>1. PhoneInv => AppAgrees
  <2> SUFFICES ASSUME PhoneInv, Settled PROVE /\ ToSet(active) \subseteq shown
                                              /\ \A s \in shown : \/ world[s] = "open"
                                                                  \/ s \in missed \cup ToSet(pending)
    BY DEF AppAgrees
  <2>1. Connected /\ conn = cur /\ hello[cur].at = "idle" /\ cur \in Conns
    BY DEF Settled, PhoneInv, PhoneTypes, LinkOK, Connected
  <2>2. Len(wire) = 0 /\ \A c \in Conns : Len(out[c]) = 0  BY EmptyFacts DEF Settled
  <2>3. \A m : ~InWire(m) /\ \A c \in Conns : ~InOut(c, m)  BY <2>2 DEF InWire, InOut
  <2>4. \A s \in SOS : ~Coming(Ask(s)) /\ ~InWire(Close(s))  BY <2>1, <2>3 DEF Coming
  <2>5. \A s \in SOS : ~Accounted(s)  BY <2>2 DEF Accounted
  <2>6. shown \in SUBSET SOS /\ ToSet(active) \in SUBSET SOS /\ world \in [SOS -> {"new", "open", "closed"}]
    BY SetOfSeq DEF PhoneInv, PhoneTypes, AppOK, SosOK, WorldOK
  <2>7. ASSUME NEW s \in ToSet(active) PROVE s \in shown
    BY <2>1, <2>4, <2>6, <2>7 DEF PhoneInv, SosInv, AskedInv
  <2>8. ASSUME NEW s \in shown PROVE world[s] = "open" \/ s \in missed \cup ToSet(pending)
    <3>1. s \in SOS /\ WorldInv(s) /\ ClearedInv(s)  BY <2>6 DEF PhoneInv, SosInv
    <3>2. world[s] # "new"  BY <2>8, <3>1 DEF WorldInv
    <3>3. world[s] = "closed" => s \in missed \cup ToSet(pending)
      BY <2>4, <2>5, <2>8, <3>1 DEF ClearedInv
    <3> QED  BY <2>6, <3>1, <3>2, <3>3
  <2> QED  BY <2>7, <2>8
<1> QED  BY <1>1, PhoneInvariant, PTL

\* While a session is active whose hello is done, the link status is up.
THEOREM LinkFollowsSessions == Spec => []LinkFollows
<1>1. PhoneInv => LinkFollows  BY DEF PhoneInv
<1> QED  BY <1>1, PhoneInvariant, PTL

\* Mission hears of an SOS that nobody answered first or never, and once.
THEOREM OneFailureReported == Spec => []FailsOnce
<1>1. PhoneInv => FailsOnce
  <2> SUFFICES ASSUME PhoneInv, NEW s \in SOS, NEW i \in DOMAIN said[s], ~said[s][i]
               PROVE  i = 1 /\ \A j \in 2 .. Len(said[s]) : said[s][j]
    BY DEF FailsOnce
  <2>1. said[s] \in Seq(BOOLEAN) /\ ToldInv(s)
    BY DEF PhoneInv, PhoneTypes, WorldOK, SosInv
  <2>2. DOMAIN said[s] = 1 .. Len(said[s]) /\ Len(said[s]) \in Nat
    BY <2>1, LenProperties
  <2>3. \A k \in 1 .. Len(said[s]) : ~said[s][k] => k = 1  BY <2>1 DEF ToldInv
  <2>4. ASSUME NEW j \in 2 .. Len(said[s]) PROVE said[s][j]
    <3>1. j \in 1 .. Len(said[s]) /\ j # 1  BY <2>2
    <3> QED  BY <2>3, <3>1
  <2> QED  BY <2>2, <2>3, <2>4
<1> QED  BY <1>1, PhoneInvariant, PTL
=============================================================================

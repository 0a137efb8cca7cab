-------------------------- MODULE StaticPool_proofs --------------------------
(***************************************************************************)
(* Proofs about StaticPool, for every amount of memory, header and set of  *)
(* sizes that StaticPoolAssumption admits.                                 *)
(*                                                                         *)
(* The properties speak of the free list as the loops walk it.  The        *)
(* invariant speaks of a set instead: some set L of addresses is the list  *)
(* (each next is the least member above, the last one the sentinel), L and *)
(* the blocks in use lie in the pool without a gap or an overlap, and no   *)
(* two members of L touch (Good).  Each operator of the model is shown to  *)
(* take a memory in order to a memory in order; what the walk visits and   *)
(* where the loops stop is then one lemma about L.                         *)
(***************************************************************************)
EXTENDS StaticPool, FiniteSetTheorems, TLAPS

\* The headers of a memory.
Heads == {Start} \cup 0 .. Capacity
Head == [kind : {"list", "free", "used", "raw"}, next : Int, size : Nat]
Memories == [Heads -> Head]

InUse(m) == {a \in Addresses : m[a].kind = "used"}
Covered(m, B) == {u \in Addresses : \E a \in B : u \in a .. a + m[a].size - 1}

\* Behind each listed block comes the next one by address.
Chain(m, L) ==
  \A a \in L \cup {Start} :
    /\ m[a].next \in L \cup {End} /\ a < m[a].next
    /\ \A c \in L : a < c => m[a].next <= c
\* Blocks that lie in the pool beside each other.
Blocks(m, B) ==
  \A a \in B :
    /\ a \in Addresses /\ MinBlock <= m[a].size /\ a + m[a].size <= End
    /\ \A c \in B : a < c => a + m[a].size <= c
Apart(m, L) == \A a, c \in L : a + m[a].size # c
FreeKind(m, L) == \A a \in L : m[a].kind = "free"
\* m is in order, its free list is L and U is held.
Sound(m, L, U) ==
  /\ m \in Memories /\ L \in SUBSET Addresses /\ U \in SUBSET Addresses /\ L \cap U = {}
  /\ Chain(m, L) /\ Blocks(m, L \cup U) /\ Apart(m, L) /\ FreeKind(m, L)

-----------------------------------------------------------------------------
(* Numbers.  The library's induction theorems take an operator; a least     *)
(* element of a set does as well.                                           *)

LEMMA LeastOf ==
  ASSUME NEW T, T \subseteq Nat, T # {}
  PROVE  \E n \in T : \A m \in T : n <= m
<1>1. PICK k \in T : TRUE  OBVIOUS
<1> DEFINE I == {0 .. n : n \in T \cap 0 .. k}
<1>2. I \subseteq FiniteSubsetsOf(0 .. k) /\ I # {}
  <2>1. IsFiniteSet(0 .. k)  BY <1>1, FS_Interval
  <2>2. ASSUME NEW n \in T \cap 0 .. k PROVE 0 .. n \in SUBSET (0 .. k) /\ IsFiniteSet(0 .. n)
    BY FS_Interval
  <2>3. 0 .. k \in I  BY <1>1
  <2> QED  BY <2>2, <2>3 DEF FiniteSubsetsOf
<1>3. PICK x \in I : \A y \in I : ~(<<y, x>> \in StrictSubsetOrdering(0 .. k))
  <2>1. IsWellFoundedOn(StrictSubsetOrdering(0 .. k), FiniteSubsetsOf(0 .. k))
    BY FS_StrictSubsetOrderingWellFounded
  <2> QED  BY <1>2, <2>1, WFMin
<1>4. PICK n \in T \cap 0 .. k : x = 0 .. n  OBVIOUS
<1>5. ASSUME NEW m \in T, m < n PROVE FALSE
  <2>1. 0 .. m \in I  BY <1>1, <1>4, <1>5
  <2>2. /\ 0 .. m \subseteq 0 .. n /\ 0 .. m # 0 .. n
        /\ 0 .. m \in SUBSET (0 .. k) /\ 0 .. n \in SUBSET (0 .. k)
    <3>1. m \in Nat /\ n \in Nat /\ n <= k /\ k \in Nat  BY <1>1, <1>4
    <3>2. n \in 0 .. n /\ n \notin 0 .. m  BY <3>1, <1>5
    <3> QED  BY <3>1, <3>2, <1>5
  <2>3. <<0 .. m, 0 .. n>> \in StrictSubsetOrdering(0 .. k)  BY <2>2 DEF StrictSubsetOrdering
  <2> QED  BY <1>3, <1>4, <2>1, <2>3
<1>6. \A m \in T : n <= m  BY <1>4, <1>5
<1> QED  BY <1>4, <1>6

\* Induction over an interval.
LEMMA UpTo ==
  ASSUME NEW n \in Nat, NEW T, 0 \in T, \A k \in 0 .. n - 1 : k \in T => k + 1 \in T
  PROVE  0 .. n \subseteq T
<1> SUFFICES ASSUME (0 .. n) \ T # {} PROVE FALSE  OBVIOUS
<1>1. (0 .. n) \ T \subseteq Nat  OBVIOUS
<1>2. PICK k \in (0 .. n) \ T : \A m \in (0 .. n) \ T : k <= m  BY <1>1, LeastOf
<1>3. k \in 1 .. n /\ k - 1 \in 0 .. n - 1 /\ k - 1 + 1 = k  BY <1>2
<1>4. k - 1 \in T  BY <1>2, <1>3
<1> QED  BY <1>2, <1>3, <1>4

LEMMA MinOf ==
  ASSUME NEW T, T \subseteq Nat, T # {}
  PROVE  Min(T) \in T /\ \A m \in T : Min(T) <= m
<1>1. \E n \in T : \A m \in T : n <= m  BY LeastOf
<1> QED  BY <1>1 DEF Min

LEMMA MaxOf ==
  ASSUME NEW T, NEW n \in Nat, T \subseteq 0 .. n, T # {}
  PROVE  Max(T) \in T /\ \A m \in T : m <= Max(T)
<1> DEFINE R == {n - m : m \in T}
<1>1. R \subseteq Nat /\ R # {}
  <2>1. \A m \in T : n - m \in Nat  BY SMT
  <2> QED  BY <2>1
<1>2. PICK r \in R : \A s \in R : r <= s  BY <1>1, LeastOf
<1>3. PICK x \in T : r = n - x  BY <1>2
<1>4. ASSUME NEW m \in T PROVE m <= x
  <2>1. n - m \in R /\ m \in 0 .. n /\ x \in 0 .. n  BY <1>3
  <2>2. n - x <= n - m  BY <1>2, <1>3, <2>1
  <2> QED  BY <2>1, <2>2
<1> QED  BY <1>3, <1>4 DEF Max

LEMMA PoolFacts ==
  /\ Memory \in Nat /\ Header \in Nat \ {0} /\ MinBlock \in Nat /\ MinBlock = 2 * Header
  /\ Capacity \in Nat /\ End = Capacity /\ Start = -2 /\ Addresses = 0 .. Capacity - 1
  /\ (Capacity # 0 => Usable /\ Capacity = Memory - Header)
  /\ \A n \in Sizes : n \in Nat /\ Need(n) \in Nat /\ MinBlock <= Need(n) /\ n + Header <= Need(n)
BY StaticPoolAssumption DEF MinBlock, Capacity, Usable, End, Start, Addresses, Need

-----------------------------------------------------------------------------
(* The walk of the list.                                                   *)

Following(m, a) == IF a = End THEN End ELSE m[a].next

LEMMA WalkIs ==
  ASSUME NEW m, NEW f,
         f = [k \in 0 .. Memory |-> IF k = 0 THEN Start ELSE Following(m, f[k - 1])]
  PROVE  Walk(m) = [k \in 0 .. Memory |->
                      IF k = 0 THEN Start ELSE Following(m, Walk(m)[k - 1])]
<1> DEFINE G(g) == [k \in 0 .. Memory |-> IF k = 0 THEN Start
                      ELSE IF g[k - 1] = End THEN End ELSE m[g[k - 1]].next]
<1>1. \E g : g = G(g)  BY DEF Following
<1>2. Walk(m) = CHOOSE g : g = G(g)  BY DEF Walk
<1> HIDE DEF G
<1>3. Walk(m) = G(Walk(m))  BY <1>1, <1>2
<1> QED  BY <1>3 DEF G, Following

LEMMA WalkExists ==
  ASSUME NEW m, NEW L, Chain(m, L)
  PROVE  /\ Walk(m) \in [0 .. Memory -> L \cup {Start, End}] /\ Walk(m)[0] = Start
         /\ \A k \in 1 .. Memory : Walk(m)[k] = Following(m, Walk(m)[k - 1])
<1> USE PoolFacts
<1> DEFINE G == L \cup {Start, End}
           T == {j \in 0 .. Memory : \E f \in [0 .. j -> G] :
                   f[0] = Start /\ \A k \in 1 .. j : f[k] = Following(m, f[k - 1])}
<1>1. \A a \in G : Following(m, a) \in G  BY DEF Chain, Following
<1>2. 0 \in T
  <2>1. [k \in 0 .. 0 |-> Start] \in [0 .. 0 -> G]  OBVIOUS
  <2>2. [k \in 0 .. 0 |-> Start][0] = Start /\ 1 .. 0 = {}  OBVIOUS
  <2>3. \E f \in [0 .. 0 -> G] :
          f[0] = Start /\ \A k \in 1 .. 0 : f[k] = Following(m, f[k - 1])
    BY <2>1, <2>2
  <2> QED  BY <2>3
<1>3. ASSUME NEW j \in 0 .. Memory - 1, j \in T PROVE j + 1 \in T
  <2>1. PICK f \in [0 .. j -> G] :
           f[0] = Start /\ \A k \in 1 .. j : f[k] = Following(m, f[k - 1])
    BY <1>3
  <2> DEFINE g == [k \in 0 .. j + 1 |-> IF k = j + 1 THEN Following(m, f[j]) ELSE f[k]]
  <2>2. g \in [0 .. j + 1 -> G]  BY <1>1, <2>1
  <2>3. g[0] = Start  BY <2>1
  <2>4. ASSUME NEW k \in 1 .. j + 1 PROVE g[k] = Following(m, g[k - 1])
    <3>1. CASE k = j + 1  BY <3>1
    <3>2. CASE k # j + 1
      <4>1. k \in 1 .. j /\ k - 1 \in 0 .. j + 1 /\ k - 1 # j + 1 /\ k \in 0 .. j + 1  BY <3>2
      <4> QED  BY <2>1, <3>2, <4>1
    <3> QED  BY <3>1, <3>2
  <2>5. \E h \in [0 .. j + 1 -> G] :
          h[0] = Start /\ \A k \in 1 .. j + 1 : h[k] = Following(m, h[k - 1])
    <3> HIDE DEF g, G
    <3> QED  BY <2>2, <2>3, <2>4
  <2>6. j + 1 \in 0 .. Memory  OBVIOUS
  <2> HIDE DEF g, G
  <2> QED  BY <2>5, <2>6
<1> HIDE DEF T
<1>4. Memory \in T  BY <1>2, <1>3, UpTo
<1> USE DEF T
<1>5. PICK f \in [0 .. Memory -> G] :
         f[0] = Start /\ \A k \in 1 .. Memory : f[k] = Following(m, f[k - 1])
  BY <1>4
<1>6. f = [k \in 0 .. Memory |-> IF k = 0 THEN Start ELSE Following(m, f[k - 1])]
  BY <1>5
<1>7. Walk(m) = [k \in 0 .. Memory |-> IF k = 0 THEN Start ELSE Following(m, Walk(m)[k - 1])]
  BY <1>6, WalkIs
<1> DEFINE w == Walk(m)
<1> HIDE DEF w, G, T
<1>8. w[0] = Start /\ \A k \in 1 .. Memory : w[k] = Following(m, w[k - 1])  BY <1>7 DEF w
<1> DEFINE V == {k \in 0 .. Memory : w[k] \in G}
<1>9. 0 \in V  BY <1>8 DEF G
<1>10. \A k \in 0 .. Memory - 1 : k \in V => k + 1 \in V
  <2> SUFFICES ASSUME NEW k \in 0 .. Memory - 1, k \in V PROVE k + 1 \in V  OBVIOUS
  <2>1. k + 1 \in 1 .. Memory /\ (k + 1) - 1 = k  OBVIOUS
  <2>2. w[k + 1] = Following(m, w[k])  BY <1>8, <2>1
  <2> QED  BY <1>1, <2>1, <2>2
<1> HIDE DEF V
<1>11. 0 .. Memory \subseteq V  BY <1>9, <1>10, UpTo
<1>12. \A k \in 0 .. Memory : w[k] \in G  BY <1>11 DEF V
<1>13. w \in [0 .. Memory -> G]  BY <1>7, <1>12 DEF w
<1> QED  BY <1>8, <1>13 DEF w, G

\* The walk is long enough, and meets every block of the list.
LEMMA WalkFacts ==
  ASSUME NEW m, NEW L \in SUBSET Addresses, Chain(m, L), Capacity # 0
  PROVE  /\ Walk(m)[Memory] = End /\ Memory \in 1 .. Memory
         /\ \A a \in L : \E k \in 1 .. Memory :
              /\ Walk(m)[k] = a
              /\ \A j \in 0 .. Memory : Walk(m)[j] >= a => k <= j
<1> USE PoolFacts
<1> DEFINE w == Walk(m)
<1>1. /\ \A k \in 0 .. Memory : w[k] \in L \cup {Start, End}
      /\ w[0] = Start /\ \A k \in 1 .. Memory : w[k] = Following(m, w[k - 1])
  BY WalkExists
<1> HIDE DEF w
<1>2. \A k \in 0 .. Memory : w[k] \in Int /\ w[k] <= End
  <2>1. \A a \in L \cup {Start, End} : a \in Int /\ a <= End  OBVIOUS
  <2> HIDE DEF w
  <2> QED  BY <1>1, <2>1
<1>3. w[Memory] = End /\ Memory \in 1 .. Memory
  <2> DEFINE V == {k \in 0 .. Memory : k = 0 \/ w[k] = End \/ w[k] >= k - 1}
  <2>1. 0 \in V  OBVIOUS
  <2>2. ASSUME NEW k \in 0 .. Memory - 1, k \in V PROVE k + 1 \in V
    <3>1. k + 1 \in 1 .. Memory /\ (k + 1) - 1 = k /\ k \in 0 .. Memory  OBVIOUS
    <3>2. w[k + 1] = Following(m, w[k]) /\ w[k] \in L \cup {Start, End}  BY <1>1, <3>1
    <3>3. CASE w[k] = End  BY <3>1, <3>2, <3>3 DEF Following
    <3>4. CASE w[k] # End
      <4>1. w[k + 1] > w[k] /\ w[k + 1] \in L \cup {End}
        BY <3>2, <3>4 DEF Following, Chain
      <4>2. k = 0 \/ w[k] >= k - 1  BY <2>2, <3>4
      <4>3. w[k + 1] \in Nat /\ w[k] \in Int  BY <1>2, <3>1, <4>1
      <4>4. w[k + 1] >= k + 1 - 1  BY <4>1, <4>2, <4>3
      <4> QED  BY <3>1, <4>4
    <3> QED  BY <3>3, <3>4
  <2> HIDE DEF V
  <2>3. 0 .. Memory \subseteq V  BY <2>1, <2>2, UpTo
  <2>4. Memory \in 0 .. Memory  OBVIOUS
  <2>5. Memory = 0 \/ w[Memory] = End \/ w[Memory] >= Memory - 1  BY <2>3, <2>4 DEF V
  <2>6. Capacity - 1 < Memory - 1 /\ Memory >= 3  BY DEF Usable
  <2>7. w[Memory] = End \/ w[Memory] \in Addresses \cup {Start}  BY <1>1, <2>4
  <2> QED  BY <2>5, <2>6, <2>7
<1>4. ASSUME NEW a \in L
      PROVE \E k \in 1 .. Memory : w[k] = a /\ \A j \in 0 .. Memory : w[j] >= a => k <= j
  <2> DEFINE V == {k \in 0 .. Memory : w[k] >= a}
  <2>1. V \subseteq Nat /\ Memory \in V  BY <1>3
  <2>2. PICK k \in V : \A j \in V : k <= j  BY <2>1, LeastOf
  <2>3. k \in 1 .. Memory /\ k - 1 \in 0 .. Memory /\ ~(k <= k - 1)  BY <1>1, <2>2
  <2>4. ~(w[k - 1] >= a)  BY <2>2, <2>3
  <2>5. w[k - 1] < a /\ w[k - 1] \in L \cup {Start, End}  BY <1>1, <1>2, <2>3, <2>4
  <2>6. w[k - 1] # End  BY <2>5
  <2>7. w[k] = m[w[k - 1]].next  BY <1>1, <2>3, <2>6 DEF Following
  <2>8. w[k] <= a  BY <2>5, <2>6, <2>7 DEF Chain
  <2>9. w[k] = a  BY <1>2, <2>2, <2>3, <2>8
  <2> QED  BY <2>2, <2>3, <2>9
<1> QED  BY <1>3, <1>4 DEF w

-----------------------------------------------------------------------------
(* Where the loops stop.                                                   *)

LEMMA BehindFacts ==
  ASSUME NEW m, NEW L \in SUBSET Addresses, Chain(m, L), NEW b \in Addresses
  PROVE  /\ Behind(m, b) \in L \cup {Start} /\ Behind(m, b) < b
         /\ m[Behind(m, b)].next >= b
<1> USE PoolFacts
<1> DEFINE w == Walk(m)
           K == {k \in 0 .. Memory : w[k] = End \/ m[w[k]].next >= b}
<1>1. Capacity # 0  OBVIOUS
<1>2. /\ \A k \in 0 .. Memory : w[k] \in L \cup {Start, End}
      /\ w[0] = Start /\ \A k \in 1 .. Memory : w[k] = Following(m, w[k - 1])
      /\ w[Memory] = End /\ Memory \in 1 .. Memory
  BY <1>1, WalkExists, WalkFacts
<1>3. Behind(m, b) = w[Min(K)]  BY DEF Behind, First
<1> HIDE DEF w
<1>4. K \subseteq Nat /\ K # {}  BY <1>2
<1>5. Min(K) \in K /\ \A k \in K : Min(K) <= k  BY <1>4, MinOf
<1> DEFINE k0 == Min(K)
<1> HIDE DEF k0
<1>6. k0 \in 0 .. Memory /\ (w[k0] = End \/ m[w[k0]].next >= b)  BY <1>5 DEF k0
<1>7. CASE k0 = 0
  BY <1>2, <1>3, <1>6, <1>7 DEF k0
<1>8. CASE k0 # 0
  <2>1. k0 - 1 \in 0 .. Memory /\ k0 \in 1 .. Memory  BY <1>6, <1>8
  <2>2. k0 - 1 \notin K  BY <1>5, <2>1 DEF k0
  <2>3. w[k0 - 1] # End /\ ~(m[w[k0 - 1]].next >= b)  BY <2>1, <2>2
  <2>4. w[k0] = m[w[k0 - 1]].next /\ w[k0 - 1] \in L \cup {Start}
    BY <1>2, <2>1, <2>3 DEF Following
  <2>5. w[k0] \in L \cup {End} /\ ~(w[k0] >= b)  BY <2>3, <2>4 DEF Chain
  <2>6. \A a \in L \cup {End} : a \in Int /\ (~(a >= b) => a < b /\ a # End)  OBVIOUS
  <2>7. w[k0] \in L /\ w[k0] < b /\ w[k0] # End  BY <2>5, <2>6
  <2> QED  BY <1>3, <1>6, <2>7 DEF k0
<1> QED  BY <1>7, <1>8

LEMMA FirstFitFacts ==
  ASSUME NEW m \in Memories, NEW L \in SUBSET Addresses, Chain(m, L), Capacity # 0,
         NEW need \in Nat
  PROVE  /\ FirstFit(m, need) \in L \cup {Start}
         /\ \/ m[FirstFit(m, need)].next = End /\ \A c \in L : m[c].size < need
            \/ /\ m[FirstFit(m, need)].next \in L
               /\ m[m[FirstFit(m, need)].next].size >= need
<1> USE PoolFacts
<1> DEFINE w == Walk(m)
           Stops(a) == a = End \/ m[a].next = End \/ m[m[a].next].size >= need
           K == {k \in 0 .. Memory : Stops(w[k])}
<1>2. /\ \A k \in 0 .. Memory : w[k] \in L \cup {Start, End}
      /\ w[0] = Start /\ \A k \in 1 .. Memory : w[k] = Following(m, w[k - 1])
      /\ w[Memory] = End /\ Memory \in 1 .. Memory
  BY WalkExists, WalkFacts
<1>3. FirstFit(m, need) = w[Min(K)]  BY DEF FirstFit, First
<1>a. \A a \in L : \E k \in 1 .. Memory :
         w[k] = a /\ \A j \in 0 .. Memory : w[j] >= a => k <= j
  BY WalkFacts
<1> HIDE DEF w
<1>4. K \subseteq Nat /\ K # {}  BY <1>2
<1>5. Min(K) \in K /\ \A k \in K : Min(K) <= k  BY <1>4, MinOf
<1> DEFINE k0 == Min(K)
<1> HIDE DEF k0
<1>6. k0 \in 0 .. Memory /\ Stops(w[k0])  BY <1>5 DEF k0
<1>7. \A j \in 1 .. k0 :
        /\ j \in 1 .. Memory /\ w[j - 1] \in L \cup {Start}
        /\ w[j] = m[w[j - 1]].next /\ w[j] \in L /\ ~(m[w[j]].size >= need)
  <2> SUFFICES ASSUME NEW j \in 1 .. k0
               PROVE  /\ j \in 1 .. Memory /\ w[j - 1] \in L \cup {Start}
                      /\ w[j] = m[w[j - 1]].next /\ w[j] \in L /\ ~(m[w[j]].size >= need)
    OBVIOUS
  <2>1. j - 1 \in 0 .. Memory /\ j \in 1 .. Memory /\ ~(k0 <= j - 1)  BY <1>6
  <2>2. j - 1 \notin K  BY <1>5, <2>1 DEF k0
  <2>3. ~Stops(w[j - 1])  BY <2>1, <2>2
  <2>4. w[j - 1] \in L \cup {Start} /\ w[j] = m[w[j - 1]].next
    BY <1>2, <2>1, <2>3 DEF Following
  <2> QED  BY <2>1, <2>3, <2>4 DEF Chain
<1>8. w[k0] \in L \cup {Start} /\ w[k0] # End
  BY <1>2, <1>6, <1>7
<1>9. m[w[k0]].next = End \/ (m[w[k0]].next \in L /\ m[m[w[k0]].next].size >= need)
  BY <1>6, <1>8 DEF Chain
<1>10. ASSUME m[w[k0]].next = End, NEW c \in L PROVE m[c].size < need
  <2>0. End > c /\ c \in Int /\ \A a \in L \cup {Start} : a \in Int  OBVIOUS
  <2>1. w[k0] < c => End <= c  BY <1>8, <1>10 DEF Chain
  <2>2. w[k0] >= c
    <3>0. w[k0] \in Int  BY <1>8, <2>0
    <3>1. w[k0] \in Int /\ End \in Int /\ c \in Int /\ End > c  BY <2>0, <3>0
    <3> DEFINE x == w[k0]
    <3>2. x \in Int /\ (x < c => End <= c)  BY <2>1, <3>1
    <3> HIDE DEF x
    <3>3. x >= c  BY <3>1, <3>2
    <3> QED  BY <3>3 DEF x
  <2>3. PICK k \in 1 .. Memory : w[k] = c /\ k <= k0  BY <1>6, <1>a, <2>2
  <2>4. ~(m[c].size >= need)  BY <1>6, <1>7, <2>3
  <2>5. c \in Heads  BY DEF Heads
  <2>6. m[c].size \in Nat  BY <2>5 DEF Memories, Head
  <2> QED  BY <2>4, <2>6
<1> QED  BY <1>3, <1>8, <1>9, <1>10 DEF k0

-----------------------------------------------------------------------------
(* insert_free() keeps the list.                                           *)

LEMMA HeadType ==
  ASSUME NEW m \in Memories, NEW a \in Heads
  PROVE  m[a].next \in Int /\ m[a].size \in Nat /\ m[a] \in Head
BY DEF Memories, Head

\* b is a free block of no list, and the list L of m is in order beside what U holds.
Ready(m, L, U, b) ==
  /\ m \in Memories /\ L \in SUBSET Addresses /\ U \in SUBSET Addresses
  /\ b \in Addresses /\ b \notin L \cup U /\ L \cap U = {}
  /\ Chain(m, L) /\ Blocks(m, L \cup U \cup {b}) /\ Apart(m, L) /\ FreeKind(m, L \cup {b})
\* q is m with b in its list, which covers what the list and b did; all else is as it was.
Settled(q, m, L, U, b) ==
  \E K \in SUBSET (L \cup {b}) :
    /\ Sound(q, K, U) /\ Covered(q, K) = Covered(m, L \cup {b})
    /\ \A a \in Heads \ (L \cup {b, Start}) : q[a] = m[a]
    /\ InUse(q) = InUse(m)

\* b, of no list, lies behind i: it is placed there, joined to what it touches.
LEMMA PlacedKeeps ==
  ASSUME NEW m, NEW L, NEW U, NEW b, Ready(m, L, U, b),
         NEW i \in L \cup {Start}, i < b, m[i].next >= b
  PROVE  Settled(Placed(m, i, b), m, L, U, b)
<1> USE DEF Ready
<1> DEFINE after == m[i].next
           front == i # Start /\ i + m[i].size = b
           at == IF front THEN i ELSE b
           own == IF front THEN m[i].size + m[b].size ELSE m[b].size
           reach == Reaches(at, own, after)
           nxt == IF reach THEN m[after].next ELSE after
           len == IF reach THEN own + m[after].size ELSE own
           p == Placed(m, i, b)
           K == (L \cup {at}) \ (IF reach THEN {after} ELSE {})
<1>1. /\ End \in Nat /\ Start = -2 /\ MinBlock \in Nat \ {0} /\ Start \notin Addresses
      /\ \A a \in Addresses : a \in Nat /\ a < End
      /\ L \cup U \cup {b, i, Start} \subseteq Heads /\ End \in Heads
  <2>1. /\ End \in Nat /\ Start = -2 /\ MinBlock \in Nat \ {0} /\ Start \notin Addresses
        /\ \A a \in Addresses : a \in Nat /\ a < End
        /\ Addresses \subseteq Heads /\ Start \in Heads /\ End \in Heads
    BY PoolFacts DEF Heads
  <2> QED  BY <2>1
<1>2. /\ \A a \in Heads : m[a].next \in Int /\ m[a].size \in Nat /\ a \in Int
      /\ \A a \in L \cup U \cup {b} : MinBlock <= m[a].size
  BY <1>1, HeadType, PoolFacts DEF Blocks, Heads
<1>3. /\ after \in L \cup {End} /\ b < after /\ after \in Int /\ i \in Int
      /\ \A c \in L : i < c => after <= c
  <2>1. after \in L \cup {End} /\ \A c \in L : i < c => after <= c  BY DEF Chain
  <2>2. after \in Int /\ i \in Int /\ b \in Int /\ b < End  BY <1>1, <1>2
  <2>3. after # b  BY <2>1, <1>1
  <2> QED  BY <2>1, <2>2, <2>3
<1>4. /\ at \in L \cup {b} /\ (at = i \/ at = b) /\ at <= b /\ at \in Nat /\ at # Start
      /\ own \in Nat /\ MinBlock <= own /\ at + own = b + m[b].size
      /\ (at = i => i \in L /\ i + m[i].size = b) /\ i <= at
      /\ (at = b <=> ~front) /\ (at # b => at = i)
  <2>1. m[b].size \in Nat /\ MinBlock <= m[b].size /\ b \in Nat /\ i \in Int /\ i < b  BY <1>1, <1>2
  <2>2. CASE front
    <3>1. i \in L /\ i \in Nat /\ m[i].size \in Nat /\ MinBlock <= m[i].size  BY <2>2, <1>1, <1>2
    <3> QED  BY <2>1, <2>2, <3>1, <1>1
  <2>3. CASE ~front  BY <2>1, <2>3, <1>1
  <2> QED  BY <2>2, <2>3
<1>5. reach => /\ after \in L /\ after # End /\ at + own = after
               /\ nxt = m[after].next /\ nxt \in L \cup {End} /\ after < nxt /\ nxt \in Int
               /\ \A c \in L : after < c => nxt <= c
               /\ len = own + m[after].size
  BY <1>1, <1>2, <1>3 DEF Reaches, Chain
<1>6. ~reach => nxt = after /\ len = own /\ (after = End \/ at + own # after)
  BY DEF Reaches
<1>7. p = [a \in Heads |-> IF a = at THEN Block("free", nxt, len)
                           ELSE IF a = i THEN [m[i] EXCEPT !.next = at]
                           ELSE m[a]]
  <2>1. m = [a \in Heads |-> m[a]] /\ DOMAIN m = Heads  BY DEF Memories
  <2>2. at \in Heads /\ i \in Heads  BY <1>1, <1>4
  <2> DEFINE m1 == [m EXCEPT ![at] = Block("free", nxt, len)]
  <2>3. p = IF at = i THEN m1 ELSE [m1 EXCEPT ![i].next = at]
    BY DEF Placed
  <2> HIDE DEF p, at, nxt, len
  <2>4. CASE at = i  BY <2>1, <2>2, <2>3, <2>4
  <2>5. CASE at # i  BY <2>1, <2>2, <2>3, <2>5
  <2> QED  BY <2>4, <2>5
<1>8. /\ p \in Memories /\ len \in Nat /\ nxt \in Int
      /\ p[at].kind = "free" /\ p[at].next = nxt /\ p[at].size = len
      /\ \A a \in Heads : a # at => p[a].size = m[a].size /\ p[a].kind = m[a].kind
      /\ \A a \in Heads : a # at /\ a # i => p[a] = m[a]
      /\ i # at => p[i].next = at
  <2>1. len \in Nat /\ nxt \in Int  BY <1>1, <1>2, <1>3, <1>4, <1>5, <1>6
  <2>2. at \in Heads /\ i \in Heads  BY <1>1, <1>4
  <2> HIDE DEF p, at, nxt, len
  <2>3. /\ \A a \in Heads : m[a] \in Head
        /\ \A a \in Head : a = [kind |-> a.kind, next |-> a.next, size |-> a.size]
    BY DEF Memories, Head
  <2>4. Block("free", nxt, len) = [kind |-> "free", next |-> nxt, size |-> len]  BY DEF Block
  <2>5. at \in Int  BY <1>4
  <2>6. [m[i] EXCEPT !.next = at] = [kind |-> m[i].kind, next |-> at, size |-> m[i].size]
    BY <2>2, <2>3
  <2>7. Block("free", nxt, len) \in Head /\ [m[i] EXCEPT !.next = at] \in Head
    BY <2>1, <2>2, <2>3, <2>4, <2>5, <2>6 DEF Head
  <2>8. p \in Memories  BY <1>7, <2>3, <2>7 DEF Memories
  <2> QED  BY <1>7, <2>1, <2>2, <2>4, <2>6, <2>8
<1> HIDE DEF p, K, nxt, len, reach, own, at, front, after
<1>9. \A c \in L : (c < b => c <= i) /\ (c > b => c >= after) /\ c \in Nat /\ c < End
  <2> SUFFICES ASSUME NEW c \in L
               PROVE  (c < b => c <= i) /\ (c > b => c >= after) /\ c \in Nat /\ c < End
    OBVIOUS
  <2>1. c \in Nat /\ c < End /\ b \in Nat /\ i \in Int /\ after \in Int /\ i < b /\ b < after
    BY <1>1, <1>3
  <2>2. i < c => after <= c  BY <1>3
  <2> QED  BY <2>1, <2>2
<1>10. K \subseteq L \cup {b} /\ K \subseteq Addresses /\ at \in K
  <2>1. at \in L \cup {b}  BY <1>4
  <2>2. reach => at # after  BY <1>1, <1>3, <1>4
  <2> QED  BY <2>1, <2>2 DEF K
<1>11. Chain(p, K)
  <2>1. nxt \in K \cup {End} /\ at < nxt /\ nxt \in Int /\ \A c \in K : at < c => nxt <= c
    <3>1. \A c \in K : c = at \/ c \in L  BY DEF K
    <3>2. \A c \in L : at < c => c >= after  BY <1>1, <1>3, <1>4, <1>9
    <3>3. after <= nxt /\ at < after /\ nxt \in Int
      BY <1>1, <1>3, <1>4, <1>5, <1>6
    <3>4. nxt \in K \cup {End}
      <4>1. nxt \in L \cup {End} /\ (reach => nxt # after)  BY <1>3, <1>5, <1>6
      <4> QED  BY <4>1 DEF K
    <3>5. ASSUME NEW c \in K, at < c PROVE nxt <= c
      <4>0. at \in Int /\ at # c  BY <1>4, <3>5
      <4>1. c \in L /\ c \in Int /\ at \in Int  BY <1>1, <3>1, <3>5, <4>0
      <4>2. c >= after  BY <3>2, <3>5, <4>1
      <4>3. CASE reach
        <5>1. c # after  BY <4>3, <3>3, <1>3, <1>4 DEF K
        <5>2. after < c  BY <4>1, <4>2, <5>1, <1>3
        <5> QED  BY <1>5, <4>1, <4>3, <5>2
      <4>4. CASE ~reach  BY <1>3, <1>6, <4>1, <4>2, <4>4
      <4> QED  BY <4>3, <4>4
    <3>6. at < nxt  BY <1>3, <1>4, <3>3
    <3> QED  BY <3>3, <3>4, <3>5, <3>6
  <2>2. ASSUME NEW a \in K \cup {Start}, a # at, a # i
        PROVE  /\ m[a].next \in K \cup {End} /\ a < m[a].next
               /\ \A c \in K : a < c => m[a].next <= c
    <3>1. a \in L \cup {Start} /\ a \in Heads /\ a \in Int /\ m[a].next \in Int
      BY <1>1, <1>2, <2>2 DEF K
    <3>2. m[a].next \in L \cup {End} /\ a < m[a].next /\ \A c \in L : a < c => m[a].next <= c
      BY <3>1 DEF Chain
    <3>3. a < i => m[a].next <= i
      <4>1. a < i => i \in L  BY <3>1, <1>1, <1>9
      <4> QED  BY <3>2, <4>1
    <3>4. a > i => a >= after
      <4>1. a > i => a \in L  BY <3>1, <1>1, <1>9
      <4> QED  BY <4>1, <3>1, <1>3
    <3>5. m[a].next # after
      BY <3>1, <3>2, <3>3, <3>4, <2>2, <1>1, <1>3
    <3>6. m[a].next \in K \cup {End}  BY <3>2, <3>5 DEF K
    <3>7. ASSUME NEW c \in K, a < c PROVE m[a].next <= c
      <4>1. CASE c \in L  BY <3>2, <3>7, <4>1
      <4>2. CASE c \notin L
        <5>1. c = at /\ c = b  BY <3>7, <4>2, <1>4 DEF K
        <5>2. a < b /\ a <= i  BY <3>1, <3>7, <5>1, <1>1, <1>3, <1>9
        <5> QED  BY <3>1, <3>3, <5>1, <5>2, <2>2, <1>1, <1>3
      <4> QED  BY <4>1, <4>2
    <3> QED  BY <3>2, <3>6, <3>7
  <2>3. ASSUME i # at
        PROVE at \in K /\ i < at /\ \A c \in K : i < c => at <= c
    <3>1. at = b  BY <2>3, <1>4
    <3>2. ASSUME NEW c \in K, i < c PROVE at <= c
      <4>1. c \in L \cup {b}  BY <3>2, <1>10
      <4>2. c \in L => after <= c  BY <3>2, <1>3
      <4> QED  BY <3>1, <4>1, <4>2, <1>1, <1>3, <1>9
    <3> QED  BY <3>1, <3>2, <1>10
  <2> SUFFICES ASSUME NEW a \in K \cup {Start}
               PROVE  /\ p[a].next \in K \cup {End} /\ a < p[a].next
                      /\ \A c \in K : a < c => p[a].next <= c
    BY DEF Chain
  <2>4. a \in Heads  BY <1>1, <1>10
  <2>5. CASE a = at  BY <2>1, <2>5, <1>8
  <2>6. CASE a # at /\ a = i  BY <2>3, <2>6, <1>8
  <2>7. CASE a # at /\ a # i  BY <2>2, <2>4, <2>7, <1>8
  <2> QED  BY <2>5, <2>6, <2>7
<1>12. Blocks(p, K \cup U)
  <2>0. \A c \in L \cup U \cup {b} :
           /\ c \in Addresses /\ c \in Nat /\ m[c].size \in Nat /\ MinBlock <= m[c].size
           /\ c + m[c].size <= End
           /\ \A d \in L \cup U \cup {b} : c < d => c + m[c].size <= d
    BY <1>1, <1>2 DEF Blocks
  <2>1. \A c \in K \cup U : (c # at => c \in L \cup U) /\ c \in L \cup U \cup {b}
    BY <1>10 DEF K
  <2>2. ASSUME NEW c \in L \cup U, at < c PROVE b + m[b].size <= c
    <3>1. c # b /\ c \in Nat /\ b \in Nat /\ at \in Nat  BY <2>0, <1>1, <1>4
    <3>2. c > b => b + m[b].size <= c  BY <2>0
    <3>3. c < b => FALSE
      <4>1. c < b => at # b /\ at = i /\ i \in L /\ i + m[i].size = b  BY <1>4, <2>2, <3>1
      <4>2. i \in L /\ i < c => i + m[i].size <= c  BY <2>0
      <4> QED  BY <4>1, <4>2, <2>2, <3>1
    <3> QED  BY <3>1, <3>2, <3>3
  <2>3. /\ MinBlock <= len /\ at + len <= End
        /\ \A c \in K \cup U : at < c => at + len <= c
    <3>1. CASE ~reach
      <4>1. at + len = b + m[b].size /\ MinBlock <= len  BY <3>1, <1>4, <1>6
      <4>2. \A c \in K \cup U : at < c => c \in L \cup U  BY <2>1, <1>4
      <4> QED  BY <2>0, <2>2, <4>1, <4>2
    <3>2. CASE reach
      <4>1. /\ after \in L /\ at + own = after /\ len = own + m[after].size
            /\ m[after].size \in Nat /\ after + m[after].size <= End /\ after \in Nat
        BY <3>2, <1>5, <2>0
      <4>2. at + len = after + m[after].size /\ MinBlock <= len
        BY <4>1, <1>1, <1>4
      <4>3. ASSUME NEW c \in K \cup U, at < c PROVE at + len <= c
        <5>0. c # at  BY <4>3, <1>4
        <5>1. c \in L \cup U /\ c \in Nat  BY <2>0, <2>1, <4>3, <5>0
        <5>2. after <= c  BY <2>2, <4>1, <4>3, <5>1, <1>4
        <5>3. after # c
          <6>1. after \notin K  BY <3>2, <4>1, <1>1, <1>4 DEF K
          <6> QED  BY <4>1, <6>1
        <5>4. after < c  BY <4>1, <5>1, <5>2, <5>3
        <5> QED  BY <2>0, <4>1, <4>2, <5>1, <5>4
      <4> QED  BY <4>1, <4>2, <4>3
    <3> QED  BY <3>1, <3>2
  <2> SUFFICES ASSUME NEW a \in K \cup U
               PROVE  /\ a \in Addresses /\ MinBlock <= p[a].size /\ a + p[a].size <= End
                      /\ \A c \in K \cup U : a < c => a + p[a].size <= c
    BY DEF Blocks
  <2>4. CASE a = at  BY <2>3, <2>4, <1>8, <1>10
  <2>5. CASE a # at
    <3>1. a \in L \cup U /\ a \in Heads  BY <2>1, <2>5, <1>1
    <3>2. p[a].size = m[a].size  BY <2>5, <3>1, <1>8
    <3> QED  BY <2>0, <2>1, <3>1, <3>2
  <2> QED  BY <2>4, <2>5
<1>13. Apart(p, K)
  <2>1. \A c \in L \cup {b} : c \in Nat /\ c < End /\ m[c].size \in Nat  BY <1>1, <1>2
  <2>2. \A c \in K : (c # at => c \in L) /\ c \in L \cup {b}  BY <1>10 DEF K
  <2>3. ASSUME NEW c \in K PROVE at + len # c
    <3>1. CASE c = at  BY <3>1, <1>1, <1>4, <1>5, <1>6, <2>1
    <3>2. CASE c # at /\ reach
      <4>1. at + len = after + m[after].size /\ after \in L
        BY <3>2, <1>4, <1>5, <2>1
      <4> QED  BY <3>2, <4>1, <2>2 DEF Apart
    <3>3. CASE c # at /\ ~reach
      <4>1. c \in L /\ c \in Nat /\ c < End  BY <3>3, <2>1, <2>2
      <4>2. at + len = b + m[b].size  BY <3>3, <1>4, <1>6
      <4>3. SUFFICES ASSUME at + len = c PROVE FALSE  OBVIOUS
      <4>4. c > b  BY <4>1, <4>2, <4>3, <2>1, <1>1, <1>2
      <4>5. c >= after  BY <4>1, <4>4, <1>9
      <4>6. after \in L  BY <4>1, <4>5, <1>1, <1>3
      <4>7. b + m[b].size <= after  BY <4>6, <1>3 DEF Blocks
      <4>8. after = c  BY <4>1, <4>2, <4>3, <4>5, <4>7, <1>3
      <4> QED  BY <3>3, <4>1, <4>3, <4>8, <1>6
    <3> QED  BY <3>1, <3>2, <3>3
  <2>4. ASSUME NEW a \in K, a # at, NEW c \in K PROVE a + m[a].size # c
    <3>1. a \in L  BY <2>2, <2>4
    <3>2. CASE c \in L  BY <3>1, <3>2 DEF Apart
    <3>3. CASE c \notin L
      <4>1. c = b /\ at = b  BY <3>3, <2>2, <1>4
      <4>2. SUFFICES ASSUME a + m[a].size = b PROVE FALSE  BY <4>1
      <4>3. a < b /\ a <= i  BY <3>1, <4>2, <1>1, <1>2, <1>9
      <4>4. i \in L  BY <3>1, <4>3, <2>1, <1>1
      <4>5. a = i => front  BY <4>1, <4>2, <4>4, <1>1 DEF front
      <4>6. a < i => a + m[a].size <= i  BY <3>1, <4>4 DEF Blocks
      <4> QED  BY <3>1, <4>1, <4>2, <4>3, <4>4, <4>5, <4>6, <2>1, <1>4
    <3> QED  BY <3>2, <3>3
  <2> SUFFICES ASSUME NEW a \in K, NEW c \in K PROVE a + p[a].size # c
    BY DEF Apart
  <2>5. a \in Heads  BY <1>1, <2>2
  <2>6. CASE a = at  BY <2>3, <2>6, <1>8
  <2>7. CASE a # at  BY <2>4, <2>5, <2>7, <1>8
  <2> QED  BY <2>6, <2>7
<1>14. FreeKind(p, K)
  BY <1>1, <1>8, <1>10 DEF FreeKind
<1>15. Covered(p, K) = Covered(m, L \cup {b})
  <2>0. /\ \A c \in L \cup {b} : c \in Nat /\ c < End /\ m[c].size \in Nat /\ c \in Heads
        /\ at \in Nat /\ len \in Nat /\ own \in Nat /\ Addresses \subseteq Nat
    BY <1>1, <1>2, <1>4, <1>8
  <2>1. at + len = IF reach THEN after + m[after].size ELSE b + m[b].size
    BY <2>0, <1>4, <1>5, <1>6
  <2>2. reach => after \in L /\ after = b + m[b].size /\ after \in Nat
    BY <2>0, <1>4, <1>5
  <2>3. at # b => i \in L /\ at = i /\ i + m[i].size = b  BY <1>4
  <2>4. ASSUME NEW u \in Addresses, NEW a \in K, u \in a .. a + p[a].size - 1
        PROVE  \E c \in L \cup {b} : u \in c .. c + m[c].size - 1
    <3>1. CASE a # at
      <4>1. a \in L  BY <3>1 DEF K
      <4>2. p[a].size = m[a].size  BY <3>1, <4>1, <2>0, <1>8
      <4> QED  BY <2>4, <4>1, <4>2
    <3>2. CASE a = at
      <4>1. u \in Nat /\ at <= u /\ u <= at + len - 1  BY <2>0, <2>4, <3>2, <1>8
      <4>2. CASE u < b  BY <4>1, <4>2, <2>0, <2>3
      <4>3. CASE b <= u /\ u <= b + m[b].size - 1  BY <4>1, <4>3, <2>0
      <4>4. CASE b + m[b].size <= u
        <5>1. reach  BY <4>1, <4>4, <2>0, <2>1
        <5>2. after <= u /\ u <= after + m[after].size - 1  BY <4>1, <4>4, <5>1, <2>0, <2>1, <2>2
        <5> QED  BY <4>1, <5>1, <5>2, <2>0, <2>2
      <4> QED  BY <4>1, <4>2, <4>3, <4>4, <2>0
    <3> QED  BY <3>1, <3>2
  <2>5. ASSUME NEW u \in Addresses, NEW a \in L \cup {b}, u \in a .. a + m[a].size - 1
        PROVE  \E c \in K : u \in c .. c + p[c].size - 1
    <3>1. u \in Nat /\ a \in Nat /\ m[a].size \in Nat /\ b \in Nat /\ m[b].size \in Nat
          /\ a <= u /\ u <= a + m[a].size - 1
      BY <2>0, <2>5
    <3>2. CASE a \in K /\ a # at
      <4>1. p[a].size = m[a].size  BY <3>2, <2>0, <1>8
      <4> QED  BY <2>5, <3>2, <4>1
    <3>3. CASE ~(a \in K /\ a # at)
      <4>1. a = at \/ a = b \/ (reach /\ a = after)  BY <3>3 DEF K
      <4>2. at <= u /\ u <= at + len - 1
        <5>1. CASE a = b
          BY <3>1, <5>1, <2>0, <2>1, <2>2, <1>4
        <5>2. CASE reach /\ a = after
          BY <3>1, <5>2, <2>0, <2>1, <2>2, <1>4
        <5>3. CASE a = at /\ a # b
          BY <3>1, <5>3, <2>0, <2>1, <2>2, <2>3
        <5> QED  BY <4>1, <5>1, <5>2, <5>3
      <4>3. u \in at .. at + p[at].size - 1  BY <3>1, <4>2, <2>0, <1>8
      <4> QED  BY <4>3, <1>10
    <3> QED  BY <3>2, <3>3
  <2> QED  BY <2>4, <2>5 DEF Covered
<1>17. InUse(p) = InUse(m)
  <2>1. m[at].kind = "free"  BY <1>4 DEF FreeKind
  <2>2. \A a \in Addresses : a \in Heads  BY PoolFacts DEF Heads
  <2>3. \A a \in Addresses : p[a].kind = m[a].kind  BY <1>8, <2>1, <2>2
  <2> QED  BY <2>3 DEF InUse
<1>18. \A a \in Heads \ (L \cup {b, Start}) : p[a] = m[a]  BY <1>4, <1>8
<1> QED  BY <1>10, <1>11, <1>12, <1>13, <1>14, <1>8, <1>15, <1>17, <1>18 DEF Sound, Settled, p

LEMMA InsertKeeps ==
  ASSUME NEW m, NEW L, NEW U, NEW b, Ready(m, L, U, b)
  PROVE  Settled(InsertFree(m, b), m, L, U, b)
<1> DEFINE i == Behind(m, b)
<1>1. L \in SUBSET Addresses /\ b \in Addresses /\ Chain(m, L)  BY DEF Ready
<1>2. i \in L \cup {Start} /\ i < b /\ m[i].next >= b  BY <1>1, BehindFacts
<1> HIDE DEF i
<1>3. Settled(Placed(m, i, b), m, L, U, b)  BY <1>2, PlacedKeeps
<1> QED  BY <1>3 DEF InsertFree, i

-----------------------------------------------------------------------------
(* What blocks cover.                                                      *)

LEMMA CoveredSame ==
  ASSUME NEW m, NEW q, NEW B, \A a \in B : q[a].size = m[a].size
  PROVE  Covered(q, B) = Covered(m, B)
BY DEF Covered

LEMMA CoveredUnion ==
  ASSUME NEW m, NEW A, NEW B
  PROVE  Covered(m, A \cup B) = Covered(m, A) \cup Covered(m, B)
BY DEF Covered

LEMMA CoveredOne ==
  ASSUME NEW m \in Memories, NEW B, Blocks(m, B), NEW b \in B
  PROVE  Covered(m, {b}) = b .. b + m[b].size - 1
<1>1. b \in Addresses /\ b + m[b].size <= End /\ b \in Heads  BY PoolFacts DEF Blocks, Heads
<1>2. m[b].size \in Nat  BY <1>1, HeadType
<1>3. b .. b + m[b].size - 1 \subseteq Addresses  BY <1>1, <1>2, PoolFacts
<1> QED  BY <1>3 DEF Covered

LEMMA CoveredApart ==
  ASSUME NEW m \in Memories, NEW A, NEW B, A \cap B = {}, Blocks(m, A \cup B)
  PROVE  Covered(m, A) \cap Covered(m, B) = {}
<1> SUFFICES ASSUME NEW u \in Addresses,
                    NEW a \in A, u \in a .. a + m[a].size - 1,
                    NEW b \in B, u \in b .. b + m[b].size - 1
             PROVE  FALSE
  BY DEF Covered
<1>1. /\ a \in Addresses /\ b \in Addresses /\ a # b /\ a \in Heads /\ b \in Heads
      /\ (a < b => a + m[a].size <= b) /\ (b < a => b + m[b].size <= a)
  BY PoolFacts DEF Blocks, Heads
<1>2. m[a].size \in Nat /\ m[b].size \in Nat  BY <1>1, HeadType
<1>3. a \in Nat /\ b \in Nat /\ u \in Nat  BY <1>1, PoolFacts
<1> QED  BY <1>1, <1>2, <1>3

\* A is B and, apart from it, s units from b on.
Joins(A, B, b, s) ==
  /\ A \in SUBSET Addresses /\ b \in Nat /\ s \in Nat
  /\ A = B \cup b .. b + s - 1 /\ B \cap b .. b + s - 1 = {}

LEMMA SpanCount ==
  ASSUME NEW A, NEW B, NEW b, NEW s, Joins(A, B, b, s)
  PROVE  /\ Cardinality(A) = Cardinality(B) + s
         /\ Cardinality(A) \in Nat /\ Cardinality(B) \in Nat
<1> USE DEF Joins
<1> DEFINE S == b .. b + s - 1
<1>1. IsFiniteSet(Addresses)  BY PoolFacts, FS_Interval
<1>2. IsFiniteSet(A) /\ IsFiniteSet(B)
  <2>1. B \in SUBSET Addresses  OBVIOUS
  <2> QED  BY <1>1, <2>1, FS_Subset
<1>3. IsFiniteSet(S) /\ Cardinality(S) = s
  <2>1. b + s - 1 \in Int  OBVIOUS
  <2>2. IsFiniteSet(S) /\ Cardinality(S) = IF b > b + s - 1 THEN 0 ELSE b + s - 1 - b + 1
    BY <2>1, FS_Interval
  <2> QED  BY <2>2
<1>4. Cardinality(B \cup S) = Cardinality(B) + Cardinality(S) - Cardinality(B \cap S)
  BY <1>2, <1>3, FS_Union
<1>5. Cardinality(B \cap S) = 0  BY FS_EmptySet
<1>6. Cardinality(B) \in Nat /\ Cardinality(A) \in Nat  BY <1>2, FS_CardinalityType
<1> QED  BY <1>3, <1>4, <1>5, <1>6

-----------------------------------------------------------------------------
(* static_pool_alloc() keeps the list.                                     *)

\* The block behind prev leaves the list.
LEMMA UnlinkKeeps ==
  ASSUME NEW m, NEW L, NEW U, Sound(m, L, U), NEW prev \in L \cup {Start},
         m[prev].next \in L
  PROVE  LET b == m[prev].next
             q == [m EXCEPT ![prev].next = m[b].next]
         IN  /\ q \in Memories /\ prev # b /\ b \in Addresses
             /\ Chain(q, L \ {b}) /\ Apart(q, L \ {b})
             /\ \A a \in Heads : q[a].size = m[a].size /\ q[a].kind = m[a].kind
             /\ \A a \in Heads : a # prev => q[a] = m[a]
<1> DEFINE b == m[prev].next
           q == [m EXCEPT ![prev].next = m[b].next]
           K == L \ {b}
<1>1. /\ m \in Memories /\ L \in SUBSET Addresses /\ Chain(m, L) /\ Apart(m, L)
      /\ \A a \in L : a \in Nat /\ a < End /\ a \in Heads
      /\ Start = -2 /\ End \in Nat /\ Start \in Heads /\ prev \in Heads
  BY PoolFacts DEF Sound, Heads
<1>2. /\ b \in L /\ prev < b /\ \A c \in L : prev < c => b <= c
      /\ m[b].next \in L \cup {End} /\ b < m[b].next /\ \A c \in L : b < c => m[b].next <= c
  BY <1>1 DEF Chain
<1>3. /\ \A a \in Heads : m[a] \in Head /\ m[a].next \in Int
      /\ m[b].next \in Int /\ prev \in Int /\ prev # b /\ b \in Int
  BY <1>1, <1>2, HeadType
<1> HIDE DEF b
<1>4. q = [a \in Heads |-> IF a = prev THEN [m[a] EXCEPT !.next = m[b].next] ELSE m[a]]
  BY <1>1 DEF Memories
<1> HIDE DEF q
<1>5. /\ q \in Memories
      /\ \A a \in Heads : q[a].size = m[a].size /\ q[a].kind = m[a].kind
      /\ \A a \in Heads : a # prev => q[a] = m[a]
      /\ q[prev].next = m[b].next
  <2>1. \A a \in Heads : [m[a] EXCEPT !.next = m[b].next] \in Head
    BY <1>3 DEF Head
  <2>2. q \in Memories  BY <1>3, <1>4, <2>1 DEF Memories
  <2> QED  BY <1>1, <1>3, <1>4, <2>2 DEF Head
<1>6. Apart(q, K)  BY <1>1, <1>5 DEF Apart
<1>7. Chain(q, K)
  <2> SUFFICES ASSUME NEW a \in K \cup {Start}
               PROVE  /\ q[a].next \in K \cup {End} /\ a < q[a].next
                      /\ \A c \in K : a < c => q[a].next <= c
    BY DEF Chain
  <2>1. CASE a = prev
    <3>1. m[b].next # b  BY <1>1, <1>2, <1>3
    <3>2. ASSUME NEW c \in K, prev < c PROVE m[b].next <= c
      <4>1. c \in L /\ c # b /\ c \in Int /\ b <= c  BY <1>1, <1>2, <3>2
      <4>2. b < c  BY <1>3, <4>1
      <4> QED  BY <1>2, <4>1, <4>2
    <3>3. prev < m[b].next  BY <1>2, <1>3
    <3> QED  BY <1>2, <1>5, <2>1, <3>1, <3>2, <3>3
  <2>2. CASE a # prev
    <3>0. b # Start /\ a \in L \cup {Start} /\ a # b
      <4>1. b \in Nat  BY <1>1, <1>2
      <4>2. b # Start  BY <1>1, <4>1
      <4> QED  BY <4>2
    <3>1. a \in L \cup {Start} /\ a # b /\ a \in Heads /\ a \in Int /\ m[a].next \in Int
      BY <1>1, <1>3, <3>0
    <3>2. m[a].next \in L \cup {End} /\ a < m[a].next /\ \A c \in L : a < c => m[a].next <= c
      BY <1>1, <3>1 DEF Chain
    <3>3. m[a].next # b
      <4>1. a < prev => m[a].next <= prev
        <5>1. a < prev => prev \in L  BY <1>1, <3>1
        <5> QED  BY <3>2, <5>1
      <4>2. a > prev => b <= a
        <5>1. a > prev => a \in L  BY <1>1, <3>1
        <5> QED  BY <1>2, <5>1
      <4> QED  BY <1>2, <1>3, <2>2, <3>1, <3>2, <4>1, <4>2
    <3> QED  BY <1>5, <2>2, <3>1, <3>2, <3>3
  <2> QED  BY <2>1, <2>2
<1> QED  BY <1>1, <1>2, <1>3, <1>5, <1>6, <1>7 DEF b, q

\* c is m with the block b cut to a size that answers need; the list K covers the rest.
Cut(c, m, L, U, b, need) ==
  \E K \in SUBSET Addresses :
    /\ Sound(c, K, U \cup {b}) /\ b \notin K
    /\ c[b].size \in need .. need + MinBlock - 1
    /\ Covered(c, K) \cup b .. b + c[b].size - 1 = Covered(m, L)
    /\ \A a \in U : c[a] = m[a]
    /\ InUse(c) = U

LEMMA CarveKeeps ==
  ASSUME NEW m, NEW L, NEW U, Sound(m, L, U), InUse(m) = U, NEW prev \in L \cup {Start},
         m[prev].next \in L, NEW need \in Nat, MinBlock <= need,
         need <= m[m[prev].next].size
  PROVE  Cut(Carve(m, prev, need), m, L, U, m[prev].next, need)
<1> DEFINE b == m[prev].next
           rest == m[b].size - need
           r == b + need
           q == [m EXCEPT ![prev].next = m[b].next]
           K == L \ {b}
           V == U \cup {b}
           s == [q EXCEPT ![b].size = need, ![r] = Block("free", NULL, rest)]
<1>1. /\ q \in Memories /\ prev # b /\ b \in Addresses /\ b \in L
      /\ Chain(q, K) /\ Apart(q, K)
      /\ \A a \in Heads : q[a].size = m[a].size /\ q[a].kind = m[a].kind
      /\ \A a \in Heads : a # prev => q[a] = m[a]
  BY UnlinkKeeps
<1>2. Carve(m, prev, need) = IF rest >= MinBlock THEN InsertFree(s, r) ELSE q
  BY DEF Carve
<1>3. /\ m \in Memories /\ L \in SUBSET Addresses /\ U \in SUBSET Addresses /\ L \cap U = {}
      /\ Blocks(m, L \cup U) /\ FreeKind(m, L)
  BY DEF Sound
<1>4. /\ \A a \in Addresses : a \in Nat /\ a < End /\ a \in Heads
      /\ End \in Nat /\ Start = -2 /\ Start \in Heads /\ MinBlock \in Nat \ {0} /\ Addresses = 0 .. End - 1
  BY PoolFacts DEF Heads
<1>5. /\ \A a \in L \cup U : /\ m[a].size \in Nat /\ MinBlock <= m[a].size /\ a + m[a].size <= End
                             /\ \A c \in L \cup U : a < c => a + m[a].size <= c
      /\ rest \in Nat /\ r \in Nat /\ m[b].size = need + rest
  <2>1. ASSUME NEW a \in L \cup U
        PROVE  /\ m[a].size \in Nat /\ MinBlock <= m[a].size /\ a + m[a].size <= End
               /\ \A c \in L \cup U : a < c => a + m[a].size <= c
    <3>1. a \in Heads  BY <1>3, <1>4
    <3>2. m[a].size \in Nat  BY <1>3, <3>1, HeadType
    <3> QED  BY <1>3, <3>2 DEF Blocks
  <2>2. b \in L \cup U /\ b \in Nat  BY <1>1, <1>4
  <2>3. m[b].size \in Nat /\ need <= m[b].size  BY <2>1, <2>2
  <2> QED  BY <2>1, <2>2, <2>3
<1> HIDE DEF b, rest, r, q, K, V, s
<1>6. prev \notin U /\ K \cap V = {} /\ K \cup V = L \cup U /\ K \in SUBSET Addresses /\ V \in SUBSET Addresses
  <2>1. Start \notin U  BY <1>3, <1>4
  <2> QED  BY <2>1, <1>1, <1>3 DEF K, V
<1>7. Blocks(q, K \cup V) /\ FreeKind(q, K) /\ q[b] = m[b] /\ InUse(q) = U
  <2>1. \A a \in L \cup U : q[a].size = m[a].size  BY <1>1, <1>3, <1>4
  <2>2. Blocks(q, L \cup U)  BY <1>3, <2>1 DEF Blocks
  <2>3. FreeKind(q, K)  BY <1>1, <1>3, <1>4 DEF FreeKind, K
  <2>4. InUse(q) = InUse(m)  BY <1>1, <1>4 DEF InUse
  <2> QED  BY <1>1, <1>4, <1>6, <2>2, <2>3, <2>4
<1>8. /\ b .. b + m[b].size - 1 \cup Covered(q, K) = Covered(m, L)
      /\ Covered(q, K) = Covered(m, K)
  <2>1. Covered(q, K) = Covered(m, K)
    <3>1. \A a \in K : q[a].size = m[a].size  BY <1>1, <1>4, <1>6
    <3> QED  BY <3>1, CoveredSame
  <2>2. Covered(m, K \cup {b}) = Covered(m, K) \cup Covered(m, {b})  BY CoveredUnion
  <2>3. Covered(m, {b}) = b .. b + m[b].size - 1
    <3>1. b \in L \cup U  BY <1>1
    <3> QED  BY <3>1, <1>3, CoveredOne
  <2>4. K \cup {b} = L  BY <1>1 DEF K
  <2> QED  BY <2>1, <2>2, <2>3, <2>4
<1>9. CASE ~(rest >= MinBlock)
  <2>1. Carve(m, prev, need) = q  BY <1>2, <1>9
  <2>2. Sound(q, K, V)  BY <1>1, <1>6, <1>7 DEF Sound
  <2>3. q[b].size \in need .. need + MinBlock - 1
    <3>1. rest < MinBlock  BY <1>4, <1>5, <1>9
    <3> QED  BY <1>4, <1>5, <1>7, <3>1
  <2>4. \A a \in U : q[a] = m[a]  BY <1>1, <1>3, <1>4, <1>6
  <2>5. b \notin K  BY DEF K
  <2>6. Covered(q, K) \cup b .. b + q[b].size - 1 = Covered(m, L)  BY <1>7, <1>8
  <2>7. Cut(q, m, L, U, b, need)
    BY <1>6, <1>7, <2>2, <2>3, <2>4, <2>5, <2>6 DEF Cut, V
  <2> QED  BY <2>1, <2>7 DEF b
<1>10. CASE rest >= MinBlock
  <2>1. Carve(m, prev, need) = InsertFree(s, r)  BY <1>2, <1>10
  <2>2. r \in Addresses /\ r \in Heads /\ b < r /\ r # prev /\ r \notin L \cup U /\ r # Start
    <3>1. b \in L \cup U /\ b \in Nat /\ r = b + need /\ need > 0 /\ need < m[b].size
      BY <1>1, <1>4, <1>5, <1>10 DEF r
    <3>2. b < r /\ r < b + m[b].size /\ b + m[b].size <= End  BY <1>5, <3>1
    <3>3. r \in Addresses  BY <1>4, <1>5, <3>1, <3>2
    <3>4. r \notin L \cup U
      <4>1. r \in L \cup U => b + m[b].size <= r  BY <1>5, <3>1, <3>2
      <4>2. b + m[b].size \in Int /\ r \in Int  BY <1>5, <3>1
      <4> QED  BY <3>2, <4>1, <4>2
    <3>5. r # Start  BY <1>4, <1>5
    <3> QED  BY <1>4, <3>2, <3>3, <3>4, <3>5
  <2>3. s \in Memories
    <3>1. \A a \in Heads : q[a] \in Head /\ [q[a] EXCEPT !.size = need] \in Head
      BY <1>1 DEF Memories, Head
    <3>2. Block("free", NULL, rest) \in Head  BY <1>5 DEF Block, Head, NULL
    <3>3. [q EXCEPT ![b].size = need] \in Memories
      BY <1>1, <1>4, <3>1 DEF Memories
    <3> QED  BY <2>2, <3>2, <3>3 DEF Memories, s
  <2>4. /\ \A a \in Heads : a # r => s[a].kind = m[a].kind
        /\ \A a \in Heads : a # r /\ a # b => s[a] = q[a]
        /\ s[b].size = need /\ s[r].size = rest /\ s[r].kind = "free"
    <3> DEFINE q1 == [q EXCEPT ![b].size = need]
    <3>1. q = [a \in Heads |-> q[a]] /\ DOMAIN q = Heads  BY <1>1 DEF Memories
    <3>2. b \in Heads /\ b # r  BY <1>1, <1>4, <2>2
    <3>3. DOMAIN q1 = Heads /\ q1[b] = [q[b] EXCEPT !.size = need] /\ \A a \in Heads : a # b => q1[a] = q[a]
      BY <3>1, <3>2
    <3>4. s = [q1 EXCEPT ![r] = Block("free", NULL, rest)]  BY DEF s
    <3> HIDE DEF q1
    <3>5. s[r] = Block("free", NULL, rest) /\ \A a \in Heads : a # r => s[a] = q1[a]
      BY <2>2, <3>3, <3>4
    <3>6. q[b] \in Head  BY <1>1, <3>2 DEF Memories
    <3>7. [q[b] EXCEPT !.size = need].kind = q[b].kind /\ [q[b] EXCEPT !.size = need].size = need
      BY <3>6 DEF Head
    <3>8. s[r].size = rest /\ s[r].kind = "free"  BY <3>5 DEF Block
    <3>9. s[b].size = need /\ s[b].kind = q[b].kind  BY <3>2, <3>3, <3>5, <3>7
    <3>10. \A a \in Heads : a # r /\ a # b => s[a] = q[a]  BY <3>3, <3>5
    <3>11. \A a \in Heads : a # r => s[a].kind = m[a].kind  BY <1>1, <3>2, <3>9, <3>10
    <3> QED  BY <3>8, <3>9, <3>10, <3>11
  <2>5. Chain(s, K) /\ Apart(s, K) /\ FreeKind(s, K \cup {r})
    <3>1. \A a \in K \cup {Start} : s[a] = q[a]
      <4>1. \A a \in K \cup {Start} : a \in Heads /\ a # r /\ a # b
        BY <1>1, <1>4, <1>6, <2>2 DEF K
      <4> QED  BY <2>4, <4>1
    <3> QED  BY <1>1, <1>7, <2>4, <3>1 DEF Chain, Apart, FreeKind
  <2>6. Blocks(s, K \cup V \cup {r})
    <3>1. \A a \in L \cup U : a # b => s[a].size = m[a].size
      <4>1. \A a \in L \cup U : a \in Heads /\ a # r  BY <1>3, <1>4, <2>2
      <4> QED  BY <1>1, <2>4, <4>1
    <3>2. /\ r = b + need /\ b \in Nat /\ b \in L \cup U /\ m[b].size = need + rest
          /\ r \in Nat /\ rest \in Nat /\ r + rest = b + m[b].size
      BY <1>1, <1>4, <1>5 DEF r
    <3>3. \A a \in L \cup U : a \in Addresses /\ a \in Nat  BY <1>3, <1>4
    <3> SUFFICES ASSUME NEW a \in L \cup U \cup {r}
                 PROVE  /\ a \in Addresses /\ MinBlock <= s[a].size /\ a + s[a].size <= End
                        /\ \A c \in L \cup U \cup {r} : a < c => a + s[a].size <= c
      BY <1>6 DEF Blocks
    <3>4. CASE a = b
      <4>1. ASSUME NEW c \in L \cup U \cup {r}, b < c PROVE b + need <= c
        <5>1. c \in L \cup U => b + m[b].size <= c /\ c \in Nat  BY <1>5, <3>2, <3>3, <4>1
        <5> QED  BY <3>2, <5>1
      <4>2. b + need <= End  BY <1>4, <1>5, <3>2
      <4> QED  BY <1>1, <2>4, <3>4, <4>1, <4>2
    <3>5. CASE a = r
      <4>1. ASSUME NEW c \in L \cup U \cup {r}, r < c PROVE r + rest <= c
        <5>1. c \in L \cup U  BY <3>2, <4>1
        <5>2. b < c  BY <2>2, <3>2, <3>3, <4>1, <5>1
        <5> QED  BY <1>5, <3>2, <5>1, <5>2
      <4> QED  BY <1>5, <1>10, <2>2, <2>4, <3>2, <3>5, <4>1
    <3>6. CASE a # b /\ a # r
      <4>1. a \in L \cup U /\ s[a].size = m[a].size /\ m[a].size \in Nat  BY <1>5, <3>1, <3>6
      <4>2. a < r => a + m[a].size <= r
        <5>1. a < b => a + m[a].size <= b  BY <1>5, <3>2, <4>1
        <5>2. b < a => b + m[b].size <= a  BY <1>5, <3>2, <4>1
        <5> QED  BY <2>2, <3>2, <3>3, <3>6, <4>1, <5>1, <5>2
      <4> QED  BY <1>5, <3>3, <4>1, <4>2
    <3> QED  BY <3>4, <3>5, <3>6
  <2>7. Ready(s, K, V, r)
    BY <1>6, <2>2, <2>3, <2>5, <2>6 DEF Ready
  <2>8. Settled(InsertFree(s, r), s, K, V, r)  BY <2>7, InsertKeeps
  <2> DEFINE p == InsertFree(s, r)
  <2> HIDE DEF p
  <2>9. PICK N \in SUBSET (K \cup {r}) :
          /\ Sound(p, N, V) /\ Covered(p, N) = Covered(s, K \cup {r})
          /\ \A a \in Heads \ (K \cup {r, Start}) : p[a] = s[a]
          /\ InUse(p) = InUse(s)
    BY <2>8 DEF Settled, p
  <2>10. p[b] = s[b] /\ b \notin N /\ \A a \in U : p[a] = m[a]
    <3>1. \A a \in V : a \in Heads /\ a \notin K \cup {r, Start} /\ a \notin {r}
      BY <1>1, <1>3, <1>4, <1>6, <2>2 DEF V
    <3>2. \A a \in V : p[a] = s[a] /\ a \notin N  BY <2>9, <3>1
    <3>3. \A a \in U : a # b /\ a # r /\ a # prev /\ a \in Heads
      BY <1>1, <1>3, <1>4, <1>6, <2>2
    <3>4. \A a \in U : s[a] = m[a]  BY <1>1, <2>4, <3>3
    <3> QED  BY <3>2, <3>4 DEF V
  <2>11. InUse(s) = U
    <3>1. \A a \in Addresses : a # r => s[a].kind = m[a].kind  BY <1>4, <2>4
    <3> QED  BY <2>2, <2>4, <3>1 DEF InUse
  <2>12. Covered(p, N) \cup b .. b + p[b].size - 1 = Covered(m, L)
    <3>1. Covered(s, K \cup {r}) = Covered(s, K) \cup Covered(s, {r})  BY CoveredUnion
    <3>2. Covered(s, {r}) = r .. r + rest - 1
      <4>1. r \in K \cup V \cup {r}  OBVIOUS
      <4>2. Covered(s, {r}) = r .. r + s[r].size - 1  BY <2>3, <2>6, <4>1, CoveredOne
      <4> QED  BY <2>4, <4>2
    <3>3. Covered(s, K) = Covered(m, K)
      <4>1. \A a \in K : a \in Heads /\ a # r /\ a # b  BY <1>4, <1>6, <2>2 DEF K
      <4>2. \A a \in K : s[a].size = m[a].size  BY <1>1, <2>4, <4>1
      <4> QED  BY <4>2, CoveredSame
    <3>4. p[b].size = need  BY <2>4, <2>10
    <3>5. b .. b + m[b].size - 1 = b .. b + need - 1 \cup r .. r + rest - 1
      <4>1. b \in Nat /\ m[b].size = need + rest /\ r = b + need /\ rest \in Nat
        BY <1>1, <1>4, <1>5 DEF r
      <4> QED  BY <4>1
    <3> QED  BY <1>8, <2>9, <3>1, <3>2, <3>3, <3>4, <3>5
  <2>13. p[b].size \in need .. need + MinBlock - 1  BY <1>4, <2>4, <2>10
  <2>14. Cut(p, m, L, U, b, need)
    <3>1. N \in SUBSET Addresses  BY <1>6, <2>2
    <3>2. Sound(p, N, U \cup {b}) /\ b \notin N  BY <2>9, <2>10 DEF V
    <3>3. InUse(p) = U  BY <2>9, <2>11
    <3> QED  BY <3>1, <3>2, <3>3, <2>10, <2>12, <2>13 DEF Cut
  <2> QED  BY <2>1, <2>14 DEF b, p
<1> QED  BY <1>9, <1>10

\* The pool p is in order: L is its free list, and every unit and every count is accounted for.
GoodBy(p, L) ==
  /\ Sound(p.mem, L, InUse(p.mem)) /\ Covered(p.mem, L \cup InUse(p.mem)) = Addresses
  /\ p.free = Cardinality(Covered(p.mem, L)) /\ p.live = Cardinality(InUse(p.mem))
  /\ p.min \in Int /\ p.min <= p.free
  /\ p = [mem |-> p.mem, free |-> p.free, min |-> p.min, live |-> p.live, at |-> p.at]
Good(p) == \E L \in SUBSET Addresses : GoodBy(p, L)

\* q is p with one more block in use, fit for need.
Taken(q, p, need) ==
  /\ Good(q) /\ q.at \in Addresses \ InUse(p.mem)
  /\ InUse(q.mem) = InUse(p.mem) \cup {q.at}
  /\ \A a \in InUse(p.mem) : q.mem[a] = p.mem[a]
  /\ q.mem[q.at].size \in need .. need + MinBlock - 1

\* h is c with b in use beside U, its payload written.
Marked(h, c, K, U, b) ==
  /\ Sound(h, K, U \cup {b}) /\ InUse(h) = U \cup {b}
  /\ Covered(h, K) = Covered(c, K) /\ Covered(h, U \cup {b}) = Covered(c, U \cup {b})
  /\ h[b].size = c[b].size /\ \A a \in U \ {b} : h[a] = c[a]

LEMMA HandedKeeps ==
  ASSUME NEW c, NEW K, NEW U, NEW b, Sound(c, K, U \cup {b}), b \notin K, InUse(c) = U,
         b \in Addresses
  PROVE  Marked(Handed(c, b), c, K, U, b)
<1> DEFINE V == U \cup {b}
           h == Handed(c, b)
           inner == b + 1 .. b + c[b].size - 1
<1>1. /\ c \in Memories /\ K \in SUBSET Addresses /\ V \in SUBSET Addresses /\ K \cap V = {}
      /\ Chain(c, K) /\ Blocks(c, K \cup V) /\ Apart(c, K) /\ FreeKind(c, K)
  BY DEF Sound
<1>2. /\ \A a \in Addresses : a \in Nat /\ a \in Heads
      /\ Start = -2 /\ Start \in Heads
  BY PoolFacts DEF Heads
<1>3. c[b].size \in Nat /\ c[b].next \in Int  BY <1>1, <1>2, HeadType
<1>4. h = [a \in Heads |-> IF a = b THEN Block("used", NULL, c[b].size)
                           ELSE IF a \in inner THEN Raw ELSE c[a]]
  BY <1>1 DEF Handed, Memories
<1> HIDE DEF h
<1>5. \A a \in K \cup V \cup {Start} : a \notin inner /\ a \in Heads
  <2>1. \A a \in K \cup V : a \notin inner
    <3> SUFFICES ASSUME NEW a \in K \cup V, a \in inner PROVE FALSE  OBVIOUS
    <3>1. b < a /\ a < b + c[b].size /\ b \in K \cup V /\ a \in Nat /\ b \in Nat
      BY <1>1, <1>2, <1>3
    <3>2. b + c[b].size <= a  BY <1>1, <3>1 DEF Blocks
    <3> QED  BY <1>3, <3>1, <3>2
  <2>2. Start \notin inner  BY <1>2, <1>3
  <2> QED  BY <1>1, <1>2, <2>1, <2>2
<1>6. h[b] = Block("used", NULL, c[b].size)  BY <1>2, <1>4
<1> HIDE DEF inner
<1>7. \A a \in (K \cup V \cup {Start}) \ {b} : h[a] = c[a]  BY <1>4, <1>5
<1>8. \A a \in K \cup {Start} : h[a] = c[a]
  <2>1. b # Start  BY <1>2
  <2> QED  BY <1>7, <2>1
<1>9. \A a \in K \cup V : h[a].size = c[a].size  BY <1>6, <1>7 DEF Block
<1>10. h \in Memories
  <2>1. Block("used", NULL, c[b].size) \in Head  BY <1>3 DEF Head, Block, NULL
  <2>2. Raw \in Head  BY DEF Head, Raw, NULL
  <2>3. \A a \in Heads : c[a] \in Head  BY <1>1 DEF Memories
  <2> QED  BY <1>4, <2>1, <2>2, <2>3 DEF Memories
<1>11. Chain(h, K) /\ Apart(h, K) /\ FreeKind(h, K)
  BY <1>1, <1>8 DEF Chain, Apart, FreeKind
<1>12. Blocks(h, K \cup V)  BY <1>1, <1>9 DEF Blocks
<1>13. InUse(h) = V
  <2>1. \A a \in Addresses : h[a].kind = "used" => a = b \/ a \in U
    <3> SUFFICES ASSUME NEW a \in Addresses, h[a].kind = "used", a # b PROVE a \in U
      OBVIOUS
    <3>1. a \notin inner  BY <1>2, <1>4 DEF Raw
    <3>2. h[a] = c[a]  BY <1>2, <1>4, <3>1
    <3> QED  BY <3>2 DEF InUse
  <2>2. \A a \in U \ {b} : h[a].kind = "used"  BY <1>7 DEF InUse
  <2>3. h[b].kind = "used"  BY <1>6 DEF Block
  <2> QED  BY <1>1, <2>1, <2>2, <2>3 DEF InUse
<1>14. Covered(h, K) = Covered(c, K) /\ Covered(h, V) = Covered(c, V)
  BY <1>9, CoveredSame
<1>15. Sound(h, K, V)  BY <1>1, <1>10, <1>11, <1>12 DEF Sound
<1> QED  BY <1>6, <1>7, <1>9, <1>13, <1>14, <1>15 DEF h, Marked

LEMMA TakeKeeps ==
  ASSUME NEW p, NEW L, GoodBy(p, L), NEW prev \in L \cup {Start}, p.mem[prev].next \in L,
         NEW need \in Nat, MinBlock <= need, need <= p.mem[p.mem[prev].next].size
  PROVE  Taken(TakeFrom(p, prev, need), p, need)
<1> DEFINE m == p.mem
           b == m[prev].next
           U == InUse(m)
           c == Carve(m, prev, need)
           h == Handed(c, b)
           q == TakeFrom(p, prev, need)
<1>1. Sound(m, L, U) /\ Covered(m, L \cup U) = Addresses  BY DEF GoodBy
<1>2. Cut(c, m, L, U, b, need)  BY <1>1, CarveKeeps
<1>3. /\ q.mem = h /\ q.free = p.free - c[b].size /\ q.live = p.live + 1 /\ q.at = b
      /\ q.min = IF p.free - c[b].size < p.min THEN p.free - c[b].size ELSE p.min
  BY DEF TakeFrom
<1>4. b \in Addresses /\ b \notin U  BY <1>1 DEF Sound
<1>a. /\ p.free = Cardinality(Covered(m, L)) /\ p.live = Cardinality(U)
      /\ p.min \in Int /\ p.min <= p.free
  BY DEF GoodBy
<1> HIDE DEF m, b, U, c, h, q
<1>5. PICK K \in SUBSET Addresses :
        /\ Sound(c, K, U \cup {b}) /\ b \notin K
        /\ c[b].size \in need .. need + MinBlock - 1
        /\ Covered(c, K) \cup b .. b + c[b].size - 1 = Covered(m, L)
        /\ \A a \in U : c[a] = m[a]
        /\ InUse(c) = U
  BY <1>2 DEF Cut
<1>6. /\ Sound(h, K, U \cup {b}) /\ InUse(h) = U \cup {b}
      /\ Covered(h, K) = Covered(c, K) /\ Covered(h, U \cup {b}) = Covered(c, U \cup {b})
      /\ h[b].size = c[b].size /\ \A a \in U \ {b} : h[a] = c[a]
  <2>1. Sound(c, K, U \cup {b}) /\ b \notin K /\ InUse(c) = U /\ b \in Addresses
    BY <1>4, <1>5
  <2>2. Marked(h, c, K, U, b)  BY <2>1, HandedKeeps DEF h
  <2> QED  BY <2>2 DEF Marked
<1>7. \A a \in U : h[a] = m[a]  BY <1>4, <1>5, <1>6
<1>8. /\ c \in Memories /\ Blocks(c, K \cup (U \cup {b})) /\ K \cap (U \cup {b}) = {}
      /\ b \in Nat /\ c[b].size \in Nat
  <2>1. c \in Memories  BY <1>5 DEF Sound
  <2>2. b \in Nat /\ b \in Heads  BY <1>4, PoolFacts DEF Heads
  <2> QED  BY <1>5, <2>1, <2>2, HeadType DEF Sound
<1>9. Covered(c, {b}) = b .. b + c[b].size - 1
  <2>1. b \in K \cup (U \cup {b})  OBVIOUS
  <2> QED  BY <1>8, <2>1, CoveredOne
<1>10. Covered(h, K \cup (U \cup {b})) = Addresses
  <2>1. Covered(c, U \cup {b}) = Covered(c, U) \cup Covered(c, {b})  BY CoveredUnion
  <2>2. Covered(c, U) = Covered(m, U)
    <3>1. \A a \in U : c[a].size = m[a].size  BY <1>5
    <3> QED  BY <3>1, CoveredSame
  <2>3. Covered(m, L \cup U) = Covered(m, L) \cup Covered(m, U)  BY CoveredUnion
  <2>4. Covered(h, K \cup (U \cup {b})) = Covered(h, K) \cup Covered(h, U \cup {b})
    BY CoveredUnion
  <2> QED  BY <1>1, <1>5, <1>6, <1>9, <2>1, <2>2, <2>3, <2>4
<1>11. q.free = Cardinality(Covered(h, K)) /\ q.free \in Nat
  <2>1. Covered(c, K) \cap Covered(c, {b}) = {}
    <3>1. K \cap {b} = {} /\ Blocks(c, K \cup {b})  BY <1>8 DEF Blocks
    <3> QED  BY <1>8, <3>1, CoveredApart
  <2>2. Covered(m, L) \in SUBSET Addresses  BY DEF Covered
  <2>3. /\ Cardinality(Covered(m, L)) = Cardinality(Covered(c, K)) + c[b].size
        /\ Cardinality(Covered(c, K)) \in Nat
    <3> DEFINE A == Covered(m, L)
               B == Covered(c, K)
               n == c[b].size
    <3>1. /\ A \in SUBSET Addresses /\ n \in Nat /\ b \in Nat
          /\ A = B \cup b .. b + n - 1 /\ B \cap b .. b + n - 1 = {}
      BY <1>5, <1>8, <1>9, <2>1, <2>2
    <3> HIDE DEF A, B, n
    <3>a. Joins(A, B, b, n)  BY <3>1 DEF Joins
    <3>2. Cardinality(A) = Cardinality(B) + n /\ Cardinality(B) \in Nat  BY <3>a, SpanCount
    <3> QED  BY <3>2 DEF A, B, n
  <2> QED  BY <1>3, <1>6, <1>8, <1>a, <2>3
<1>12. q.live = Cardinality(InUse(h))
  <2>1. IsFiniteSet(Addresses) /\ U \subseteq Addresses  BY PoolFacts, FS_Interval DEF InUse, U
  <2>2. IsFiniteSet(U)  BY <2>1, FS_Subset
  <2>3. Cardinality(U \cup {b}) = Cardinality(U) + 1  BY <1>4, <2>2, FS_AddElement
  <2> QED  BY <1>3, <1>6, <1>a, <2>3
<1>13. q.min \in Int /\ q.min <= q.free  BY <1>3, <1>a, <1>11
<1>b. q = [mem |-> q.mem, free |-> q.free, min |-> q.min, live |-> q.live, at |-> q.at]
  BY DEF TakeFrom, q
<1>14. GoodBy(q, K)  BY <1>3, <1>6, <1>10, <1>11, <1>12, <1>13, <1>b DEF GoodBy
<1>15. Good(q)  BY <1>14 DEF Good
<1>16. Taken(q, p, need)
  BY <1>3, <1>4, <1>5, <1>6, <1>7, <1>15 DEF Taken, m, U
<1> QED  BY <1>16 DEF q

\* No listed block of p can hold need.
NoFit(p, need) == \E L \in SUBSET Addresses : GoodBy(p, L) /\ \A c \in L : p.mem[c].size < need

LEMMA AllocKeeps ==
  ASSUME NEW p, Good(p), NEW n \in Sizes
  PROVE  \/ AllocIn(p, n) = p /\ NoFit(p, Need(n))
         \/ Taken(AllocIn(p, n), p, Need(n))
<1> DEFINE need == Need(n)
           prev == FirstFit(p.mem, need)
<1>1. PICK L \in SUBSET Addresses : GoodBy(p, L)  BY DEF Good
<1>2. need \in Nat /\ MinBlock <= need  BY PoolFacts
<1>3. p.mem \in Memories /\ Chain(p.mem, L)  BY <1>1 DEF GoodBy, Sound
<1>4. AllocIn(p, n) = IF Capacity = 0 \/ p.mem[prev].next = End THEN p ELSE TakeFrom(p, prev, need)
  BY DEF AllocIn
<1>5. L = {} \/ Capacity # 0  BY PoolFacts
<1> HIDE DEF need, prev
<1>6. CASE Capacity = 0
  BY <1>1, <1>4, <1>5, <1>6 DEF NoFit, need
<1>7. CASE Capacity # 0
  <2>1. /\ prev \in L \cup {Start}
        /\ \/ p.mem[prev].next = End /\ \A c \in L : p.mem[c].size < need
           \/ p.mem[prev].next \in L /\ p.mem[p.mem[prev].next].size >= need
    BY <1>2, <1>3, <1>7, FirstFitFacts DEF prev
  <2>2. CASE p.mem[prev].next = End
    <3>1. End \notin L  BY PoolFacts
    <3>2. NoFit(p, need)  BY <1>1, <2>1, <2>2, <3>1 DEF NoFit
    <3> QED  BY <1>4, <2>2, <3>2 DEF need
  <2>3. CASE p.mem[prev].next # End
    <3>1. p.mem[prev].next \in L /\ p.mem[p.mem[prev].next].size >= need  BY <2>1, <2>3
    <3>2. p.mem[p.mem[prev].next].size \in Nat
      <4>0. Addresses \subseteq Heads  BY PoolFacts DEF Heads
      <4>1. p.mem[prev].next \in Heads  BY <3>1, <4>0
      <4> QED  BY <1>3, <4>1, HeadType
    <3>3. need <= p.mem[p.mem[prev].next].size  BY <1>2, <3>1, <3>2
    <3>4. Taken(TakeFrom(p, prev, need), p, need)  BY <1>1, <1>2, <2>1, <3>1, <3>3, TakeKeeps
    <3> QED  BY <1>4, <1>7, <2>3, <3>4 DEF need
  <2> QED  BY <2>2, <2>3
<1> QED  BY <1>6, <1>7

-----------------------------------------------------------------------------
(* static_pool_free() keeps the list.                                      *)

\* q is p with b no longer in use.
Returned(q, p, b) ==
  /\ Good(q) /\ q.at = p.at /\ InUse(q.mem) = InUse(p.mem) \ {b}
  /\ \A a \in InUse(p.mem) \ {b} : q.mem[a] = p.mem[a]

LEMMA FreeKeeps ==
  ASSUME NEW p, Good(p), NEW b \in InUse(p.mem)
  PROVE  Returned(FreeIn(p, b), p, b)
<1> DEFINE m == p.mem
           U == InUse(m)
           V == U \ {b}
           s == [m EXCEPT ![b].kind = "free", ![b].next = NULL]
           i == InsertFree(s, b)
           q == FreeIn(p, b)
<1>1. PICK L \in SUBSET Addresses : GoodBy(p, L)  BY DEF Good
<1>2. /\ Sound(m, L, U) /\ Covered(m, L \cup U) = Addresses
      /\ p.free = Cardinality(Covered(m, L)) /\ p.live = Cardinality(U)
      /\ p.min \in Int /\ p.min <= p.free
      /\ p = [mem |-> m, free |-> p.free, min |-> p.min, live |-> p.live, at |-> p.at]
  BY <1>1 DEF GoodBy
<1>3. q = [mem |-> i, free |-> p.free + m[b].size, min |-> p.min, live |-> p.live - 1, at |-> p.at]
  <2>1. q = [p EXCEPT !.mem = i, !.free = @ + m[b].size, !.live = @ - 1]  BY DEF FreeIn
  <2> DEFINE x == p.free
             y == p.min
             z == p.live
             w == p.at
  <2>2. p = [mem |-> m, free |-> x, min |-> y, live |-> z, at |-> w]  BY <1>2
  <2> HIDE DEF q, i, m, x, y, z, w
  <2>3. q = [mem |-> i, free |-> x + m[b].size, min |-> y, live |-> z - 1, at |-> w]
    BY <2>1, <2>2
  <2> QED  BY <2>3 DEF x, y, z, w
<1>4. /\ m \in Memories /\ U \in SUBSET Addresses /\ L \cap U = {} /\ Chain(m, L)
      /\ Blocks(m, L \cup U) /\ Apart(m, L) /\ FreeKind(m, L)
  BY <1>2 DEF Sound
<1>5. /\ \A a \in Addresses : a \in Nat /\ a \in Heads
      /\ Start = -2 /\ Start \in Heads /\ b \in Addresses /\ b \in U /\ b \notin L
  BY <1>4, PoolFacts DEF Heads
<1> HIDE DEF m, U, V, s, i, q
<1>6. /\ s \in Memories /\ \A a \in Heads : a # b => s[a] = m[a]
      /\ s[b].size = m[b].size /\ s[b].kind = "free"
  <2>1. \A a \in Heads : m[a] \in Head  BY <1>4 DEF Memories
  <2>2. m[b] = [kind |-> m[b].kind, next |-> m[b].next, size |-> m[b].size] /\ m[b].size \in Nat
    BY <1>5, <2>1 DEF Head
  <2> DEFINE s1 == [m EXCEPT ![b].kind = "free"]
  <2>3. m = [a \in Heads |-> m[a]] /\ DOMAIN m = Heads  BY <1>4 DEF Memories
  <2>4. DOMAIN s1 = Heads /\ s1[b] = [m[b] EXCEPT !.kind = "free"] /\ \A a \in Heads : a # b => s1[a] = m[a]
    BY <1>5, <2>3
  <2>5. s = [s1 EXCEPT ![b].next = NULL] /\ s1 = [a \in Heads |-> s1[a]]  BY <2>3 DEF s
  <2>6. s1[b] = [kind |-> "free", next |-> m[b].next, size |-> m[b].size]  BY <2>2, <2>4
  <2> HIDE DEF s1
  <2>7. /\ s[b] = [kind |-> "free", next |-> NULL, size |-> m[b].size]
        /\ \A a \in Heads : a # b => s[a] = s1[a]
        /\ s = [a \in Heads |-> s[a]]
    BY <1>5, <2>4, <2>5, <2>6
  <2>8. s[b] \in Head  BY <2>2, <2>7 DEF Head, NULL
  <2>9. \A a \in Heads : s[a] \in Head  BY <2>1, <2>4, <2>7, <2>8
  <2> QED  BY <2>4, <2>7, <2>9 DEF Memories
<1>7. \A a \in (L \cup U \cup {Start}) \ {b} : s[a] = m[a]
  <2>1. \A a \in L \cup U \cup {Start} : a \in Heads  BY <1>4, <1>5
  <2> QED  BY <1>6, <2>1
<1>8. \A a \in L \cup {Start} : s[a] = m[a]
  <2>1. b # Start  BY <1>5
  <2> QED  BY <1>5, <1>7, <2>1
<1>9. \A a \in L \cup U : s[a].size = m[a].size  BY <1>6, <1>7
<1>10. Ready(s, L, V, b)
  <2>1. Chain(s, L) /\ Apart(s, L) /\ FreeKind(s, L \cup {b})
    BY <1>4, <1>6, <1>8 DEF Chain, Apart, FreeKind
  <2>2. L \cup V \cup {b} = L \cup U  BY <1>5 DEF V
  <2>3. Blocks(s, L \cup V \cup {b})  BY <1>4, <1>9, <2>2 DEF Blocks
  <2>4. V \in SUBSET Addresses /\ b \notin L \cup V /\ L \cap V = {}  BY <1>4, <1>5 DEF V
  <2> QED  BY <1>5, <1>6, <2>1, <2>3, <2>4 DEF Ready
<1>11. PICK K \in SUBSET (L \cup {b}) :
         /\ Sound(i, K, V) /\ Covered(i, K) = Covered(s, L \cup {b})
         /\ \A a \in Heads \ (L \cup {b, Start}) : i[a] = s[a]
         /\ InUse(i) = InUse(s)
  BY <1>10, InsertKeeps DEF Settled, i
<1>12. InUse(i) = V /\ \A a \in V : i[a] = m[a]
  <2>1. \A a \in Addresses : s[a].kind = "used" <=> a \in V
    <3>1. \A a \in Addresses : a # b => s[a].kind = m[a].kind  BY <1>5, <1>6
    <3> QED  BY <1>6, <3>1 DEF InUse, V, U
  <2>2. InUse(s) = V  BY <1>4, <2>1 DEF InUse, V
  <2>3. \A a \in V : a \in Heads \ (L \cup {b, Start})  BY <1>4, <1>5 DEF V
  <2> QED  BY <1>6, <1>11, <2>2, <2>3
<1>13. Covered(i, K) = Covered(m, L) \cup b .. b + m[b].size - 1
  <2>1. Covered(s, L \cup {b}) = Covered(m, L \cup {b})
    <3>1. \A a \in L \cup {b} : s[a].size = m[a].size  BY <1>5, <1>9
    <3> QED  BY <3>1, CoveredSame
  <2>2. Covered(m, L \cup {b}) = Covered(m, L) \cup Covered(m, {b})  BY CoveredUnion
  <2>3. b \in L \cup U  BY <1>5
  <2>4. Covered(m, {b}) = b .. b + m[b].size - 1  BY <1>4, <2>3, CoveredOne
  <2> QED  BY <1>11, <2>1, <2>2, <2>4
<1>14. Covered(i, K \cup V) = Addresses
  <2>1. Covered(i, K \cup V) = Covered(i, K) \cup Covered(i, V)  BY CoveredUnion
  <2>2. Covered(i, V) = Covered(m, V)
    <3>1. \A a \in V : i[a].size = m[a].size  BY <1>12
    <3> QED  BY <3>1, CoveredSame
  <2>3. Covered(m, L \cup U) = Covered(m, L) \cup Covered(m, U)  BY CoveredUnion
  <2>4. U = V \cup {b}  BY <1>5 DEF V
  <2>5. Covered(m, U) = Covered(m, V) \cup Covered(m, {b})  BY <2>4, CoveredUnion
  <2>6. b \in L \cup U  BY <1>5
  <2>7. Covered(m, {b}) = b .. b + m[b].size - 1  BY <1>4, <2>6, CoveredOne
  <2> QED  BY <1>2, <1>13, <2>1, <2>2, <2>3, <2>5, <2>7
<1>15. Cardinality(Covered(i, K)) = p.free + m[b].size /\ p.free \in Nat /\ m[b].size \in Nat
  <2> DEFINE A == Covered(i, K)
             B == Covered(m, L)
             n == m[b].size
  <2>1. Covered(m, {b}) = b .. b + n - 1 /\ n \in Nat /\ b \in Nat
    <3>1. b \in L \cup U  BY <1>5
    <3> QED  BY <1>4, <1>5, <3>1, CoveredOne, HeadType
  <2>2. B \cap b .. b + n - 1 = {}
    <3>1. L \cap {b} = {} /\ Blocks(m, L \cup {b})  BY <1>4, <1>5 DEF Blocks
    <3>2. Covered(m, L) \cap Covered(m, {b}) = {}  BY <1>4, <3>1, CoveredApart
    <3> QED  BY <2>1, <3>2
  <2>3. A \in SUBSET Addresses  BY DEF Covered
  <2>4. A = B \cup b .. b + n - 1  BY <1>13
  <2> HIDE DEF A, B, n
  <2>5. Joins(A, B, b, n)  BY <2>1, <2>2, <2>3, <2>4 DEF Joins
  <2>6. Cardinality(A) = Cardinality(B) + n /\ Cardinality(B) \in Nat  BY <2>5, SpanCount
  <2> QED  BY <1>2, <2>1, <2>6 DEF A, B, n
<1>16. p.live - 1 = Cardinality(V)
  <2>1. IsFiniteSet(Addresses)  BY PoolFacts, FS_Interval
  <2>2. IsFiniteSet(U)  BY <1>4, <2>1, FS_Subset
  <2>3. Cardinality(V) = Cardinality(U) - 1  BY <1>5, <2>2, FS_RemoveElement DEF V
  <2> QED  BY <1>2, <2>3
<1>17. GoodBy(q, K)
  <2>1. /\ q.mem = i /\ q.free = p.free + m[b].size /\ q.min = p.min /\ q.live = p.live - 1
        /\ q = [mem |-> q.mem, free |-> q.free, min |-> q.min, live |-> q.live, at |-> q.at]
    BY <1>3
  <2>2. q.min \in Int /\ q.min <= q.free  BY <1>2, <1>15, <2>1
  <2> QED  BY <1>11, <1>12, <1>14, <1>15, <1>16, <2>1, <2>2 DEF GoodBy
<1>18. Good(q)
  <2>1. K \in SUBSET Addresses  BY <1>5
  <2> QED  BY <1>17, <2>1 DEF Good
<1>19. q.at = p.at /\ q.mem = i  BY <1>3
<1> QED  BY <1>12, <1>18, <1>19 DEF Returned, m, U, V, q

-----------------------------------------------------------------------------
(* The invariant: the pool is in order after every call.                   *)

PoolInv == Good(Pool)

LEMMA PoolIs ==
  /\ Pool.mem = mem /\ Pool.free = freeBytes /\ Pool.min = freeMin /\ Pool.live = liveBlocks
  /\ Pool.at = NULL
BY DEF Pool

LEMMA BecomesKeeps ==
  ASSUME NEW p, Good(p), NEW call, NEW at, Becomes(p, call, at)
  PROVE  PoolInv'
<1>1. PICK L \in SUBSET Addresses : GoodBy(p, L)  BY DEF Good
<1>2. mem' = p.mem /\ freeBytes' = p.free /\ freeMin' = p.min /\ liveBlocks' = p.live
  BY DEF Becomes
<1>3. GoodBy(Pool', L)
  <2> DEFINE q == [mem |-> p.mem, free |-> p.free, min |-> p.min, live |-> p.live, at |-> NULL]
  <2>1. Pool' = q  BY <1>2 DEF Pool
  <2>2. /\ q.mem = p.mem /\ q.free = p.free /\ q.min = p.min /\ q.live = p.live
        /\ q = [mem |-> q.mem, free |-> q.free, min |-> q.min, live |-> q.live, at |-> q.at]
    OBVIOUS
  <2> HIDE DEF q
  <2>3. GoodBy(q, L)  BY <1>1, <2>2 DEF GoodBy
  <2> QED  BY <2>1, <2>3
<1>4. Good(Pool')  BY <1>3 DEF Good
<1> QED  BY <1>4 DEF PoolInv

\* What static_pool_alloc() does to a pool in order.
LEMMA AllocStep ==
  ASSUME PoolInv, NEW n \in Sizes
  PROVE  \/ AllocIn(Pool, n) = Pool /\ AllocIn(Pool, n).at = NULL /\ NoFit(Pool, Need(n))
         \/ Taken(AllocIn(Pool, n), Pool, Need(n)) /\ AllocIn(Pool, n).at # NULL
<1>1. \/ AllocIn(Pool, n) = Pool /\ NoFit(Pool, Need(n))
      \/ Taken(AllocIn(Pool, n), Pool, Need(n))
  BY AllocKeeps DEF PoolInv
<1>2. NULL \notin Addresses  BY PoolFacts DEF NULL
<1> QED  BY <1>1, <1>2, PoolIs DEF Taken

LEMMA LiveIsUsed ==
  ASSUME NEW b, LiveBlock(Pool, b)
  PROVE  b \in InUse(mem) /\ b \in InUse(Pool.mem)
BY PoolIs DEF LiveBlock, InUse

\* What static_pool_realloc() does when it must grow the block b.
LEMMA GrownKeeps ==
  ASSUME PoolInv, NEW n \in Sizes, NEW b \in InUse(mem),
         AllocIn(Pool, n).at # NULL
  PROVE  /\ Taken(AllocIn(Pool, n), Pool, Need(n))
         /\ Returned(FreeIn(AllocIn(Pool, n), b), AllocIn(Pool, n), b)
<1> DEFINE q == AllocIn(Pool, n)
<1>1. Taken(q, Pool, Need(n))  BY AllocStep
<1> HIDE DEF q
<1>2. Good(q) /\ b \in InUse(q.mem)  BY <1>1, PoolIs DEF Taken
<1>3. Returned(FreeIn(q, b), q, b)  BY <1>2, FreeKeeps
<1> QED  BY <1>1, <1>3 DEF q

LEMMA PoolInit ==
  ASSUME Init PROVE PoolInv
<1> USE PoolFacts DEF Init
<1> DEFINE L == IF Usable THEN {0} ELSE {}
<1>1. Capacity = 0 <=> ~Usable  BY DEF Capacity, Usable
<1>2. Capacity # 0 => MinBlock <= Capacity /\ 0 \in Addresses
  BY StaticPoolAssumption DEF Capacity, Usable
<1>3. /\ mem \in Memories /\ L \in SUBSET Addresses /\ InUse(mem) = {}
      /\ mem[Start].next = IF Usable THEN 0 ELSE End
      /\ Usable => mem[0] = Block("free", End, Capacity)
  <2>1. mem \in [Heads -> Head]
    <3> SUFFICES ASSUME NEW a \in Heads PROVE mem[a] \in Head  BY DEF Heads
    <3> QED  BY DEF Heads, Head, Block, Raw, NULL
  <2>2. InUse(mem) = {}  BY DEF InUse, Block, Raw
  <2>3. mem[Start].next = IF Usable THEN 0 ELSE End  BY DEF Block
  <2>4. Usable => mem[0] = Block("free", End, Capacity)  BY <1>1
  <2>5. L \in SUBSET Addresses  BY <1>1, <1>2
  <2> QED  BY <2>1, <2>2, <2>3, <2>4, <2>5 DEF Memories
<1>4. Usable => mem[0].kind = "free" /\ mem[0].next = End /\ mem[0].size = Capacity
  BY <1>3 DEF Block
<1>5. Sound(mem, L, InUse(mem))
  <2>1. Chain(mem, L)  BY <1>1, <1>2, <1>3, <1>4 DEF Chain
  <2>2. Blocks(mem, L \cup InUse(mem))
    <3> SUFFICES ASSUME NEW a \in L
                 PROVE  /\ a \in Addresses /\ MinBlock <= mem[a].size /\ a + mem[a].size <= End
                        /\ \A c \in L : a < c => a + mem[a].size <= c
      BY <1>3 DEF Blocks
    <3>1. Usable /\ a = 0  OBVIOUS
    <3>2. \A c \in L : c = 0  OBVIOUS
    <3> QED  BY <1>1, <1>2, <1>4, <3>1, <3>2
  <2>3. Apart(mem, L) /\ FreeKind(mem, L)  BY <1>1, <1>2, <1>3, <1>4 DEF Apart, FreeKind
  <2> QED  BY <1>3, <2>1, <2>2, <2>3 DEF Sound
<1>6. Covered(mem, L) = Addresses /\ Covered(mem, L \cup InUse(mem)) = Addresses
  <2>1. CASE Usable
    <3>1. \A u \in Addresses : u \in 0 .. 0 + mem[0].size - 1  BY <1>4, <2>1
    <3> QED  BY <1>3, <2>1, <3>1 DEF Covered
  <2>2. CASE ~Usable
    <3>1. Addresses = {}  BY <1>1, <2>2
    <3> QED  BY <3>1 DEF Covered
  <2> QED  BY <2>1, <2>2
<1>7. Cardinality(Addresses) = Capacity
  <2>1. Cardinality(0 .. Capacity - 1) = IF 0 > Capacity - 1 THEN 0 ELSE Capacity - 1 - 0 + 1
    BY FS_Interval
  <2> QED  BY <2>1
<1>8. Cardinality(InUse(mem)) = 0  BY <1>3, FS_EmptySet
<1>9. GoodBy(Pool, L)  BY <1>5, <1>6, <1>7, <1>8 DEF GoodBy, Pool
<1> QED  BY <1>3, <1>9 DEF PoolInv, Good

LEMMA PoolNext ==
  ASSUME PoolInv, [Next]_vars PROVE PoolInv'
<1>1. ASSUME NEW n \in Sizes, Alloc(n) PROVE PoolInv'
  <2>1. Good(AllocIn(Pool, n))  BY AllocStep DEF PoolInv, Taken
  <2> QED  BY <1>1, <2>1, BecomesKeeps DEF Alloc
<1>2. ASSUME AllocHuge PROVE PoolInv'
  BY <1>2, BecomesKeeps DEF AllocHuge, PoolInv
<1>3. ASSUME NEW b \in Known, Free(b) PROVE PoolInv'
  <2>1. CASE LiveBlock(Pool, b)
    <3>1. Good(FreeIn(Pool, b))  BY <2>1, LiveIsUsed, FreeKeeps DEF PoolInv, Returned
    <3> QED  BY <1>3, <2>1, <3>1, BecomesKeeps DEF Free
  <2>2. CASE ~LiveBlock(Pool, b)  BY <1>3, <2>2, BecomesKeeps DEF Free, PoolInv
  <2> QED  BY <2>1, <2>2
<1>4. ASSUME NEW b \in Known, NEW n \in Sizes, Realloc(b, n) PROVE PoolInv'
  <2> DEFINE grown == AllocIn(Pool, n)
  <2>1. CASE \E call, at : Becomes(Pool, call, at)  BY <2>1, BecomesKeeps DEF PoolInv
  <2>2. CASE LiveBlock(Pool, b) /\ Becomes(FreeIn(Pool, b), "realloc", NULL)
    <3>1. Good(FreeIn(Pool, b))  BY <2>2, LiveIsUsed, FreeKeeps DEF PoolInv, Returned
    <3> QED  BY <2>2, <3>1, BecomesKeeps
  <2>3. CASE /\ LiveBlock(Pool, b) /\ grown.at # NULL
             /\ Becomes(FreeIn(grown, b), "realloc", grown.at)
    <3>1. Good(FreeIn(grown, b))  BY <2>3, LiveIsUsed, GrownKeeps DEF Returned
    <3> QED  BY <2>3, <3>1, BecomesKeeps
  <2> HIDE DEF grown
  <2> QED  BY <1>4, <2>1, <2>2, <2>3 DEF Realloc, grown
<1>5. ASSUME UNCHANGED vars PROVE PoolInv'
  <2>1. Pool' = Pool  BY <1>5 DEF Pool, vars
  <2> QED  BY <2>1 DEF PoolInv
<1> QED  BY <1>1, <1>2, <1>3, <1>4, <1>5 DEF Next

\* Every call leaves a list sorted by address, blocks that tile the pool, and
\* true counts, whatever was asked of the pool before.
THEOREM PoolInvariant == Spec => []PoolInv
<1>1. Init => PoolInv  BY PoolInit
<1>2. PoolInv /\ [Next]_vars => PoolInv'  BY PoolNext
<1> QED  BY <1>1, <1>2, PTL DEF Spec

-----------------------------------------------------------------------------
(* The properties.                                                         *)

LEMMA ListedIs ==
  ASSUME NEW L \in SUBSET Addresses, Chain(mem, L)
  PROVE  Listed = L
<1> USE PoolFacts
<1> DEFINE w == Walk(mem)
<1>1. /\ \A k \in 0 .. Memory : w[k] \in L \cup {Start, End}
      /\ \A k \in 1 .. Memory : w[k] = Following(mem, w[k - 1])
  BY WalkExists
<1>2. Capacity # 0 => \A a \in L : \E k \in 1 .. Memory : w[k] = a  BY WalkFacts
<1> HIDE DEF w
<1>3. \A k \in 1 .. Memory : w[k] \in L \cup {End}
  <2> SUFFICES ASSUME NEW k \in 1 .. Memory PROVE w[k] \in L \cup {End}  OBVIOUS
  <2>1. w[k] = Following(mem, w[k - 1]) /\ w[k - 1] \in L \cup {Start, End}  BY <1>1
  <2> QED  BY <2>1 DEF Chain, Following
<1>4. \A a \in L : a # End /\ Capacity # 0  OBVIOUS
<1>5. Listed = {w[k] : k \in 1 .. Memory} \ {End}  BY DEF Listed, w
<1>6. Listed \subseteq L  BY <1>3, <1>5
<1>7. ASSUME NEW a \in L PROVE a \in Listed
  <2>1. PICK k \in 1 .. Memory : w[k] = a  BY <1>2, <1>4
  <2> QED  BY <1>4, <1>5, <2>1
<1> QED  BY <1>6, <1>7

LEMMA UsedIs == Used = InUse(mem)
BY DEF Used, InUse

\* The pool of the state, with its list.
LEMMA InOrder ==
  ASSUME PoolInv
  PROVE  /\ Listed \in SUBSET Addresses /\ Sound(mem, Listed, Used)
         /\ Covered(mem, Listed \cup Used) = Addresses
         /\ freeBytes = Cardinality(Covered(mem, Listed)) /\ liveBlocks = Cardinality(Used)
         /\ freeMin <= freeBytes
<1>1. PICK L \in SUBSET Addresses : GoodBy(Pool, L)  BY DEF PoolInv, Good
<1>2. /\ Sound(mem, L, InUse(mem)) /\ Covered(mem, L \cup InUse(mem)) = Addresses
      /\ freeBytes = Cardinality(Covered(mem, L)) /\ liveBlocks = Cardinality(InUse(mem))
      /\ freeMin <= freeBytes
  BY <1>1, PoolIs DEF GoodBy
<1>3. Listed = L  BY <1>2, ListedIs DEF Sound
<1> QED  BY <1>2, <1>3, UsedIs

LEMMA PoolIsTiled ==
  ASSUME PoolInv PROVE Tiled
<1>1. /\ Listed \in SUBSET Addresses /\ Used \in SUBSET Addresses /\ mem \in Memories
      /\ Chain(mem, Listed) /\ Blocks(mem, Listed \cup Used) /\ Apart(mem, Listed)
      /\ Covered(mem, Listed \cup Used) = Addresses
  BY InOrder DEF Sound
<1>2. /\ \A a \in Addresses : a \in Nat /\ a < End /\ a \in Heads /\ mem[a].size \in Nat
      /\ End = Capacity /\ Capacity \in Nat /\ Addresses = 0 .. Capacity - 1
  BY <1>1, HeadType, PoolFacts DEF Heads
<1> HIDE DEF Listed, Used
<1>3. ASSUME NEW u \in Addresses
      PROVE  Cardinality({a \in Used \cup Listed : u \in Span(a)}) = 1
  <2>1. PICK a \in Listed \cup Used : u \in a .. a + mem[a].size - 1
    <3>1. u \in Covered(mem, Listed \cup Used)  BY <1>1
    <3> QED  BY <3>1 DEF Covered
  <2>2. ASSUME NEW c \in Listed \cup Used, u \in c .. c + mem[c].size - 1 PROVE c = a
    <3>1. /\ a \in Nat /\ c \in Nat /\ u \in Nat
          /\ mem[a].size \in Nat /\ mem[c].size \in Nat
      BY <1>1, <1>2
    <3>2. (a < c => a + mem[a].size <= c) /\ (c < a => c + mem[c].size <= a)
      BY <1>1 DEF Blocks
    <3> QED  BY <2>1, <2>2, <3>1, <3>2
  <2>3. {c \in Used \cup Listed : u \in Span(c)} = {a}  BY <2>1, <2>2 DEF Span
  <2> QED  BY <2>3, FS_Singleton
<1>4. \A a, b \in Listed : a + mem[a].size # b  BY <1>1 DEF Apart
<1>5. ASSUME Used = {}, Usable PROVE Listed = {0}
  <2>1. Covered(mem, Listed) = Addresses  BY <1>1, <1>5
  <2>2. 0 \in Addresses
    <3>1. Capacity # 0  BY <1>5, StaticPoolAssumption DEF Capacity, Usable, MinBlock
    <3> QED  BY <1>2, <3>1
  <2>3. 0 \in Listed
    <3>1. PICK c \in Listed : 0 \in c .. c + mem[c].size - 1
      BY <2>1, <2>2 DEF Covered
    <3>2. c \in Nat  BY <1>1, <1>2
    <3> QED  BY <3>1, <3>2
  <2>4. ASSUME NEW d \in Listed, d # 0 PROVE FALSE
    <3> DEFINE x == mem[0].size
    <3>1. d \in Nat /\ d < End /\ x \in Nat  BY <1>1, <1>2, <2>2
    <3>2. x <= d /\ x < End
      <4>1. 0 + mem[0].size <= d  BY <1>1, <2>3, <2>4, <3>1 DEF Blocks
      <4> QED  BY <3>1, <4>1, <1>2
    <3> HIDE DEF x
    <3>3. x \in Addresses  BY <1>2, <3>1, <3>2
    <3>4. PICK c \in Listed : x \in c .. c + mem[c].size - 1
      BY <2>1, <3>3 DEF Covered
    <3>5. c \in Nat /\ mem[c].size \in Nat /\ c <= x  BY <1>1, <1>2, <3>4
    <3>6. c # 0
      <4>1. c = 0 => x < x  BY <3>1, <3>4 DEF x
      <4> QED  BY <3>1, <4>1
    <3>7. 0 + x <= c  BY <1>1, <2>3, <3>5, <3>6 DEF Blocks, x
    <3>8. 0 + x = c  BY <3>1, <3>5, <3>7
    <3> QED  BY <1>4, <2>3, <3>8 DEF x
  <2> QED  BY <2>3, <2>4
<1> QED  BY <1>3, <1>4, <1>5 DEF Tiled

LEMMA PoolCounts ==
  ASSUME PoolInv PROVE MetricsAreTrue
<1>1. /\ Listed \in SUBSET Addresses /\ mem \in Memories
      /\ Blocks(mem, Listed \cup Used)
      /\ freeBytes = Cardinality(Covered(mem, Listed)) /\ liveBlocks = Cardinality(Used)
      /\ freeMin <= freeBytes
  BY InOrder DEF Sound
<1>2. /\ \A a \in Addresses : a \in Nat /\ a \in Heads /\ mem[a].size \in Nat
      /\ End = Capacity /\ Capacity \in Nat /\ Addresses = 0 .. Capacity - 1
  BY <1>1, HeadType, PoolFacts DEF Heads
<1> HIDE DEF Listed, Used
<1>3. ASSUME NEW a \in Listed
      PROVE  /\ Span(a) \subseteq Covered(mem, Listed) /\ mem[a].size \in 0 .. Capacity
             /\ Cardinality(Span(a)) = mem[a].size
  <2>1. a \in Nat /\ mem[a].size \in Nat /\ a + mem[a].size <= Capacity
    BY <1>1, <1>2 DEF Blocks
  <2>2. Span(a) \subseteq Addresses  BY <1>2, <2>1 DEF Span
  <2>3. Span(a) \subseteq Covered(mem, Listed)  BY <2>2 DEF Covered, Span
  <2> DEFINE z == a + mem[a].size - 1
  <2>4. a \in Int /\ z \in Int /\ mem[a].size = z - a + 1 /\ z - a + 1 \in Nat  BY <2>1
  <2>5. Span(a) = a .. z  BY DEF Span
  <2> HIDE DEF z
  <2>6. Cardinality(a .. z) = IF a > z THEN 0 ELSE z - a + 1  BY <2>4, FS_Interval
  <2>7. Cardinality(Span(a)) = mem[a].size  BY <2>4, <2>5, <2>6
  <2>8. mem[a].size \in 0 .. Capacity  BY <1>2, <2>1
  <2> QED  BY <2>3, <2>7, <2>8
<1>4. Covered(mem, Listed) = UNION {Span(a) : a \in Listed}
  <2>1. Covered(mem, Listed) \subseteq UNION {Span(a) : a \in Listed}
    BY DEF Covered, Span
  <2>2. UNION {Span(a) : a \in Listed} \subseteq Covered(mem, Listed)  BY <1>3
  <2> QED  BY <2>1, <2>2
<1>5. IsFiniteSet(Covered(mem, Listed)) /\ freeBytes \in Nat
  <2>1. IsFiniteSet(Addresses)  BY PoolFacts, FS_Interval
  <2>2. Covered(mem, Listed) \in SUBSET Addresses  BY DEF Covered
  <2> QED  BY <1>1, <2>1, <2>2, FS_Subset, FS_CardinalityType
<1>6. LargestFree <= freeBytes
  <2>1. CASE Listed = {}  BY <1>5, <2>1 DEF LargestFree
  <2>2. CASE Listed # {}
    <3> DEFINE S == {mem[a].size : a \in Listed}
    <3>1. S \subseteq 0 .. Capacity /\ S # {}  BY <1>3, <2>2
    <3>2. Max(S) \in S  BY <1>2, <3>1, MaxOf
    <3>3. PICK a \in Listed : Max(S) = mem[a].size  BY <3>2
    <3>4. Cardinality(Span(a)) <= Cardinality(Covered(mem, Listed))
      <4>1. Span(a) \in SUBSET Covered(mem, Listed)  BY <1>3
      <4> QED  BY <1>5, <4>1, FS_Subset
    <3> QED  BY <1>1, <1>3, <2>2, <3>3, <3>4 DEF LargestFree
  <2> QED  BY <2>1, <2>2
<1> QED  BY <1>1, <1>4, <1>6 DEF MetricsAreTrue

\* Every unit of the pool is in exactly one block, listed or in use, listed
\* blocks never touch, and a pool nobody uses is one block.
THEOREM PoolTiled == Spec => []Tiled
<1>1. PoolInv => Tiled  BY PoolIsTiled
<1> QED  BY <1>1, PoolInvariant, PTL

\* The free bytes, live blocks and low-water mark of static_pool_metrics() are
\* those of the list, and no listed block is larger than what is free.
THEOREM PoolMetrics == Spec => []MetricsAreTrue
<1>1. PoolInv => MetricsAreTrue  BY PoolCounts
<1> QED  BY <1>1, PoolInvariant, PTL

-----------------------------------------------------------------------------
(* The allocator implements the heap.                                      *)

\* The extents in use.
Extents(m) == {[at |-> a, len |-> m[a].size] : a \in InUse(m)}
Held(m, a) == [at |-> a, len |-> m[a].size]

\* Two stretches of units that do not meet.
LEMMA ExtentsApart ==
  ASSUME NEW m \in Memories, NEW L, Sound(m, L, InUse(m)), NEW a \in InUse(m)
  PROVE  /\ Held(m, a) \in H!Extent
         /\ H!Units(Held(m, a)) \subseteq 0 .. Capacity - 1
         /\ \A c \in InUse(m) : c # a => H!Disjoint(Held(m, a), Held(m, c))
<1> USE PoolFacts
<1> DEFINE U == InUse(m)
<1>1. \A c \in U : /\ c \in Addresses /\ c \in Nat /\ m[c].size \in Nat /\ MinBlock <= m[c].size
                   /\ c + m[c].size <= End
                   /\ \A d \in U : c < d => c + m[c].size <= d
  <2> SUFFICES ASSUME NEW c \in U
               PROVE  /\ c \in Addresses /\ c \in Nat /\ m[c].size \in Nat /\ MinBlock <= m[c].size
                      /\ c + m[c].size <= End
                      /\ \A d \in U : c < d => c + m[c].size <= d
    OBVIOUS
  <2>1. c \in Addresses /\ c \in Heads  BY DEF Sound, Heads
  <2>2. m[c].size \in Nat  BY <2>1, HeadType
  <2> QED  BY <2>1, <2>2 DEF Sound, Blocks
<1> HIDE DEF U
<1>2. a \in U  BY DEF U
<1>3. Held(m, a) \in H!Extent
  <2>1. a \in 0 .. Capacity - 1 /\ m[a].size \in 1 .. Capacity  BY <1>1, <1>2
  <2> QED  BY <2>1 DEF Held, H!Extent
<1>4. H!Units(Held(m, a)) \subseteq 0 .. Capacity - 1  BY <1>1, <1>2 DEF Held, H!Units
<1>5. ASSUME NEW c \in U, c # a PROVE H!Disjoint(Held(m, a), Held(m, c))
  <2>1. \/ a + m[a].size <= c
        \/ c + m[c].size <= a
    BY <1>1, <1>2, <1>5
  <2> QED  BY <1>1, <1>2, <2>1 DEF Held, H!Units, H!Disjoint
<1> QED  BY <1>3, <1>4, <1>5 DEF U

\* A block newly in use answers the request.
LEMMA TakenAnswers ==
  ASSUME PoolInv, NEW q, NEW n \in Sizes, Taken(q, Pool, Need(n))
  PROVE  /\ Held(q.mem, q.at) \in H!Answers(n)
         /\ Extents(q.mem) = Extents(mem) \cup {Held(q.mem, q.at)}
<1>1. /\ Good(q) /\ q.at \in Addresses \ InUse(mem)
      /\ InUse(q.mem) = InUse(mem) \cup {q.at}
      /\ \A a \in InUse(mem) : q.mem[a] = mem[a]
      /\ q.mem[q.at].size \in Need(n) .. Need(n) + MinBlock - 1
  BY PoolIs DEF Taken
<1>2. PICK L \in SUBSET Addresses : GoodBy(q, L)  BY <1>1 DEF Good
<1> DEFINE m == q.mem
           a == q.at
           e == Held(m, a)
<1>3. Sound(m, L, InUse(m)) /\ m \in Memories  BY <1>2 DEF GoodBy, Sound
<1>4. a \in InUse(m)  BY <1>1
<1>5. /\ e \in H!Extent /\ H!Units(e) \subseteq 0 .. Capacity - 1
      /\ \A c \in InUse(m) : c # a => H!Disjoint(e, Held(m, c))
  BY <1>3, <1>4, ExtentsApart
<1>6. \A c \in InUse(mem) : Held(m, c) = Held(mem, c) /\ c # a /\ c \in InUse(m)
  BY <1>1 DEF Held
<1>7. H!Fits(e)
  <2>1. ASSUME NEW c \in Used PROVE H!Disjoint(e, Held(mem, c))
    BY <1>5, <1>6, <2>1, UsedIs
  <2> QED  BY <1>5, <2>1 DEF H!Fits, Held
<1>8. e.len \in H!Need(n) .. H!Need(n) + H!MinBlock - 1
  <2>1. H!Need(n) = Need(n) /\ H!MinBlock = MinBlock
    BY DEF H!Need, H!MinBlock, Need, MinBlock
  <2>2. e.len = m[a].size  BY DEF Held
  <2> QED  BY <1>1, <2>1, <2>2
<1>9. e \in H!Answers(n)  BY <1>5, <1>7, <1>8 DEF H!Answers
<1>10. Extents(m) = Extents(mem) \cup {e}
  <2>1. Extents(m) = {Held(m, c) : c \in InUse(m)} /\ Extents(mem) = {Held(mem, c) : c \in InUse(mem)}
    BY DEF Extents, Held
  <2> QED  BY <1>1, <1>6, <2>1
<1> QED  BY <1>9, <1>10

\* A block no longer in use leaves its extent; the others stay.
LEMMA ReturnedExtents ==
  ASSUME NEW q, NEW p, NEW b \in InUse(p.mem), Returned(q, p, b)
  PROVE  Extents(q.mem) = Extents(p.mem) \ {Held(p.mem, b)}
<1>1. InUse(q.mem) = InUse(p.mem) \ {b} /\ \A a \in InUse(p.mem) \ {b} : q.mem[a] = p.mem[a]
  BY DEF Returned
<1>2. \A a \in InUse(q.mem) : Held(q.mem, a) = Held(p.mem, a) /\ Held(q.mem, a) # Held(p.mem, b)
  <2>1. \A a : Held(p.mem, a).at = a  BY DEF Held
  <2> QED  BY <1>1, <2>1 DEF Held
<1>3. Extents(q.mem) = {Held(q.mem, c) : c \in InUse(q.mem)} /\ Extents(p.mem) = {Held(p.mem, c) : c \in InUse(p.mem)}
  BY DEF Extents, Held
<1>4. \A a \in InUse(p.mem) : a # b => a \in InUse(q.mem)  BY <1>1
<1>5. \A a \in InUse(q.mem) : a \in InUse(p.mem)  BY <1>1
<1> QED  BY <1>2, <1>3, <1>4, <1>5

\* A request that no listed block can hold fits nowhere: free units that are
\* neighbours are in one block, so a stretch of them is no longer than a block.
LEMMA NoFitNoRoom ==
  ASSUME NEW n \in Sizes, NoFit(Pool, Need(n))
  PROVE  ~H!Room(n)
<1> USE PoolFacts
<1> DEFINE need == Need(n)
<1>1. PICK L \in SUBSET Addresses : GoodBy(Pool, L) /\ \A c \in L : mem[c].size < need
  BY PoolIs DEF NoFit
<1>2. /\ mem \in Memories /\ Blocks(mem, L \cup InUse(mem)) /\ Apart(mem, L)
      /\ Covered(mem, L \cup InUse(mem)) = Addresses
  BY <1>1, PoolIs DEF GoodBy, Sound
<1>3. /\ \A c \in L : /\ c \in Nat /\ mem[c].size \in Nat
                      /\ \A d \in L : c < d => c + mem[c].size <= d
      /\ need \in Nat /\ need > 0 /\ H!Need(n) = need
  <2>1. \A c \in L : c \in Heads  BY DEF Heads
  <2>2. \A c \in L : mem[c].size \in Nat  BY <1>2, <2>1, HeadType
  <2>3. H!Need(n) = need  BY DEF H!Need, H!MinBlock, Need, MinBlock
  <2> QED  BY <1>2, <2>2, <2>3 DEF Blocks
<1> HIDE DEF need
<1> SUFFICES ASSUME NEW a \in 0 .. Capacity - 1, H!Fits([at |-> a, len |-> need])
             PROVE  FALSE
  BY <1>3 DEF H!Room
<1> DEFINE e == [at |-> a, len |-> need]
<1>4. H!Units(e) = a .. a + need - 1  BY DEF H!Units
<1>5. /\ a .. a + need - 1 \subseteq 0 .. Capacity - 1
      /\ \A c \in InUse(mem) : (a .. a + need - 1) \cap (c .. c + mem[c].size - 1) = {}
  <2>1. \A c \in Used : H!Disjoint(e, [at |-> c, len |-> mem[c].size])
    BY DEF H!Fits
  <2>2. \A c : H!Units([at |-> c, len |-> mem[c].size]) = c .. c + mem[c].size - 1
    BY DEF H!Units
  <2>3. H!Units(e) \subseteq 0 .. Capacity - 1  BY DEF H!Fits
  <2> QED  BY <1>4, <2>1, <2>2, <2>3, UsedIs DEF H!Disjoint
<1>6. ASSUME NEW u \in a .. a + need - 1
      PROVE  \E c \in L : c <= u /\ u < c + mem[c].size
  <2>1. u \in Addresses /\ u \in Nat  BY <1>5
  <2>2. PICK c \in L \cup InUse(mem) : u \in c .. c + mem[c].size - 1
    <3>1. u \in Covered(mem, L \cup InUse(mem))  BY <1>2, <2>1
    <3> QED  BY <3>1 DEF Covered
  <2>3. c \in L  BY <1>5, <2>2
  <2>4. c \in Nat /\ mem[c].size \in Nat  BY <1>3, <2>3
  <2> QED  BY <2>1, <2>2, <2>3, <2>4
<1>7. a \in a .. a + need - 1 /\ a \in Nat  BY <1>3
<1>8. PICK c \in L : c <= a /\ a < c + mem[c].size  BY <1>6, <1>7
<1>9. c \in Nat /\ mem[c].size \in Nat /\ mem[c].size < need  BY <1>1, <1>3
<1> DEFINE u == c + mem[c].size
<1>10. u \in a .. a + need - 1 /\ u \in Nat  BY <1>3, <1>7, <1>8, <1>9
<1>11. PICK d \in L : d <= u /\ u < d + mem[d].size  BY <1>6, <1>10
<1>12. d \in Nat /\ mem[d].size \in Nat  BY <1>3
<1>13. c # d  BY <1>9, <1>11
<1>14. c < d => u <= d  BY <1>3
<1>15. d < c => d + mem[d].size <= c  BY <1>3
<1>16. u = d
  <2>1. c <= u  BY <1>9
  <2> HIDE DEF u
  <2>2. ~(d < c)  BY <1>9, <1>10, <1>11, <1>12, <1>15, <2>1
  <2>3. u <= d  BY <1>9, <1>12, <1>13, <1>14, <2>2
  <2> QED  BY <1>10, <1>11, <1>12, <2>3
<1> QED  BY <1>2, <1>16 DEF Apart


LEMMA HeapInit ==
  ASSUME Init PROVE H!Init
<1>1. Used = {}  BY PoolFacts DEF Init, Used, Block, Raw
<1> QED  BY <1>1 DEF Init, H!Init, H!NULL, NULL

LEMMA HeapNext ==
  ASSUME PoolInv, [Next]_vars PROVE [H!Next]_(H!vars)
<1> DEFINE live == Extents(mem)
<1>a. live = {[at |-> a, len |-> mem[a].size] : a \in Used}  BY UsedIs DEF Extents
<1>b. live' = {[at |-> a, len |-> mem[a].size] : a \in Used}'
  <2>1. live' = Extents(mem')  OBVIOUS
  <2>2. {[at |-> a, len |-> mem[a].size] : a \in Used}' = Extents(mem')
    BY DEF Extents, Used, InUse
  <2> QED  BY <2>1, <2>2
<1>c. ASSUME NEW p, NEW call, NEW at, Becomes(p, call, at)
      PROVE live' = Extents(p.mem) /\ ret' = [call |-> call, at |-> at]
  BY <1>c DEF Becomes
<1>d. Extents(Pool.mem) = live  BY PoolIs
<1>e. ASSUME NEW b, LiveBlock(Pool, b)
      PROVE  b \in InUse(mem) /\ b \in InUse(Pool.mem) /\ Held(mem, b) \in live /\ Held(Pool.mem, b) = Held(mem, b)
  BY <1>e, LiveIsUsed, PoolIs DEF Extents, Held
<1> HIDE DEF live
<1>1. ASSUME NEW n \in Sizes, Alloc(n) PROVE H!Next
  <2> DEFINE p == AllocIn(Pool, n)
  <2>1. Becomes(p, "alloc", p.at)  BY <1>1 DEF Alloc
  <2> HIDE DEF p
  <2>2. live' = Extents(p.mem) /\ ret' = [call |-> "alloc", at |-> p.at]  BY <2>1, <1>c
  <2>3. CASE p = Pool /\ p.at = NULL /\ NoFit(Pool, Need(n))
    <3>1. ~H!Room(n) /\ live' = live  BY <2>2, <2>3, <1>d, NoFitNoRoom
    <3>2. H!Alloc(n)  BY <1>a, <1>b, <2>2, <2>3, <3>1 DEF H!Alloc, H!Returns, H!NULL, NULL
    <3> QED  BY <3>2 DEF H!Next
  <2>4. CASE Taken(p, Pool, Need(n))
    <3> DEFINE e == Held(p.mem, p.at)
    <3>1. e \in H!Answers(n) /\ live' = live \cup {e}
      BY <2>2, <2>4, TakenAnswers DEF live
    <3>2. e.at = p.at  BY DEF Held
    <3> HIDE DEF e
    <3>3. H!Alloc(n)  BY <1>a, <1>b, <2>2, <3>1, <3>2 DEF H!Alloc, H!Returns
    <3> QED  BY <3>3 DEF H!Next
  <2> QED  BY <2>3, <2>4, AllocStep DEF p
<1>2. ASSUME AllocHuge PROVE H!Next
  <2>1. live' = live /\ ret' = [call |-> "alloc", at |-> NULL]  BY <1>2, <1>c, <1>d DEF AllocHuge
  <2>2. H!AllocHuge  BY <1>a, <1>b, <2>1 DEF H!AllocHuge, H!Returns, H!NULL, NULL
  <2> QED  BY <2>2 DEF H!Next
<1>3. ASSUME Becomes(Pool, "invalid", NULL) PROVE H!Next
  <2>1. live' = live /\ ret' = [call |-> "invalid", at |-> NULL]  BY <1>3, <1>c, <1>d
  <2>2. H!FreeStale  BY <1>a, <1>b, <2>1 DEF H!FreeStale, H!Returns, H!NULL, NULL
  <2> QED  BY <2>2 DEF H!Next
<1>4. ASSUME NEW b, LiveBlock(Pool, b), NEW call, NEW at, Becomes(FreeIn(Pool, b), call, at)
      PROVE  /\ Held(mem, b) \in live /\ live' = live \ {Held(mem, b)}
             /\ ret' = [call |-> call, at |-> at]
  <2>1. Returned(FreeIn(Pool, b), Pool, b)  BY <1>e, <1>4, FreeKeeps DEF PoolInv
  <2>2. Extents(FreeIn(Pool, b).mem) = Extents(Pool.mem) \ {Held(Pool.mem, b)}
    BY <1>e, <1>4, <2>1, ReturnedExtents
  <2> QED  BY <1>c, <1>d, <1>e, <1>4, <2>2
<1>5. ASSUME NEW b \in Known, Free(b) PROVE H!Next
  <2>1. CASE LiveBlock(Pool, b)
    <3> DEFINE e == Held(mem, b)
    <3>1. e \in live /\ live' = live \ {e} /\ ret' = [call |-> "free", at |-> b]
      BY <1>4, <1>5, <2>1 DEF Free
    <3>2. e.at = b  BY DEF Held
    <3> HIDE DEF e
    <3> DEFINE Z == {[at |-> a, len |-> mem[a].size] : a \in Used}
    <3>3. Z = live /\ live' = Z'  BY <1>a, <1>b
    <3> HIDE DEF Z
    <3>4. \E x \in Z : Z' = Z \ {x} /\ ret' = [call |-> "free", at |-> x.at]
      BY <3>1, <3>2, <3>3
    <3> QED  BY <3>4 DEF H!Next, H!Free, H!Returns, Z
  <2>2. CASE ~LiveBlock(Pool, b)  BY <1>3, <1>5, <2>2 DEF Free
  <2> QED  BY <2>1, <2>2
<1>6. ASSUME NEW b \in Known, NEW n \in Sizes, Realloc(b, n) PROVE H!Next
  <2> DEFINE grown == AllocIn(Pool, n)
             e == Held(mem, b)
  <2>a. e.at = b /\ e.len = mem[b].size  BY DEF Held
  <2>1. CASE ~LiveBlock(Pool, b)  BY <1>3, <1>6, <2>1 DEF Realloc
  <2>2. CASE LiveBlock(Pool, b)
    <3>0. /\ e \in live /\ Header \in Nat /\ n \in Nat /\ b \in InUse(mem) /\ b \in InUse(Pool.mem)
          /\ mem[b].size \in Nat /\ Held(Pool.mem, b) = e
      <4>1. mem \in Memories  BY PoolIs DEF PoolInv, Good, GoodBy, Sound
      <4>2. b \in Heads  BY PoolFacts DEF Known, Heads
      <4> QED  BY <1>e, <2>2, <4>1, <4>2, HeadType, PoolFacts
    <3> SUFFICES H!Realloc(e, n)  BY <1>a, <3>0 DEF H!Next
    <3>1. CASE n = 0
      <4>1. Becomes(FreeIn(Pool, b), "realloc", NULL)  BY <1>6, <2>2, <3>1 DEF Realloc
      <4>2. live' = live \ {e} /\ ret' = [call |-> "realloc", at |-> NULL]  BY <1>4, <2>2, <4>1
      <4> HIDE DEF e
      <4> QED  BY <1>a, <1>b, <3>1, <4>2 DEF H!Realloc, H!Returns, H!NULL, NULL
    <3>2. CASE n # 0 /\ mem[b].size - Header >= n
      <4>1. Becomes(Pool, "realloc", b)  BY <1>6, <2>2, <3>2 DEF Realloc
      <4>2. live' = live /\ ret' = [call |-> "realloc", at |-> b]  BY <1>c, <1>d, <4>1
      <4>3. n \in 1 .. e.len - Header  BY <2>a, <3>0, <3>2
      <4> HIDE DEF e
      <4> QED  BY <1>a, <1>b, <2>a, <4>2, <4>3 DEF H!Realloc, H!Returns
    <3>3. CASE n # 0 /\ ~(mem[b].size - Header >= n)
      <4>0. n > e.len - Header  BY <2>a, <3>0, <3>3
      <4>1. CASE grown.at = NULL
        <5>1. Becomes(Pool, "realloc", NULL)  BY <1>6, <2>2, <3>3, <4>1 DEF Realloc
        <5>2. live' = live /\ ret' = [call |-> "realloc", at |-> NULL]  BY <1>c, <1>d, <5>1
        <5>3. NoFit(Pool, Need(n))  BY <4>1, AllocStep
        <5>4. ~H!Room(n)  BY <5>3, NoFitNoRoom
        <5> HIDE DEF e
        <5> QED  BY <1>a, <1>b, <4>0, <5>2, <5>4 DEF H!Realloc, H!Returns, H!NULL, NULL
      <4>2. CASE grown.at # NULL
        <5> DEFINE f == Held(grown.mem, grown.at)
                   q == FreeIn(grown, b)
        <5>1. Becomes(q, "realloc", grown.at)  BY <1>6, <2>2, <3>3, <4>2 DEF Realloc
        <5>2. Taken(grown, Pool, Need(n)) /\ Returned(q, grown, b)
          BY <3>0, <4>2, GrownKeeps
        <5> HIDE DEF q, grown
        <5>3. f \in H!Answers(n) /\ Extents(grown.mem) = live \cup {f}
          BY <5>2, TakenAnswers DEF live
        <5>4. /\ b \in InUse(grown.mem) /\ Held(grown.mem, b) = e
              /\ grown.at \notin InUse(mem)
          BY <3>0, <5>2, PoolIs DEF Taken, Held
        <5>5. Extents(q.mem) = Extents(grown.mem) \ {e}  BY <5>2, <5>4, ReturnedExtents
        <5>6. f.at = grown.at /\ f # e  BY <2>a, <3>0, <5>4 DEF Held
        <5>7. live' = (live \ {e}) \cup {f} /\ ret' = [call |-> "realloc", at |-> grown.at]
          BY <1>c, <5>1, <5>3, <5>5, <5>6
        <5> HIDE DEF e, f
        <5> QED  BY <1>a, <1>b, <4>0, <5>3, <5>6, <5>7 DEF H!Realloc, H!Returns
      <4> QED  BY <4>1, <4>2
    <3> QED  BY <3>1, <3>2, <3>3
  <2> QED  BY <2>1, <2>2
<1>7. ASSUME UNCHANGED vars PROVE UNCHANGED H!vars
  BY <1>7 DEF vars, H!vars, Used
<1> QED  BY <1>1, <1>2, <1>5, <1>6, <1>7 DEF Next

\* The allocator does only what the heap of static_pool.h does: it hands out
\* extents that overlap nothing in use, refuses only what fits nowhere, and
\* leaves the old block alone when a larger one is not to be had.
THEOREM PoolImplementsHeap == Spec => ImplementsHeap
<1>1. Init => H!Init  BY HeapInit
<1>2. PoolInv /\ [Next]_vars => [H!Next]_(H!vars)  BY HeapNext
<1> QED  BY <1>1, <1>2, PoolInvariant, PTL DEF Spec, ImplementsHeap, H!Spec
=============================================================================

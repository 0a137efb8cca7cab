------------------------------ MODULE StaticPool ------------------------------
(***************************************************************************)
(* static_pool.c: the first-fit allocator micro-ROS allocates from, down   *)
(* to the headers in its memory.  Addresses and sizes are in units of      *)
(* STATIC_POOL_ALIGN bytes, so that alignment is by construction.  One     *)
(* task calls it, so a call is one step.                                   *)
(*                                                                         *)
(* The client writes what it is given: the units of a payload hold no      *)
(* header afterwards ("raw").  It frees what it holds, or once more what   *)
(* it freed before as long as that memory was not handed out again: beyond *)
(* that static_pool.c:187 promises nothing.                                *)
(* Abstracted: the counters of calls, which only grow.                     *)
(***************************************************************************)
EXTENDS Integers, FiniteSets, FiniteSetsExt

CONSTANTS
  Memory,       \* aligned units of the array given to static_pool_init()
  Header,       \* POOL_HEADER in units
  Sizes         \* payloads the client asks for, in units

ASSUME StaticPoolAssumption ==
  /\ Memory \in Nat
  /\ Header \in Nat \ {0}
  /\ Sizes \subseteq Nat

NULL == -1
Start == -2                     \* p->start, outside the pool
MinBlock == 2 * Header          \* POOL_MIN_BLOCK
Usable == Memory >= Header + MinBlock
Capacity == IF Usable THEN Memory - Header ELSE 0
End == Capacity                 \* p->end, the sentinel
Addresses == 0 .. Capacity - 1

VARIABLES
  mem,          \* header at each address: its kind, next and size
  freeBytes, freeMin, liveBlocks,       \* the metrics kept in static_pool_t
  ret           \* what the last call returned

vars == <<mem, freeBytes, freeMin, liveBlocks, ret>>

Raw == [kind |-> "raw", next |-> NULL, size |-> 0]
Block(kind, next, size) == [kind |-> kind, next |-> next, size |-> size]
Need(n) == IF n + Header < MinBlock THEN MinBlock ELSE n + Header

\* The free list of m as the loops walk it: Start, then each next, End for ever.
Walk(m) ==
  LET w[k \in 0 .. Memory] ==
        IF k = 0 THEN Start
        ELSE IF w[k - 1] = End THEN End ELSE m[w[k - 1]].next
  IN  w
\* The first position of the walk that satisfies the loop's exit condition.
First(m, Stop(_)) == Walk(m)[Min({k \in 0 .. Memory : Stop(Walk(m)[k])})]

-----------------------------------------------------------------------------
(* insert_free()                                                           *)

\* A free block of own units at `at` reaches the next one of the list; the
\* sentinel is never absorbed.
NeverReaches(at, own, after) == FALSE
Reaches(at, own, after) == after # End /\ at + own = after

\* The last block with a lower address, or Start.
Behind(m, b) == First(m, LAMBDA a : a = End \/ m[a].next >= b)

\* b goes behind iter, joined to it and to the next one where they touch.
Placed(m, iter, b) ==
  LET after == m[iter].next
      front == iter # Start /\ iter + m[iter].size = b
      at == IF front THEN iter ELSE b
      own == IF front THEN m[iter].size + m[b].size ELSE m[b].size
      m1 == [m EXCEPT ![at] =
               IF Reaches(at, own, after)
               THEN Block("free", m[after].next, own + m[after].size)
               ELSE Block("free", after, own)]
  IN  IF at = iter THEN m1 ELSE [m1 EXCEPT ![iter].next = at]

InsertFree(m, b) == Placed(m, Behind(m, b), b)

\* The pool as the allocator leaves it: its memory, its metrics and its answer.
Pool == [mem |-> mem, free |-> freeBytes, min |-> freeMin, live |-> liveBlocks, at |-> NULL]

\* static_pool_alloc(): the block behind prev leaves the list; the rest of it goes
\* back when it can be a block.
Carve(m, prev, need) ==
  LET b == m[prev].next
      rest == m[b].size - need
      unlinked == [m EXCEPT ![prev].next = m[b].next]
  IN  IF rest >= MinBlock
      THEN InsertFree([unlinked EXCEPT ![b].size = need, ![b + need] = Block("free", NULL, rest)],
                      b + need)
      ELSE unlinked

\* The block is marked and the client writes its payload.
Handed(m, b) ==
  [a \in DOMAIN m |->
     IF a = b THEN Block("used", NULL, m[b].size)
     ELSE IF a \in b + 1 .. b + m[b].size - 1 THEN Raw ELSE m[a]]

TakeFrom(p, prev, need) ==
  LET b == p.mem[prev].next
      m == Carve(p.mem, prev, need)
      left == p.free - m[b].size
  IN  [mem |-> Handed(m, b), free |-> left, min |-> IF left < p.min THEN left ELSE p.min,
       live |-> p.live + 1, at |-> b]

HeadOnly(p, n) ==
  LET head == p.mem[Start].next
  IN  IF head = End \/ p.mem[head].size < Need(n) THEN p ELSE TakeFrom(p, Start, Need(n))

\* The block before the first that is large enough, or the last block.
FirstFit(m, need) ==
  First(m, LAMBDA a : a = End \/ m[a].next = End \/ m[m[a].next].size >= need)
AllocIn(p, n) ==
  LET prev == FirstFit(p.mem, Need(n))
  IN  IF Capacity = 0 \/ p.mem[prev].next = End THEN p ELSE TakeFrom(p, prev, Need(n))

\* live_block(): inside the pool and marked as in use.
LiveBlock(p, b) == b \in Addresses /\ p.mem[b].kind = "used"

\* static_pool_free() of a live block.
KeepFreeBytes(p, b) ==
  [p EXCEPT !.mem = InsertFree([p.mem EXCEPT ![b].kind = "free"], b), !.live = @ - 1]
FreeIn(p, b) ==
  [p EXCEPT !.mem = InsertFree([p.mem EXCEPT ![b].kind = "free", ![b].next = NULL], b),
            !.free = @ + p.mem[b].size, !.live = @ - 1]

Becomes(p, call, at) ==
  /\ mem' = p.mem /\ freeBytes' = p.free /\ freeMin' = p.min /\ liveBlocks' = p.live
  /\ ret' = [call |-> call, at |-> at]

-----------------------------------------------------------------------------
\* static_pool_init(): one block up to the sentinel, or an unusable pool.
Init ==
  /\ mem = [a \in {Start} \cup 0 .. Capacity |->
              IF a = Start THEN Block("list", IF Usable THEN 0 ELSE End, 0)
              ELSE IF a = End THEN Block("list", NULL, 0)
              ELSE IF a = 0 THEN Block("free", End, Capacity) ELSE Raw]
  /\ freeBytes = Capacity /\ freeMin = Capacity /\ liveBlocks = 0
  /\ ret = [call |-> "init", at |-> NULL]

\* static_pool_alloc(), static_pool_calloc() and static_pool_realloc(NULL).
Alloc(n) == LET p == AllocIn(Pool, n) IN Becomes(p, "alloc", p.at)

\* A request near SIZE_MAX, or an n * size that overflows in static_pool_calloc().
AllocHuge == Becomes(Pool, "alloc", NULL)

Free(b) ==
  IF LiveBlock(Pool, b) THEN Becomes(FreeIn(Pool, b), "free", b)
  ELSE Becomes(Pool, "invalid", NULL)

\* Shrinking stays in place; growing holds both blocks while it copies.
Realloc(b, n) ==
  LET grown == AllocIn(Pool, n) IN
  IF ~LiveBlock(Pool, b) THEN Becomes(Pool, "invalid", NULL)
  ELSE IF n = 0 THEN Becomes(FreeIn(Pool, b), "realloc", NULL)
  ELSE IF mem[b].size - Header >= n THEN Becomes(Pool, "realloc", b)
  ELSE IF grown.at = NULL THEN Becomes(Pool, "realloc", NULL)
  ELSE Becomes(FreeIn(grown, b), "realloc", grown.at)

\* Pointers the client got and whose header nobody has overwritten.
Known == {a \in Addresses : mem[a].kind # "raw"}

Next ==
  \/ \E n \in Sizes : Alloc(n)
  \/ AllocHuge
  \/ \E b \in Known : Free(b)
  \/ \E b \in Known, n \in Sizes : Realloc(b, n)

Spec == Init /\ [][Next]_vars

-----------------------------------------------------------------------------
(* Properties                                                              *)

Used == {a \in Addresses : mem[a].kind = "used"}
Listed == {Walk(mem)[k] : k \in 1 .. Memory} \ {End}
Span(a) == a .. a + mem[a].size - 1
LargestFree == IF Listed = {} THEN 0 ELSE Max({mem[a].size : a \in Listed})

\* Every unit of the pool is in exactly one block, held or listed, and no two
\* listed blocks touch: reconnections leave nothing behind that a later request
\* cannot use, and an empty pool is one block again (insert_free, static_pool_alloc).
Tiled ==
  /\ \A u \in Addresses : Cardinality({a \in Used \cup Listed : u \in Span(a)}) = 1
  /\ \A a, b \in Listed : a + mem[a].size # b
  /\ Used = {} /\ Usable => Listed = {0}

\* The metrics read over SWD are those of the list, so that a leak or
\* fragmentation shows in them (static_pool_metrics).
MetricsAreTrue ==
  /\ freeBytes = Cardinality(UNION {Span(a) : a \in Listed})
  /\ liveBlocks = Cardinality(Used)
  /\ freeMin <= freeBytes
  /\ LargestFree <= freeBytes

\* The allocator is the heap static_pool.h promises: blocks in use never overlap
\* and a request fails only when no stretch of free units can hold it.
H == INSTANCE Heap WITH live <- {[at |-> a, len |-> mem[a].size] : a \in Used}
ImplementsHeap == H!Spec
=============================================================================

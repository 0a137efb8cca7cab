--------------------------------- MODULE Heap ---------------------------------
(***************************************************************************)
(* What static_pool.h promises its one owner, with no free list: extents   *)
(* of a line of units, handed out disjoint.  A request fails only when no  *)
(* stretch of free units can hold it, however the blocks before it were    *)
(* released.  Units are STATIC_POOL_ALIGN bytes; an extent includes its    *)
(* header.  StaticPool implements this module.                             *)
(***************************************************************************)
EXTENDS Integers

CONSTANTS
  Capacity,     \* units of the pool, the end sentinel excluded
  Header,       \* POOL_HEADER in units
  Sizes         \* payloads the client asks for, in units

NULL == -1
MinBlock == 2 * Header

VARIABLES
  live,         \* extents [at, len] the client holds
  ret           \* what the last call returned: the call, the address or NULL

vars == <<live, ret>>

Extent == [at : 0 .. Capacity - 1, len : 1 .. Capacity]
Units(e) == e.at .. e.at + e.len - 1
Disjoint(e, f) == Units(e) \cap Units(f) = {}

\* Units asked for: the header, and no block smaller than two headers.
Need(n) == IF n + Header < MinBlock THEN MinBlock ELSE n + Header
\* A new extent may not touch what is held, and fits in the pool.
Fits(e) == Units(e) \subseteq 0 .. Capacity - 1 /\ \A f \in live : Disjoint(e, f)
\* The extents that may answer a request: no more than a sliver, too small to
\* be a block, is given away with it.
Answers(n) ==
  {e \in Extent : e.len \in Need(n) .. Need(n) + MinBlock - 1 /\ Fits(e)}
Room(n) == \E a \in 0 .. Capacity - 1 : Fits([at |-> a, len |-> Need(n)])

-----------------------------------------------------------------------------
Init == live = {} /\ ret = [call |-> "init", at |-> NULL]

Returns(call, at) == ret' = [call |-> call, at |-> at]

Alloc(n) ==
  \/ \E e \in Answers(n) : live' = live \cup {e} /\ Returns("alloc", e.at)
  \/ ~Room(n) /\ UNCHANGED live /\ Returns("alloc", NULL)

\* A request no pool can hold, or a calloc() product that does not fit size_t.
AllocHuge == UNCHANGED live /\ Returns("alloc", NULL)

Free(e) == live' = live \ {e} /\ Returns("free", e.at)

\* A pointer freed before: counted, and nothing else.
FreeStale == UNCHANGED live /\ Returns("invalid", NULL)

\* Growing needs room beside the old extent, which survives a failure.
Realloc(e, n) ==
  \/ n = 0 /\ live' = live \ {e} /\ Returns("realloc", NULL)
  \/ n \in 1 .. e.len - Header /\ UNCHANGED live /\ Returns("realloc", e.at)
  \/ /\ n > e.len - Header
     /\ \/ \E f \in Answers(n) : /\ live' = (live \ {e}) \cup {f}
                                 /\ Returns("realloc", f.at)
        \/ ~Room(n) /\ UNCHANGED live /\ Returns("realloc", NULL)

Next ==
  \/ \E n \in Sizes : Alloc(n)
  \/ AllocHuge
  \/ \E e \in live : Free(e)
  \/ FreeStale
  \/ \E e \in live, n \in Sizes : Realloc(e, n)

Spec == Init /\ [][Next]_vars

-----------------------------------------------------------------------------
\* What is held are extents of the pool.
TypeOK == live \subseteq Extent

\* No unit is in two blocks the client holds, and none is beyond the pool
\* (static_pool_alloc: the split, the unlinking and the end sentinel).
NoOverlap ==
  /\ \A e \in live : Units(e) \subseteq 0 .. Capacity - 1
  /\ \A e, f \in live : e # f => Disjoint(e, f)
=============================================================================

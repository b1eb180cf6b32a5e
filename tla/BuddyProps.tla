----------------------------- MODULE BuddyProps -----------------------------
(***************************************************************************)
(* The properties of module Buddy.                                         *)
(***************************************************************************)
EXTENDS Buddy

\* The blocks that are free, and all blocks, as pairs of offset and index.
Free   == {b \in Unit \X Index : b[1] \in Elems(tzl[b[2]])}
Blocks == Free \cup held

\* The units of a block.
UnitsOf(b) == b[1]..(b[1] + Size[b[2]] - 1)

\* Every unit of memory is in one block, free or held: no memory is given out
\* twice or while it is free, and none is lost, however blocks are split and
\* merged.
Partition ==
  /\ \A u \in Unit : Cardinality({b \in Blocks : u \in UnitsOf(b)}) = 1
  /\ Free \cap held = {}
  /\ \A i \in Index : NoDup(tzl[i])

\* Two free buddies have been merged: phys_free leaves no pair behind, and
\* phys_alloc makes none.
Coalesced ==
  \A b \in Free : b[2] < MaxIndex => <<BuddyOf(b[1], b[2]), b[2]>> \notin Free

\* When all blocks have been freed, the largest one can be allocated again,
\* although the merging may end with other blocks than phys_init made.
WholeAgain == held = {} => tzl[MaxIndex] # <<>> /\ tzl[MaxIndex - 1] # <<>>
=============================================================================

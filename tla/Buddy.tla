------------------------------- MODULE Buddy -------------------------------
(***************************************************************************)
(* The buddy allocator of physical memory: src/kernel/mem.c and its free   *)
(* lists, src/kernel/liste_zl.c.                                           *)
(*                                                                         *)
(* Addresses are offsets from zone_memoire in units of the smallest block, *)
(* and a block of index i has 2^i units.  The memory is an initial block   *)
(* of index MaxIndex - 1 followed by one of index MaxIndex, which is not   *)
(* aligned on its own size.                                                *)
(*                                                                         *)
(* The definitions whose name holds an underscore are faulty variants of   *)
(* the one that follows them: each breaks a property of BuddyProps.        *)
(***************************************************************************)
EXTENDS PrioQueue

CONSTANTS
  MaxIndex,   \* BUDDY_MAX_INDEX - NB_UNUSED_SIZES
  MaxHeld     \* bound: the blocks the kernel holds at a time

ASSUME BuddyAssumption == MaxIndex \in Nat \ {0} /\ MaxHeld \in Nat

Index == 0..MaxIndex
Size[i \in Index] == IF i = 0 THEN 1 ELSE 2 * Size[i - 1]
Unit == 0..(Size[MaxIndex - 1] + Size[MaxIndex] - 1)

VARIABLES
  tzl,   \* the list of free blocks of each index, from tete to queue
  held   \* the blocks that phys_alloc has returned, with their indices

vars == <<tzl, held>>

\* phys_init
Init ==
  /\ tzl = [i \in Index |-> IF i = MaxIndex THEN <<Size[MaxIndex - 1]>>
                            ELSE IF i = MaxIndex - 1 THEN <<0>> ELSE <<>>]
  /\ held = {}

-----------------------------------------------------------------------------
\* phys_alloc looks for the lowest index with a free block that fits.
Fits(i) == {c \in i..MaxIndex : tzl[c] # <<>>}
Cible(i) == CHOOSE c \in Fits(i) : \A d \in Fits(i) : c <= d

\* reduce_block halves the first block of list c down to index i.  The lists
\* in between are empty, so that the first half is the one that is halved
\* again and the second one is all that is left in its list.
Halved_Lost(p, i, c) == [tzl EXCEPT ![c] = Tail(@)]
Halved(p, i, c) ==
  [j \in Index |-> IF j = c THEN Tail(tzl[j])
                   ELSE IF j \in i..(c - 1) THEN Append(tzl[j], p + Size[j])
                   ELSE tzl[j]]

PhysAlloc(i) ==
  /\ Cardinality(held) < MaxHeld
  /\ Fits(i) # {}
  /\ LET p == Head(tzl[Cible(i)]) IN
       /\ tzl' = Halved(p, i, Cible(i))
       /\ held' = held \cup {<<p, i>>}

-----------------------------------------------------------------------------
\* get_buddy: the exclusive or of the offset and the size.
BuddyOf_Next(p, i) == p + Size[i]
BuddyOf(p, i) == IF (p \div Size[i]) % 2 = 0 THEN p + Size[i] ELSE p - Size[i]

Lower(p, q) == IF p < q THEN p ELSE q

\* By index j, the block that contains p once p, of index i, has been merged
\* with its buddies of the indices i to j - 1.
Fusion(p, i) ==
  LET b[k \in i..MaxIndex] ==
        IF k = i THEN p ELSE Lower(b[k - 1], BuddyOf(b[k - 1], k - 1))
  IN b

\* pop_buddy finds nothing in the list of index j; above MaxIndex there is
\* no list.
Alone_Always(p, i, j) == TRUE
Alone(p, i, j) == j > MaxIndex \/ BuddyOf(Fusion(p, i)[j], j) \notin Elems(tzl[j])

\* The index at which the recursion of phys_free ends.
End(p, i) ==
  CHOOSE n \in i..(MaxIndex + 1) :
    /\ Alone(p, i, n)
    /\ \A j \in i..(n - 1) : ~ Alone(p, i, j)

\* phys_free of a block that is held, with the size it was allocated with.
PhysFree(p, i) ==
  /\ <<p, i>> \in held
  /\ held' = held \ {<<p, i>>}
  /\ tzl' = [j \in Index |->
               IF j \in i..(End(p, i) - 1)
                 THEN QueueDel(tzl[j], BuddyOf(Fusion(p, i)[j], j))
               ELSE IF j = End(p, i) THEN Append(tzl[j], Fusion(p, i)[j])
               ELSE tzl[j]]

Next ==
  \/ \E i \in Index : PhysAlloc(i)
  \/ \E p \in Unit, i \in Index : PhysFree(p, i)

Spec == Init /\ [][Next]_vars
=============================================================================

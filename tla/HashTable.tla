----------------------------- MODULE HashTable -----------------------------
(***************************************************************************)
(* The hash tables of src/kernel/hash.c, as pure operators: open           *)
(* addressing with the probe sequence of CPython's dictionaries, marks for *)
(* deleted slots, and a table that doubles and halves.                     *)
(*                                                                         *)
(* A table is a record of its slots, a function from 0..size-1, and of the *)
(* counters fill and count.  A slot is Empty, Deleted, or a pair of a key  *)
(* and its value.  Keys stand for strings: they are equal when cmp says so.*)
(* The field failed is not in the code: it counts the calls of hash_update *)
(* that found no memory.                                                   *)
(*                                                                         *)
(* The definitions whose name holds an underscore are faulty variants of   *)
(* the one that follows them.                                              *)
(***************************************************************************)
EXTENDS Integers, SequencesExt

CONSTANTS
  MinSize,    \* HASH_MINSIZE
  Doublings,  \* bound: how often a table of that size is doubled
  MaxFails,   \* bound: how often hash_update finds no memory
  Key,
  Hash        \* the hash code of each key

ASSUME HashAssumption ==
  /\ \E e \in 1..10 : MinSize = 2^e
  /\ {Doublings, MaxFails} \subseteq Nat
  /\ Hash \in [Key -> Nat]

Empty     == <<>>
Deleted   == <<"deleted">>
Active(s) == Len(s) = 2

\* hash_initialize
Fresh(n) == [slots |-> [i \in 0..(n - 1) |-> Empty], fill |-> 0, count |-> 0, failed |-> 0]

Size(t) == Cardinality(DOMAIN t.slots)

\* The sizes a table takes: hash_update doubles and halves.
TableSize[e \in 0..Doublings] == IF e = 0 THEN MinSize ELSE 2 * TableSize[e - 1]

\* The bounds leave the table room: the code doubles it without end, and after
\* more failures than a third of HASH_MINSIZE it may fill up, and a search
\* not end.
ASSUME RoomAssumption ==
  /\ IsFiniteSet(Key)
  /\ Doublings >= 1 /\ 4 * Cardinality(Key) <= TableSize[Doublings]
  /\ 3 * MaxFails <= MinSize

\* The slots that hash_lookup looks at, by hash code and size of the table:
\* perturb, the hash code shifted by 5 bits at each step, is 0 after 7 steps,
\* and the size steps that follow visit every slot.
Shifted(h, i) == IF i < 7 THEN h \div 2^(5 * i) ELSE 0

Path(h, n) ==
  LET at[i \in 1..(n + 8)] ==
        IF i = 1 THEN h % n ELSE (5 * at[i - 1] + Shifted(h, i - 2) + 1) % n
  IN [i \in 1..(n + 8) |-> at[i]]

Probes == [h \in Range(Hash) |-> [n \in Range(TableSize) |-> Path(h, n)]]

\* hash_lookup stops at an empty slot and at the key, after Steps slots, if
\* it Ends.
Holds(t, i, k) == Active(t.slots[i]) /\ t.slots[i][1] = k
Stops(t, i, k) == t.slots[i] = Empty \/ Holds(t, i, k)

Ends(t, k) ==
  LET at == Probes[Hash[k]][Size(t)] IN \E i \in DOMAIN at : Stops(t, at[i], k)
Steps(t, k) ==
  LET at == Probes[Hash[k]][Size(t)]
  IN CHOOSE i \in DOMAIN at : /\ Stops(t, at[i], k)
                              /\ \A j \in 1..(i - 1) : ~ Stops(t, at[j], k)

\* The slot of the key, else the first one on the way that is free.
Lookup(t, k) ==
  LET at   == Probes[Hash[k]][Size(t)]
      last == Steps(t, k)
      free == {i \in 1..last : t.slots[at[i]] = Deleted}
  IN IF Holds(t, at[last], k) \/ free = {} THEN at[last]
     ELSE at[CHOOSE i \in free : \A j \in free : i <= j]

\* hash_isset and hash_get
IsSet(t, k) == Active(t.slots[Lookup(t, k)])
Get(t, k)   == t.slots[Lookup(t, k)][2]

\* What hash_set and hash_copy write into a slot that is not active.
Insert(t, k, v) ==
  LET i == Lookup(t, k) IN
    [t EXCEPT !.slots[i] = <<k, v>>,
              !.fill  = IF t.slots[i] = Empty THEN @ + 1 ELSE @,
              !.count = @ + 1]

\* hash_copy into a new table of n slots: the marks of deleted slots are
\* dropped.  upTo[i] is what it is once the first i slots have been copied.
Copied(t, n) ==
  LET upTo[i \in 0..Size(t)] ==
        IF i = 0 THEN [Fresh(n) EXCEPT !.failed = t.failed]
        ELSE IF Active(t.slots[i - 1])
          THEN Insert(upTo[i - 1], t.slots[i - 1][1], t.slots[i - 1][2])
        ELSE upTo[i - 1]
  IN upTo[Size(t)]

\* The size hash_update wants: it grows when two thirds are filled, with
\* deleted slots too, and shrinks when a quarter is used.
NewSize_CountsActive(t) ==
  IF 3 * t.count >= 2 * Size(t) THEN 2 * Size(t)
  ELSE IF Size(t) > MinSize /\ 4 * t.count <= Size(t) THEN Size(t) \div 2
  ELSE Size(t)
NewSize(t) ==
  IF 3 * t.fill >= 2 * Size(t) THEN 2 * Size(t)
  ELSE IF Size(t) > MinSize /\ 4 * t.count <= Size(t) THEN Size(t) \div 2
  ELSE Size(t)

\* hash_update; without memory (~ mem) the table stays as it is.
Update(t, mem) ==
  IF NewSize(t) = Size(t) THEN t
  ELSE IF mem THEN Copied(t, NewSize(t))
  ELSE [t EXCEPT !.failed = @ + 1]

\* hash_set
Set(t, k, v, mem) ==
  IF IsSet(t, k) THEN [t EXCEPT !.slots[Lookup(t, k)][2] = v]
  ELSE Update(Insert(t, k, v), mem)

\* hash_del
Del(t, k, mem) ==
  IF ~ IsSet(t, k) THEN t
  ELSE Update([t EXCEPT !.slots[Lookup(t, k)] = Deleted, !.count = @ - 1], mem)
=============================================================================

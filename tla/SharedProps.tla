---------------------------- MODULE SharedProps ----------------------------
(***************************************************************************)
(* The properties of module SharedMem and of the address spaces under it.  *)
(***************************************************************************)
EXTENDS SharedMem

\* Hash codes for the keys: two collide in the smallest table, and meet the
\* third on their way.
MCShmHash == [k \in Key |-> CASE k = "a" -> 0 [] k = "b" -> 8 [] k = "c" -> 1]

\* Processes are interchangeable.
Sym == Permutations(Proc)

\* The names in a table, by walking it, and the addresses of shared pages.
Names(t)      == {s[1] : s \in {x \in Range(t.slots) : Active(x)}}
Addresses(p)  == {v \in DOMAIN space[p].entries : v >= UserStack}
SharedPage(k) == Get(table, k).page

\* The reference count of a page is the number of processes that have it
\* mapped, dead ones included until they are freed: the table of the kernel,
\* the tables of the processes and their page tables, written in turn by
\* create, acquire, release and the end of a process, say the same.
RefsCounted ==
  /\ \A k \in Names(table) :
       Get(table, k).nrefs = Cardinality({p \in Proc : k \in Names(shmem[p])})
  /\ \A p \in Proc :
       /\ Names(shmem[p]) \subseteq Names(table)
       /\ Addresses(p) = {Get(shmem[p], k) : k \in Names(shmem[p])}
       /\ \A k \in Names(shmem[p]) :
            space[p].entries[Get(shmem[p], k)] = SharedPage(k)

\* The pages of physical memory: free ones, those of each process, the shared
\* ones, and those that a failed start, or a failed assertion in start or
\* shm_create, has leaked.  Each is in one of these places and used there for
\* one thing: nothing is freed while it is in use, nor twice, and a process
\* that has been freed leaves nothing behind, however its page tables grew.
UsesOf(p) ==
  LET s == space[p] IN
    IF s.pdir = NoPage THEN {}
    ELSE {<<s.pdir, p, "directory", 0>>} \cup {<<q, p, "kstack", 0>> : q \in s.kstack}
         \cup {<<s.tables[d], p, "table", d>> : d \in DOMAIN s.tables}
         \cup {<<s.entries[v], p, "page", v>> : v \in DOMAIN s.entries \ Addresses(p)}
Uses ==
  {<<q, 0, "free", 0>> : q \in free} \cup {<<q, 0, "lost", 0>> : q \in lost}
  \cup {<<SharedPage(k), 0, k, 0>> : k \in Names(table)} \cup UNION {UsesOf(p) : p \in Proc}

PagesAccounted == Page = {u[1] : u \in Uses} /\ Cardinality(Uses) = NbPages

\* The state up to a renaming of the pages, for TLC: where PagesAccounted and
\* RefsCounted hold, as they do in every state but a last one that TLC
\* reports, only the uses of the pages matter, and these are all distinct.
Slots(t, Value(_)) == [i \in DOMAIN t.slots |->
  IF Active(t.slots[i]) THEN <<t.slots[i][1], Value(t.slots[i][2])>> ELSE t.slots[i]]
UpToPages ==
  <<PagesAccounted, RefsCounted, state, shmem, shmIdx, Cardinality(free),
    Cardinality(lost), Slots(table, LAMBDA shp : shp.nrefs), table.fill, table.count,
    [p \in Proc |-> <<DOMAIN space[p].tables, DOMAIN space[p].entries>>]>>

\* Processes see the pages of module SharedContract: through its page tables
\* each sees the page of the name it asked for, wherever that was mapped by
\* others, until it releases it or is freed; the name is free again exactly
\* when the last process has gone; an address leads to one page only in the
\* life of a process.
KeyOf(q) == IF \E k \in Names(table) : SharedPage(k) = q
            THEN CHOOSE k \in Names(table) : SharedPage(k) = q
            ELSE "none"

Views == [p \in Proc |-> [v \in Addresses(p) |-> KeyOf(space[p].entries[v])]]
Spent == [p \in Proc |-> {UserStack + i : i \in 0..(shmIdx[p] - 1)}]

Sharing == INSTANCE SharedContract WITH
  Address <- UserStack..(UserStack + MaxPages - 1),
  view    <- Views,
  spent   <- Spent
SharedPromise == Sharing!CSpec
=============================================================================

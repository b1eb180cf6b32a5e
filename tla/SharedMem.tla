----------------------------- MODULE SharedMem -----------------------------
(***************************************************************************)
(* The shared pages of src/kernel/shmem.c, in the address spaces of module *)
(* VirtualMem, from start to free_process.  The tables that name the pages *)
(* are those of module HashTable.                                          *)
(*                                                                         *)
(* A system call is one step.  Calls that fail and change nothing are left *)
(* out.  A failed assertion ends the caller only: panic writes to page 0,  *)
(* which nothing maps, and the handler of page faults kills the process    *)
(* that runs.  What the call had done stays done.                          *)
(***************************************************************************)
EXTENDS VirtualMem, HashTable

CONSTANTS
  Proc,       \* the entries of the process table
  MaxPages    \* MAXPAGES: the shared pages a process may map in its life

ASSUME SharedAssumption == IsFiniteSet(Proc) /\ MaxPages \in Nat

VARIABLES
  free,      \* the pages of phys_alloc that nobody has
  table,     \* the table of shared pages
  state,     \* "NONE", "ALIVE" or "ENDED" (a zombie, or dying)
  space,     \* the address space of each process
  shmem,     \* its table of the addresses of shared pages
  shmIdx,    \* shm_idx
  lost       \* the pages that calls which failed or faulted have leaked

procs   == <<state, space, shmem, shmIdx>>
shmVars == <<free, table, procs, lost>>

ShmInit ==
  /\ free = Page
  /\ table = Fresh(MinSize)
  /\ state = [p \in Proc |-> "NONE"]
  /\ space = [p \in Proc |-> NoSpace({})]
  /\ shmem = [p \in Proc |-> Fresh(MinSize)]
  /\ shmIdx = [p \in Proc |-> 0]
  /\ lost = {}

\* free lives in its variable between two steps.
Holding(s) == [s EXCEPT !.free = {}, !.ok = TRUE]

\* NEXTPAGE
NextVpage(p) == UserStack + shmIdx[p]

-----------------------------------------------------------------------------
Start(p) ==
  LET s == AllocPages(free) IN
    /\ state[p] = "NONE"
    /\ s.ok /\ ~ s.panic
    /\ state' = [state EXCEPT ![p] = "ALIVE"]
    /\ space' = [space EXCEPT ![p] = Holding(s)]
    /\ shmem' = [shmem EXCEPT ![p] = Fresh(MinSize)]
    /\ shmIdx' = [shmIdx EXCEPT ![p] = 0]
    /\ free' = s.free
    /\ UNCHANGED <<table, lost>>

\* free_process does nothing for a process that has no pid yet.
StartFails(p) ==
  LET s == AllocPages(free) IN
    /\ state[p] = "NONE"
    /\ ~ s.ok /\ ~ s.panic
    /\ lost' = lost \cup (free \ s.free)
    /\ free' = s.free
    /\ UNCHANGED <<table, procs>>

\* exit or kill: the memory stays until the process is freed.
End(p) ==
  /\ state[p] = "ALIVE"
  /\ state' = [state EXCEPT ![p] = "ENDED"]
  /\ UNCHANGED <<free, table, space, shmem, shmIdx, lost>>

-----------------------------------------------------------------------------
\* Without memory in the heap for the descriptor or the name (~ mem) the page
\* is given back, but not the address.  That hash_set may find none is left
\* out: the key is in the table then although hash_set failed.
Shared(page, n) == [page |-> page, nrefs |-> n]

ShmCreate(p, k, mem) ==
  LET page == NextPage(free)
      v    == NextVpage(p)
      s    == MapPage([space[p] EXCEPT !.free = free \ {page}], page, v)
      done == IF mem THEN s ELSE [UnmapVpage(s, v) EXCEPT !.free = @ \cup {page}]
  IN /\ state[p] = "ALIVE"
     /\ ~ IsSet(table, k)
     /\ page # NoPage
     /\ shmIdx[p] < MaxPages
     /\ ~ s.panic
     /\ shmIdx' = [shmIdx EXCEPT ![p] = @ + 1]
     /\ free' = done.free
     /\ space' = [space EXCEPT ![p] = Holding(done)]
     /\ IF mem
        THEN /\ table' = Set(table, k, Shared(page, 1), TRUE)
             /\ shmem' = [shmem EXCEPT ![p] = Set(@, k, v, TRUE)]
        ELSE UNCHANGED <<table, shmem>>
     /\ UNCHANGED <<state, lost>>

Acquired_Uncounted(shp) == shp
Acquired(shp) == [shp EXCEPT !.nrefs = @ + 1]

ShmAcquire(p, k) ==
  LET shp == Get(table, k)
      v   == NextVpage(p)
      s   == MapPage([space[p] EXCEPT !.free = free], shp.page, v)
  IN /\ state[p] = "ALIVE"
     /\ IsSet(table, k)
     /\ ~ IsSet(shmem[p], k)
     /\ shmIdx[p] < MaxPages
     /\ ~ s.panic
     /\ shmIdx' = [shmIdx EXCEPT ![p] = @ + 1]
     /\ free' = s.free
     /\ space' = [space EXCEPT ![p] = Holding(s)]
     /\ table' = Set(table, k, Acquired(shp), TRUE)
     /\ shmem' = [shmem EXCEPT ![p] = Set(@, k, v, TRUE)]
     /\ UNCHANGED <<state, lost>>

-----------------------------------------------------------------------------
\* shm_release_proc, on a record m of the table, the tables and space of the
\* process, and the free pages in the space.  The page of a descriptor that
\* has just been freed is read unharmed: mem_free overwrites its key only.
Unmapped_Not(s, v) == s
Unmapped(s, v) == UnmapVpage(s, v)

Forgotten(m, k) ==
  [m EXCEPT !.space = Unmapped(@, Get(m.shmem, k)), !.shmem = Del(@, k, TRUE)]

Dropped(m, k, shp) ==
  IF shp.nrefs > 1
  THEN [m EXCEPT !.table = Set(@, k, Shared(shp.page, shp.nrefs - 1), TRUE)]
  ELSE [m EXCEPT !.table = Del(@, k, TRUE), !.space.free = @ \cup {shp.page}]

Released(m, k) ==
  IF IsSet(m.table, k) /\ IsSet(m.shmem, k)
  THEN Dropped(Forgotten(m, k), k, Get(m.table, k))
  ELSE m

Mappings(p) ==
  [table |-> table, shmem |-> shmem[p], space |-> [space[p] EXCEPT !.free = free]]

ShmRelease(p, k) == \E m \in {Released(Mappings(p), k)} :
  /\ state[p] = "ALIVE"
  /\ IsSet(shmem[p], k)
  /\ table' = m.table
  /\ shmem' = [shmem EXCEPT ![p] = m.shmem]
  /\ space' = [space EXCEPT ![p] = Holding(m.space)]
  /\ free' = m.space.free
  /\ UNCHANGED <<state, shmIdx, lost>>

\* hash_for_each with free_process_shmem.  It keeps the slots of the table it
\* began with, and compares with the size of the table there is.
Visited(m, slots, i) ==
  IF i < Size(m.shmem) /\ Active(slots[i]) THEN Released(m, slots[i][1]) ELSE m

ReleasedAll(m) ==
  LET upTo[i \in 0..Size(m.shmem)] ==
        IF i = 0 THEN m ELSE Visited(upTo[i - 1], m.shmem.slots, i - 1)
  IN upTo[Size(m.shmem)]

FreeProcess(p) == \E m \in {ReleasedAll(Mappings(p))} :
  /\ state[p] = "ENDED"
  /\ table' = m.table
  /\ free' = FreeSpace(m.space)
  /\ state' = [state EXCEPT ![p] = "NONE"]
  /\ space' = [space EXCEPT ![p] = NoSpace({})]
  /\ shmem' = [shmem EXCEPT ![p] = Fresh(MinSize)]
  /\ shmIdx' = [shmIdx EXCEPT ![p] = 0]
  /\ UNCHANGED lost

-----------------------------------------------------------------------------
\* page_fault_handler: autokill, which ends p as End does.
Killed(p) == state' = [state EXCEPT ![p] = "ENDED"]

\* q calls start for p, and the assertion of map_page fails or the code is
\* copied through a null page: the pages taken so far belong to a process
\* that is in no list.  (idle, which kill refuses, calls start at boot only.)
StartPanics(p, q) ==
  LET s == AllocPages(free) IN
    /\ state[p] = "NONE" /\ state[q] = "ALIVE"
    /\ s.panic
    /\ Killed(q)
    /\ lost' = lost \cup (free \ s.free)
    /\ free' = s.free
    /\ UNCHANGED <<table, space, shmem, shmIdx>>

\* The same for a shared page: the address is used up, and the page that
\* shm_create took is in no table yet.
ShmPanics(p, k) ==
  /\ state[p] = "ALIVE"
  /\ shmIdx[p] < MaxPages
  /\ \/ ~ IsSet(table, k) /\ Cardinality(free) = 1
     \/ IsSet(table, k) /\ ~ IsSet(shmem[p], k) /\ free = {}
  /\ WithTable([space[p] EXCEPT !.free = {}], NextVpage(p)).panic
  /\ Killed(p)
  /\ shmIdx' = [shmIdx EXCEPT ![p] = @ + 1]
  /\ lost' = lost \cup free
  /\ free' = {}
  /\ UNCHANGED <<table, space, shmem>>

ShmNext == \E p \in Proc :
  \/ Start(p) \/ StartFails(p) \/ End(p) \/ FreeProcess(p)
  \/ \E q \in Proc : StartPanics(p, q)
  \/ \E k \in Key : \/ \E mem \in BOOLEAN : ShmCreate(p, k, mem)
                   \/ ShmAcquire(p, k) \/ ShmRelease(p, k) \/ ShmPanics(p, k)

ShmSpec == ShmInit /\ [][ShmNext]_shmVars
=============================================================================

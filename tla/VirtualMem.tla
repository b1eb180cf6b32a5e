----------------------------- MODULE VirtualMem -----------------------------
(***************************************************************************)
(* The address spaces of src/kernel/vmem.c, as pure operators.  A space is *)
(* a record of the pages it has taken: page directory, kernel stack, page  *)
(* tables by index in the directory, and what its entries lead to, with    *)
(*   free   the pages of phys_alloc that nobody has,                       *)
(*   ok     what the last call returned,                                   *)
(*   panic  an assertion failed, or the kernel wrote through a null page:  *)
(*          a page fault, since panic writes to page 0, which nothing maps.*)
(*                                                                         *)
(* Addresses are page numbers.  The entries of the kernel, copied into     *)
(* every directory, are left out: phys_free refuses their page tables.     *)
(***************************************************************************)
EXTENDS Integers, SequencesExt

CONSTANTS
  NbPages,    \* the pages of physical memory
  PtSize,     \* entries of a page table
  UserCode,   \* USERCODE / PAGESIZE
  UserStack,  \* USERSTACK / PAGESIZE
  SPages,     \* pages of a user stack
  CPages,     \* pages of the code of a program
  KPages      \* KERNELSSIZE / PAGESIZE

ASSUME VirtualAssumption ==
  /\ {NbPages, PtSize, UserCode, UserStack, SPages, CPages, KPages} \subseteq Nat \ {0}
  /\ UserCode + CPages <= UserStack - SPages

Page   == 1..NbPages
NoPage == 0

\* get_ustack_vpage and get_ucode_vpage
StackPages == (UserStack - SPages)..(UserStack - 1)
CodePages  == UserCode..(UserCode + CPages - 1)

NoSpace(free) ==
  [free |-> free, pdir |-> NoPage, kstack |-> {}, tables |-> <<>>, entries |-> <<>>,
   ok |-> TRUE, panic |-> FALSE]

\* alloc_page.  Which of the free pages it takes does not matter.
NextPage(free) == IF free = {} THEN NoPage ELSE CHOOSE q \in free : \A r \in free : q <= r

\* The entries of a table with one more.
WithEntry(entries, i, page) ==
  [j \in DOMAIN entries \cup {i} |-> IF j = i THEN page ELSE entries[j]]

-----------------------------------------------------------------------------
\* The page table that v needs is made when it is not there.
WithTable(s, v) ==
  IF v \div PtSize \in DOMAIN s.tables THEN s
  ELSE IF s.free = {} THEN [s EXCEPT !.panic = TRUE]
  ELSE [s EXCEPT !.tables = WithEntry(@, v \div PtSize, NextPage(s.free)),
                 !.free   = @ \ {NextPage(s.free)}]

MapPage(s, page, v) ==
  IF page = NoPage THEN [s EXCEPT !.ok = FALSE]
  ELSE LET t == WithTable(s, v) IN
    IF t.panic \/ v \in DOMAIN s.entries THEN [t EXCEPT !.ok = FALSE]
    ELSE [t EXCEPT !.entries = WithEntry(@, v, page), !.ok = TRUE]

UnmapVpage(s, v) ==
  [s EXCEPT !.entries = Restrict(@, DOMAIN @ \ {v}), !.ok = v \in DOMAIN s.entries]

\* A new page at v.
AllocAndMap(s, v) ==
  LET page == NextPage(s.free)
      t    == MapPage([s EXCEPT !.free = @ \ {page}], page, v)
  IN IF s.panic THEN s ELSE [t EXCEPT !.ok = @ /\ s.ok]

-----------------------------------------------------------------------------
(* alloc_pages *)

AllocDir(s) ==
  [s EXCEPT !.pdir = NextPage(s.free),
            !.free = @ \ {NextPage(s.free)}]

\* upTo[i] is the space once the first i pages of the user stack are there.
AllocStack(s) ==
  LET upTo[i \in 0..SPages] ==
        IF i = 0 THEN s ELSE AllocAndMap(upTo[i - 1], UserStack - SPages + i - 1)
  IN upTo[SPages]

\* One block of KPages pages; that there is one where as many pages are free
\* is a matter of module Buddy.
Lowest(n, free) == {q \in free : Cardinality({r \in free : r < q}) < n}
AllocKernelStack(s) ==
  IF Cardinality(s.free) < KPages THEN s
  ELSE [s EXCEPT !.kstack = Lowest(KPages, s.free), !.free = @ \ Lowest(KPages, @)]

\* Without a page the code is copied to address 0: a page fault.
AllocCodePage(s, v) ==
  IF s.panic \/ s.free = {} THEN [s EXCEPT !.panic = TRUE] ELSE AllocAndMap(s, v)
AllocCode(s) ==
  LET upTo[i \in 0..CPages] ==
        IF i = 0 THEN s ELSE AllocCodePage(upTo[i - 1], UserCode + i - 1)
  IN upTo[CPages]

AllocPages(free) ==
  LET dir    == AllocDir(NoSpace(free))
      stack  == AllocStack(dir)
      kstack == AllocKernelStack(stack)
  IN IF dir.pdir = NoPage THEN [dir EXCEPT !.ok = FALSE]
     ELSE IF stack.panic THEN stack
     ELSE IF kstack.kstack = {} THEN [kstack EXCEPT !.ok = FALSE]
     ELSE AllocCode(kstack)

\* What free_process gives back.  It finds the pages of the user stack and of
\* the code through the page tables, and a shared page never.
PageTables_Kept(s) == {}
PageTables(s) == Range(s.tables)

FreeSpace(s) ==
  s.free \cup {s.entries[v] : v \in StackPages \cup CodePages} \cup s.kstack
         \cup PageTables(s) \cup {s.pdir}
=============================================================================

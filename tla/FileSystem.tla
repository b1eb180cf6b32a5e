----------------------------- MODULE FileSystem -----------------------------
(***************************************************************************)
(* The memory file system of src/kernel/file.c: a hash table from names to *)
(* File structures, which the programs hold pointers to.  A File has one   *)
(* position, shared by all who have opened it, and stays allocated after   *)
(* its name is gone.                                                       *)
(*                                                                         *)
(* A system call is one step.  Calls that fail and change nothing are left *)
(* out, as is the listing.                                                 *)
(***************************************************************************)
EXTENDS HashTable

CONSTANTS
  Byte,
  MaxLen,     \* bound: the length of a file
  MaxFiles,   \* bound: the File structures within reach at a time
  MaxOpen     \* bound: those of them that programs hold pointers to

ASSUME FileAssumption == {MaxLen, MaxFiles, MaxOpen} \subseteq Nat

Name == Key
File == 1..MaxFiles

VARIABLES
  files,     \* the table
  heap,      \* the File structures within reach: a function from pointers
  opened     \* the pointers that programs hold

vars == <<files, heap, opened>>

Init ==
  /\ files = Fresh(MinSize)
  /\ heap = <<>>
  /\ opened = {}

\* The structures with one more.
With(structures, f, file) ==
  [g \in DOMAIN structures \cup {f} |-> IF g = f THEN file ELSE structures[g]]

NewFile(n) == [name |-> n, pos |-> 0, size |-> 0, bufSize |-> 0, data |-> <<>>]

\* The pointers in the table.
Named(t) == {t.slots[i][2] : i \in {j \in DOMAIN t.slots : Active(t.slots[j])}}

\* What becomes of the structures.  One that no name and no program leads to
\* any more is leaked, and forgotten here.
Reach(structures) == heap' = Restrict(structures, Named(files') \cup opened')

\* mem_alloc of a File.
Alloc(f) == f \in File \ DOMAIN heap /\ \A g \in File \ DOMAIN heap : f <= g

\* Which of the n calls of hash_set and hash_del that a system call makes
\* finds no memory to resize the table, if it wants to; 0 stands for none.
\* What these calls return is not looked at.
Failing(n) == IF files.failed < MaxFails THEN 0..n ELSE {0}

-----------------------------------------------------------------------------
\* A program gets a pointer.
Opened(f) ==
  /\ opened' = opened \cup {f}
  /\ Cardinality(opened') <= MaxOpen

\* atomicOpen of a file that exists goes back to its beginning.
Rewound_Not(file) == file
Rewound(file) == [file EXCEPT !.pos = 0]

AtomicOpen(n) ==
  /\ IsSet(files, n)
  /\ Opened(Get(files, n))
  /\ heap' = [heap EXCEPT ![Get(files, n)] = Rewound(@)]
  /\ UNCHANGED files

AtomicCreate(n, bad) == \E f \in File :
  /\ Alloc(f)
  /\ ~ IsSet(files, n)
  /\ files' = Set(files, n, f, bad # 1)
  /\ heap' = With(heap, f, NewFile(n))
  /\ Opened(f)

AtomicRead(f, n) ==
  /\ f \in opened
  /\ heap[f].data # <<>>
  /\ LET file == heap[f]
         left == file.size - file.pos
         len  == IF n > left THEN left ELSE n
     IN heap' = [heap EXCEPT ![f].pos = @ + len]
  /\ UNCHANGED <<files, opened>>

\* A buffer without room for n bytes at the position is replaced.
Grown_Short(file, n) == [file EXCEPT !.bufSize = n, !.size = n]
Grown(file, n) ==
  IF file.bufSize - file.pos < n
  THEN [file EXCEPT !.bufSize = file.pos + n, !.size = file.pos + n]
  ELSE file

Written(file, d) ==
  LET new == Grown(file, Len(d))
      end == file.pos + Len(d)
  IN [new EXCEPT
        !.pos  = end,
        !.data = [i \in 1..new.bufSize |->
                    IF i \in (file.pos + 1)..end THEN d[i - file.pos] ELSE file.data[i]]]

AtomicWrite(f, d) ==
  /\ f \in opened
  /\ heap[f].pos + Len(d) <= MaxLen
  /\ heap' = [heap EXCEPT ![f] = Written(@, d)]
  /\ UNCHANGED <<files, opened>>

\* atomicClose does nothing; the program drops its pointer.
AtomicClose(f) ==
  /\ f \in opened
  /\ opened' = opened \ {f}
  /\ UNCHANGED files
  /\ Reach(heap)

AtomicDelete(n, bad) ==
  /\ IsSet(files, n)
  /\ files' = Del(files, n, bad # 1)
  /\ UNCHANGED opened
  /\ Reach(heap)

-----------------------------------------------------------------------------
(* atomicCopy and atomicRename.  The File of the source is looked up before *)
(* the destination is deleted, and both may be the same.                    *)

\* Where atomicOpen returns NULL (no memory for the structure, or an empty
\* path2), the caller ends in a page fault behind the delete: what it changes is
\* a step of AtomicDelete, if path2 was there.  That the bytes of the copy find
\* no memory is left out.

\* The table once n leads to f, whatever it led to before.
Renewed(n, f, bad) == Set(Del(files, n, bad # 1), n, f, bad # 2)

Duplicate(n1, n2) ==
  LET old == heap[Get(files, n1)]
  IN [old EXCEPT !.name = n2, !.data = SubSeq(@, 1, old.size)]

AtomicCopy(n1, n2, bad) == \E f \in File :
  /\ Alloc(f)
  /\ IsSet(files, n1)
  /\ files' = Renewed(n2, f, bad)
  /\ UNCHANGED opened
  /\ Reach(With(heap, f, Duplicate(n1, n2)))

AtomicRename(n1, n2, bad) == \E f \in File :
  /\ Alloc(f)
  /\ IsSet(files, n1)
  /\ files' = Del(Renewed(n2, f, bad), n1, bad # 3)
  /\ UNCHANGED opened
  /\ Reach(With(heap, f, Duplicate(n1, n2)))

Next ==
  \/ \E n \in Name : AtomicOpen(n)
  \/ \E n \in Name, bad \in Failing(1) : AtomicCreate(n, bad)
  \/ \E f \in File : \/ AtomicClose(f)
                     \/ \E n \in 1..MaxLen : AtomicRead(f, n)
                     \/ \E b \in Byte : AtomicWrite(f, <<b>>)
  \/ \E n \in Name, bad \in Failing(1) : AtomicDelete(n, bad)
  \/ \E n1, n2 \in Name, bad \in Failing(2) : AtomicCopy(n1, n2, bad)
  \/ \E n1, n2 \in Name, bad \in Failing(3) : AtomicRename(n1, n2, bad)

Spec == Init /\ [][Next]_vars
=============================================================================

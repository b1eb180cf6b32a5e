---------------------------- MODULE FileContract ----------------------------
(***************************************************************************)
(* What the calls of src/kernel/file.c promise to programs: names lead to  *)
(* files, a file is a sequence of bytes and one offset, and a file that is *)
(* open stays what it is when its name goes.  No tables, no buffers.       *)
(***************************************************************************)
EXTENDS Integers, Sequences, Functions

CONSTANTS Name, File, Byte, MaxLen

VARIABLES
  dir,       \* the file of each name that has one
  store,     \* the content and the offset of the files that exist
  opened     \* the files that programs have open

cvars == <<dir, store, opened>>

CInit ==
  /\ dir = <<>>
  /\ store = <<>>
  /\ opened = {}

\* The function f with value y for x.
With(f, x, y) == [z \in DOMAIN f \cup {x} |-> IF z = x THEN y ELSE f[z]]

\* A file without a name exists as long as it is open.
Exist(s) == store' = Restrict(s, Range(dir') \cup opened')

Open(n) ==
  /\ UNCHANGED dir
  /\ n \in DOMAIN dir
  /\ opened' = opened \cup {dir[n]}
  /\ store' = [store EXCEPT ![dir[n]].offset = 0]

Create(n) == \E f \in File \ DOMAIN store :
  /\ opened' = opened \cup {f}
  /\ n \notin DOMAIN dir
  /\ dir' = With(dir, n, f)
  /\ store' = With(store, f, [content |-> <<>>, offset |-> 0])

Read(f, n) ==
  LET c    == store[f].content
      o    == store[f].offset
      last == IF o + n > Len(c) THEN Len(c) ELSE o + n
  IN /\ f \in opened
     /\ UNCHANGED <<opened, dir>>
     /\ store' = [store EXCEPT ![f].offset = last]

\* The bytes from the offset on are replaced; the file grows at its end.
Write(f, d) ==
  LET c == store[f].content
      o == store[f].offset
  IN /\ f \in opened
     /\ UNCHANGED <<opened, dir>>
     /\ store' = [store EXCEPT ![f] =
          [content |-> SubSeq(c, 1, o) \o d \o SubSeq(c, o + Len(d) + 1, Len(c)),
           offset  |-> o + Len(d)]]

Close(f) ==
  /\ f \in opened
  /\ opened' = opened \ {f}
  /\ UNCHANGED dir
  /\ Exist(store)

Delete(n) ==
  /\ UNCHANGED opened
  /\ dir' = Restrict(dir, DOMAIN dir \ {n})
  /\ Exist(store)

\* The destination becomes a new file, even if there was one and it is open.
Copy(n1, n2) == \E f \in File \ DOMAIN store :
  /\ UNCHANGED opened
  /\ n1 \in DOMAIN dir
  /\ dir' = With(dir, n2, f)
  /\ Exist(With(store, f, store[dir[n1]]))

\* The old name goes: all of the file, if both names are the same.
Rename(n1, n2) == \E f \in File \ DOMAIN store :
  /\ UNCHANGED opened
  /\ n1 \in DOMAIN dir
  /\ dir' = Restrict(With(dir, n2, f), (DOMAIN dir \cup {n2}) \ {n1})
  /\ Exist(With(store, f, store[dir[n1]]))

CNext ==
  \/ \E n \in Name : Open(n) \/ Create(n) \/ Delete(n)
  \/ \E f \in File : \/ Close(f)
                     \/ \E n \in 1..MaxLen : Read(f, n)
                     \/ \E b \in Byte : Write(f, <<b>>)
  \/ \E n1, n2 \in Name : Copy(n1, n2) \/ Rename(n1, n2)

CSpec == CInit /\ [][CNext]_cvars
=============================================================================

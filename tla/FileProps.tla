----------------------------- MODULE FileProps -----------------------------
(***************************************************************************)
(* The properties of module FileSystem, and of the hash table under it.    *)
(***************************************************************************)
EXTENDS FileSystem

\* Hash codes for three names: two that collide in every table, and one that
\* they meet on their way.
MCHash == [k \in Key |-> CASE k = "a" -> 0 [] k = "b" -> 32 [] k = "c" -> 1]

SlotsOf(k) == {i \in DOMAIN files.slots : Holds(files, i, k)}

\* Through every sequence of insertions and deletions, with growth, shrinking
\* and a table that could not be resized: the counters describe the slots, a
\* name is in one slot at most and hash_lookup finds it there, and the search
\* for a name that is absent ends, that is, meets an empty slot.
TableSound ==
  /\ files.fill = Cardinality({i \in DOMAIN files.slots : files.slots[i] # Empty})
  /\ files.count = Cardinality({i \in DOMAIN files.slots : Active(files.slots[i])})
  /\ \A k \in Key : /\ Ends(files, k)
                    /\ SlotsOf(k) \subseteq {Lookup(files, k)}

\* The position of a file is never behind its end, where atomicRead would
\* take the difference of the two for a large number and atomicWrite the
\* room that is left; the size is that of the buffer, so that a write that
\* needs no new buffer cannot go past the size.  A name leads to a file that
\* bears that name, whatever was copied and renamed.
FileBounds ==
  /\ \A f \in DOMAIN heap :
       LET file == heap[f] IN
         file.pos <= file.size /\ file.size = file.bufSize /\ file.bufSize = Len(file.data)
  /\ \A n \in Name : IsSet(files, n) => heap[Get(files, n)].name = n

\* What the table says, found by walking it.
Directory ==
  LET active == {files.slots[i] : i \in {j \in DOMAIN files.slots : Active(files.slots[j])}}
  IN [n \in {s[1] : s \in active} |-> (CHOOSE s \in active : s[1] = n)[2]]

\* Programs see the files of module FileContract: the table behaves as a
\* function from names to files, a copy and its source are written apart, a
\* file deleted or replaced while it is open goes on without touching what
\* its name leads to now, and a rename has both effects in one step.
Contract == INSTANCE FileContract WITH
  dir   <- Directory,
  store <- [f \in DOMAIN heap |-> [content |-> heap[f].data, offset |-> heap[f].pos]]
FilePromise == Contract!CSpec
=============================================================================

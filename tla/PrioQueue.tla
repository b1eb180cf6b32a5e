----------------------------- MODULE PrioQueue -----------------------------
(***************************************************************************)
(* The priority queues of src/shared/queue.h, as pure operators.           *)
(*                                                                         *)
(* The code chains the elements in a circular doubly linked list; here a   *)
(* queue is the sequence of its elements read from head->next (position 1) *)
(* to head->prev (position Len).  The priority field the macros receive as *)
(* an argument (prio, wake or pid) is a function `key' from elements to    *)
(* integers.  The pointer level is abstracted.                             *)
(*                                                                         *)
(* AddPlace_Lifo is a faulty variant of AddPlace, which breaks the         *)
(* fairness among equals that the properties of the scheduler state.       *)
(***************************************************************************)
EXTENDS Integers, SequencesExt

\* The elements chained in the queue.
Elems(q) == {q[i] : i \in 1..Len(q)}

\* An element has one link per list field: it is chained once.
NoDup(q) == \A i, j \in 1..Len(q) : q[i] = q[j] => i = j

\* queue_empty
QueueEmpty(q) == q = <<>>

\* The place where queue_add stops: the first element whose key is not lower
\* than k, or past the end.  The queue need not be sorted.
AddPlace_Lifo(q, k, key) ==
  CHOOSE i \in 1..(Len(q) + 1) :
    /\ \A j \in 1..(i - 1) : key[q[j]] <= k
    /\ i <= Len(q) => key[q[i]] > k
AddPlace(q, k, key) ==
  CHOOSE i \in 1..(Len(q) + 1) :
    /\ \A j \in 1..(i - 1) : key[q[j]] < k
    /\ i <= Len(q) => key[q[i]] >= k

\* queue_add: e goes before the first element whose key is not lower than
\* its own, hence behind its equals for queue_out, which takes the tail.
QueueAdd(q, e, key) == InsertAt(q, AddPlace(q, key[e], key), e)

\* queue_top and queue_bottom: the tail and the first element.
QueueTop(q)    == q[Len(q)]
QueueBottom(q) == q[1]

\* What queue_out leaves; the element it returns is QueueTop(q).
QueueOut(q) == RemoveAt(q, Len(q))

\* queue_del of an element that is chained in q.
Place(q, e)    == CHOOSE i \in 1..Len(q) : q[i] = e
QueueDel(q, e) == RemoveAt(q, Place(q, e))

\* What queue_add keeps in a queue whose elements' keys do not change while
\* they are chained.
Sorted(q, key) == \A i, j \in 1..Len(q) : i <= j => key[q[i]] <= key[q[j]]
=============================================================================

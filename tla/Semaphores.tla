----------------------------- MODULE Semaphores -----------------------------
(***************************************************************************)
(* The counting semaphores of src/kernel/semaphores.c, with the parts of   *)
(* kill and chprio (src/kernel/process.c) that deal with processes blocked *)
(* on a semaphore.                                                         *)
(*                                                                         *)
(* A semaphore lives in a cell of tab_sema; tab_id holds the identifier of *)
(* the semaphore of each cell, 0 if there is none.  Identifier id may be   *)
(* in cell id % NbMaxSema or NbMaxSema cells further.                      *)
(*                                                                         *)
(* The definitions whose name holds an underscore are faulty variants of   *)
(* the one that follows them: each breaks a property of SemaphoreProps.    *)
(***************************************************************************)
EXTENDS Scheduler

CONSTANTS
  NbMaxSema,   \* NB_MAX_SEMA
  MaxShort,    \* the counter ranges over -MaxShort-1 .. MaxShort (32767)
  LastId,      \* bound: the identifiers given by screate stop at LastId
  Ids,         \* the identifiers that the calls are made with
  Resets       \* the pairs of an identifier and a count that sreset is called with

ASSUME SemaphoreAssumption ==
  /\ NbMaxSema \in Nat \ {0}
  /\ MaxShort \in Nat \ {0}
  /\ LastId \in Nat
  /\ Ids \subseteq Nat
  /\ Resets \subseteq Ids \X Nat

Short == (-MaxShort - 1)..MaxShort
Cell  == 0..(2 * NbMaxSema - 1)

VARIABLES
  tabId,        \* tab_id
  cpt, file,    \* the counter and the waiting list of each cell of tab_sema
  nbSema,       \* nb_sema
  prochainId,   \* prochain_id
  sema,         \* the cell each process waits or last waited for
  codeReveil    \* code_reveil of each process

semas == <<tabId, cpt, file, nbSema, prochainId, sema, codeReveil>>
vars  == <<sched, semas>>

\* Conversion to int16_t.
ToShort(n) == ((n + MaxShort + 1) % (2 * (MaxShort + 1))) - MaxShort - 1

Init ==
  /\ SchedInit
  /\ tabId = [i \in Cell |-> 0]
  /\ cpt = [i \in Cell |-> 0]
  /\ file = [i \in Cell |-> <<>>]
  /\ nbSema = 0
  /\ prochainId = 1
  /\ sema = [p \in Proc |-> 0]
  /\ codeReveil = [p \in Proc |-> 0]

\* nvelle_place: the second cell is taken whatever it holds.
NvellePlace(id) ==
  LET first == id % NbMaxSema
  IN IF tabId[first] = 0 THEN first ELSE first + NbMaxSema

\* get_semaphore succeeds, and get_pos_semaphore.
Cells(id)  == {id % NbMaxSema, (id % NbMaxSema) + NbMaxSema}
Found(id)  == \E i \in Cells(id) : tabId[i] = id
Pos(id)    == CHOOSE i \in Cells(id) :
                /\ tabId[i] = id
                /\ \A j \in Cells(id) : tabId[j] = id => i <= j

-----------------------------------------------------------------------------
\* nb_sema is unsigned: below 0 it is beyond every bound.
Creatable_Always == TRUE
Creatable == nbSema \in 0..(NbMaxSema - 1)

Screate(count) ==
  /\ User
  /\ Creatable
  /\ prochainId <= LastId
  /\ LET i == NvellePlace(prochainId) IN
       /\ tabId' = [tabId EXCEPT ![i] = prochainId]
       /\ cpt' = [cpt EXCEPT ![i] = count]
       /\ file' = [file EXCEPT ![i] = <<>>]
  /\ nbSema' = nbSema + 1
  /\ prochainId' = prochainId + 1
  /\ UNCHANGED <<sched, sema, codeReveil>>

\* debloquer_sema: every waiter of cell i is woken with the given code.
\* Debloquer_LeavesOne wakes only the first.
Debloquer_LeavesOne(i, code, resched) ==
  LET n  == Len(file[i])
      ps == IF n = 0 THEN <<>> ELSE <<file[i][n]>>
  IN /\ Wake(ps, resched)
     /\ file' = [file EXCEPT ![i] = SubSeq(@, 1, n - 1)]
     /\ codeReveil' = [p \in Proc |-> IF p \in Elems(ps) THEN code ELSE codeReveil[p]]
Debloquer(i, code, resched) ==
  /\ Wake(file[i], resched)
  /\ file' = [file EXCEPT ![i] = <<>>]
  /\ codeReveil' = [p \in Proc |-> IF p \in Elems(file[i]) THEN code ELSE codeReveil[p]]

Sdelete(id) ==
  /\ User /\ Found(id)
  /\ tabId' = [tabId EXCEPT ![Pos(id)] = 0]
  /\ Debloquer(Pos(id), 3, TRUE)
  /\ nbSema' = nbSema - 1
  /\ UNCHANGED <<cpt, prochainId, sema>>

\* The count is an int: only its sign is tested, and the counter keeps 16 bits
\* of it.  A count above MaxShort can leave a negative counter and no waiter.
Sreset(id, count) ==
  /\ User /\ Found(id)
  /\ Debloquer(Pos(id), 4, TRUE)
  /\ cpt' = [cpt EXCEPT ![Pos(id)] = ToShort(count)]
  /\ UNCHANGED <<tabId, nbSema, prochainId, sema>>

\* test_wait: the counter can be lowered.
TestWait(id) == Found(id) /\ ToShort(cpt[Pos(id)] - 1) < cpt[Pos(id)]

TryWait(id) ==
  /\ User /\ TestWait(id)
  /\ cpt[Pos(id)] > 0
  /\ cpt' = [cpt EXCEPT ![Pos(id)] = @ - 1]
  /\ UNCHANGED <<sched, tabId, file, nbSema, prochainId, sema, codeReveil>>

\* wait, when it returns at once and when it blocks.
MustBlock(c) == c < 0

Wait(id) ==
  /\ User /\ TestWait(id)
  /\ ~ MustBlock(cpt[Pos(id)] - 1)
  /\ cpt' = [cpt EXCEPT ![Pos(id)] = @ - 1]
  /\ UNCHANGED <<sched, tabId, file, nbSema, prochainId, sema, codeReveil>>

WaitBlock(id) ==
  /\ User /\ TestWait(id)
  /\ MustBlock(cpt[Pos(id)] - 1)
  /\ cpt' = [cpt EXCEPT ![Pos(id)] = @ - 1]
  /\ file' = [file EXCEPT ![Pos(id)] = QueueAdd(@, cur, prio)]
  /\ sema' = [sema EXCEPT ![cur] = Pos(id)]
  /\ Block("BLOCKEDSEMA")
  /\ UNCHANGED <<tabId, nbSema, prochainId, codeReveil>>

\* The end of wait once the process is elected again: it returns -codeReveil.
WaitReturn ==
  /\ Returned
  /\ UNCHANGED semas

\* The counter can be raised by count.
Raisable(c, count) == ToShort(c + count) >= c

\* How many waiters a signal of count units wakes: one for each unit that
\* leaves the counter at 0 or below, while there are any.
Served_OffByOne(i, count) == Cardinality({k \in 1..count : cpt[i] + k < 0 /\ k <= Len(file[i])})
Served(i, count) == Cardinality({k \in 1..count : cpt[i] + k <= 0 /\ k <= Len(file[i])})

\* signaln, and signal with a count of 1.  queue_out takes the last waiters.
\* ordonnance is called if the counter stays at 0 or below.
Signaln(id, count) ==
  /\ User /\ Found(id)
  /\ Raisable(cpt[Pos(id)], count)
  /\ LET i == Pos(id)
         up == IF count > 0 THEN count ELSE 0
         left == Len(file[i]) - Served(i, count)
         woken == SubSeq(file[i], left + 1, Len(file[i]))
     IN /\ cpt' = [cpt EXCEPT ![i] = ToShort(@ + up)]
        /\ file' = [file EXCEPT ![i] = SubSeq(@, 1, left)]
        /\ codeReveil' = [p \in Proc |-> IF p \in Elems(woken) THEN 0 ELSE codeReveil[p]]
        /\ Wake(woken, cpt'[i] <= 0)
  /\ UNCHANGED <<tabId, nbSema, prochainId, sema>>

-----------------------------------------------------------------------------
\* The other system calls.  kill of a blocked process gives its unit back.
GiveBack_Not(p) == cpt
GiveBack(p) ==
  IF state[p] = "BLOCKEDSEMA" THEN [cpt EXCEPT ![sema[p]] = ToShort(@ + 1)] ELSE cpt

Leave(p) ==
  IF state[p] = "BLOCKEDSEMA" THEN [file EXCEPT ![sema[p]] = QueueDel(@, p)] ELSE file

Kill(p) ==
  /\ Ended(p)
  /\ cpt' = GiveBack(p)
  /\ file' = Leave(p)
  /\ UNCHANGED <<tabId, nbSema, prochainId, sema, codeReveil>>

\* The structure of the new process is filled with zeros.
Start(p, n) ==
  /\ Started(p, n)
  /\ sema' = [sema EXCEPT ![p] = 0]
  /\ codeReveil' = [codeReveil EXCEPT ![p] = 0]
  /\ UNCHANGED <<tabId, cpt, file, nbSema, prochainId>>

Chprio(p, n) ==
  /\ Repriorised(p, n)
  /\ file' = IF state[p] = "BLOCKEDSEMA"
             THEN [file EXCEPT ![sema[p]] = Requeued(@, p)] ELSE file
  /\ UNCHANGED <<tabId, cpt, nbSema, prochainId, sema, codeReveil>>

Tick == Preempted /\ UNCHANGED semas

Ordonnance == Elected /\ UNCHANGED semas

Next ==
  \/ \E c \in 0..MaxShort : Screate(c)
  \/ \E id \in Ids :
       \/ Sdelete(id)
       \/ TryWait(id)
       \/ Wait(id)
       \/ WaitBlock(id)
       \/ \E c \in Short : Signaln(id, c)
  \/ \E r \in Resets : Sreset(r[1], r[2])
  \/ WaitReturn
  \/ \E p \in Proc : Kill(p)
  \/ \E p \in Proc, n \in Prio : Start(p, n)
  \/ \E p \in Proc, n \in Prio : Chprio(p, n)
  \/ Tick
  \/ Ordonnance

Spec == Init /\ [][Next]_vars
=============================================================================

--------------------------- MODULE SemaphoreProps ---------------------------
(***************************************************************************)
(* The properties of module Semaphores.                                    *)
(***************************************************************************)
EXTENDS Semaphores

\* The values of the variables of semaphores.c, as far as the others do not
\* say more: a counter fits in an int16_t and a list holds processes.
TypeOK ==
  /\ tabId \in [Cell -> 0..LastId]
  /\ cpt \in [Cell -> Short]
  /\ \A i \in Cell : Elems(file[i]) \subseteq Proc
  /\ nbSema \in 0..NbMaxSema
  /\ prochainId \in 1..(LastId + 1)
  /\ sema \in [Proc -> Cell]
  /\ codeReveil \in [Proc -> {0, 3, 4}]

\* Every count that sreset is called with for semaphore id fits in the counter.
ResetsFit(id) == \A r \in Resets : r[1] = id => r[2] <= MaxShort

\* The number of waiters that a counter tells of.
Negative(c) == IF c < 0 THEN -c ELSE 0

\* Through wait, signaln, kill, sreset and sdelete a semaphore never has more
\* waiters than its counter tells of, so that nobody waits while units are
\* left; and a negative counter is the number of the waiters of a semaphore
\* that no sreset gave a count too large for an int16_t.
CountInStep ==
  \A i \in Cell : tabId[i] # 0 =>
    /\ Len(file[i]) <= Negative(cpt[i])
    /\ ResetsFit(tabId[i]) => Len(file[i]) = Negative(cpt[i])

\* How often p is chained in w.
Occurs(p, w) == Cardinality({k \in 1..Len(w) : w[k] = p})

\* The blocked processes are those of the waiting lists, each in the list of
\* the cell it names, once: kill and chprio, which follow proc->sema, find it
\* there.  The semaphore exists: no process sleeps on a deleted one.
WaitersChained ==
  \A p \in Proc :
    /\ \A i \in Cell :
         Occurs(p, file[i]) = IF state[p] = "BLOCKEDSEMA" /\ sema[p] = i THEN 1 ELSE 0
    /\ state[p] = "BLOCKEDSEMA" => tabId[sema[p]] # 0

\* signaln wakes the waiters of highest priority, also when chprio changed
\* priorities during the wait.
Signalled(p) ==
  state[p] = "BLOCKEDSEMA" /\ state'[p] = "ACTIVABLE" /\ tabId' = tabId /\ codeReveil'[p] = 0
HighestFirst ==
  [][\A p, r \in Proc :
       Signalled(p) /\ state[r] = "BLOCKEDSEMA" /\ sema[r] = sema[p] /\ ~ Signalled(r)
         => prio[r] <= prio[p]]_vars

\* screate takes a free place: the semaphore, if any, that was in the place
\* it takes stays the same.
PlaceFree ==
  [][\A i \in Cell : tabId[i] # 0 => tabId'[i] \in {0, tabId[i]}]_vars

\* What units says of a semaphore that does not exist: no counter says it.
Gone == -MaxShort - 2

\* The semaphores keep the promises of module SemaphoreContract.  The units
\* are what the counter says with the waiters added back.  A process awaits
\* its answer in wait (stopped, blocked) and has it once it is woken.
Contract == INSTANCE SemaphoreContract WITH
  Client <- Proc,
  Sem    <- 1..LastId,
  Unit   <- 0..MaxShort,
  Levels <- {<<r[1], ToShort(r[2])>> : r \in Resets},
  None   <- Gone,
  units  <- [id \in 1..LastId |->
               IF Found(id) THEN cpt[Pos(id)] + Len(file[Pos(id)]) ELSE Gone],
  wants  <- [p \in Proc |-> IF state[p] = "BLOCKEDSEMA" THEN tabId[sema[p]] ELSE 0],
  answer <- [p \in Proc |-> IF p \in stopped /\ state[p] # "BLOCKEDSEMA"
                            THEN -codeReveil[p] ELSE 1]
SemaphorePromise == Contract!CSpec

\* The resets of the runs.  Those of the first semaphore fit in its counter;
\* those of the second may also wrap it to every value below 0.
MCResets == ({1} \X (0..MaxShort)) \cup ({2} \X (0..(2 * MaxShort + 1)))
=============================================================================

------------------------- MODULE SemaphoreContract -------------------------
(***************************************************************************)
(* What src/kernel/semaphores.c promises its callers, whatever the         *)
(* scheduler, the priorities and the tables: a semaphore is a number of    *)
(* units, which signals add and waits take; a wait that finds no unit is   *)
(* answered exactly once, with the reason of the wake-up.  A reset whose   *)
(* count does not fit may leave a debt: the first units that signals add   *)
(* beyond those that waiters take go to it.                                *)
(***************************************************************************)
EXTENDS Integers, FiniteSets

CONSTANTS
  Client, Sem,
  Unit,     \* the numbers of units a semaphore can be created with or hold
  Levels,   \* the pairs of a semaphore and the level that a reset gives it
  None      \* the level of a semaphore that does not exist

VARIABLES
  units,    \* the units of each semaphore, less than 0 for a debt
  wants,    \* the semaphore each client waits for, or 0
  answer    \* what the wait of a client will return, 1 if nothing yet

cvars == <<units, wants, answer>>

NoAnswer == 1
Waiters(i) == {p \in Client : wants[p] = i}

CInit ==
  /\ units = [i \in Sem |-> None]
  /\ wants = [p \in Client |-> 0]
  /\ answer = [p \in Client |-> NoAnswer]

\* The clients of P get the answer a.
Answered(P, a) ==
  /\ wants' = [p \in Client |-> IF p \in P THEN 0 ELSE wants[p]]
  /\ answer' = [p \in Client |-> IF p \in P THEN a ELSE answer[p]]

Open(i, n) ==
  /\ units[i] = None
  /\ units' = [units EXCEPT ![i] = n]
  /\ UNCHANGED <<wants, answer>>

Close(i) ==
  /\ units[i] # None
  /\ units' = [units EXCEPT ![i] = None]
  /\ Answered(Waiters(i), -3)

Reset(i, n) ==
  /\ units[i] # None
  /\ units' = [units EXCEPT ![i] = n]
  /\ Answered(Waiters(i), -4)

Take(i) ==
  /\ units[i] # None /\ units[i] > 0
  /\ units' = [units EXCEPT ![i] = @ - 1]
  /\ UNCHANGED <<wants, answer>>

Enqueue(p, i) ==
  /\ units[i] # None /\ units[i] <= 0
  /\ wants[p] = 0 /\ answer[p] = NoAnswer
  /\ wants' = [wants EXCEPT ![p] = i]
  /\ UNCHANGED <<units, answer>>

\* Each unit goes to one waiter, and to the semaphore when none is left.
Give(i, n) ==
  /\ units[i] # None
  /\ \E P \in SUBSET Waiters(i) :
       /\ \/ Cardinality(P) = n
          \/ Cardinality(P) < n /\ P = Waiters(i)
       /\ units' = [units EXCEPT ![i] = @ + n - Cardinality(P)]
       /\ units'[i] > 0 => units'[i] \in Unit
       /\ Answered(P, 0)

\* The client returns from its wait, or is ended while it waits.
Return(p) ==
  /\ answer[p] # NoAnswer
  /\ answer' = [answer EXCEPT ![p] = NoAnswer]
  /\ UNCHANGED <<units, wants>>

Abandon(p) ==
  /\ wants[p] # 0
  /\ wants' = [wants EXCEPT ![p] = 0]
  /\ UNCHANGED <<units, answer>>

CNext ==
  \/ \E i \in Sem, n \in Unit : Open(i, n) \/ Give(i, n)
  \/ \E l \in Levels : Reset(l[1], l[2])
  \/ \E i \in Sem : Close(i) \/ Take(i) \/ \E p \in Client : Enqueue(p, i)
  \/ \E p \in Client : Return(p) \/ Abandon(p)

CSpec == CInit /\ [][CNext]_cvars
=============================================================================

----------------------------- MODULE Scheduler -----------------------------
(***************************************************************************)
(* The scheduler of src/kernel/process.c as the blocking primitives see    *)
(* it.  The modules Semaphores, Messages and Console extend this one with  *)
(* the state of a primitive and with the calls that block and wake.        *)
(*                                                                         *)
(* Module Process models the process table in full; here a process is      *)
(* running, ready, blocked by the primitive or ended, and ordonnance is    *)
(* one step, since the sleeping and the dying processes it also looks at   *)
(* are no concern of the primitives.                                       *)
(***************************************************************************)
EXTENDS PrioQueue

CONSTANTS
  NbProcs,   \* the processes other than idle are 1..NbProcs
  MaxPrio    \* MAX_PRIO

ASSUME SchedulerAssumption ==
  /\ NbProcs \in Nat \ {0}
  /\ MaxPrio \in Nat \ {0}

Idle == 0
Proc == 1..NbProcs
Pid  == {Idle} \cup Proc
Prio == 1..MaxPrio

VARIABLES
  state,    \* "CHOSEN", "ACTIVABLE", "ENDED", or blocked by the primitive
  prio,
  act,      \* head_act
  cur,      \* the pid of cur_proc
  stopped,  \* the processes whose kernel stack is inside a blocking call
  pc        \* "user", "ordonnance", or "resumed" in a blocking call

sched == <<state, prio, act, cur, stopped, pc>>

\* Process 1 has started the others with its own priority.
SchedInit ==
  /\ state = [p \in Pid |-> IF p = 1 THEN "CHOSEN" ELSE "ACTIVABLE"]
  /\ prio = [p \in Pid |-> IF p = Idle THEN 0 ELSE 1]
  /\ act = [i \in 1..NbProcs |-> IF i = 1 THEN Idle ELSE NbProcs + 2 - i]
  /\ cur = 1
  /\ stopped = {}
  /\ pc = "user"

User == pc = "user" /\ cur # Idle   \* a process is about to make a call

\* Elements added to a queue one by one, the last of `ps' first: the order in
\* which queue_out takes them from another queue.
QueueAddAll(q, ps, key) ==
  LET r[i \in 0..Len(ps)] ==
        IF i = 0 THEN q ELSE QueueAdd(r[i - 1], ps[Len(ps) + 1 - i], key)
  IN r[Len(ps)]

\* The current process blocks, in a state of the primitive.
Block(st) ==
  /\ state' = [state EXCEPT ![cur] = st]
  /\ stopped' = stopped \cup {cur}
  /\ pc' = "ordonnance"
  /\ UNCHANGED <<prio, act, cur>>

\* The processes of the sequence ps, which were blocked, are made ready, and
\* then ordonnance is called or not.
Wake(ps, resched) ==
  /\ state' = [p \in Pid |-> IF p \in Elems(ps) THEN "ACTIVABLE" ELSE state[p]]
  /\ act' = QueueAddAll(act, ps, prio)
  /\ pc' = IF resched THEN "ordonnance" ELSE "user"
  /\ UNCHANGED <<prio, cur, stopped>>

\* start of a process that has ended, or has not been there before.
Started(p, n) ==
  /\ User
  /\ state[p] = "ENDED"
  /\ state' = [state EXCEPT ![p] = "ACTIVABLE"]
  /\ prio' = [prio EXCEPT ![p] = n]
  /\ act' = QueueAdd(act, p, prio')
  /\ pc' = IF n > prio[cur] THEN "ordonnance" ELSE "user"
  /\ UNCHANGED <<cur, stopped>>

\* exit, and kill of another process.
Ended(p) ==
  /\ User
  /\ state[p] # "ENDED"
  /\ state' = [state EXCEPT ![p] = "ENDED"]
  /\ act' = IF state[p] = "ACTIVABLE" THEN QueueDel(act, p) ELSE act
  /\ stopped' = stopped \ {p}
  /\ pc' = IF p = cur THEN "ordonnance" ELSE "user"
  /\ UNCHANGED <<prio, cur>>

\* chprio to another priority.
Repriorised(p, n) ==
  /\ User
  /\ state[p] # "ENDED"
  /\ n # prio[p]
  /\ prio' = [prio EXCEPT ![p] = n]
  /\ act' = IF state[p] = "ACTIVABLE" THEN QueueAdd(QueueDel(act, p), p, prio') ELSE act
  /\ pc' = IF p = cur THEN "ordonnance" ELSE "user"
  /\ UNCHANGED <<state, cur, stopped>>

\* A queue of waiters after the priority of one of them has been written.
Requeued_Not(q, p) == q
Requeued(q, p) == IF p \in Elems(q) THEN QueueAdd(QueueDel(q, p), p, prio') ELSE q

\* The clock interrupt.
Preempted ==
  /\ pc = "user"
  /\ pc' = "ordonnance"
  /\ UNCHANGED <<state, prio, act, cur, stopped>>

\* ordonnance
Elected ==
  /\ pc = "ordonnance"
  /\ LET ready == IF state[cur] = "CHOSEN" THEN QueueAdd(act, cur, prio) ELSE act
     IN /\ cur' = QueueTop(ready)
        /\ act' = QueueOut(ready)
        /\ state' = [p \in Pid |-> IF p = cur' THEN "CHOSEN"
                                   ELSE IF p = cur /\ state[p] = "CHOSEN" THEN "ACTIVABLE"
                                   ELSE state[p]]
  /\ pc' = IF cur' \in stopped THEN "resumed" ELSE "user"
  /\ UNCHANGED <<prio, stopped>>

\* The current process comes back from the blocking call.
Returned ==
  /\ pc = "resumed"
  /\ stopped' = stopped \ {cur}
  /\ pc' = "user"
  /\ UNCHANGED <<state, prio, act, cur>>
=============================================================================

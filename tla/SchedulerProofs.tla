-------------------------- MODULE SchedulerProofs --------------------------
(***************************************************************************)
(* What the steps of module Scheduler keep, for every number of processes  *)
(* and of priorities: the ready queue holds the ready processes, once, and *)
(* idle can always run.  The proofs about the primitives rest on it.       *)
(***************************************************************************)
EXTENDS Scheduler, PrioQueueProofs

-----------------------------------------------------------------------------
(* The processes of one queue are added to another. *)

\* r is the queue q after each of the first n additions of QueueAddAll.
Adds(r, n, q, ps, key) ==
  r = [i \in 0..n |->
         IF i = 0 THEN q ELSE QueueAdd(r[i - 1], ps[Len(ps) + 1 - i], key)]

\* The recursive function that defines QueueAddAll exists.
LEMMA AddsExist ==
  ASSUME NEW S, NEW q, NEW ps \in Seq(S), NEW key
  PROVE  /\ \E r : Adds(r, Len(ps), q, ps, key)
         /\ \E r : Adds(r, Len(ps), q, ps, key) /\ QueueAddAll(q, ps, key) = r[Len(ps)]
<1> DEFINE L == Len(ps)
           T == {n \in 0..L : ~ \E r : Adds(r, n, q, ps, key)}
<1>1. L \in Nat
  BY LenProperties
<1>2. T = {}
  <2> SUFFICES ASSUME T # {} PROVE FALSE
    OBVIOUS
  <2>1. PICK m \in T : \A x \in T : m <= x
    <3>1. T \subseteq Nat
      BY <1>1
    <3> HIDE DEF T
    <3> QED BY <3>1, LeastNat
  <2>2. m # 0
    <3>1. Adds([i \in 0..0 |-> q], 0, q, ps, key)
      BY DEF Adds
    <3> QED BY <3>1, <2>1
  <2>3. m \in Nat /\ m <= L /\ m - 1 \in 0..L /\ m - 1 \notin T
    BY <1>1, <2>1, <2>2
  <2>4. PICK g : Adds(g, m - 1, q, ps, key)
    BY <2>3
  <2> DEFINE h == [i \in 0..m |-> IF i = m THEN QueueAdd(g[m - 1], ps[L + 1 - m], key)
                                  ELSE g[i]]
  <2>5. ASSUME NEW i \in 0..m
        PROVE  h[i] = IF i = 0 THEN q ELSE QueueAdd(h[i - 1], ps[L + 1 - i], key)
    <3>1. CASE i = m
      <4>1. h[i] = QueueAdd(g[m - 1], ps[L + 1 - m], key) /\ h[m - 1] = g[m - 1]
        BY <3>1, <2>2, <2>3
      <4> HIDE DEF h
      <4> QED BY <3>1, <4>1, <2>2
    <3>2. CASE i # m
      <4>1. i \in 0..(m - 1)
        BY <3>2, <2>3
      <4>2. h[i] = g[i] /\ (i # 0 => h[i - 1] = g[i - 1])
        BY <3>2, <4>1, <2>3
      <4>3. g[i] = IF i = 0 THEN q ELSE QueueAdd(g[i - 1], ps[L + 1 - i], key)
        BY <2>4, <4>1 DEF Adds
      <4> HIDE DEF h
      <4> QED BY <4>2, <4>3
    <3> QED BY <3>1, <3>2
  <2>6. Adds(h, m, q, ps, key)
    <3>1. h = [i \in 0..m |-> h[i]]
      OBVIOUS
    <3> HIDE DEF h
    <3> QED BY <3>1, <2>5 DEF Adds
  <2> HIDE DEF h
  <2> QED BY <2>1, <2>6
<1>3. \E r : Adds(r, L, q, ps, key)
  BY <1>1, <1>2
<1>4. \E r : Adds(r, L, q, ps, key) /\ QueueAddAll(q, ps, key) = r[L]
  <2> DEFINE R == CHOOSE r : Adds(r, L, q, ps, key)
  <2>1. Adds(R, L, q, ps, key)
    BY <1>3
  <2>2. QueueAddAll(q, ps, key) = R[L]
    BY DEF QueueAddAll, Adds
  <2> QED BY <2>1, <2>2
<1> QED BY <1>3, <1>4

\* Adding processes that are not there chains each once.
LEMMA AddAllElems ==
  ASSUME NEW S, NEW q \in Seq(S), NEW ps \in Seq(S), NEW key \in [S -> Int],
         NoDup(q), NoDup(ps), Elems(q) \cap Elems(ps) = {}
  PROVE  /\ QueueAddAll(q, ps, key) \in Seq(S)
         /\ NoDup(QueueAddAll(q, ps, key))
         /\ Elems(QueueAddAll(q, ps, key)) = Elems(q) \cup Elems(ps)
<1> DEFINE L == Len(ps)
           X(n) == {ps[L + 1 - i] : i \in 1..n}
<1>1. L \in Nat
  BY LenProperties
<1>2. PICK r : Adds(r, L, q, ps, key) /\ QueueAddAll(q, ps, key) = r[L]
  BY AddsExist
<1>3. /\ r[0] = q
      /\ \A i \in 1..L : r[i] = QueueAdd(r[i - 1], ps[L + 1 - i], key)
  <2>1. \A i \in 0..L : r[i] = IF i = 0 THEN q ELSE QueueAdd(r[i - 1], ps[L + 1 - i], key)
    BY <1>2 DEF Adds
  <2> HIDE DEF L
  <2> QED BY <2>1, <1>1
<1> DEFINE Good(n) == r[n] \in Seq(S) /\ NoDup(r[n]) /\ Elems(r[n]) = Elems(q) \cup X(n)
           T == {n \in 0..L : ~ Good(n)}
<1>4. T = {}
  <2> SUFFICES ASSUME T # {} PROVE FALSE
    OBVIOUS
  <2>1. PICK m \in T : \A x \in T : m <= x
    <3>1. T \subseteq Nat
      BY <1>1
    <3> HIDE DEF T
    <3> QED BY <3>1, LeastNat
  <2>2. m \in 0..L /\ ~ Good(m)
    BY <2>1
  <2>3. m # 0
    <3>1. X(0) = {}
      OBVIOUS
    <3>2. Good(0)
      BY <1>3, <3>1
    <3> QED BY <2>2, <3>2
  <2>4. m - 1 \in 0..L /\ m \in 1..L /\ Good(m - 1)
    <3>1. m - 1 \in 0..L /\ m \in 1..L /\ m - 1 < m
      BY <1>1, <2>2, <2>3
    <3>2. m - 1 \notin T
      <4> HIDE DEF T
      <4> SUFFICES ASSUME m - 1 \in T PROVE FALSE
        OBVIOUS
      <4>1. m <= m - 1
        BY <2>1
      <4> QED BY <3>1, <4>1
    <3> QED BY <3>1, <3>2
  <2> DEFINE e == ps[L + 1 - m]
  <2>5. e \in S /\ e \in Elems(ps)
    <3>1. L + 1 - m \in 1..Len(ps)
      BY <1>1, <2>4
    <3> QED BY <3>1, ElementOfSeq DEF Elems
  <2>6. e \notin X(m - 1)
    <3> SUFFICES ASSUME NEW i \in 1..(m - 1), ps[L + 1 - i] = ps[L + 1 - m] PROVE FALSE
      OBVIOUS
    <3>1. L + 1 - i \in 1..Len(ps) /\ L + 1 - m \in 1..Len(ps) /\ L + 1 - i # L + 1 - m
      BY <1>1, <2>4
    <3> QED BY <3>1 DEF NoDup
  <2>7. X(m) = X(m - 1) \cup {e}
    <3>1. 1..m = 1..(m - 1) \cup {m}
      BY <2>4
    <3> QED BY <3>1
  <2>8. r[m] = QueueAdd(r[m - 1], e, key) /\ e \notin Elems(r[m - 1])
    BY <1>3, <2>4, <2>5, <2>6
  <2> HIDE DEF e, X
  <2>9. Good(m)
    <3>1. r[m - 1] \in Seq(S) /\ NoDup(r[m - 1]) /\ Elems(r[m - 1]) = Elems(q) \cup X(m - 1)
      BY <2>4
    <3>2. /\ QueueAdd(r[m - 1], e, key) \in Seq(S)
          /\ NoDup(QueueAdd(r[m - 1], e, key))
          /\ Elems(QueueAdd(r[m - 1], e, key)) = Elems(r[m - 1]) \cup {e}
      BY <2>5, <2>8, <3>1, QueueAddElems
    <3> QED BY <2>7, <2>8, <3>1, <3>2
  <2> QED BY <2>2, <2>9
<1>5. Good(L)
  <2>1. L \in 0..L
    BY <1>1
  <2> QED BY <1>4, <2>1
<1>6. X(L) = Elems(ps)
  <2>1. \A i \in 1..L : L + 1 - i \in 1..L /\ L + 1 - (L + 1 - i) = i
    BY <1>1
  <2> QED BY <2>1 DEF Elems
<1> QED BY <1>2, <1>5, <1>6

-----------------------------------------------------------------------------
(* What the scheduler keeps, whatever the primitive does. *)

SchedInv ==
  /\ DOMAIN state = Pid
  /\ prio \in [Pid -> Int]
  /\ act \in Seq(Pid) /\ NoDup(act)
  /\ Elems(act) = {p \in Pid : state[p] = "ACTIVABLE"}
  /\ cur \in Pid
  /\ \A p \in Pid : state[p] = "CHOSEN" => p = cur
  /\ pc # "ordonnance" => state[cur] = "CHOSEN"
  /\ state[Idle] \in {"CHOSEN", "ACTIVABLE"}

\* Idle is none of the processes that primitives know.
LEMMA PidFacts ==
  /\ Idle \in Pid /\ Proc \subseteq Pid /\ Idle \notin Proc
  /\ \A p \in Pid : p # Idle => p \in Proc
BY SchedulerAssumption DEF Pid, Proc, Idle

\* Process 1 runs, and the others are chained, idle first.
LEMMA InitSched == SchedInit => SchedInv
<1> SUFFICES ASSUME SchedInit PROVE SchedInv
  OBVIOUS
<1> DEFINE e(i) == IF i = 1 THEN Idle ELSE NbProcs + 2 - i
<1>1. /\ state = [p \in Pid |-> IF p = 1 THEN "CHOSEN" ELSE "ACTIVABLE"]
      /\ prio = [p \in Pid |-> IF p = Idle THEN 0 ELSE 1]
      /\ act = [i \in 1..NbProcs |-> e(i)]
      /\ cur = 1 /\ pc = "user"
  BY DEF SchedInit
<1>2. NbProcs \in Nat \ {0}
  BY SchedulerAssumption
<1>3. \A i \in 1..NbProcs : e(i) \in Pid /\ e(i) # 1
  BY <1>2 DEF Pid, Proc, Idle
<1>4. act \in Seq(Pid) /\ Len(act) = NbProcs /\ \A i \in 1..NbProcs : act[i] = e(i)
  BY <1>1, <1>2, <1>3
<1>5. NoDup(act)
  BY <1>2, <1>4 DEF NoDup, Idle
<1>6. Elems(act) = {p \in Pid : p # 1}
  <2>1. ASSUME NEW p \in Pid, p # 1
        PROVE  p \in Elems(act)
    <3>1. CASE p = Idle
      BY <3>1, <1>2, <1>4 DEF Elems
    <3>2. CASE p # Idle
      <4>1. NbProcs + 2 - p \in 1..NbProcs /\ e(NbProcs + 2 - p) = p
        BY <3>2, <2>1, <1>2 DEF Pid, Proc, Idle
      <4> QED BY <4>1, <1>4 DEF Elems
    <3> QED BY <3>1, <3>2
  <2> QED BY <2>1, <1>3, <1>4 DEF Elems
<1> QED BY <1>1, <1>2, <1>4, <1>5, <1>6 DEF SchedInv, Pid, Proc, Idle

\* The running process blocks.
LEMMA BlockSched ==
  ASSUME SchedInv, pc # "ordonnance", cur # Idle,
         NEW st, st \notin {"CHOSEN", "ACTIVABLE"}, Block(st)
  PROVE  SchedInv'
BY DEF SchedInv, Block

\* Blocked processes are made ready.
LEMMA WakeSched ==
  ASSUME SchedInv, pc # "ordonnance",
         NEW ps \in Seq(Pid), NoDup(ps), NEW resched, Wake(ps, resched),
         \A p \in Elems(ps) : state[p] \notin {"CHOSEN", "ACTIVABLE"}
  PROVE  SchedInv'
<1>1. Elems(act) \cap Elems(ps) = {} /\ Elems(ps) \subseteq Pid
  BY ElemsEmpty DEF SchedInv
<1>2. /\ act' \in Seq(Pid) /\ NoDup(act')
      /\ Elems(act') = Elems(act) \cup Elems(ps)
  BY <1>1, AddAllElems DEF SchedInv, Wake
<1>3. /\ state' = [p \in Pid |-> IF p \in Elems(ps) THEN "ACTIVABLE" ELSE state[p]]
      /\ UNCHANGED <<prio, cur>>
  BY DEF Wake
<1>4. /\ DOMAIN state' = Pid /\ cur' \in Pid /\ prio' \in [Pid -> Int]
      /\ \A p \in Pid : state'[p] = "CHOSEN" => p = cur'
      /\ state'[cur'] = "CHOSEN"
      /\ state'[Idle] \in {"CHOSEN", "ACTIVABLE"}
  BY <1>3, PidFacts DEF SchedInv
<1>5. Elems(act') = {p \in Pid : state'[p] = "ACTIVABLE"}
  BY <1>1, <1>2, <1>3 DEF SchedInv
<1> QED BY <1>2, <1>4, <1>5 DEF SchedInv

\* start chains a process that was nowhere.
LEMMA StartedSched ==
  ASSUME SchedInv, NEW p \in Proc, NEW n \in Prio, Started(p, n)
  PROVE  SchedInv'
<1>1. /\ p \in Pid /\ p # Idle /\ p \notin Elems(act) /\ p # cur
      /\ prio' = [prio EXCEPT ![p] = n] /\ state' = [state EXCEPT ![p] = "ACTIVABLE"]
      /\ act' = QueueAdd(act, p, prio') /\ UNCHANGED cur
  BY PidFacts DEF SchedInv, Started, User
<1>2. prio' \in [Pid -> Int]
  BY <1>1 DEF SchedInv, Prio
<1>3. act' \in Seq(Pid) /\ NoDup(act') /\ Elems(act') = Elems(act) \cup {p}
  <2>1. act \in Seq(Pid) /\ NoDup(act) /\ p \in Pid /\ p \notin Elems(act)
    BY <1>1 DEF SchedInv
  <2>2. \A key \in [Pid -> Int] :
           /\ QueueAdd(act, p, key) \in Seq(Pid) /\ NoDup(QueueAdd(act, p, key))
           /\ Elems(QueueAdd(act, p, key)) = Elems(act) \cup {p}
    BY <2>1, QueueAddElems
  <2>3. act' = QueueAdd(act, p, prio')
    BY <1>1
  <2> QED BY <1>2, <2>2, <2>3
<1>4. /\ DOMAIN state' = Pid /\ cur' \in Pid
      /\ Elems(act') = {q \in Pid : state'[q] = "ACTIVABLE"}
      /\ \A q \in Pid : state'[q] = "CHOSEN" => q = cur'
      /\ state'[cur'] = "CHOSEN"
      /\ state'[Idle] \in {"CHOSEN", "ACTIVABLE"}
  <2>1. /\ \A q \in Pid : state'[q] = IF q = p THEN "ACTIVABLE" ELSE state[q]
        /\ DOMAIN state' = Pid
    BY <1>1 DEF SchedInv
  <2>2. state[cur] = "CHOSEN" /\ cur' = cur
    BY <1>1 DEF SchedInv, Started, User
  <2> QED BY <1>1, <1>3, <2>1, <2>2, PidFacts DEF SchedInv
<1> QED BY <1>2, <1>3, <1>4 DEF SchedInv

\* The end of a process takes it out of the ready queue.
LEMMA EndedSched ==
  ASSUME SchedInv, NEW p \in Proc, Ended(p)
  PROVE  SchedInv'
<1>1. /\ p \in Pid /\ p # Idle
      /\ state' = [state EXCEPT ![p] = "ENDED"] /\ UNCHANGED <<prio, cur>>
      /\ p = cur => pc' = "ordonnance"
      /\ state[cur] = "CHOSEN"
  BY PidFacts DEF SchedInv, Ended, User
<1>2. act' \in Seq(Pid) /\ NoDup(act') /\ Elems(act') = Elems(act) \ {p}
  <2>1. CASE state[p] = "ACTIVABLE"
    BY <2>1, <1>1, QueueDelElems DEF SchedInv, Ended
  <2>2. CASE state[p] # "ACTIVABLE"
    BY <2>2 DEF SchedInv, Ended
  <2> QED BY <2>1, <2>2
<1> QED BY <1>1, <1>2 DEF SchedInv

\* chprio moves a process that is ready.
LEMMA RepriorisedSched ==
  ASSUME SchedInv, NEW p \in Proc, NEW n \in Prio, Repriorised(p, n)
  PROVE  SchedInv'
<1>1. /\ p \in Pid /\ prio' = [prio EXCEPT ![p] = n] /\ UNCHANGED <<state, cur>>
      /\ state[cur] = "CHOSEN"
  BY PidFacts DEF SchedInv, Repriorised, User
<1>2. prio' \in [Pid -> Int]
  BY <1>1 DEF SchedInv, Prio
<1>3. act' \in Seq(Pid) /\ NoDup(act') /\ Elems(act') = Elems(act)
  <2>1. CASE state[p] = "ACTIVABLE"
    <3>1. act' = QueueAdd(QueueDel(act, p), p, prio') /\ p \in Elems(act)
      BY <2>1, <1>1 DEF SchedInv, Repriorised
    <3>2. /\ QueueDel(act, p) \in Seq(Pid) /\ NoDup(QueueDel(act, p))
          /\ Elems(QueueDel(act, p)) = Elems(act) \ {p}
      BY <3>1, QueueDelElems DEF SchedInv
    <3>3. /\ act' \in Seq(Pid) /\ NoDup(act')
          /\ Elems(act') = (Elems(act) \ {p}) \cup {p}
      <4>1. p \in Pid /\ p \notin Elems(QueueDel(act, p))
        BY <1>1, <3>2
      <4>2. \A key \in [Pid -> Int] :
              /\ QueueAdd(QueueDel(act, p), p, key) \in Seq(Pid)
              /\ NoDup(QueueAdd(QueueDel(act, p), p, key))
              /\ Elems(QueueAdd(QueueDel(act, p), p, key)) = Elems(QueueDel(act, p)) \cup {p}
        BY <3>2, <4>1, QueueAddElems
      <4> QED BY <1>2, <3>1, <3>2, <4>2
    <3> QED BY <3>1, <3>3
  <2>2. CASE state[p] # "ACTIVABLE"
    BY <2>2 DEF SchedInv, Repriorised
  <2> QED BY <2>1, <2>2
<1> QED BY <1>1, <1>2, <1>3 DEF SchedInv

\* ordonnance finds somebody to run, idle at least, and no one who is blocked.
LEMMA ElectedSched ==
  ASSUME SchedInv, Elected
  PROVE  /\ SchedInv'
         /\ \A p \in Pid : state[p] \notin {"CHOSEN", "ACTIVABLE"} =>
                             state'[p] = state[p]
         /\ \A p \in Pid : state[p] \in {"CHOSEN", "ACTIVABLE"} =>
                             state'[p] \in {"CHOSEN", "ACTIVABLE"}
<1> DEFINE ready == IF state[cur] = "CHOSEN" THEN QueueAdd(act, cur, prio) ELSE act
<1>1. /\ cur' = QueueTop(ready) /\ act' = QueueOut(ready)
      /\ state' = [p \in Pid |-> IF p = cur' THEN "CHOSEN"
                                 ELSE IF p = cur /\ state[p] = "CHOSEN" THEN "ACTIVABLE"
                                 ELSE state[p]]
      /\ UNCHANGED prio
  BY DEF Elected
<1>2. /\ ready \in Seq(Pid) /\ NoDup(ready)
      /\ Elems(ready) = {p \in Pid : state[p] \in {"CHOSEN", "ACTIVABLE"}}
  <2>1. CASE state[cur] = "CHOSEN"
    <3>1. /\ ready \in Seq(Pid) /\ NoDup(ready) /\ Elems(ready) = Elems(act) \cup {cur}
      BY <2>1, QueueAddElems DEF SchedInv
    <3> QED BY <3>1, <2>1 DEF SchedInv
  <2>2. CASE state[cur] # "CHOSEN"
    BY <2>2 DEF SchedInv
  <2> QED BY <2>1, <2>2
<1> HIDE DEF ready
<1>3. ready # <<>>
  BY <1>2, PidFacts, ElemsEmpty DEF SchedInv
<1>4. /\ cur' \in Elems(ready) /\ act' \in Seq(Pid) /\ NoDup(act')
      /\ Elems(act') = Elems(ready) \ {cur'}
  BY <1>1, <1>2, <1>3, QueueOutElems
<1>5. Elems(act') = {p \in Pid : state'[p] = "ACTIVABLE"}
  BY <1>1, <1>2, <1>4 DEF SchedInv
<1>6. cur' \in Pid /\ state'[cur'] = "CHOSEN" /\ \A p \in Pid : state'[p] = "CHOSEN" => p = cur'
  BY <1>1, <1>2, <1>4 DEF SchedInv
<1>7. state'[Idle] \in {"CHOSEN", "ACTIVABLE"}
  BY <1>1, PidFacts DEF SchedInv
<1>8. \A p \in Pid : state[p] \notin {"CHOSEN", "ACTIVABLE"} => state'[p] = state[p]
  BY <1>1, <1>2, <1>4
<1>9. \A p \in Pid : state[p] \in {"CHOSEN", "ACTIVABLE"} =>
                       state'[p] \in {"CHOSEN", "ACTIVABLE"}
  BY <1>1
<1> QED BY <1>1, <1>4, <1>5, <1>6, <1>7, <1>8, <1>9 DEF SchedInv

\* The tick, the end of a blocking call, and steps that are none of the
\* scheduler's.
LEMMA OtherSched ==
  ASSUME SchedInv, Preempted \/ Returned \/ UNCHANGED sched
  PROVE  SchedInv' /\ UNCHANGED state
BY DEF SchedInv, Preempted, Returned, sched
=============================================================================

--------------------------- MODULE ProcessProofs ---------------------------
(***************************************************************************)
(* For every size of the process table, every number of priorities and     *)
(* every width of the clock: the invariants of ProcessProps that IInv      *)
(* joins, and that get_new_pid cannot panic; then what the steps of        *)
(* src/kernel/process.c do, and never do, to the processes that have       *)
(* terminated, to the order of the lists and to the promises of module     *)
(* Lifecycle.                                                              *)
(***************************************************************************)
EXTENDS ProcessProps, PrioQueueProofs, FiniteSetTheorems

\* Pids are the indexes of procs; there are finitely many.
LEMMA PidFacts ==
  /\ Pid \subseteq Nat /\ Idle \in Pid /\ Orphan \notin Pid /\ IsFiniteSet(Pid)
  /\ \A S \in SUBSET Pid : IsFiniteSet(S) /\ Cardinality(S) \in Nat
<1>1. IsFiniteSet(Pid)
  BY FS_Interval, ProcessAssumption DEF Pid
<1>2. \A S \in SUBSET Pid : IsFiniteSet(S) /\ Cardinality(S) \in Nat
  BY <1>1, FS_Subset, FS_CardinalityType
<1> QED BY <1>1, <1>2, ProcessAssumption DEF Pid, Idle, Orphan

\* The priorities and wake-up times are keys queue_add can compare.
LEMMA Keys ==
  ASSUME TypeOK
  PROVE  prio \in [Pid -> Int] /\ wake \in [Pid -> Int]
BY ProcessAssumption DEF TypeOK, Clock

\* The pid a start takes is not in use and was not handed out twice.
LEMMA NewPidFree ==
  ASSUME IInv, NewPid \in Pid
  PROVE  /\ state[NewPid] = "NONE" /\ NewPid # Idle
         /\ freePids # {} => NewPid \in freePids
<1>1. CASE freePids # {}
  <2>1. freePids \subseteq Nat
    BY PidFacts DEF IInv, TypeOK
  <2>2. \E p \in freePids : \A r \in freePids : p <= r
    BY <1>1, <2>1, LeastNat
  <2>3. NewPid \in freePids
    BY <1>1, <2>2 DEF NewPid
  <2> QED BY <2>3 DEF IInv, PidPool, Live, TypeOK
<1>2. CASE freePids = {}
  <2>1. NewPid = pidIndex
    BY <1>2 DEF NewPid
  <2>2. pidIndex \in Nat /\ pidIndex # 0 /\ pidIndex \notin 0..(pidIndex - 1)
    BY ProcessAssumption DEF IInv, TypeOK
  <2> QED BY <1>2, <2>1, <2>2 DEF IInv, PidPool, Live, Idle
<1> QED BY <1>1, <1>2

\* init_process leaves a table that satisfies IInv.
LEMMA InitIInv == Init => IInv
<1> SUFFICES ASSUME Init PROVE IInv
  OBVIOUS
<1> USE PidFacts, ProcessAssumption DEF Init
<1>1. TypeOK
  BY EmptySeq DEF TypeOK, States, Idle, Clock
<1>2. QueuesMatchStates
  BY ElemsEmpty, EmptySeq DEF QueuesMatchStates
<1>3. OneChosen /\ IdleReady
  BY DEF OneChosen, IdleReady
<1>4. FamilyTree
  BY DEF FamilyTree, Terminated
<1>5. NoLostWait /\ WaitedChildThere /\ BlockedInWaitpid
  BY DEF NoLostWait, WaitedChildThere, BlockedInWaitpid
<1>6. PidPool
  <2>1. Live = {0} /\ 0..0 = {0}
    BY DEF Live, Idle
  <2>2. Cardinality(Live) = 1
    BY <2>1, FS_Singleton
  <2>3. pidIndex - 1 = 0
    OBVIOUS
  <2> QED BY <2>1, <2>2, <2>3 DEF PidPool
<1> QED BY <1>1, <1>2, <1>3, <1>4, <1>5, <1>6 DEF IInv

-----------------------------------------------------------------------------
(* start *)

\* start: the new process enters the ready queue and its creator's children
\* under a pid that nobody uses.
LEMMA CreateIInv ==
  ASSUME IInv, pc \in {"boot", "user"}, NEW n \in Prio, Create(n)
  PROVE  IInv'
<1> DEFINE p == NewPid
<1>1. p \in Pid /\ state[p] = "NONE" /\ p # Idle /\ (freePids # {} => p \in freePids)
  BY NewPidFree DEF Create
<1>2. cur \in Pid /\ state[cur] = "CHOSEN" /\ cur # p
  BY <1>1 DEF IInv, TypeOK, OneChosen
<1>3. /\ state' = [state EXCEPT ![p] = "ACTIVABLE"]
      /\ ppid' = [ppid EXCEPT ![p] = cur]
      /\ prio' = [prio EXCEPT ![p] = n]
      /\ children' = [children EXCEPT ![cur] = @ \cup {p}, ![p] = {}]
      /\ act' = QueueAdd(act, p, prio')
      /\ freePids' = freePids \ {p}
      /\ pidIndex' = IF freePids = {} THEN pidIndex + 1 ELSE pidIndex
      /\ nbProcs' = nbProcs + 1
      /\ pc' \in {"kill", "user"}
      /\ UNCHANGED <<wake, s, blocked, sleep, dead, cur, clock>>
  BY DEF Create
<1> HIDE DEF p
<1>4. prio' \in [Pid -> 0..MaxPrio]
  BY <1>1, <1>3, ProcessAssumption DEF IInv, TypeOK, Prio
<1>5. prio' \in [Pid -> Int]
  BY <1>4, ProcessAssumption
<1>6. act \in Seq(Pid) /\ NoDup(act) /\ p \notin Elems(act)
  BY <1>1 DEF IInv, TypeOK, QueuesMatchStates
<1>7. act' \in Seq(Pid) /\ NoDup(act') /\ Elems(act') = Elems(act) \cup {p}
  <2>1. act' = QueueAdd(act, p, prio') /\ p \in Pid
    BY <1>1, <1>3
  <2>2. /\ QueueAdd(act, p, prio') \in Seq(Pid)
        /\ NoDup(QueueAdd(act, p, prio'))
        /\ Elems(QueueAdd(act, p, prio')) = Elems(act) \cup {p}
    BY <2>1, <1>5, <1>6, QueueAddElems
  <2> QED BY <2>1, <2>2
<1>8. freePids = {} => p = pidIndex
  BY DEF p, NewPid
<1>16. /\ \A r \in Pid : state'[r] = IF r = p THEN "ACTIVABLE" ELSE state[r]
       /\ \A r \in Pid : ppid'[r] = IF r = p THEN cur ELSE ppid[r]
       /\ \A r \in Pid : children'[r] = IF r = p THEN {}
                                        ELSE IF r = cur THEN children[cur] \cup {p}
                                        ELSE children[r]
       /\ UNCHANGED <<s, blocked, sleep, dead, cur>>
  BY <1>1, <1>2, <1>3 DEF IInv, TypeOK
<1>9. TypeOK'
  <2>1. state' \in [Pid -> States]
    BY <1>3 DEF IInv, TypeOK, States
  <2>2. ppid' \in [Pid -> Pid \cup {Orphan}]
    BY <1>2, <1>3 DEF IInv, TypeOK
  <2>3. children' \in [Pid -> SUBSET (Pid \ {Idle})]
    <3>1. children[cur] \cup {p} \in SUBSET (Pid \ {Idle})
      BY <1>1, <1>2 DEF IInv, TypeOK
    <3> QED BY <1>3, <3>1 DEF IInv, TypeOK
  <2>4. pidIndex' \in 1..MaxProcs
    BY <1>1, <1>3, <1>8, ProcessAssumption DEF IInv, TypeOK, Pid
  <2>5. nbProcs' \in Int /\ freePids' \subseteq Pid \ {Idle}
    BY <1>3 DEF IInv, TypeOK
  <2>6. /\ wake' \in [Pid -> Clock] /\ s' \in [Pid -> Int]
        /\ blocked' \subseteq Pid \ {Idle}
        /\ sleep' \in Seq(Pid) /\ dead' \in Seq(Pid)
        /\ cur' \in Pid /\ clock' \in Clock
    BY <1>3 DEF IInv, TypeOK
  <2> QED BY <2>1, <2>2, <2>3, <2>4, <2>5, <2>6, <1>3, <1>4, <1>7 DEF TypeOK
<1>10. QueuesMatchStates'
  <2>1. Elems(act') = {r \in Pid : state'[r] = "ACTIVABLE"}
    BY <1>1, <1>16, <1>7 DEF IInv, QueuesMatchStates
  <2>2. Elems(sleep') = {r \in Pid : state'[r] = "ASLEEP"} /\ NoDup(sleep')
    BY <1>1, <1>16 DEF IInv, QueuesMatchStates
  <2>3. Elems(dead') = {r \in Pid : state'[r] = "DYING"} \ {cur'} /\ NoDup(dead')
    BY <1>1, <1>16 DEF IInv, QueuesMatchStates
  <2> QED BY <2>1, <2>2, <2>3, <1>7 DEF QueuesMatchStates
<1>11. OneChosen' /\ IdleReady'
  BY <1>1, <1>2, <1>3, <1>16 DEF IInv, OneChosen, IdleReady
<1>12. FamilyTree'
  <2>1. \A r \in Pid \ {Idle} : state'[r] # "NONE" /\ ppid'[r] # Orphan =>
          ppid'[r] # r /\ state'[ppid'[r]] \notin Terminated \cup {"NONE"}
    <3> TAKE r \in Pid \ {Idle}
    <3>1. CASE r = p
      BY <3>1, <1>1, <1>2, <1>16 DEF Terminated
    <3>2. CASE r # p
      <4>1. state[r] # "NONE" /\ ppid[r] # Orphan =>
              ppid[r] # r /\ ppid[r] \in Pid /\ state[ppid[r]] \notin Terminated \cup {"NONE"}
        BY DEF IInv, TypeOK, FamilyTree
      <4> QED BY <3>2, <4>1, <1>1, <1>16 DEF Terminated
    <3> QED BY <3>1, <3>2
  <2>2. \A r \in Pid :
          children'[r] = {c \in Pid \ {Idle} : state'[c] # "NONE" /\ ppid'[c] = r}
    <3> TAKE r \in Pid
    <3>1. children[r] = {c \in Pid \ {Idle} : state[c] # "NONE" /\ ppid[c] = r}
      BY DEF IInv, FamilyTree
    <3>2. CASE r = p
      <4>1. \A c \in Pid \ {Idle} : state[c] # "NONE" => ppid[c] # p
        BY <1>1, PidFacts DEF IInv, TypeOK, FamilyTree
      <4> QED BY <3>2, <4>1, <1>1, <1>2, <1>16
    <3>3. CASE r # p
      BY <3>1, <3>3, <1>1, <1>2, <1>16
    <3> QED BY <3>2, <3>3
  <2>3. \A r \in Pid : /\ state'[r] = "ZOMBIE" => ppid'[r] # Orphan
                       /\ state'[r] = "DYING" => ppid'[r] = Orphan
    BY <1>1, <1>2, <1>16 DEF IInv, FamilyTree
  <2> QED BY <2>1, <2>2, <2>3 DEF FamilyTree
<1>13. NoLostWait'
  <2> SUFFICES ASSUME NEW r \in Pid, state'[r] = "WAITPID"
               PROVE  LET t == IF s'[r] < 0 THEN children'[r] ELSE {s'[r]} IN
                        /\ t # {} /\ t \subseteq children'[r]
                        /\ \A c \in t : state'[c] # "ZOMBIE"
    BY DEF NoLostWait
  <2>1. state[r] = "WAITPID" /\ r # p /\ r # cur
    BY <1>1, <1>2, <1>16
  <2>2. children'[r] = children[r] /\ s'[r] = s[r] /\ children[r] \subseteq Pid
    BY <2>1, <1>16 DEF IInv, TypeOK
  <2> QED BY <2>1, <2>2, <1>16 DEF IInv, NoLostWait
<1>14. WaitedChildThere' /\ BlockedInWaitpid'
  <2>1. p \notin blocked
    BY <1>1 DEF IInv, BlockedInWaitpid
  <2>2. cur \notin blocked
    BY <1>2 DEF IInv, BlockedInWaitpid
  <2>3. WaitedChildThere'
    <3> SUFFICES ASSUME NEW r \in blocked, state'[r] \in {"CHOSEN", "ACTIVABLE"}
                 PROVE  s[r] \in children'[r] /\ state'[s[r]] = "ZOMBIE"
      BY <1>16 DEF WaitedChildThere
    <3>1. r \in Pid /\ r # p /\ r # cur /\ state'[r] = state[r] /\ children'[r] = children[r]
      BY <2>1, <2>2, <1>16 DEF IInv, TypeOK
    <3>2. s[r] \in children[r] /\ state[s[r]] = "ZOMBIE" /\ s[r] \in Pid
      BY <3>1 DEF IInv, TypeOK, WaitedChildThere
    <3> QED BY <3>1, <3>2, <1>1, <1>16
  <2>4. BlockedInWaitpid'
    BY <2>1, <2>2, <1>1, <1>3, <1>16 DEF IInv, TypeOK, BlockedInWaitpid
  <2> QED BY <2>3, <2>4
<1>15. PidPool'
  <2>1. Live' = Live \cup {p}
    BY <1>1, <1>3 DEF IInv, TypeOK, Live
  <2>2. p \notin Live
    BY <1>1 DEF Live
  <2>3. Cardinality(Live') = Cardinality(Live) + 1
    <3>1. IsFiniteSet(Live) BY PidFacts DEF Live
    <3> QED BY <2>1, <2>2, <3>1, FS_AddElement
  <2>4. freePids' \cup Live' = 0..(pidIndex' - 1)
    <3>1. CASE freePids = {}
      <4>1. pidIndex \in Nat /\ pidIndex \geq 1
        BY ProcessAssumption DEF IInv, TypeOK
      <4>2. 0..pidIndex = 0..(pidIndex - 1) \cup {pidIndex}
        BY <4>1
      <4>3. pidIndex' - 1 = pidIndex
        BY <3>1, <1>3, <4>1
      <4> QED BY <3>1, <1>3, <1>8, <2>1, <4>2, <4>3 DEF IInv, PidPool
    <3>2. CASE freePids # {}
      BY <3>2, <1>1, <1>3, <2>1 DEF IInv, PidPool
    <3> QED BY <3>1, <3>2
  <2> QED BY <1>3, <2>1, <2>3, <2>4 DEF IInv, PidPool
<1> QED BY <1>9, <1>10, <1>11, <1>12, <1>13, <1>14, <1>15 DEF IInv

-----------------------------------------------------------------------------
(* finish_process: p terminates, whether it runs (_exit) or not (kill).    *)

\* finish_process of the process p, with the queues p was taken out of: its
\* zombie children go, its other children become orphans, its parent wakes.
LEMMA FinishIInv ==
  ASSUME IInv, NEW p \in Pid \ {Idle}, NEW v \in Int, NEW queue, NEW F,
         state[p] \notin Terminated \cup {"NONE"},
         queue \in Seq(Pid), NoDup(queue),
         Elems(queue) = {r \in Pid : state[r] = "ACTIVABLE"} \ {p},
         sleep' \in Seq(Pid), NoDup(sleep'),
         Elems(sleep') = {r \in Pid : state[r] = "ASLEEP"} \ {p},
         \/ F = {} /\ (p = cur \/ ppid[p] # Orphan)
         \/ F = {p} /\ p # cur /\ ppid[p] = Orphan,
         Finish(p, v, queue, F),
         \/ p = cur /\ pc = "user" /\ pc' = "kill"
         \/ p # cur /\ pc = "user" /\ pc' = "user",
         UNCHANGED <<dead, cur, clock>>
  PROVE  IInv'
<1> DEFINE Z == ZombieChildren(p)
           G == Z \cup F
           end == IF ppid[p] >= 0 THEN "ZOMBIE" ELSE "DYING"
           w == ParentWaits(p)
<1>1. /\ state' = [r \in Pid |-> IF r \in G THEN "NONE"
                                ELSE IF r = p THEN end
                                ELSE IF w /\ r = ppid[p] THEN "ACTIVABLE"
                                ELSE state[r]]
      /\ s' = [r \in Pid |-> IF r \in G THEN 0
                            ELSE IF r = p THEN v
                            ELSE IF w /\ r = ppid[p] THEN p ELSE s[r]]
      /\ ppid' = [r \in Pid |-> IF r \in children[p] \cup F THEN Orphan ELSE ppid[r]]
      /\ children' = [r \in Pid |-> IF r \in G \cup {p} THEN {} ELSE children[r]]
      /\ prio' = [r \in Pid |-> IF r \in G THEN 0 ELSE prio[r]]
      /\ wake' = [r \in Pid |-> IF r \in G THEN 0 ELSE wake[r]]
      /\ blocked' = blocked \ ({p} \cup G)
      /\ act' = IF w THEN QueueAdd(queue, ppid[p], prio) ELSE queue
      /\ freePids' = freePids \cup G
      /\ nbProcs' = nbProcs - Cardinality(G)
      /\ pidIndex' = pidIndex
  BY DEF Finish, WaitResult, Orphans, Wipe, FreePids
<1>2. Z \subseteq Pid \ {Idle, p} /\ \A r \in Z : state[r] = "ZOMBIE" /\ ppid[r] = p
  <2>1. children[p] = {c \in Pid \ {Idle} : state[c] # "NONE" /\ ppid[c] = p}
    BY DEF IInv, FamilyTree
  <2> QED BY <2>1 DEF ZombieChildren, Terminated
<1>3. p \in Pid /\ p # Idle /\ p # Orphan /\ Idle \in Pid /\ cur \in Pid /\ state[cur] = "CHOSEN"
  BY PidFacts DEF IInv, TypeOK, OneChosen
<1>4. G \subseteq Pid \ {Idle} /\ \A r \in G : r \in Z \/ r = p
  BY <1>2, <1>3
<1>5. w => /\ ppid[p] \in Pid \ {Idle} /\ ppid[p] # p /\ ppid[p] \notin G
           /\ state[ppid[p]] = "WAITPID" /\ ppid[p] # cur /\ ppid[p] \in blocked
           /\ F = {} /\ end = "ZOMBIE" /\ p \in children[ppid[p]]
  <2> SUFFICES ASSUME w PROVE /\ ppid[p] \in Pid \ {Idle} /\ ppid[p] # p /\ ppid[p] \notin G
                              /\ state[ppid[p]] = "WAITPID" /\ ppid[p] # cur /\ ppid[p] \in blocked
                              /\ F = {} /\ end = "ZOMBIE" /\ p \in children[ppid[p]]
    OBVIOUS
  <2>1. ppid[p] > 0 /\ state[ppid[p]] = "WAITPID" /\ ppid[p] \in Pid \cup {Orphan}
    BY <1>3 DEF ParentWaits, IInv, TypeOK
  <2>2. ppid[p] \in Pid \ {Idle} /\ end = "ZOMBIE" /\ ppid[p] # Orphan
    <3>1. ppid[p] # Orphan
      BY <2>1 DEF Orphan
    <3>2. ppid[p] \in Nat /\ ppid[p] \in Pid
      BY <2>1, <3>1, PidFacts
    <3> QED BY <2>1, <3>1, <3>2 DEF Idle
  <2>3. ppid[p] # p /\ p \in children[ppid[p]]
    BY <2>2, <1>3 DEF IInv, FamilyTree, Terminated
  <2>4. ppid[p] \notin G
    BY <2>1, <2>3, <1>2, <1>4
  <2> QED BY <2>1, <2>2, <2>3, <2>4, <1>3 DEF IInv, BlockedInWaitpid
<1>6. end \in {"ZOMBIE", "DYING"} /\ (end = "DYING" <=> ppid[p] = Orphan)
  <2>1. ppid[p] \in Nat \/ ppid[p] = Orphan
    BY <1>3, PidFacts DEF IInv, TypeOK
  <2> QED BY <2>1 DEF Orphan
<1> HIDE DEF Z, end, w
<1>7. /\ \A r \in Pid : state'[r] = IF r \in G THEN "NONE"
                                   ELSE IF r = p THEN end
                                   ELSE IF w /\ r = ppid[p] THEN "ACTIVABLE"
                                   ELSE state[r]
      /\ \A r \in Pid : s'[r] = IF r \in G THEN 0
                               ELSE IF r = p THEN v
                               ELSE IF w /\ r = ppid[p] THEN p ELSE s[r]
      /\ \A r \in Pid : ppid'[r] = IF r \in children[p] \cup F THEN Orphan ELSE ppid[r]
      /\ \A r \in Pid : children'[r] = IF r \in G \cup {p} THEN {} ELSE children[r]
      /\ UNCHANGED <<dead, cur, clock>>
  BY <1>1
<1> HIDE DEF G
<1>8. act' \in Seq(Pid) /\ NoDup(act')
      /\ Elems(act') = IF w THEN Elems(queue) \cup {ppid[p]} ELSE Elems(queue)
  <2>1. CASE w
    <3>1. prio \in [Pid -> Int] /\ ppid[p] \in Pid /\ ppid[p] \notin Elems(queue)
      BY <1>5, <2>1, Keys DEF IInv
    <3> DEFINE q == ppid[p]
    <3> HIDE DEF q
    <3>3. prio \in [Pid -> Int] /\ q \in Pid /\ q \notin Elems(queue)
      BY <3>1 DEF q
    <3>4. /\ QueueAdd(queue, q, prio) \in Seq(Pid)
          /\ NoDup(QueueAdd(queue, q, prio))
          /\ Elems(QueueAdd(queue, q, prio)) = Elems(queue) \cup {q}
      BY <3>3, QueueAddElems
    <3>2. /\ QueueAdd(queue, ppid[p], prio) \in Seq(Pid)
          /\ NoDup(QueueAdd(queue, ppid[p], prio))
          /\ Elems(QueueAdd(queue, ppid[p], prio)) = Elems(queue) \cup {ppid[p]}
      BY <3>4 DEF q
    <3> QED BY <2>1, <3>2, <1>1
  <2>2. CASE ~w
    BY <2>2, <1>1
  <2> QED BY <2>1, <2>2
<1>9. Cardinality(G) \in Nat /\ IsFiniteSet(G)
  BY <1>4, PidFacts
<1>10. TypeOK'
  <2>1. state' \in [Pid -> States] /\ s' \in [Pid -> Int]
    BY <1>1, <1>3, <1>6 DEF IInv, TypeOK, States, Pid
  <2>2. ppid' \in [Pid -> Pid \cup {Orphan}] /\ children' \in [Pid -> SUBSET (Pid \ {Idle})]
    BY <1>1 DEF IInv, TypeOK
  <2>3. prio' \in [Pid -> 0..MaxPrio] /\ wake' \in [Pid -> Clock]
    <3>1. 0 \in 0..MaxPrio /\ 0 \in Clock
      BY ProcessAssumption DEF Clock
    <3>2. prio \in [Pid -> 0..MaxPrio] /\ wake \in [Pid -> Clock]
      BY DEF IInv, TypeOK
    <3> QED BY <1>1, <3>1, <3>2
  <2>4. /\ blocked' \subseteq Pid \ {Idle} /\ freePids' \subseteq Pid \ {Idle}
        /\ nbProcs' \in Int /\ pidIndex' \in 1..MaxProcs
    BY <1>1, <1>4, <1>9 DEF IInv, TypeOK
  <2>5. dead' \in Seq(Pid) /\ cur' \in Pid /\ clock' \in Clock
    BY <1>7 DEF IInv, TypeOK
  <2> QED BY <2>1, <2>2, <2>3, <2>4, <2>5, <1>8 DEF TypeOK
<1>11. QueuesMatchStates'
  <2>1. Elems(act') = {r \in Pid : state'[r] = "ACTIVABLE"}
    BY <1>2, <1>3, <1>4, <1>5, <1>6, <1>7, <1>8
  <2>2. Elems(sleep') = {r \in Pid : state'[r] = "ASLEEP"}
    BY <1>2, <1>3, <1>4, <1>5, <1>6, <1>7
  <2>3. Elems(dead') = {r \in Pid : state'[r] = "DYING"} \ {cur'} /\ NoDup(dead')
    <3>1. Elems(dead) = {r \in Pid : state[r] = "DYING"} \ {cur} /\ NoDup(dead)
      BY DEF IInv, QueuesMatchStates
    <3>2. ASSUME NEW r \in Pid, r # cur PROVE state'[r] = "DYING" <=> state[r] = "DYING"
      <4>1. CASE r = p BY <3>2, <4>1, <1>6, <1>7 DEF G, Terminated
      <4>2. CASE r # p BY <4>2, <1>2, <1>4, <1>5, <1>7
      <4> QED BY <4>1, <4>2
    <3> QED BY <3>1, <3>2, <1>7
  <2> QED BY <2>1, <2>2, <2>3, <1>8 DEF QueuesMatchStates
<1>12. OneChosen' /\ IdleReady'
  <2>1. \A r \in Pid : state'[r] = "CHOSEN" => r = cur
    BY <1>4, <1>6, <1>7 DEF IInv, OneChosen
  <2>2. pc' = "kill" => state'[cur] \notin {"NONE", "ACTIVABLE"}
    BY <1>2, <1>3, <1>5, <1>6, <1>7 DEF G
  <2>3. pc' = "user" => state'[cur] = "CHOSEN"
    BY <1>2, <1>3, <1>4, <1>5, <1>6, <1>7
  <2>4. state'[Idle] \in {"CHOSEN", "ACTIVABLE"}
    BY <1>3, <1>4, <1>5, <1>7 DEF IInv, IdleReady
  <2> QED BY <2>1, <2>2, <2>3, <2>4, <1>7 DEF OneChosen, IdleReady
<1>13. FamilyTree'
  <2> DEFINE K(r) == {c \in Pid \ {Idle} : state[c] # "NONE" /\ ppid[c] = r}
  <2>1. /\ \A r \in Pid \ {Idle} : state[r] # "NONE" /\ ppid[r] # Orphan =>
              /\ ppid[r] # r /\ state[ppid[r]] \notin Terminated \cup {"NONE"}
              /\ ppid[r] \in Pid /\ r \in children[ppid[r]]
        /\ \A r \in Pid : children[r] = K(r)
        /\ \A r \in Pid : state[r] = "ZOMBIE" => ppid[r] # Orphan
        /\ \A r \in Pid : state[r] = "DYING" => ppid[r] = Orphan
    BY DEF IInv, TypeOK, FamilyTree
  <2>2. ASSUME NEW r \in Pid \ {Idle}, state'[r] # "NONE", ppid'[r] # Orphan
        PROVE  ppid'[r] # r /\ state'[ppid'[r]] \notin Terminated \cup {"NONE"}
    <3>1. r \notin G /\ r \notin children[p] /\ ppid'[r] = ppid[r] /\ state[r] # "NONE"
      BY <2>2, <1>2, <1>4, <1>5, <1>7
    <3>2. ppid[r] \in Pid /\ ppid[r] # r /\ ppid[r] # p
          /\ state[ppid[r]] \notin Terminated \cup {"NONE"}
      BY <2>1, <2>2, <3>1
    <3>3. ppid[r] \notin G
      BY <3>2, <1>2, <1>4 DEF Terminated
    <3> QED BY <3>1, <3>2, <3>3, <1>7 DEF Terminated
  <2>3. ASSUME NEW r \in Pid
        PROVE  children'[r] = {c \in Pid \ {Idle} : state'[c] # "NONE" /\ ppid'[c] = r}
    <3>1. \A c \in Pid \ {Idle} : state'[c] # "NONE" /\ ppid'[c] = r
             <=> c \notin G /\ c \notin children[p] \cup F /\ state[c] # "NONE" /\ ppid[c] = r
      <4> TAKE c \in Pid \ {Idle}
      <4>1. r # Orphan BY PidFacts
      <4>2. c \in F => c \in G BY DEF G
      <4>3. state'[c] # "NONE" <=> c \notin G /\ state[c] # "NONE"
        BY <1>3, <1>5, <1>6, <1>7 DEF Terminated
      <4> QED BY <4>1, <4>2, <4>3, <1>7
    <3>2. CASE r \in G \cup {p}
      <4>1. \A c \in Pid \ {Idle} : state[c] # "NONE" /\ ppid[c] = r => c \in children[p]
        BY <3>2, <2>1, <1>2, <1>3, <1>4, PidFacts DEF Terminated
      <4> QED BY <3>1, <3>2, <4>1, <1>7
    <3>3. CASE r \notin G \cup {p}
      <4>1. children'[r] = K(r) BY <3>3, <2>1, <1>7
      <4>2. \A c \in K(r) : c \notin children[p] BY <2>1, <3>3, <1>3
      <4>3. \A c \in K(r) : c \notin G
        BY <4>2, <3>3, <1>2, <1>3, <1>4, <2>1, PidFacts DEF G
      <4>4. \A c \in K(r) : c \notin F BY <4>3 DEF G
      <4> QED BY <3>1, <4>1, <4>2, <4>3, <4>4
    <3> QED BY <3>2, <3>3
  <2>4. ASSUME NEW r \in Pid
        PROVE  /\ state'[r] = "ZOMBIE" => ppid'[r] # Orphan
               /\ state'[r] = "DYING" => ppid'[r] = Orphan
    <3>1. CASE r = p
      <4>1. p \notin children[p] BY <2>1, <1>3
      <4>2. p \notin G => p \notin F BY DEF G
      <4> QED BY <3>1, <4>1, <4>2, <1>3, <1>6, <1>7
    <3>2. CASE r # p
      <4>1. r \in children[p] /\ state[r] = "ZOMBIE" => r \in G
        BY DEF G, Z, ZombieChildren
      <4>2. r \in F => r \in G BY DEF G
      <4> QED BY <3>2, <4>1, <4>2, <2>1, <1>7
    <3> QED BY <3>1, <3>2
  <2> QED BY <2>2, <2>3, <2>4 DEF FamilyTree
<1>14. NoLostWait'
  <2> SUFFICES ASSUME NEW r \in Pid, state'[r] = "WAITPID"
               PROVE  LET t == IF s'[r] < 0 THEN children'[r] ELSE {s'[r]} IN
                        /\ t # {} /\ t \subseteq children'[r]
                        /\ \A c \in t : state'[c] # "ZOMBIE"
    BY DEF NoLostWait
  <2>1. state[r] = "WAITPID" /\ r \notin G \cup {p} /\ ~ (w /\ r = ppid[p])
    BY <1>6, <1>7
  <2>2. children'[r] = children[r] /\ s'[r] = s[r] /\ children[r] \subseteq Pid \ {Idle}
    BY <2>1, <1>7 DEF IInv, TypeOK
  <2> DEFINE t == IF s[r] < 0 THEN children[r] ELSE {s[r]}
  <2>3. t # {} /\ t \subseteq children[r] /\ \A c \in t : state[c] # "ZOMBIE"
    BY <2>1 DEF IInv, NoLostWait
  <2>4. p \notin t
    <3> SUFFICES ASSUME p \in t PROVE FALSE OBVIOUS
    <3>1. ppid[p] = r BY <2>3 DEF IInv, FamilyTree
    <3>2. r > 0
      <4>1. r # Idle BY <2>1 DEF IInv, IdleReady
      <4> QED BY <4>1, PidFacts DEF Idle
    <3>3. s[r] < 0 \/ s[r] = p OBVIOUS
    <3>4. w BY <3>1, <3>2, <3>3, <2>1 DEF w, ParentWaits
    <3> QED BY <3>1, <3>4, <2>1
  <2>5. \A c \in t : state'[c] # "ZOMBIE"
    BY <2>2, <2>3, <2>4, <1>7
  <2> QED BY <2>2, <2>3, <2>5
<1>15. WaitedChildThere'
  <2> SUFFICES ASSUME NEW r \in blocked', state'[r] \in {"CHOSEN", "ACTIVABLE"}
               PROVE  s'[r] \in children'[r] /\ state'[s'[r]] = "ZOMBIE"
    BY DEF WaitedChildThere
  <2>1. r \in blocked /\ r \in Pid /\ r # p /\ r \notin G
    BY <1>1 DEF IInv, TypeOK
  <2>2. children'[r] = children[r]
    BY <2>1, <1>7
  <2>3. CASE w /\ r = ppid[p]
    <3>1. s'[r] = p BY <2>1, <2>3, <1>7
    <3>2. p \notin G
      <4>1. F = {} BY <2>3, <1>5
      <4> QED BY <4>1, <1>2 DEF G
    <3> QED BY <2>2, <2>3, <3>1, <3>2, <1>3, <1>5, <1>7
  <2>4. CASE ~ (w /\ r = ppid[p])
    <3>1. s'[r] = s[r] /\ state'[r] = state[r] BY <2>1, <2>4, <1>7
    <3>2. s[r] \in children[r] /\ state[s[r]] = "ZOMBIE"
      BY <2>1, <3>1 DEF IInv, WaitedChildThere
    <3>3. s[r] \in Pid /\ ppid[s[r]] = r /\ s[r] # p
      BY <2>1, <3>2 DEF IInv, FamilyTree, Terminated
    <3>4. s[r] \notin G
      BY <2>1, <3>3, <1>2, <1>4
    <3> QED BY <2>2, <3>1, <3>2, <3>3, <3>4, <1>5, <1>7
  <2> QED BY <2>3, <2>4
<1>16. BlockedInWaitpid'
  <2>1. \A r \in blocked' : r \in Pid /\ r \in blocked /\ r # p /\ r \notin G
    BY <1>1 DEF IInv, TypeOK
  <2>2. \A r \in blocked' : state'[r] \in {"WAITPID", "ACTIVABLE", "CHOSEN"}
    BY <2>1, <1>7 DEF IInv, BlockedInWaitpid
  <2>3. \A r \in Pid : state'[r] = "WAITPID" => r \in blocked'
    BY <1>1, <1>6, <1>7 DEF IInv, BlockedInWaitpid
  <2>4. cur' \notin blocked'
    BY <2>1, <1>3, <1>7 DEF IInv, BlockedInWaitpid
  <2> QED BY <2>2, <2>3, <2>4 DEF BlockedInWaitpid
<1>17. PidPool'
  <2>1. Live' = Live \ G
    BY <1>3, <1>5, <1>6, <1>7 DEF Live, Terminated
  <2>2. G \subseteq Live
    BY <1>2, <1>3, <1>4 DEF Live, Terminated
  <2>3. IsFiniteSet(Live) BY PidFacts DEF Live
  <2>4. Cardinality(Live') = Cardinality(Live) - Cardinality(G)
    <3>1. Live \cap G = G BY <2>2
    <3>2. Cardinality(Live \ G) = Cardinality(Live) - Cardinality(Live \cap G)
      BY <2>3, FS_Difference
    <3> QED BY <2>1, <3>1, <3>2
  <2> QED BY <2>1, <2>2, <2>4, <1>1 DEF IInv, PidPool
<1> QED BY <1>10, <1>11, <1>12, <1>13, <1>14, <1>15, <1>16, <1>17 DEF IInv

\* _exit, and the kill of the running process by itself.
LEMMA ExitIInv ==
  ASSUME IInv, NEW v \in RetVals \cup {0}, Exit(v)
  PROVE  IInv'
<1>1. /\ cur \in Pid \ {Idle} /\ state[cur] = "CHOSEN" /\ v \in Int
      /\ pc = "user" /\ pc' = "kill"
  BY ProcessAssumption DEF IInv, TypeOK, OneChosen, Exit, User
<1>2. /\ act \in Seq(Pid) /\ NoDup(act)
      /\ Elems(act) = {r \in Pid : state[r] = "ACTIVABLE"} \ {cur}
  BY <1>1 DEF IInv, TypeOK, QueuesMatchStates
<1>3. /\ sleep' \in Seq(Pid) /\ NoDup(sleep')
      /\ Elems(sleep') = {r \in Pid : state[r] = "ASLEEP"} \ {cur}
  BY <1>1 DEF IInv, TypeOK, QueuesMatchStates, Exit
<1>4. Finish(cur, v, act, {}) /\ UNCHANGED <<dead, cur, clock>>
  BY DEF Exit
<1>5. state[cur] \notin Terminated \cup {"NONE"}
  BY <1>1 DEF Terminated
<1> QED BY <1>1, <1>2, <1>3, <1>4, <1>5, FinishIInv

\* kill of a process that is ready, asleep or in waitpid.
LEMMA KillIInv ==
  ASSUME IInv, NEW p \in Pid, Kill(p)
  PROVE  IInv'
<1>1. /\ p \in Pid \ {Idle} /\ p # cur /\ pc = "user" /\ pc' = "user"
      /\ state[p] \in {"ACTIVABLE", "ASLEEP", "WAITPID"}
      /\ sleep' = SleepWithout(p)
      /\ Finish(p, 0, ActWithout(p), {r \in {p} : ppid[p] < 0})
      /\ UNCHANGED <<dead, cur, clock>>
  BY DEF Kill, Killable, KilledStates, User
<1>2. /\ act \in Seq(Pid) /\ NoDup(act)
      /\ Elems(act) = {r \in Pid : state[r] = "ACTIVABLE"}
      /\ sleep \in Seq(Pid) /\ NoDup(sleep)
      /\ Elems(sleep) = {r \in Pid : state[r] = "ASLEEP"}
  BY DEF IInv, TypeOK, QueuesMatchStates
<1>3. /\ ActWithout(p) \in Seq(Pid) /\ NoDup(ActWithout(p))
      /\ Elems(ActWithout(p)) = {r \in Pid : state[r] = "ACTIVABLE"} \ {p}
  <2>1. CASE state[p] = "ACTIVABLE"
    BY <2>1, <1>1, <1>2, QueueDelElems DEF ActWithout
  <2>2. CASE state[p] # "ACTIVABLE"
    BY <2>2, <1>2 DEF ActWithout
  <2> QED BY <2>1, <2>2
<1>4. /\ sleep' \in Seq(Pid) /\ NoDup(sleep')
      /\ Elems(sleep') = {r \in Pid : state[r] = "ASLEEP"} \ {p}
  <2>1. CASE state[p] = "ASLEEP"
    BY <2>1, <1>1, <1>2, QueueDelElems DEF SleepWithout
  <2>2. CASE state[p] # "ASLEEP"
    BY <2>2, <1>1, <1>2 DEF SleepWithout
  <2> QED BY <2>1, <2>2
<1> DEFINE F == {r \in {p} : ppid[p] < 0}
<1>5. \/ F = {} /\ (p = cur \/ ppid[p] # Orphan)
      \/ F = {p} /\ p # cur /\ ppid[p] = Orphan
  <2>1. ppid[p] \in Nat \/ ppid[p] = Orphan
    BY PidFacts DEF IInv, TypeOK
  <2> QED BY <2>1, <1>1 DEF Orphan
<1>6. state[p] \notin Terminated \cup {"NONE"}
  BY <1>1 DEF Terminated
<1>7. Finish(p, 0, ActWithout(p), F)
  BY <1>1
<1> HIDE DEF F
<1> QED BY <1>1, <1>3, <1>4, <1>5, <1>6, <1>7, FinishIInv

-----------------------------------------------------------------------------
(* waitpid *)

\* The caller frees the zombie child c: blocked holds the caller when it
\* comes back from ordonnance, and no longer holds it afterwards.
LEMMA ReapIInv ==
  ASSUME IInv, NEW c, c \in children[cur], state[c] = "ZOMBIE", state[cur] = "CHOSEN",
         Reap(c), blocked' = blocked \ {cur},
         pc # "undefined", pc' = "user"
  PROVE  IInv'
<1>1. /\ cur \in Pid /\ c \in Pid \ {Idle} /\ c # cur
      /\ ppid[c] = cur /\ c # Orphan /\ c \notin blocked
  <2>1. cur \in Pid
    BY DEF IInv, TypeOK
  <2>2. children[cur] = {d \in Pid \ {Idle} : state[d] # "NONE" /\ ppid[d] = cur}
    BY <2>1 DEF IInv, FamilyTree
  <2>3. c \in Pid \ {Idle} /\ ppid[c] = cur /\ c # cur
    BY <2>2
  <2>4. c # Orphan
    BY <2>3, PidFacts
  <2>5. c \notin blocked
    BY DEF IInv, BlockedInWaitpid
  <2> QED BY <2>1, <2>3, <2>4, <2>5
<1>2. /\ state' = [state EXCEPT ![c] = "NONE"]
      /\ ppid' = [ppid EXCEPT ![c] = Orphan]
      /\ prio' = [prio EXCEPT ![c] = 0]
      /\ wake' = [wake EXCEPT ![c] = 0]
      /\ s' = [s EXCEPT ![c] = 0]
      /\ children' = [children EXCEPT ![cur] = @ \ {c}, ![c] = {}]
      /\ freePids' = freePids \cup {c}
      /\ nbProcs' = nbProcs - Cardinality({c})
      /\ UNCHANGED <<pidIndex, act, sleep, dead, cur, clock>>
  BY DEF Reap, FreePids, sched
<1>3. Cardinality({c}) = 1 /\ IsFiniteSet({c})
  BY FS_Singleton
<1>4. /\ \A r \in Pid : state'[r] = IF r = c THEN "NONE" ELSE state[r]
      /\ \A r \in Pid : ppid'[r] = IF r = c THEN Orphan ELSE ppid[r]
      /\ \A r \in Pid : s'[r] = IF r = c THEN 0 ELSE s[r]
      /\ \A r \in Pid : children'[r] = IF r = c THEN {}
                                      ELSE IF r = cur THEN children[cur] \ {c}
                                      ELSE children[r]
      /\ UNCHANGED <<act, sleep, dead, cur>>
  BY <1>1, <1>2 DEF IInv, TypeOK
<1>5. TypeOK'
  <2>1. 0 \in 0..MaxPrio /\ 0 \in Clock
    BY ProcessAssumption DEF Clock
  <2>2. /\ state' \in [Pid -> States] /\ ppid' \in [Pid -> Pid \cup {Orphan}]
        /\ prio' \in [Pid -> 0..MaxPrio] /\ wake' \in [Pid -> Clock] /\ s' \in [Pid -> Int]
    BY <1>2, <2>1 DEF IInv, TypeOK, States
  <2>3. children' \in [Pid -> SUBSET (Pid \ {Idle})]
    <3>1. children[cur] \ {c} \in SUBSET (Pid \ {Idle})
      BY <1>1 DEF IInv, TypeOK
    <3> QED BY <1>2, <3>1 DEF IInv, TypeOK
  <2>4. /\ blocked' \subseteq Pid \ {Idle} /\ freePids' \subseteq Pid \ {Idle}
        /\ nbProcs' \in Int /\ pidIndex' \in 1..MaxProcs
    BY <1>1, <1>2, <1>3 DEF IInv, TypeOK
  <2>5. /\ act' \in Seq(Pid) /\ sleep' \in Seq(Pid) /\ dead' \in Seq(Pid)
        /\ cur' \in Pid /\ clock' \in Clock
    BY <1>2 DEF IInv, TypeOK
  <2> QED BY <2>2, <2>3, <2>4, <2>5 DEF TypeOK
<1>6. QueuesMatchStates'
  <2>1. \A r \in Pid : /\ state'[r] = "ACTIVABLE" <=> state[r] = "ACTIVABLE"
                       /\ state'[r] = "ASLEEP" <=> state[r] = "ASLEEP"
                       /\ state'[r] = "DYING" <=> state[r] = "DYING"
    BY <1>4
  <2> QED BY <2>1, <1>4 DEF IInv, QueuesMatchStates
<1>7. OneChosen' /\ IdleReady'
  BY <1>1, <1>4, PidFacts DEF IInv, OneChosen, IdleReady
<1>8. FamilyTree'
  <2>1. ASSUME NEW r \in Pid \ {Idle}, state'[r] # "NONE", ppid'[r] # Orphan
        PROVE  ppid'[r] # r /\ state'[ppid'[r]] \notin Terminated \cup {"NONE"}
    <3>1. r # c /\ state[r] # "NONE" /\ ppid'[r] = ppid[r]
      BY <2>1, <1>4
    <3>2. ppid[r] \in Pid /\ ppid[r] # r /\ state[ppid[r]] \notin Terminated \cup {"NONE"}
      BY <2>1, <3>1 DEF IInv, TypeOK, FamilyTree
    <3> QED BY <3>1, <3>2, <1>4 DEF Terminated
  <2>2. ASSUME NEW r \in Pid
        PROVE  children'[r] = {d \in Pid \ {Idle} : state'[d] # "NONE" /\ ppid'[d] = r}
    <3>1. children[r] = {d \in Pid \ {Idle} : state[d] # "NONE" /\ ppid[d] = r}
      BY DEF IInv, FamilyTree
    <3>2. CASE r = c
      <4>1. \A d \in Pid \ {Idle} : state[d] # "NONE" => ppid[d] # c
        BY <1>1 DEF IInv, FamilyTree, Terminated
      <4> QED BY <3>2, <4>1, <1>1, <1>4
    <3>3. CASE r # c
      <4>1. r # Orphan BY PidFacts
      <4> QED BY <3>1, <3>3, <4>1, <1>1, <1>4
    <3> QED BY <3>2, <3>3
  <2>3. \A r \in Pid : /\ state'[r] = "ZOMBIE" => ppid'[r] # Orphan
                       /\ state'[r] = "DYING" => ppid'[r] = Orphan
    BY <1>4 DEF IInv, FamilyTree
  <2> QED BY <2>1, <2>2, <2>3 DEF FamilyTree
<1>9. NoLostWait'
  <2> SUFFICES ASSUME NEW r \in Pid, state'[r] = "WAITPID"
               PROVE  LET t == IF s'[r] < 0 THEN children'[r] ELSE {s'[r]} IN
                        /\ t # {} /\ t \subseteq children'[r]
                        /\ \A d \in t : state'[d] # "ZOMBIE"
    BY DEF NoLostWait
  <2>1. state[r] = "WAITPID" /\ r # c /\ r # cur
    BY <1>4
  <2>2. children'[r] = children[r] /\ s'[r] = s[r] /\ children[r] \subseteq Pid
    BY <2>1, <1>4 DEF IInv, TypeOK
  <2> QED BY <2>1, <2>2, <1>4 DEF IInv, NoLostWait
<1>10. WaitedChildThere'
  <2> SUFFICES ASSUME NEW r \in blocked', state'[r] \in {"CHOSEN", "ACTIVABLE"}
               PROVE  s'[r] \in children'[r] /\ state'[s'[r]] = "ZOMBIE"
    BY DEF WaitedChildThere
  <2>1. r \in Pid /\ r \in blocked /\ r # c /\ r # cur
        /\ state'[r] = state[r] /\ children'[r] = children[r] /\ s'[r] = s[r]
    BY <1>1, <1>4 DEF IInv, TypeOK
  <2>2. s[r] \in children[r] /\ state[s[r]] = "ZOMBIE" /\ s[r] \in Pid
    BY <2>1 DEF IInv, TypeOK, WaitedChildThere
  <2>3. s[r] # c
    BY <2>1, <2>2, <1>1 DEF IInv, FamilyTree
  <2> QED BY <2>1, <2>2, <2>3, <1>4
<1>11. BlockedInWaitpid'
  <2>1. \A r \in blocked' : r \in Pid /\ r \in blocked /\ r # cur /\ r # c
    BY <1>1 DEF IInv, TypeOK
  <2>2. \A r \in blocked' : state'[r] \in {"WAITPID", "ACTIVABLE", "CHOSEN"}
    BY <2>1, <1>4 DEF IInv, BlockedInWaitpid
  <2>3. \A r \in Pid : state'[r] = "WAITPID" => r \in blocked'
    BY <1>4 DEF IInv, BlockedInWaitpid
  <2> QED BY <2>1, <2>2, <2>3, <1>4 DEF BlockedInWaitpid
<1>12. PidPool'
  <2>1. Live' = Live \ {c} /\ c \in Live
    BY <1>1, <1>4 DEF Live
  <2>2. Cardinality(Live \ {c}) = Cardinality(Live) - 1
    <3>1. IsFiniteSet(Live) BY PidFacts DEF Live
    <3> QED BY <2>1, <3>1, FS_RemoveElement
  <2> QED BY <2>1, <2>2, <1>2, <1>3 DEF IInv, PidPool
<1> QED BY <1>5, <1>6, <1>7, <1>8, <1>9, <1>10, <1>11, <1>12 DEF IInv

\* waitpid when a zombie is there.
LEMMA WaitpidZombieIInv ==
  ASSUME IInv, NEW t \in Targets, WaitpidZombie(t)
  PROVE  IInv'
<1>1. PICK c \in Awaited(t) : state[c] = "ZOMBIE" /\ Reap(c)
  BY DEF WaitpidZombie
<1>2. pc = "user" /\ pc' = "user" /\ blocked' = blocked /\ c \in children[cur]
  BY <1>1 DEF WaitpidZombie, User, Awaited
<1>3. state[cur] = "CHOSEN" /\ cur \notin blocked
  BY <1>2 DEF IInv, OneChosen, BlockedInWaitpid
<1>4. blocked' = blocked \ {cur}
  BY <1>2, <1>3
<1> QED BY <1>1, <1>2, <1>3, <1>4, ReapIInv

\* The end of a waitpid that has blocked: WaitedChildThere is what makes it
\* free the right process.
LEMMA WaitpidReturnIInv ==
  ASSUME IInv, WaitpidReturn
  PROVE  IInv'
<1>1. pc = "waitpid" /\ pc' = "user" /\ blocked' = blocked \ {cur} /\ Reap(s[cur])
  BY DEF WaitpidReturn
<1>2. state[cur] = "CHOSEN" /\ cur \in blocked
  BY <1>1 DEF IInv, OneChosen, BlockedInWaitpid
<1>3. s[cur] \in children[cur] /\ state[s[cur]] = "ZOMBIE"
  BY <1>2 DEF IInv, WaitedChildThere
<1> QED BY <1>1, <1>2, <1>3, ReapIInv

\* What a process does besides waiting for a child leaves the family tree
\* and the pid pool as they are.
Alive == {"CHOSEN", "ACTIVABLE", "ASLEEP", "WAITPID"}

\* Between two states where the family fields are the same and the processes
\* alive stay alive, FamilyTree is kept: the frame of the scheduling steps.
LEMMA FamilyStands ==
  ASSUME IInv, UNCHANGED <<ppid, children, nbProcs, pidIndex, freePids>>,
         \A r \in Pid : state'[r] = state[r] \/ {state[r], state'[r]} \subseteq Alive
  PROVE  FamilyTree' /\ PidPool'
<1>1. \A r \in Pid : /\ state'[r] = "NONE" <=> state[r] = "NONE"
                     /\ state'[r] = "ZOMBIE" <=> state[r] = "ZOMBIE"
                     /\ state'[r] = "DYING" <=> state[r] = "DYING"
  BY DEF Alive
<1>2. FamilyTree'
  <2>1. ASSUME NEW r \in Pid \ {Idle}, state'[r] # "NONE", ppid'[r] # Orphan
        PROVE  ppid'[r] # r /\ state'[ppid'[r]] \notin Terminated \cup {"NONE"}
    <3>1. ppid[r] \in Pid /\ ppid[r] # r /\ state[ppid[r]] \notin Terminated \cup {"NONE"}
      BY <2>1, <1>1 DEF IInv, TypeOK, FamilyTree
    <3> QED BY <3>1, <1>1 DEF Terminated
  <2>2. ASSUME NEW r \in Pid
        PROVE  children'[r] = {d \in Pid \ {Idle} : state'[d] # "NONE" /\ ppid'[d] = r}
    <3>1. children[r] = {d \in Pid \ {Idle} : state[d] # "NONE" /\ ppid[d] = r}
      BY DEF IInv, FamilyTree
    <3> QED BY <3>1, <1>1
  <2>3. \A r \in Pid : /\ state'[r] = "ZOMBIE" => ppid'[r] # Orphan
                       /\ state'[r] = "DYING" => ppid'[r] = Orphan
    BY <1>1 DEF IInv, FamilyTree
  <2> QED BY <2>1, <2>2, <2>3 DEF FamilyTree
<1>3. PidPool'
  <2>1. Live' = Live
    BY <1>1 DEF Live
  <2> QED BY <2>1 DEF IInv, PidPool
<1> QED BY <1>2, <1>3

\* Neither do the waits in progress change when a process that is in waitpid
\* moves between the ready queue and the processor, or another one anywhere.
LEMMA WaitsStand ==
  ASSUME IInv, UNCHANGED <<children, s, blocked>>,
         \A r \in Pid : \/ state'[r] = state[r]
                        \/ {state[r], state'[r]} \subseteq {"CHOSEN", "ACTIVABLE"}
                        \/ r \notin blocked /\ {state[r], state'[r]} \subseteq Alive \ {"WAITPID"}
  PROVE  NoLostWait' /\ WaitedChildThere'
<1>1. \A r \in Pid : /\ state'[r] = "WAITPID" <=> state[r] = "WAITPID"
                     /\ state'[r] = "ZOMBIE" <=> state[r] = "ZOMBIE"
  BY DEF Alive
<1>2. NoLostWait'
  <2> SUFFICES ASSUME NEW r \in Pid, state'[r] = "WAITPID"
               PROVE  LET t == IF s[r] < 0 THEN children[r] ELSE {s[r]} IN
                        /\ t # {} /\ t \subseteq children[r]
                        /\ \A d \in t : state'[d] # "ZOMBIE"
    BY DEF NoLostWait
  <2>1. state[r] = "WAITPID" /\ children[r] \subseteq Pid
    BY <1>1 DEF IInv, TypeOK
  <2> QED BY <2>1, <1>1 DEF IInv, NoLostWait
<1>3. WaitedChildThere'
  <2> SUFFICES ASSUME NEW r \in blocked, state'[r] \in {"CHOSEN", "ACTIVABLE"}
               PROVE  s[r] \in children[r] /\ state'[s[r]] = "ZOMBIE"
    BY DEF WaitedChildThere
  <2>1. r \in Pid /\ state[r] \in {"CHOSEN", "ACTIVABLE"}
    BY DEF IInv, TypeOK
  <2>2. s[r] \in children[r] /\ state[s[r]] = "ZOMBIE" /\ s[r] \in Pid
    BY <2>1 DEF IInv, TypeOK, WaitedChildThere
  <2> QED BY <2>2, <1>1
<1> QED BY <1>2, <1>3

\* waitpid when no child has terminated yet.
LEMMA WaitpidBlockIInv ==
  ASSUME IInv, NEW t \in Targets, WaitpidBlock(t)
  PROVE  IInv'
<1>1. /\ pc = "user" /\ pc' = "kill" /\ cur \in Pid \ {Idle} /\ state[cur] = "CHOSEN"
      /\ Awaited(t) # {} /\ \A c \in Awaited(t) : state[c] # "ZOMBIE"
      /\ t \in Int /\ (t > 0 \/ t < 0) /\ cur \notin blocked
  <2>1. t \in Int /\ (t > 0 \/ t < 0)
    BY PidFacts DEF Targets, Idle
  <2>2. /\ pc = "user" /\ pc' = "kill" /\ cur \in Pid \ {Idle}
        /\ Awaited(t) # {} /\ \A c \in Awaited(t) : state[c] # "ZOMBIE"
    BY DEF WaitpidBlock, User, IInv, TypeOK
  <2> QED BY <2>1, <2>2 DEF IInv, OneChosen, BlockedInWaitpid
<1>2. /\ state' = [state EXCEPT ![cur] = "WAITPID"]
      /\ s' = [s EXCEPT ![cur] = t]
      /\ blocked' = blocked \cup {cur}
      /\ UNCHANGED <<ppid, prio, wake, children, nbProcs, pidIndex, freePids>>
      /\ UNCHANGED <<act, sleep, dead, cur, clock>>
  BY DEF WaitpidBlock, pids, sched
<1>3. /\ \A r \in Pid : state'[r] = IF r = cur THEN "WAITPID" ELSE state[r]
      /\ \A r \in Pid : s'[r] = IF r = cur THEN t ELSE s[r]
  BY <1>1, <1>2 DEF IInv, TypeOK
<1>4. TypeOK'
  BY <1>1, <1>2 DEF IInv, TypeOK, States
<1>5. QueuesMatchStates'
  BY <1>1, <1>2, <1>3 DEF IInv, QueuesMatchStates
<1>6. OneChosen' /\ IdleReady'
  BY <1>1, <1>2, <1>3, PidFacts DEF IInv, OneChosen, IdleReady
<1>7. FamilyTree' /\ PidPool'
  <2>1. \A r \in Pid : state'[r] = state[r] \/ {state[r], state'[r]} \subseteq Alive
    BY <1>1, <1>3 DEF Alive
  <2> QED BY <2>1, <1>2, FamilyStands
<1>8. NoLostWait'
  <2> SUFFICES ASSUME NEW r \in Pid, state'[r] = "WAITPID"
               PROVE  LET u == IF s'[r] < 0 THEN children[r] ELSE {s'[r]} IN
                        /\ u # {} /\ u \subseteq children[r]
                        /\ \A d \in u : state'[d] # "ZOMBIE"
    BY <1>2 DEF NoLostWait
  <2>1. CASE r = cur
    <3>1. s'[r] = t
      BY <2>1, <1>3
    <3>2. children[cur] \subseteq Pid
      BY <1>1 DEF IInv, TypeOK
    <3> QED BY <2>1, <3>1, <3>2, <1>1, <1>3 DEF Awaited
  <2>2. CASE r # cur
    <3>1. state[r] = "WAITPID" /\ s'[r] = s[r] /\ children[r] \subseteq Pid
      BY <2>2, <1>3 DEF IInv, TypeOK
    <3> QED BY <3>1, <1>3 DEF IInv, NoLostWait
  <2> QED BY <2>1, <2>2
<1>9. WaitedChildThere'
  <2> SUFFICES ASSUME NEW r \in blocked', state'[r] \in {"CHOSEN", "ACTIVABLE"}
               PROVE  s'[r] \in children[r] /\ state'[s'[r]] = "ZOMBIE"
    BY <1>2 DEF WaitedChildThere
  <2>1. r \in Pid /\ r \in blocked /\ r # cur /\ state'[r] = state[r] /\ s'[r] = s[r]
    BY <1>1, <1>2, <1>3 DEF IInv, TypeOK
  <2>2. s[r] \in children[r] /\ state[s[r]] = "ZOMBIE" /\ s[r] \in Pid
    BY <2>1 DEF IInv, TypeOK, WaitedChildThere
  <2> QED BY <2>1, <2>2, <1>1, <1>3
<1>10. BlockedInWaitpid'
  BY <1>1, <1>2, <1>3 DEF IInv, TypeOK, BlockedInWaitpid
<1> QED BY <1>4, <1>5, <1>6, <1>7, <1>8, <1>9, <1>10 DEF IInv

-----------------------------------------------------------------------------
(* chprio, wait_clock, and the sleepers that wake up *)

\* chprio moves a process within the ready queue and changes nothing else.
LEMMA ChprioIInv ==
  ASSUME IInv, NEW p \in Pid, NEW n \in Prio, Chprio(p, n)
  PROVE  IInv'
<1>1. /\ pc = "user" /\ p # Idle
      /\ prio' = [prio EXCEPT ![p] = n]
      /\ act' = Requeued(p)
      /\ pc' = IF p = cur THEN "kill" ELSE "user"
      /\ UNCHANGED <<state, ppid, wake, s, children, blocked>>
      /\ UNCHANGED <<nbProcs, pidIndex, freePids, sleep, dead, cur, clock>>
  BY DEF Chprio, User, pids
<1>2. prio' \in [Pid -> 0..MaxPrio] /\ prio' \in [Pid -> Int]
  BY <1>1, ProcessAssumption DEF IInv, TypeOK, Prio
<1>3. act' \in Seq(Pid) /\ NoDup(act') /\ Elems(act') = Elems(act)
  <2>1. act \in Seq(Pid) /\ NoDup(act) /\ Elems(act) = {r \in Pid : state[r] = "ACTIVABLE"}
    BY DEF IInv, TypeOK, QueuesMatchStates
  <2>2. CASE state[p] = "ACTIVABLE"
    <3> DEFINE q == QueueDel(act, p)
    <3>1. q \in Seq(Pid) /\ NoDup(q) /\ Elems(q) = Elems(act) \ {p} /\ p \in Elems(act)
      BY <2>1, <2>2, QueueDelElems
    <3>2. act' = QueueAdd(q, p, prio')
      BY <2>2, <1>1 DEF Requeued
    <3> HIDE DEF q
    <3>3. /\ QueueAdd(q, p, prio') \in Seq(Pid) /\ NoDup(QueueAdd(q, p, prio'))
          /\ Elems(QueueAdd(q, p, prio')) = Elems(q) \cup {p}
      BY <3>1, <1>2, QueueAddElems
    <3> QED BY <3>1, <3>2, <3>3
  <2>3. CASE state[p] # "ACTIVABLE"
    BY <2>1, <2>3, <1>1 DEF Requeued
  <2> QED BY <2>2, <2>3
<1>4. TypeOK'
  BY <1>1, <1>2, <1>3 DEF IInv, TypeOK
<1>5. QueuesMatchStates'
  BY <1>1, <1>3 DEF IInv, QueuesMatchStates
<1>6. OneChosen' /\ IdleReady'
  BY <1>1 DEF IInv, OneChosen, IdleReady
<1>7. FamilyTree' /\ PidPool'
  BY <1>1, FamilyStands
<1>8. NoLostWait' /\ WaitedChildThere'
  BY <1>1, WaitsStand
<1>9. BlockedInWaitpid'
  BY <1>1 DEF IInv, OneChosen, BlockedInWaitpid
<1> QED BY <1>4, <1>5, <1>6, <1>7, <1>8, <1>9 DEF IInv

\* wait_clock puts the caller to sleep.
LEMMA WaitClockIInv ==
  ASSUME IInv, NEW w \in Clock, WaitClock(w)
  PROVE  IInv'
<1>1. /\ pc = "user" /\ pc' = "kill"
      /\ state' = [state EXCEPT ![cur] = "ASLEEP"]
      /\ wake' = [wake EXCEPT ![cur] = w]
      /\ sleep' = QueueAdd(sleep, cur, wake')
      /\ UNCHANGED <<ppid, prio, s, children, blocked, nbProcs, pidIndex, freePids>>
      /\ UNCHANGED <<act, dead, cur, clock>>
  BY DEF WaitClock, User, pids
<1>2. cur \in Pid \ {Idle} /\ state[cur] = "CHOSEN" /\ cur \notin blocked
  BY <1>1 DEF IInv, TypeOK, OneChosen, BlockedInWaitpid, WaitClock, User
<1>3. \A r \in Pid : state'[r] = IF r = cur THEN "ASLEEP" ELSE state[r]
  BY <1>1, <1>2 DEF IInv, TypeOK
<1>4. wake' \in [Pid -> Clock] /\ wake' \in [Pid -> Int]
  BY <1>1, ProcessAssumption DEF IInv, TypeOK, Clock
<1>5. sleep' \in Seq(Pid) /\ NoDup(sleep') /\ Elems(sleep') = Elems(sleep) \cup {cur}
  <2>1. sleep \in Seq(Pid) /\ NoDup(sleep) /\ cur \notin Elems(sleep)
    BY <1>2 DEF IInv, TypeOK, QueuesMatchStates
  <2>2. /\ QueueAdd(sleep, cur, wake') \in Seq(Pid)
        /\ NoDup(QueueAdd(sleep, cur, wake'))
        /\ Elems(QueueAdd(sleep, cur, wake')) = Elems(sleep) \cup {cur}
    BY <2>1, <1>2, <1>4, QueueAddElems
  <2> QED BY <2>2, <1>1
<1>6. TypeOK'
  BY <1>1, <1>2, <1>4, <1>5 DEF IInv, TypeOK, States
<1>7. QueuesMatchStates'
  <2>1. Elems(act') = {r \in Pid : state'[r] = "ACTIVABLE"} /\ NoDup(act')
    BY <1>1, <1>2, <1>3 DEF IInv, QueuesMatchStates
  <2>2. Elems(sleep') = {r \in Pid : state'[r] = "ASLEEP"} /\ NoDup(sleep')
    BY <1>2, <1>3, <1>5 DEF IInv, QueuesMatchStates
  <2>3. Elems(dead') = {r \in Pid : state'[r] = "DYING"} \ {cur'} /\ NoDup(dead')
    BY <1>1, <1>2, <1>3 DEF IInv, QueuesMatchStates
  <2> QED BY <2>1, <2>2, <2>3 DEF QueuesMatchStates
<1>8. OneChosen' /\ IdleReady'
  BY <1>1, <1>2, <1>3, PidFacts DEF IInv, OneChosen, IdleReady
<1>9. FamilyTree' /\ PidPool'
  <2>1. \A r \in Pid : state'[r] = state[r] \/ {state[r], state'[r]} \subseteq Alive
    BY <1>2, <1>3 DEF Alive
  <2> QED BY <2>1, <1>1, FamilyStands
<1>10. NoLostWait' /\ WaitedChildThere'
  <2>1. \A r \in Pid :
          \/ state'[r] = state[r]
          \/ r \notin blocked /\ {state[r], state'[r]} \subseteq Alive \ {"WAITPID"}
    BY <1>2, <1>3 DEF Alive
  <2> QED BY <2>1, <1>1, WaitsStand
<1>11. BlockedInWaitpid'
  BY <1>1, <1>2, <1>3 DEF IInv, TypeOK, BlockedInWaitpid
<1> QED BY <1>6, <1>7, <1>8, <1>9, <1>10, <1>11 DEF IInv

\* A sleeping process is moved to the ready queue, in the middle of ordonnance
\* or of abort_shell_wait.
LEMMA AwakenIInv ==
  ASSUME IInv, NEW p, p \in Elems(sleep), Awaken(p),
         \/ pc = "wake" /\ pc' = "wake"
         \/ cur = Idle /\ pc \in {"user", "abort"} /\ pc' \in {"user", "abort"}
  PROVE  IInv'
<1>1. /\ state' = [state EXCEPT ![p] = "ACTIVABLE"]
      /\ sleep' = QueueDel(sleep, p)
      /\ act' = QueueAdd(act, p, prio)
      /\ UNCHANGED <<ppid, prio, wake, s, children, blocked, nbProcs, pidIndex, freePids>>
      /\ UNCHANGED <<dead, cur, clock>>
  BY DEF Awaken, pids
<1>2. p \in Pid /\ state[p] = "ASLEEP" /\ p # Idle /\ p \notin blocked
  <2>1. p \in Pid /\ state[p] = "ASLEEP"
    BY DEF IInv, QueuesMatchStates
  <2> QED BY <2>1 DEF IInv, IdleReady, BlockedInWaitpid
<1>3. \A r \in Pid : state'[r] = IF r = p THEN "ACTIVABLE" ELSE state[r]
  BY <1>1, <1>2 DEF IInv, TypeOK
<1>4. sleep' \in Seq(Pid) /\ NoDup(sleep') /\ Elems(sleep') = Elems(sleep) \ {p}
  BY <1>1, QueueDelElems DEF IInv, TypeOK, QueuesMatchStates
<1>5. act' \in Seq(Pid) /\ NoDup(act') /\ Elems(act') = Elems(act) \cup {p}
  <2>1. act \in Seq(Pid) /\ NoDup(act) /\ p \notin Elems(act)
    BY <1>2 DEF IInv, TypeOK, QueuesMatchStates
  <2>2. prio \in [Pid -> Int]
    BY Keys DEF IInv
  <2>3. /\ QueueAdd(act, p, prio) \in Seq(Pid) /\ NoDup(QueueAdd(act, p, prio))
        /\ Elems(QueueAdd(act, p, prio)) = Elems(act) \cup {p}
    BY <2>1, <2>2, <1>2, QueueAddElems
  <2> QED BY <2>3, <1>1
<1>6. TypeOK'
  BY <1>1, <1>2, <1>4, <1>5 DEF IInv, TypeOK, States
<1>7. QueuesMatchStates'
  BY <1>1, <1>2, <1>3, <1>4, <1>5 DEF IInv, QueuesMatchStates
<1>8. OneChosen' /\ IdleReady'
  BY <1>1, <1>2, <1>3, PidFacts DEF IInv, OneChosen, IdleReady
<1>9. FamilyTree' /\ PidPool'
  <2>1. \A r \in Pid : state'[r] = state[r] \/ {state[r], state'[r]} \subseteq Alive
    BY <1>2, <1>3 DEF Alive
  <2> QED BY <2>1, <1>1, FamilyStands
<1>10. NoLostWait' /\ WaitedChildThere'
  <2>1. \A r \in Pid :
          \/ state'[r] = state[r]
          \/ r \notin blocked /\ {state[r], state'[r]} \subseteq Alive \ {"WAITPID"}
    BY <1>2, <1>3 DEF Alive
  <2> QED BY <2>1, <1>1, WaitsStand
<1>11. BlockedInWaitpid'
  BY <1>1, <1>2, <1>3 DEF IInv, TypeOK, BlockedInWaitpid
<1> QED BY <1>6, <1>7, <1>8, <1>9, <1>10, <1>11 DEF IInv

\* One turn of the loop of abort_shell_wait.
LEMMA AbortShellWaitIInv ==
  ASSUME IInv, AbortShellWait
  PROVE  IInv'
<1>1. /\ cur = Idle /\ sleep # <<>> /\ pc \in {"user", "abort"} /\ pc' \in {"user", "abort"}
      /\ Awaken(QueueTop(sleep))
  BY DEF AbortShellWait
<1>2. QueueTop(sleep) \in Elems(sleep)
  <2>1. sleep \in Seq(Pid)
    BY DEF IInv, TypeOK
  <2> QED BY <2>1, <1>1, QueueOutElems DEF IInv, QueuesMatchStates
<1> QED BY <1>1, <1>2, AwakenIInv

\* One turn of the loop of wake_procs.
LEMMA WakeProcsIInv ==
  ASSUME IInv, WakeProcs
  PROVE  IInv'
<1>1. sleep # <<>> /\ pc = "wake" /\ pc' = "wake" /\ Awaken(QueueBottom(sleep))
  BY DEF WakeProcs, SleeperDue
<1>2. QueueBottom(sleep) \in Elems(sleep)
  BY <1>1, QueueBottomElems DEF IInv, TypeOK
<1> QED BY <1>1, <1>2, AwakenIInv

-----------------------------------------------------------------------------
(* ordonnance *)

\* free_process of dying processes, which have neither parent nor child: all
\* those of head_dead by kill_procs, or one of them by kill.
LEMMA DyingFreedIInv ==
  ASSUME IInv, NEW F, F \subseteq {r \in Pid : state[r] = "DYING"} \ {cur},
         pc \in {"kill", "user"},
         \/ pc' = "wake" /\ F = {r \in Pid : state[r] = "DYING"} \ {cur} /\ dead' = <<>>
         \/ pc' = "undefined" /\ dead' = dead,
         state' = [p \in Pid |-> IF p \in F THEN "NONE" ELSE state[p]],
         ppid' = [p \in Pid |-> IF p \in F THEN Orphan ELSE ppid[p]],
         prio' = [p \in Pid |-> IF p \in F THEN 0 ELSE prio[p]],
         wake' = [p \in Pid |-> IF p \in F THEN 0 ELSE wake[p]],
         s' = [p \in Pid |-> IF p \in F THEN 0 ELSE s[p]],
         children' = [p \in Pid |-> IF p \in F THEN {} ELSE children[p]],
         FreePids(F),
         UNCHANGED <<blocked, act, sleep, cur, clock>>
  PROVE  IInv'
<1>1. /\ freePids' = freePids \cup F
      /\ nbProcs' = nbProcs - Cardinality(F)
      /\ UNCHANGED <<pidIndex, blocked, act, sleep, cur, clock>>
      /\ pc \in {"kill", "user"} /\ pc' \in {"wake", "undefined"}
  BY DEF FreePids
<1>2. \A r \in F : r \in Pid /\ state[r] = "DYING" /\ r # cur
  OBVIOUS
<1>3. /\ \A r \in Pid : state'[r] = IF r \in F THEN "NONE" ELSE state[r]
      /\ \A r \in Pid : ppid'[r] = IF r \in F THEN Orphan ELSE ppid[r]
      /\ \A r \in Pid : s'[r] = IF r \in F THEN 0 ELSE s[r]
      /\ \A r \in Pid : children'[r] = IF r \in F THEN {} ELSE children[r]
  OBVIOUS
<1>4. F \subseteq Pid /\ Idle \notin F /\ cur \notin F /\ cur \in Pid
      /\ \A r \in F : state[r] = "DYING" /\ ppid[r] = Orphan /\ r \notin blocked
  BY <1>2 DEF IInv, TypeOK, IdleReady, FamilyTree, BlockedInWaitpid
<1>5. Cardinality(F) \in Nat /\ IsFiniteSet(F)
  BY <1>4, PidFacts
<1>6. TypeOK'
  <2>1. 0 \in 0..MaxPrio /\ 0 \in Clock
    BY ProcessAssumption DEF Clock
  <2>2. /\ state' \in [Pid -> States] /\ ppid' \in [Pid -> Pid \cup {Orphan}]
        /\ prio' \in [Pid -> 0..MaxPrio] /\ wake' \in [Pid -> Clock] /\ s' \in [Pid -> Int]
    BY <2>1 DEF IInv, TypeOK, States
  <2>3. children' \in [Pid -> SUBSET (Pid \ {Idle})]
    BY DEF IInv, TypeOK
  <2>4. freePids' \subseteq Pid \ {Idle} /\ nbProcs' \in Int
    BY <1>1, <1>4, <1>5 DEF IInv, TypeOK
  <2>5. /\ blocked' \subseteq Pid \ {Idle} /\ pidIndex' \in 1..MaxProcs
        /\ act' \in Seq(Pid) /\ sleep' \in Seq(Pid)
        /\ cur' \in Pid /\ clock' \in Clock
    BY <1>1 DEF IInv, TypeOK
  <2>6. dead' \in Seq(Pid) /\ pc' \in {"wake", "undefined"}
    <3>1. dead \in Seq(Pid) /\ <<>> \in Seq(Pid)
      BY EmptySeq DEF IInv, TypeOK
    <3> QED BY <3>1
  <2> QED BY <2>2, <2>3, <2>4, <2>5, <2>6 DEF TypeOK
<1>7. QueuesMatchStates'
  <2>1. Elems(act') = {r \in Pid : state'[r] = "ACTIVABLE"} /\ NoDup(act')
    BY <1>1, <1>3, <1>4 DEF IInv, QueuesMatchStates
  <2>2. Elems(sleep') = {r \in Pid : state'[r] = "ASLEEP"} /\ NoDup(sleep')
    BY <1>1, <1>3, <1>4 DEF IInv, QueuesMatchStates
  <2>3. NoDup(dead')
    <3>1. NoDup(<<>>)
      BY ElemsEmpty, EmptySeq
    <3> QED BY <3>1 DEF IInv, QueuesMatchStates
  <2>4. ASSUME pc' # "undefined"
        PROVE  Elems(dead') = {r \in Pid : state'[r] = "DYING"} \ {cur'}
    <3>1. Elems(<<>>) = {}
      BY ElemsEmpty, EmptySeq
    <3>2. \A r \in Pid : state'[r] = "DYING" => r = cur
      BY <2>4, <1>3
    <3> QED BY <2>4, <3>1, <3>2, <1>1
  <2> QED BY <2>1, <2>2, <2>3, <2>4 DEF QueuesMatchStates
<1>8. OneChosen' /\ IdleReady'
  BY <1>1, <1>3, <1>4, PidFacts DEF IInv, OneChosen, IdleReady
<1>9. FamilyTree'
  <2>1. ASSUME NEW r \in Pid \ {Idle}, state'[r] # "NONE", ppid'[r] # Orphan
        PROVE  ppid'[r] # r /\ state'[ppid'[r]] \notin Terminated \cup {"NONE"}
    <3>1. r \notin F /\ state[r] # "NONE" /\ ppid'[r] = ppid[r]
      BY <2>1, <1>3
    <3>2. ppid[r] \in Pid /\ ppid[r] # r /\ state[ppid[r]] \notin Terminated \cup {"NONE"}
      BY <2>1, <3>1 DEF IInv, TypeOK, FamilyTree
    <3> QED BY <3>1, <3>2, <1>3, <1>4 DEF Terminated
  <2>2. ASSUME NEW r \in Pid
        PROVE  children'[r] = {d \in Pid \ {Idle} : state'[d] # "NONE" /\ ppid'[d] = r}
    <3>1. children[r] = {d \in Pid \ {Idle} : state[d] # "NONE" /\ ppid[d] = r} /\ r # Orphan
      BY PidFacts DEF IInv, FamilyTree
    <3>2. CASE r \in F
      <4>1. \A d \in Pid \ {Idle} : state[d] # "NONE" => ppid[d] # r
        BY <3>1, <3>2, <1>4 DEF IInv, FamilyTree, Terminated
      <4> QED BY <3>1, <3>2, <4>1, <1>3
    <3>3. CASE r \notin F
      <4>1. \A d \in Pid \ {Idle} : state'[d] # "NONE" /\ ppid'[d] = r
                                    <=> state[d] # "NONE" /\ ppid[d] = r
        BY <3>1, <1>3, <1>4
      <4> QED BY <3>1, <3>3, <4>1, <1>3
    <3> QED BY <3>2, <3>3
  <2>3. \A r \in Pid : /\ state'[r] = "ZOMBIE" => ppid'[r] # Orphan
                       /\ state'[r] = "DYING" => ppid'[r] = Orphan
    BY <1>3 DEF IInv, FamilyTree
  <2> QED BY <2>1, <2>2, <2>3 DEF FamilyTree
<1>10. NoLostWait'
  <2> SUFFICES ASSUME NEW r \in Pid, state'[r] = "WAITPID"
               PROVE  LET t == IF s'[r] < 0 THEN children'[r] ELSE {s'[r]} IN
                        /\ t # {} /\ t \subseteq children'[r]
                        /\ \A d \in t : state'[d] # "ZOMBIE"
    BY DEF NoLostWait
  <2>1. state[r] = "WAITPID" /\ s'[r] = s[r] /\ children'[r] = children[r] /\ children[r] \subseteq Pid
    BY <1>3 DEF IInv, TypeOK
  <2> QED BY <2>1, <1>3 DEF IInv, NoLostWait
<1>11. WaitedChildThere'
  <2> SUFFICES ASSUME NEW r \in blocked, state'[r] \in {"CHOSEN", "ACTIVABLE"}
               PROVE  s'[r] \in children'[r] /\ state'[s'[r]] = "ZOMBIE"
    BY <1>1 DEF WaitedChildThere
  <2>1. r \in Pid /\ state'[r] = state[r] /\ s'[r] = s[r] /\ children'[r] = children[r]
    BY <1>3 DEF IInv, TypeOK
  <2>2. s[r] \in children[r] /\ state[s[r]] = "ZOMBIE" /\ s[r] \in Pid
    BY <2>1 DEF IInv, TypeOK, WaitedChildThere
  <2> QED BY <2>1, <2>2, <1>3, <1>4
<1>12. BlockedInWaitpid'
  <2>1. cur \in blocked => state[cur] # "CHOSEN"
    BY <1>1 DEF IInv, BlockedInWaitpid
  <2> QED BY <2>1, <1>1, <1>3, <1>4 DEF IInv, TypeOK, BlockedInWaitpid
<1>13. PidPool'
  <2>1. Live' = Live \ F /\ F \subseteq Live
    BY <1>3, <1>4 DEF Live
  <2>2. Cardinality(Live \ F) = Cardinality(Live) - Cardinality(F)
    <3>1. IsFiniteSet(Live) /\ Live \cap F = F
      BY <2>1, PidFacts DEF Live
    <3>2. Cardinality(Live \ F) = Cardinality(Live) - Cardinality(Live \cap F)
      BY <3>1, FS_Difference
    <3> QED BY <3>1, <3>2
  <2> QED BY <2>1, <2>2, <1>1 DEF IInv, PidPool
<1> QED BY <1>6, <1>7, <1>8, <1>9, <1>10, <1>11, <1>12, <1>13 DEF IInv

\* kill_procs frees what head_dead holds.
LEMMA KillProcsIInv ==
  ASSUME IInv, KillProcs
  PROVE  IInv'
<1> DEFINE F == Elems(dead)
<1>1. pc = "kill"
  BY DEF KillProcs
<1>2. F = {r \in Pid : state[r] = "DYING"} \ {cur}
  BY <1>1 DEF IInv, QueuesMatchStates
<1>3. /\ pc' = "wake" /\ dead' = <<>>
      /\ state' = [p \in Pid |-> IF p \in F THEN "NONE" ELSE state[p]]
      /\ ppid' = [p \in Pid |-> IF p \in F THEN Orphan ELSE ppid[p]]
      /\ prio' = [p \in Pid |-> IF p \in F THEN 0 ELSE prio[p]]
      /\ wake' = [p \in Pid |-> IF p \in F THEN 0 ELSE wake[p]]
      /\ s' = [p \in Pid |-> IF p \in F THEN 0 ELSE s[p]]
      /\ children' = [p \in Pid |-> IF p \in F THEN {} ELSE children[p]]
      /\ FreePids(F)
      /\ UNCHANGED <<blocked, act, sleep, cur, clock>>
  BY DEF KillProcs, Wipe
<1> HIDE DEF F
<1> QED BY <1>1, <1>2, <1>3, DyingFreedIInv

\* The kill of a dying process.
LEMMA KillDyingIInv ==
  ASSUME IInv, NEW p \in Pid, KillDying(p)
  PROVE  IInv'
<1>1. pc = "user" /\ pc' = "undefined" /\ UNCHANGED <<sleep, dead, cur, clock>>
      /\ state[p] = "DYING" /\ Finish(p, 0, act, {p})
  BY DEF KillDying, User
<1>2. state[cur] = "CHOSEN" /\ ppid[p] = Orphan /\ p \notin blocked
  BY <1>1 DEF IInv, OneChosen, FamilyTree, BlockedInWaitpid
<1>3. children[p] = {} /\ ZombieChildren(p) = {}
  <2>1. children[p] = {d \in Pid \ {Idle} : state[d] # "NONE" /\ ppid[d] = p} /\ p # Orphan
    BY PidFacts DEF IInv, FamilyTree
  <2>2. \A d \in Pid \ {Idle} : state[d] # "NONE" => ppid[d] # p
    BY <2>1, <1>1 DEF IInv, FamilyTree, Terminated
  <2>3. children[p] = {}
    BY <2>1, <2>2
  <2> QED BY <2>3 DEF ZombieChildren
<1>4. ~ ParentWaits(p)
  BY <1>2 DEF ParentWaits, Orphan
<1> DEFINE F == {p}
<1>5. /\ state' = [r \in Pid |-> IF r \in F THEN "NONE" ELSE state[r]]
      /\ s' = [r \in Pid |-> IF r \in F THEN 0 ELSE s[r]]
      /\ ppid' = [r \in Pid |-> IF r \in F THEN Orphan ELSE ppid[r]]
      /\ children' = [r \in Pid |-> IF r \in F THEN {} ELSE children[r]]
      /\ prio' = [r \in Pid |-> IF r \in F THEN 0 ELSE prio[r]]
      /\ wake' = [r \in Pid |-> IF r \in F THEN 0 ELSE wake[r]]
      /\ FreePids(F)
  <2> DEFINE gone == ZombieChildren(p) \cup {p}
  <2>1. gone = F /\ gone \cup {p} = F /\ Orphans(p) \cup {p} = F
    BY <1>3 DEF Orphans
  <2>2. /\ s' = Wipe([r \in Pid |-> IF r = p THEN 0 ELSE WaitResult(p, r)], F, 0)
        /\ state' = [r \in Pid |-> IF r \in F THEN "NONE" ELSE state[r]]
        /\ ppid' = Wipe(ppid, F, Orphan) /\ children' = Wipe(children, F, {})
        /\ prio' = Wipe(prio, F, 0) /\ wake' = Wipe(wake, F, 0) /\ FreePids(F)
    BY <1>1, <1>4, <2>1 DEF Finish, Wipe
  <2>3. \A r \in Pid : WaitResult(p, r) = s[r]
    BY <1>4 DEF WaitResult
  <2> QED BY <2>2, <2>3 DEF Wipe
<1>6. /\ blocked' = blocked
      /\ act' = act
  BY <1>1, <1>2, <1>3, <1>4 DEF Finish
<1> HIDE DEF F
<1>7. F \subseteq {r \in Pid : state[r] = "DYING"} \ {cur}
  BY <1>1, <1>2 DEF F
<1> QED BY <1>1, <1>5, <1>6, <1>7, DyingFreedIInv

\* The end of ordonnance: the outgoing process is chained where its state
\* says, the elected one is taken out of the ready queue.
LEMMA ElectIInv ==
  ASSUME IInv, Elect
  PROVE  IInv'
<1>1. cur \in Pid /\ pc = "wake" /\ state[cur] # "NONE" /\ prio \in [Pid -> Int]
  BY Keys DEF IInv, TypeOK, OneChosen, Elect
<1>2. /\ act \in Seq(Pid) /\ NoDup(act) /\ Elems(act) = {r \in Pid : state[r] = "ACTIVABLE"}
      /\ dead \in Seq(Pid) /\ NoDup(dead) /\ Elems(dead) = {r \in Pid : state[r] = "DYING"} \ {cur}
  BY <1>1 DEF IInv, TypeOK, QueuesMatchStates
<1> DEFINE out == state[cur] = "CHOSEN"
<1>3. /\ Ready \in Seq(Pid) /\ NoDup(Ready)
      /\ Elems(Ready) = {r \in Pid : state[r] = "ACTIVABLE" \/ (r = cur /\ out)}
  <2>1. CASE out
    <3>2. cur \notin Elems(act)
      BY <2>1, <1>2
    <3>1. /\ QueueAdd(act, cur, prio) \in Seq(Pid) /\ NoDup(QueueAdd(act, cur, prio))
          /\ Elems(QueueAdd(act, cur, prio)) = Elems(act) \cup {cur}
      BY <3>2, <1>1, <1>2, QueueAddElems
    <3> QED BY <2>1, <3>1, <1>1, <1>2 DEF Ready, Preempted
  <2>2. CASE ~ out
    BY <2>2, <1>2 DEF Ready, Preempted
  <2> QED BY <2>1, <2>2
<1>4. /\ Ready # <<>> /\ cur' = QueueTop(Ready) /\ act' = QueueOut(Ready)
      /\ dead' = IF state[cur] = "DYING" THEN QueueAdd(dead, cur, prio) ELSE dead
      /\ state' = [p \in Pid |-> IF p = cur' THEN "CHOSEN"
                                 ELSE IF p = cur /\ out THEN "ACTIVABLE"
                                 ELSE state[p]]
      /\ pc' = IF cur' \in blocked THEN "waitpid" ELSE "user"
      /\ UNCHANGED <<ppid, prio, wake, s, children, blocked, nbProcs, pidIndex, freePids>>
      /\ UNCHANGED <<sleep, clock>>
  BY DEF Elect, Preempted, Resumed, pids
<1>5. /\ cur' \in Elems(Ready) /\ cur' \in Pid
      /\ act' \in Seq(Pid) /\ NoDup(act') /\ Elems(act') = Elems(Ready) \ {cur'}
  BY <1>3, <1>4, QueueOutElems
<1>6. \A r \in Pid : state'[r] = IF r = cur' THEN "CHOSEN"
                                  ELSE IF r = cur /\ out THEN "ACTIVABLE" ELSE state[r]
  BY <1>4
<1>7. state[cur'] = "ACTIVABLE" \/ (cur' = cur /\ out)
  BY <1>3, <1>5
<1>8. \A r \in Pid : state[r] = "CHOSEN" => r = cur
  BY DEF IInv, OneChosen
<1> HIDE DEF out
<1>9. /\ dead' \in Seq(Pid) /\ NoDup(dead')
      /\ Elems(dead') = {r \in Pid : state'[r] = "DYING"} \ {cur'}
  <2>1. \A r \in Pid : r # cur' /\ state'[r] = "DYING" <=> state[r] = "DYING"
    BY <1>6, <1>7 DEF out
  <2>2. CASE state[cur] = "DYING"
    <3>1. /\ QueueAdd(dead, cur, prio) \in Seq(Pid) /\ NoDup(QueueAdd(dead, cur, prio))
          /\ Elems(QueueAdd(dead, cur, prio)) = Elems(dead) \cup {cur}
      BY <1>1, <1>2, QueueAddElems
    <3> QED BY <2>1, <2>2, <3>1, <1>1, <1>2, <1>4
  <2>3. CASE state[cur] # "DYING"
    BY <2>1, <2>3, <1>2, <1>4
  <2> QED BY <2>2, <2>3
<1>10. TypeOK'
  <2>1. state' \in [Pid -> States]
    BY <1>4 DEF IInv, TypeOK, States
  <2>2. pc' \in {"waitpid", "user"}
    BY <1>4
  <2> QED BY <2>1, <2>2, <1>4, <1>5, <1>9 DEF IInv, TypeOK
<1>11. QueuesMatchStates'
  <2>1. Elems(act') = {r \in Pid : state'[r] = "ACTIVABLE"}
    BY <1>3, <1>5, <1>6, <1>7
  <2>2. Elems(sleep') = {r \in Pid : state'[r] = "ASLEEP"} /\ NoDup(sleep')
    <3>1. \A r \in Pid : state'[r] = "ASLEEP" <=> state[r] = "ASLEEP"
      BY <1>6, <1>7 DEF out
    <3> QED BY <3>1, <1>4 DEF IInv, QueuesMatchStates
  <2> QED BY <2>1, <2>2, <1>5, <1>9 DEF QueuesMatchStates
<1>12. OneChosen' /\ IdleReady'
  BY <1>4, <1>5, <1>6, <1>8, PidFacts DEF IInv, OneChosen, IdleReady, out
<1>13. FamilyTree' /\ PidPool'
  <2>1. \A r \in Pid : state'[r] = state[r] \/ {state[r], state'[r]} \subseteq Alive
    BY <1>6, <1>7 DEF Alive, out
  <2> QED BY <2>1, <1>4, FamilyStands
<1>14. NoLostWait' /\ WaitedChildThere'
  <2>1. \A r \in Pid : \/ state'[r] = state[r]
                       \/ {state[r], state'[r]} \subseteq {"CHOSEN", "ACTIVABLE"}
    BY <1>6, <1>7 DEF out
  <2> QED BY <2>1, <1>4, WaitsStand
<1>15. BlockedInWaitpid'
  <2>1. \A r \in Pid : state'[r] = "WAITPID" <=> state[r] = "WAITPID"
    BY <1>6, <1>7 DEF out
  <2>2. \A r \in blocked : state'[r] \in {"WAITPID", "ACTIVABLE", "CHOSEN"}
    <3>1. \A r \in blocked : r \in Pid /\ state[r] \in {"WAITPID", "ACTIVABLE", "CHOSEN"}
      BY DEF IInv, TypeOK, BlockedInWaitpid
    <3> QED BY <3>1, <1>6
  <2> QED BY <2>1, <2>2, <1>4 DEF IInv, BlockedInWaitpid
<1> QED BY <1>10, <1>11, <1>12, <1>13, <1>14, <1>15 DEF IInv

-----------------------------------------------------------------------------
(* The steps that touch neither the table nor the queues. *)

\* The clock interrupt.
LEMMA TickIInv ==
  ASSUME IInv, Tick
  PROVE  IInv'
<1>1. /\ pc = "user" /\ pc' = "kill" /\ clock' = (clock + 1) % ClockMod
      /\ UNCHANGED <<state, ppid, prio, wake, s, children, blocked>>
      /\ UNCHANGED <<nbProcs, pidIndex, freePids, act, sleep, dead, cur>>
  BY DEF Tick, table, pids, sched
<1>2. clock' \in Clock
  <2>1. clock + 1 \in Nat /\ ClockMod \in Nat \ {0}
    BY ProcessAssumption DEF IInv, TypeOK, Clock
  <2> QED BY <2>1, <1>1 DEF Clock
<1>3. TypeOK'
  BY <1>1, <1>2 DEF IInv, TypeOK
<1>4. QueuesMatchStates' /\ OneChosen' /\ IdleReady'
  BY <1>1 DEF IInv, QueuesMatchStates, OneChosen, IdleReady
<1>5. FamilyTree' /\ PidPool' /\ NoLostWait' /\ WaitedChildThere'
  BY <1>1, FamilyStands, WaitsStand
<1>6. BlockedInWaitpid'
  BY <1>1 DEF IInv, BlockedInWaitpid, OneChosen
<1> QED BY <1>3, <1>4, <1>5, <1>6 DEF IInv

\* Steps that change nothing.
LEMMA StutterIInv ==
  ASSUME IInv, UNCHANGED vars
  PROVE  IInv'
<1>1. /\ UNCHANGED <<state, ppid, prio, wake, s, children, blocked>>
      /\ UNCHANGED <<nbProcs, pidIndex, freePids, act, sleep, dead, cur, clock, pc>>
  BY DEF vars, table, pids, sched
<1>2. TypeOK' /\ QueuesMatchStates'
  BY <1>1 DEF IInv, TypeOK, QueuesMatchStates
<1>3. OneChosen' /\ IdleReady' /\ BlockedInWaitpid'
  BY <1>1 DEF IInv, OneChosen, IdleReady, BlockedInWaitpid
<1>4. FamilyTree' /\ PidPool' /\ NoLostWait' /\ WaitedChildThere'
  BY <1>1, FamilyStands, WaitsStand
<1> QED BY <1>2, <1>3, <1>4 DEF IInv

-----------------------------------------------------------------------------
\* Every step of the kernel keeps IInv.
LEMMA NextIInv == IInv /\ [Next]_vars => IInv'
<1> SUFFICES ASSUME IInv, [Next]_vars PROVE IInv'
  OBVIOUS
<1>1. CASE LaunchShell
  <2>1. pc \in {"boot", "user"} /\ ShellPrio \in Prio /\ Create(ShellPrio)
    BY <1>1, ProcessAssumption DEF LaunchShell, Prio
  <2> QED BY <2>1, CreateIInv
<1>2. ASSUME NEW n \in Prio, Start(n) PROVE IInv'
  <2>1. pc \in {"boot", "user"} /\ Create(n)
    BY <1>2 DEF Start, User
  <2> QED BY <2>1, CreateIInv
<1>3. ASSUME NEW v \in RetVals \cup {0}, Exit(v) PROVE IInv'
  BY <1>3, ExitIInv
<1>4. ASSUME NEW p \in Pid, Kill(p) PROVE IInv'
  BY <1>4, KillIInv
<1>5. ASSUME NEW p \in Pid, KillDying(p) PROVE IInv'
  BY <1>5, KillDyingIInv
<1>6. ASSUME NEW t \in Targets, WaitpidZombie(t) PROVE IInv'
  BY <1>6, WaitpidZombieIInv
<1>7. ASSUME NEW t \in Targets, WaitpidBlock(t) PROVE IInv'
  BY <1>7, WaitpidBlockIInv
<1>8. CASE WaitpidReturn
  BY <1>8, WaitpidReturnIInv
<1>9. ASSUME NEW p \in Pid, NEW n \in Prio, Chprio(p, n) PROVE IInv'
  BY <1>9, ChprioIInv
<1>10. ASSUME NEW w \in Clock, WaitClock(w) PROVE IInv'
  BY <1>10, WaitClockIInv
<1>11. CASE AbortShellWait
  BY <1>11, AbortShellWaitIInv
<1>12. CASE Tick
  BY <1>12, TickIInv
<1>13. CASE Ordonnance
  BY <1>13, KillProcsIInv, WakeProcsIInv, ElectIInv DEF Ordonnance
<1>14. CASE Undefined \/ UNCHANGED vars
  BY <1>14, StutterIInv DEF Undefined
<1> QED BY <1>1, <1>2, <1>3, <1>4, <1>5, <1>6, <1>7, <1>8, <1>9, <1>10, <1>11,
           <1>12, <1>13, <1>14 DEF Next

\* The invariant that all the others follow from: none of its parts is kept
\* by every step without some of the others.
THEOREM Invariance == Spec => []IInv
<1> QED BY InitIInv, NextIInv, PTL DEF Spec

\* The fields and globals of process.c keep their types: in particular the
\* pids in the lists and in ppid are those of existing entries of procs.
THEOREM TypeCorrect == Spec => []TypeOK
<1>1. IInv => TypeOK
  BY DEF IInv
<1> QED BY <1>1, Invariance, PTL

\* Whatever start, exit, kill, waitpid, chprio, sleeps and ticks do, every
\* process is chained once in the list its state names, and in no other.
THEOREM QueueDiscipline == Spec => []QueuesMatchStates
<1>1. IInv => QueuesMatchStates
  BY DEF IInv
<1> QED BY <1>1, Invariance, PTL

\* The running process is the one marked CHOSEN, and idle is always there
\* to be elected: the assert(cur_proc) of ordonnance holds.
THEOREM Processor == Spec => [](OneChosen /\ IdleReady)
<1>1. IInv => OneChosen /\ IdleReady
  BY DEF IInv
<1> QED BY <1>1, Invariance, PTL

\* Parents and children agree, and a zombie's parent has not terminated.
THEOREM Family == Spec => []FamilyTree
<1>1. IInv => FamilyTree
  BY DEF IInv
<1> QED BY <1>1, Invariance, PTL

\* The end of a child never misses the parent blocked in waitpid for it.
THEOREM NoMissedEnd == Spec => []NoLostWait
<1>1. IInv => NoLostWait
  BY DEF IInv
<1> QED BY <1>1, Invariance, PTL

\* The child that woke a parent out of waitpid is still a zombie when the
\* parent runs at last, whatever ran in between.
THEOREM WaitpidFindsChild == Spec => []WaitedChildThere
<1>1. IInv => WaitedChildThere
  BY DEF IInv
<1> QED BY <1>1, Invariance, PTL

\* No pid is handed out twice or lost, and nb_procs counts the live ones.
THEOREM PidAccounting == Spec => []PidPool
<1>1. IInv => PidPool
  BY DEF IInv
<1> QED BY <1>1, Invariance, PTL

\* get_new_pid never panics: the count it does not look at and the pids it
\* draws from agree.
THEOREM NoPidPanic == Spec => []PidAvailable
<1>1. IInv => PidAvailable
  <2> SUFFICES ASSUME IInv, nbProcs < MaxProcs PROVE NewPid \in Pid
    BY DEF PidAvailable
  <2>1. freePids \subseteq Pid /\ pidIndex \in 1..MaxProcs
    BY DEF IInv, TypeOK
  <2>2. CASE freePids # {}
    <3>1. freePids \subseteq Nat
      BY <2>1, PidFacts
    <3>2. \E p \in freePids : \A r \in freePids : p <= r
      BY <2>2, <3>1, LeastNat
    <3>3. NewPid \in freePids
      BY <2>2, <3>2 DEF NewPid
    <3> QED BY <2>1, <3>3
  <2>3. CASE freePids = {}
    <3>1. Live = 0..(pidIndex - 1)
      BY <2>3 DEF IInv, PidPool
    <3>2. Cardinality(0..(pidIndex - 1)) = pidIndex
      BY <2>1, ProcessAssumption, FS_Interval
    <3>3. pidIndex < MaxProcs
      BY <3>1, <3>2 DEF IInv, PidPool
    <3> QED BY <2>1, <2>3, <3>3, ProcessAssumption DEF NewPid, Pid
  <2> QED BY <2>2, <2>3
<1> QED BY <1>1, Invariance, PTL

-----------------------------------------------------------------------------
(* Termination. *)

\* The promises NoRevival and OnlyParentReaps make of a step.
Kept == TerminatedStay /\ ReapedByParent

\* Steps that create and free nobody, and touch only processes that go on
\* living.
Quiet ==
  /\ UNCHANGED ppid
  /\ \A r \in Pid : \/ state'[r] = state[r] /\ s'[r] = s[r]
                    \/ {state[r], state'[r]} \subseteq Alive

\* They revive and free nobody.
LEMMA QuietKept ==
  ASSUME IInv, Quiet
  PROVE  Kept
<1>1. \A r \in Pid : state[r] \in Terminated \cup {"NONE"} =>
        state'[r] = state[r] /\ s'[r] = s[r]
  BY DEF Quiet, Alive, Terminated
<1> QED BY <1>1 DEF Quiet, Kept, TerminatedStay, ReapedByParent, Terminated

\* start gives life to a pid that nobody had.
LEMMA CreateKept ==
  ASSUME IInv, NEW n, Create(n)
  PROVE  Kept
<1>1. NewPid \in Pid /\ state[NewPid] = "NONE"
  BY NewPidFree DEF Create
<1>2. /\ state' = [state EXCEPT ![NewPid] = "ACTIVABLE"]
      /\ ppid' = [ppid EXCEPT ![NewPid] = cur]
      /\ s' = s
  BY DEF Create
<1>3. \A r \in Pid : /\ state'[r] = IF r = NewPid THEN "ACTIVABLE" ELSE state[r]
                     /\ r # NewPid => ppid'[r] = ppid[r]
  BY <1>1, <1>2 DEF IInv, TypeOK
<1> QED BY <1>1, <1>2, <1>3 DEF Kept, TerminatedStay, ReapedByParent, Terminated

\* finish_process frees zombies of the process that terminates, and that
\* process itself if it is an orphan; the one it wakes was in waitpid.
LEMMA FinishKept ==
  ASSUME IInv, NEW p \in Pid, state[p] \notin {"ZOMBIE", "NONE"},
         NEW v, NEW queue, NEW F, F \subseteq {p}, state[p] = "DYING" => F = {p},
         Finish(p, v, queue, F)
  PROVE  Kept
<1> DEFINE gone == ZombieChildren(p) \cup F
<1>1. /\ gone \subseteq Pid /\ F \subseteq {p}
      /\ \A r \in gone : r = p \/ (state[r] = "ZOMBIE" /\ ppid[r] = p)
  BY DEF IInv, TypeOK, FamilyTree, ZombieChildren
<1>2. /\ \A r \in Pid : state'[r] = IF r \in gone THEN "NONE"
                                  ELSE IF r = p THEN (IF ppid[p] >= 0 THEN "ZOMBIE" ELSE "DYING")
                                  ELSE IF ParentWaits(p) /\ r = ppid[p] THEN "ACTIVABLE"
                                  ELSE state[r]
      /\ \A r \in Pid : s'[r] = IF r \in gone THEN 0
                              ELSE IF r = p THEN v ELSE WaitResult(p, r)
      /\ \A r \in Pid : ppid'[r] = IF r \in Orphans(p) \cup F THEN Orphan ELSE ppid[r]
  BY DEF Finish, Wipe
<1> HIDE DEF gone
<1>3. ASSUME NEW r \in Pid, state[r] \in Terminated
      PROVE  \/ state'[r] = state[r] /\ s'[r] = s[r] /\ ppid'[r] = ppid[r]
             \/ state'[r] = "NONE"
  <2>1. CASE r \in gone
    BY <2>1, <1>2
  <2>2. CASE r \notin gone
    <3>1. r # p
      BY <1>3, <2>2 DEF gone, Terminated
    <3>2. ~ (ParentWaits(p) /\ r = ppid[p])
      BY <1>3 DEF ParentWaits, Terminated
    <3>3. r \notin Orphans(p) \cup F
      <4>1. r \notin children[p]
        BY <1>3, <2>2, PidFacts DEF gone, ZombieChildren, Terminated, IInv, FamilyTree
      <4> QED BY <4>1, <3>1 DEF Orphans
    <3> QED BY <2>2, <3>1, <3>2, <3>3, <1>2 DEF WaitResult
  <2> QED BY <2>1, <2>2
<1>4. ASSUME NEW r \in Pid, state[r] = "NONE"
      PROVE  state'[r] = "NONE"
  <2>1. r # p /\ r \notin gone
    BY <1>4, <1>1
  <2>2. ~ (ParentWaits(p) /\ r = ppid[p])
    BY <1>4 DEF ParentWaits
  <2> QED BY <1>2, <2>1, <2>2, <1>4
<1>5. ASSUME NEW r \in Pid, state[r] = "ZOMBIE", state'[r] = "NONE"
      PROVE  state'[ppid[r]] \in Terminated \cup {"NONE"}
  <2>1. r \in gone
    BY <1>5, <1>2
  <2>2. ppid[r] = p
    BY <2>1, <1>1, <1>5
  <2> QED BY <2>2, <1>2 DEF Terminated
<1> QED BY <1>3, <1>4, <1>5 DEF Kept, TerminatedStay, ReapedByParent

\* waitpid frees a zombie child of its caller.
LEMMA ReapKept ==
  ASSUME IInv, NEW c, c \in children[cur], state[c] = "ZOMBIE", Reap(c)
  PROVE  Kept
<1>1. c \in Pid /\ ppid[c] = cur
  BY DEF IInv, TypeOK, FamilyTree
<1>2. \A r \in Pid : /\ state'[r] = IF r = c THEN "NONE" ELSE state[r]
                     /\ r # c => ppid'[r] = ppid[r] /\ s'[r] = s[r]
  BY <1>1 DEF Reap, IInv, TypeOK
<1> QED BY <1>1, <1>2 DEF Kept, TerminatedStay, ReapedByParent, Terminated

\* kill_procs frees dying processes, which are nobody's zombies.
LEMMA KillProcsKept ==
  ASSUME IInv, KillProcs
  PROVE  Kept
<1> DEFINE F == Elems(dead)
<1>1. F = {r \in Pid : state[r] = "DYING"} \ {cur}
  BY DEF KillProcs, IInv, QueuesMatchStates
<1>2. \A r \in Pid : /\ state'[r] = IF r \in F THEN "NONE" ELSE state[r]
                     /\ r \notin F => ppid'[r] = ppid[r] /\ s'[r] = s[r]
  BY DEF KillProcs, Wipe
<1> HIDE DEF F
<1> QED BY <1>1, <1>2 DEF Kept, TerminatedStay, ReapedByParent, Terminated

\* add_proc_activable of a sleeper.
LEMMA AwakenQuiet ==
  ASSUME IInv, NEW p, p \in Elems(sleep), Awaken(p)
  PROVE  Quiet
<1>1. p \in Pid /\ state[p] = "ASLEEP"
  BY DEF IInv, QueuesMatchStates
<1>2. /\ \A r \in Pid : state'[r] = IF r = p THEN "ACTIVABLE" ELSE state[r]
      /\ UNCHANGED <<ppid, s>>
  BY <1>1 DEF Awaken, IInv, TypeOK
<1> QED BY <1>1, <1>2 DEF Quiet, Alive

\* ctx_sw: the one that stops and the one that starts were running or ready.
LEMMA ElectQuiet ==
  ASSUME IInv, Elect
  PROVE  Quiet
<1>1. cur' \in Pid /\ state[cur'] \in {"CHOSEN", "ACTIVABLE"}
  <2>1. cur \in Pid /\ act \in Seq(Pid) /\ NoDup(act) /\ prio \in [Pid -> Int]
        /\ Elems(act) = {r \in Pid : state[r] = "ACTIVABLE"}
    BY Keys DEF IInv, TypeOK, QueuesMatchStates
  <2>2. CASE Preempted(cur)
    <3>1. state[cur] = "CHOSEN" /\ cur \notin Elems(act) /\ Ready = QueueAdd(act, cur, prio)
      BY <2>1, <2>2 DEF Preempted, Ready
    <3>2. /\ QueueAdd(act, cur, prio) \in Seq(Pid) /\ NoDup(QueueAdd(act, cur, prio))
          /\ Elems(QueueAdd(act, cur, prio)) = Elems(act) \cup {cur}
      BY <2>1, <3>1, QueueAddElems
    <3>3. Ready # <<>> /\ cur' = QueueTop(Ready)
      BY DEF Elect
    <3>4. cur' \in Elems(Ready)
      BY <3>1, <3>2, <3>3, QueueOutElems
    <3> QED BY <2>1, <3>1, <3>2, <3>4
  <2>3. CASE ~ Preempted(cur)
    <3>1. Ready = act /\ Ready # <<>> /\ cur' = QueueTop(Ready)
      BY <2>3 DEF Elect, Ready
    <3>2. cur' \in Elems(act)
      BY <2>1, <3>1, QueueOutElems
    <3> QED BY <2>1, <3>2
  <2> QED BY <2>2, <2>3
<1>2. /\ \A r \in Pid : state'[r] = IF r = cur' THEN "CHOSEN"
                                  ELSE IF Preempted(r) THEN "ACTIVABLE" ELSE state[r]
      /\ UNCHANGED <<ppid, s>>
  BY DEF Elect
<1>3. \A r \in Pid :
         (state'[r] = state[r] /\ s'[r] = s[r]) \/ {state[r], state'[r]} \subseteq Alive
  BY <1>1, <1>2 DEF Preempted, Alive
<1> QED BY <1>2, <1>3 DEF Quiet

\* waitpid that blocks, chprio, sleeps, clock ticks and the rest of
\* ordonnance are such steps.
QuietStep ==
  \/ \E t \in Targets : WaitpidBlock(t)
  \/ \E p \in Pid, n \in Prio : Chprio(p, n)
  \/ \E w \in Clock : WaitClock(w)
  \/ AbortShellWait \/ Tick \/ WakeProcs \/ Elect \/ Undefined

\* Each of them moves processes among the states of the living.
LEMMA QuietSteps ==
  ASSUME IInv, QuietStep \/ UNCHANGED vars
  PROVE  Quiet
<1>1. ASSUME NEW t \in Targets, WaitpidBlock(t) PROVE Quiet
  <2>1. /\ cur \in Pid /\ state[cur] = "CHOSEN" /\ UNCHANGED ppid
        /\ \A r \in Pid : state'[r] = IF r = cur THEN "WAITPID" ELSE state[r]
        /\ \A r \in Pid : r # cur => s'[r] = s[r]
    BY <1>1 DEF WaitpidBlock, User, IInv, TypeOK, OneChosen
  <2> QED BY <2>1 DEF Quiet, Alive
<1>2. ASSUME NEW p \in Pid, NEW n \in Prio, Chprio(p, n) PROVE Quiet
  BY <1>2 DEF Chprio, Quiet
<1>3. ASSUME NEW w \in Clock, WaitClock(w) PROVE Quiet
  <2>1. /\ cur \in Pid /\ state[cur] = "CHOSEN" /\ UNCHANGED <<ppid, s>>
        /\ \A r \in Pid : state'[r] = IF r = cur THEN "ASLEEP" ELSE state[r]
    BY <1>3 DEF WaitClock, User, IInv, TypeOK, OneChosen
  <2> QED BY <2>1 DEF Quiet, Alive
<1>4. CASE AbortShellWait
  <2>1. QueueTop(sleep) \in Elems(sleep) /\ Awaken(QueueTop(sleep))
    BY <1>4, QueueOutElems DEF AbortShellWait, IInv, TypeOK, QueuesMatchStates
  <2> QED BY <2>1, AwakenQuiet
<1>5. CASE Tick \/ Undefined \/ UNCHANGED vars
  BY <1>5 DEF Tick, Undefined, table, vars, Quiet
<1>6. CASE WakeProcs
  <2>1. QueueBottom(sleep) \in Elems(sleep) /\ Awaken(QueueBottom(sleep))
    BY <1>6, QueueBottomElems DEF WakeProcs, SleeperDue, IInv, TypeOK
  <2> QED BY <2>1, AwakenQuiet
<1>7. CASE Elect
  BY <1>7, ElectQuiet
<1> QED BY <1>1, <1>2, <1>3, <1>4, <1>5, <1>6, <1>7 DEF QuietStep

\* Every step keeps the promises.
LEMMA NextKept == IInv /\ [Next]_vars => [Kept]_vars
<1> SUFFICES ASSUME IInv, Next PROVE Kept
  OBVIOUS
<1>1. CASE LaunchShell
  BY <1>1, CreateKept DEF LaunchShell
<1>2. ASSUME NEW n \in Prio, Start(n) PROVE Kept
  BY <1>2, CreateKept DEF Start
<1>3. ASSUME NEW v \in RetVals \cup {0}, Exit(v) PROVE Kept
  <2>1. cur \in Pid /\ state[cur] = "CHOSEN" /\ Finish(cur, v, act, {})
    BY <1>3 DEF Exit, User, IInv, TypeOK, OneChosen
  <2> QED BY <2>1, FinishKept
<1>4. ASSUME NEW p \in Pid, Kill(p) PROVE Kept
  <2>1. /\ state[p] \notin {"ZOMBIE", "NONE", "DYING"}
        /\ Finish(p, 0, ActWithout(p), {r \in {p} : ppid[p] < 0})
    BY <1>4 DEF Kill, KilledStates
  <2> QED BY <2>1, FinishKept
<1>5. ASSUME NEW p \in Pid, KillDying(p) PROVE Kept
  <2>1. state[p] = "DYING" /\ Finish(p, 0, act, {p})
    BY <1>5 DEF KillDying
  <2> QED BY <2>1, FinishKept
<1>6. ASSUME NEW t \in Targets, WaitpidZombie(t) PROVE Kept
  <2>1. PICK c \in Awaited(t) : state[c] = "ZOMBIE" /\ Reap(c)
    BY <1>6 DEF WaitpidZombie
  <2>2. c \in children[cur]
    BY <2>1 DEF Awaited
  <2> QED BY <2>1, <2>2, ReapKept
<1>7. CASE WaitpidReturn
  <2>1. s[cur] \in children[cur] /\ state[s[cur]] = "ZOMBIE" /\ Reap(s[cur])
    BY <1>7 DEF WaitpidReturn, IInv, OneChosen, BlockedInWaitpid, WaitedChildThere
  <2> QED BY <2>1, ReapKept
<1>8. CASE KillProcs
  BY <1>8, KillProcsKept
<1>9. CASE QuietStep
  BY <1>9, QuietSteps, QuietKept
<1> QED BY <1>1, <1>2, <1>3, <1>4, <1>5, <1>6, <1>7, <1>8, <1>9 DEF Next, Ordonnance, QuietStep

\* Whatever the processes do, one that has terminated keeps its state, its
\* return value and its parent until it is freed, and no call but start makes
\* use of a free pid.
THEOREM NoRevivalHolds == Spec => NoRevival
<1>1. IInv /\ [Next]_vars => [TerminatedStay]_vars
  BY NextKept DEF Kept
<1> QED BY <1>1, Invariance, PTL DEF Spec, NoRevival

\* The return value of a zombie is lost only with its parent: kill, exit and
\* kill_procs free no zombie of a process that goes on living.
THEOREM OnlyParentReapsHolds == Spec => OnlyParentReaps
<1>1. IInv /\ [Next]_vars => [ReapedByParent]_vars
  BY NextKept DEF Kept
<1> QED BY <1>1, Invariance, PTL DEF Spec, OnlyParentReaps

-----------------------------------------------------------------------------
(* Order: the ready queue and the sleepers stay sorted, through changes of  *)
(* priority and the clearing of freed processes, whose keys are those of no *)
(* chained element.                                                         *)

\* What the lemmas on queues need to know.
LEMMA QueueFacts ==
  ASSUME IInv
  PROVE  /\ act \in Seq(Pid) /\ NoDup(act)
         /\ Elems(act) = {r \in Pid : state[r] = "ACTIVABLE"}
         /\ sleep \in Seq(Pid) /\ NoDup(sleep)
         /\ Elems(sleep) = {r \in Pid : state[r] = "ASLEEP"}
         /\ prio \in [Pid -> Int] /\ wake \in [Pid -> Int] /\ cur \in Pid
BY Keys DEF IInv, TypeOK, QueuesMatchStates

\* Steps that leave the lists alone and change no key of a chained process.
LEMMA SameQueuesSorted ==
  ASSUME IInv, QueuesSorted, UNCHANGED <<act, sleep>>,
         \A r \in Pid : state[r] \in {"ACTIVABLE", "ASLEEP"} =>
           prio'[r] = prio[r] /\ wake'[r] = wake[r]
  PROVE  QueuesSorted'
<1>1. /\ \A r \in Elems(act) : prio'[r] = prio[r]
      /\ \A r \in Elems(sleep) : wake'[r] = wake[r]
  BY QueueFacts
<1> QED BY <1>1, SortedByKeys DEF QueuesSorted

\* start chains the new process behind those of at least its priority.
LEMMA CreateSorted ==
  ASSUME IInv, QueuesSorted, NEW n \in Prio, Create(n)
  PROVE  QueuesSorted'
<1> DEFINE p == NewPid
<1>1. p \in Pid /\ state[p] = "NONE"
  BY NewPidFree DEF Create
<1>2. /\ prio' = [prio EXCEPT ![p] = n]
      /\ act' = QueueAdd(act, p, prio')
      /\ UNCHANGED <<wake, sleep>>
  BY DEF Create
<1> HIDE DEF p
<1>3. prio' \in [Pid -> Int] /\ \A r \in Elems(act) : prio'[r] = prio[r]
  BY <1>1, <1>2, QueueFacts, ProcessAssumption DEF Prio
<1>4. Sorted(act, prio')
  BY <1>3, SortedByKeys DEF QueuesSorted
<1>5. Sorted(act', prio')
  BY <1>1, <1>2, <1>3, <1>4, QueueFacts, QueueAddSorted
<1> QED BY <1>2, <1>5 DEF QueuesSorted

\* finish_process chains the parent it wakes in a queue that was sorted.
LEMMA FinishSorted ==
  ASSUME IInv, QueuesSorted, NEW p \in Pid, NEW v, NEW F, F \subseteq {p},
         NEW queue \in Seq(Pid), NoDup(queue), Sorted(queue, prio), Sorted(sleep', wake),
         p \notin Elems(queue), p \notin Elems(sleep'),
         Elems(queue) \subseteq Elems(act), Elems(sleep') \subseteq Elems(sleep),
         ppid[p] # p,
         Finish(p, v, queue, F)
  PROVE  QueuesSorted'
<1> DEFINE gone == ZombieChildren(p) \cup F
<1>1. \A r \in gone : r = p \/ state[r] = "ZOMBIE"
  BY DEF ZombieChildren
<1>2. /\ \A r \in Pid \ gone : prio'[r] = prio[r] /\ wake'[r] = wake[r]
      /\ act' = IF ParentWaits(p) THEN QueueAdd(queue, ppid[p], prio) ELSE queue
  BY DEF Finish, Wipe
<1> HIDE DEF gone
<1>3. Sorted(act', prio) /\ \A r \in Elems(act') : r \in Pid \ gone
  <2>1. \A r \in Elems(queue) : r \in Pid \ gone
    BY <1>1, QueueFacts
  <2>2. CASE ParentWaits(p)
    <3>1. ppid[p] \in Pid /\ state[ppid[p]] = "WAITPID"
      BY <2>2, PidFacts DEF ParentWaits, IInv, TypeOK, Orphan
    <3>2. ppid[p] \notin Elems(queue) /\ ppid[p] \notin gone
      BY <1>1, <3>1, QueueFacts
    <3>3. Sorted(QueueAdd(queue, ppid[p], prio), prio)
      BY <3>1, QueueFacts, QueueAddSorted
    <3>4. Elems(QueueAdd(queue, ppid[p], prio)) = Elems(queue) \cup {ppid[p]}
      <4>1. prio \in [Pid -> Int]
        BY QueueFacts
      <4> QED BY <3>1, <3>2, <4>1, QueueAddElems
    <3> QED BY <2>1, <2>2, <3>1, <3>2, <3>3, <3>4, <1>2
  <2>3. CASE ~ ParentWaits(p)
    BY <2>1, <2>3, <1>2
  <2> QED BY <2>2, <2>3
<1>4. \A r \in Elems(sleep') : r \in Pid \ gone
  BY <1>1, QueueFacts
<1> QED BY <1>2, <1>3, <1>4, SortedByKeys DEF QueuesSorted

\* exit takes out the running process and may wake its parent.
LEMMA ExitSorted ==
  ASSUME IInv, QueuesSorted, NEW v, Exit(v)
  PROVE  QueuesSorted'
<1>1. /\ cur \in Pid /\ cur # Idle /\ state[cur] = "CHOSEN"
      /\ Finish(cur, v, act, {}) /\ sleep' = sleep
  BY QueueFacts DEF Exit, User, IInv, OneChosen
<1>2. ppid[cur] # cur
  BY <1>1, PidFacts DEF IInv, FamilyTree
<1>3. cur \notin Elems(act) /\ cur \notin Elems(sleep')
  BY <1>1, QueueFacts
<1>4. act \in Seq(Pid) /\ NoDup(act) /\ Sorted(act, prio) /\ Sorted(sleep', wake)
  BY <1>1, QueueFacts DEF QueuesSorted
<1> QED BY <1>1, <1>2, <1>3, <1>4, FinishSorted

\* kill takes its victim out of the list it is chained in.
LEMMA KillSorted ==
  ASSUME IInv, QueuesSorted, NEW p \in Pid, Kill(p)
  PROVE  QueuesSorted'
<1> DEFINE queue == ActWithout(p)
<1>1. /\ p # Idle /\ state[p] \in {"ACTIVABLE", "ASLEEP", "WAITPID"}
      /\ Finish(p, 0, queue, {r \in {p} : ppid[p] < 0})
      /\ sleep' = SleepWithout(p)
  BY DEF Kill, Killable, KilledStates
<1>2. /\ queue \in Seq(Pid) /\ NoDup(queue) /\ Sorted(queue, prio)
      /\ Elems(queue) = Elems(act) \ {p}
  <2>1. CASE state[p] = "ACTIVABLE"
    BY <2>1, QueueFacts, QueueDelElems, QueueDelSorted DEF ActWithout, QueuesSorted
  <2>2. CASE state[p] # "ACTIVABLE"
    BY <2>2, QueueFacts DEF ActWithout, QueuesSorted
  <2> QED BY <2>1, <2>2
<1>3. Sorted(sleep', wake) /\ Elems(sleep') = Elems(sleep) \ {p}
  <2>1. CASE state[p] = "ASLEEP"
    BY <2>1, <1>1, QueueFacts, QueueDelElems, QueueDelSorted DEF SleepWithout, QueuesSorted
  <2>2. CASE state[p] # "ASLEEP"
    BY <2>2, <1>1, QueueFacts DEF SleepWithout, QueuesSorted
  <2> QED BY <2>1, <2>2
<1>4. ppid[p] # p
  BY <1>1, PidFacts DEF IInv, FamilyTree
<1> HIDE DEF queue
<1> QED BY <1>1, <1>2, <1>3, <1>4, FinishSorted

\* Freeing zombies or dying processes clears keys that no list uses.
LEMMA FreedSorted ==
  ASSUME IInv, QueuesSorted, NEW F, \A r \in F \cap Pid : state[r] \in Terminated,
         UNCHANGED <<act, sleep>>,
         \A r \in Pid \ F : prio'[r] = prio[r] /\ wake'[r] = wake[r]
  PROVE  QueuesSorted'
<1>1. \A r \in Pid : state[r] \in {"ACTIVABLE", "ASLEEP"} =>
        prio'[r] = prio[r] /\ wake'[r] = wake[r]
  BY DEF Terminated
<1> QED BY <1>1, SameQueuesSorted

\* waitpid frees a zombie.
LEMMA ReapSorted ==
  ASSUME IInv, QueuesSorted, NEW c, c \in children[cur], state[c] = "ZOMBIE", Reap(c)
  PROVE  QueuesSorted'
<1>1. /\ \A r \in Pid \ {c} : prio'[r] = prio[r] /\ wake'[r] = wake[r]
      /\ UNCHANGED <<act, sleep>>
  BY DEF Reap, sched, IInv, TypeOK
<1> QED BY <1>1, FreedSorted DEF Terminated

\* chprio takes a ready process out and chains it at its new place.
LEMMA ChprioSorted ==
  ASSUME IInv, QueuesSorted, NEW p \in Pid, NEW n \in Prio, Chprio(p, n)
  PROVE  QueuesSorted'
<1>1. /\ prio' = [prio EXCEPT ![p] = n]
      /\ act' = Requeued(p)
      /\ UNCHANGED <<state, wake, sleep>>
  BY DEF Chprio
<1>2. prio' \in [Pid -> Int] /\ \A r \in Pid \ {p} : prio'[r] = prio[r]
  BY <1>1, QueueFacts, ProcessAssumption DEF Prio
<1>3. CASE state[p] = "ACTIVABLE"
  <2> DEFINE q == QueueDel(act, p)
  <2>1. q \in Seq(Pid) /\ Elems(q) = Elems(act) \ {p} /\ Sorted(q, prio)
    BY <1>3, QueueFacts, QueueDelElems, QueueDelSorted DEF QueuesSorted
  <2>2. act' = QueueAdd(q, p, prio')
    BY <1>1, <1>3 DEF Requeued
  <2> HIDE DEF q
  <2>3. Sorted(q, prio')
    <3>1. \A r \in Elems(q) : prio'[r] = prio[r]
      BY <2>1, <1>2, QueueFacts
    <3> QED BY <2>1, <3>1, SortedByKeys
  <2>4. Sorted(act', prio')
    BY <1>2, <2>1, <2>2, <2>3, QueueAddSorted
  <2> QED BY <1>1, <2>4 DEF QueuesSorted
<1>4. CASE state[p] # "ACTIVABLE"
  <2>1. act' = act /\ \A r \in Elems(act) : prio'[r] = prio[r]
    BY <1>1, <1>2, <1>4, QueueFacts DEF Requeued
  <2>2. Sorted(act, prio')
    BY <2>1, SortedByKeys DEF QueuesSorted
  <2> QED BY <1>1, <2>1, <2>2 DEF QueuesSorted
<1> QED BY <1>3, <1>4

\* wait_clock chains the running process in head_sleep.
LEMMA WaitClockSorted ==
  ASSUME IInv, QueuesSorted, NEW w \in Clock, WaitClock(w)
  PROVE  QueuesSorted'
<1>1. /\ state[cur] = "CHOSEN"
      /\ wake' = [wake EXCEPT ![cur] = w]
      /\ sleep' = QueueAdd(sleep, cur, wake')
      /\ UNCHANGED <<prio, act>>
  BY DEF WaitClock, User, IInv, OneChosen
<1>2. /\ wake' \in [Pid -> Int] /\ cur \in Pid
      /\ \A r \in Elems(sleep) : wake'[r] = wake[r]
  BY <1>1, QueueFacts, ProcessAssumption DEF Clock
<1>3. Sorted(sleep, wake')
  BY <1>2, SortedByKeys DEF QueuesSorted
<1>4. Sorted(sleep', wake')
  BY <1>1, <1>2, <1>3, QueueFacts, QueueAddSorted
<1> QED BY <1>1, <1>4 DEF QueuesSorted

\* A sleeper moves from head_sleep to head_act.
LEMMA AwakenSorted ==
  ASSUME IInv, QueuesSorted, NEW p, p \in Elems(sleep), Awaken(p)
  PROVE  QueuesSorted'
<1>1. /\ p \in Pid /\ sleep' = QueueDel(sleep, p) /\ act' = QueueAdd(act, p, prio)
      /\ UNCHANGED <<prio, wake>>
  BY QueueFacts DEF Awaken
<1>2. Sorted(QueueDel(sleep, p), wake)
  BY QueueFacts, QueueDelSorted DEF QueuesSorted
<1>3. Sorted(QueueAdd(act, p, prio), prio)
  BY <1>1, QueueFacts, QueueAddSorted DEF QueuesSorted
<1> QED BY <1>1, <1>2, <1>3 DEF QueuesSorted

\* The list that ordonnance elects from.
LEMMA ReadyFacts ==
  ASSUME IInv, QueuesSorted
  PROVE  /\ Ready \in Seq(Pid) /\ Sorted(Ready, prio)
         /\ NoDup(Ready)
         /\ Elems(Ready) = {r \in Pid : state[r] = "ACTIVABLE" \/ Preempted(r)}
<1>1. CASE Preempted(cur)
  <2>1. cur \in Pid /\ cur \notin Elems(act) /\ Ready = QueueAdd(act, cur, prio)
    BY <1>1, QueueFacts DEF Preempted, Ready
  <2>2. /\ QueueAdd(act, cur, prio) \in Seq(Pid) /\ NoDup(QueueAdd(act, cur, prio))
        /\ Elems(QueueAdd(act, cur, prio)) = Elems(act) \cup {cur}
    <3>1. act \in Seq(Pid) /\ NoDup(act) /\ prio \in [Pid -> Int]
      BY QueueFacts
    <3> QED BY <2>1, <3>1, QueueAddElems
  <2>3. Sorted(QueueAdd(act, cur, prio), prio)
    <3>1. act \in Seq(Pid) /\ prio \in [Pid -> Int] /\ Sorted(act, prio)
      BY QueueFacts DEF QueuesSorted
    <3> QED BY <2>1, <3>1, QueueAddSorted
  <2> QED BY <1>1, <2>1, <2>2, <2>3, QueueFacts DEF Preempted
<1>2. CASE ~ Preempted(cur)
  BY <1>2, QueueFacts DEF Ready, Preempted, QueuesSorted
<1> QED BY <1>1, <1>2

\* ctx_sw chains the process that stops, and takes out the one it starts.
LEMMA ElectSorted ==
  ASSUME IInv, QueuesSorted, Elect
  PROVE  QueuesSorted'
<1>1. Ready # <<>> /\ act' = QueueOut(Ready) /\ UNCHANGED <<prio, wake, sleep>>
  BY DEF Elect
<1>2. Sorted(QueueOut(Ready), prio)
  BY <1>1, ReadyFacts, QueueOutSorted
<1> QED BY <1>1, <1>2 DEF QueuesSorted

\* Every step keeps the lists sorted.
LEMMA NextSorted == IInv /\ QueuesSorted /\ [Next]_vars => QueuesSorted'
<1> SUFFICES ASSUME IInv, QueuesSorted, [Next]_vars PROVE QueuesSorted'
  OBVIOUS
<1>1. CASE LaunchShell
  BY <1>1, CreateSorted, ProcessAssumption DEF LaunchShell, Prio
<1>2. ASSUME NEW n \in Prio, Start(n) PROVE QueuesSorted'
  BY <1>2, CreateSorted DEF Start
<1>3. ASSUME NEW v \in RetVals \cup {0}, Exit(v) PROVE QueuesSorted'
  BY <1>3, ExitSorted
<1>4. ASSUME NEW p \in Pid, Kill(p) PROVE QueuesSorted'
  BY <1>4, KillSorted
<1>5. ASSUME NEW p \in Pid, KillDying(p) PROVE QueuesSorted'
  <2>1. state[p] = "DYING" /\ Finish(p, 0, act, {p}) /\ sleep' = sleep
    BY <1>5 DEF KillDying
  <2>2. ppid[p] # p /\ p \notin Elems(act) /\ p \notin Elems(sleep')
    BY <2>1, QueueFacts, PidFacts DEF IInv, FamilyTree
  <2>3. act \in Seq(Pid) /\ NoDup(act) /\ Sorted(act, prio) /\ Sorted(sleep', wake)
    BY <2>1, QueueFacts DEF QueuesSorted
  <2> QED BY <2>1, <2>2, <2>3, FinishSorted
<1>6. ASSUME NEW t \in Targets, WaitpidZombie(t) PROVE QueuesSorted'
  <2>1. PICK c \in Awaited(t) : state[c] = "ZOMBIE" /\ Reap(c)
    BY <1>6 DEF WaitpidZombie
  <2>2. c \in children[cur]
    BY <2>1 DEF Awaited
  <2> QED BY <2>1, <2>2, ReapSorted
<1>7. ASSUME NEW t \in Targets, WaitpidBlock(t) PROVE QueuesSorted'
  BY <1>7, SameQueuesSorted DEF WaitpidBlock, sched
<1>8. CASE WaitpidReturn
  <2>1. s[cur] \in children[cur] /\ state[s[cur]] = "ZOMBIE" /\ Reap(s[cur])
    BY <1>8 DEF WaitpidReturn, IInv, OneChosen, BlockedInWaitpid, WaitedChildThere
  <2> QED BY <2>1, ReapSorted
<1>9. ASSUME NEW p \in Pid, NEW n \in Prio, Chprio(p, n) PROVE QueuesSorted'
  BY <1>9, ChprioSorted
<1>10. ASSUME NEW w \in Clock, WaitClock(w) PROVE QueuesSorted'
  BY <1>10, WaitClockSorted
<1>11. CASE AbortShellWait
  <2>1. QueueTop(sleep) \in Elems(sleep) /\ Awaken(QueueTop(sleep))
    BY <1>11, QueueOutElems DEF AbortShellWait, IInv, TypeOK, QueuesMatchStates
  <2> QED BY <2>1, AwakenSorted
<1>12. CASE Tick \/ Undefined \/ UNCHANGED vars
  BY <1>12 DEF Tick, Undefined, vars, table, sched, QueuesSorted
<1>13. CASE KillProcs
  <2>1. /\ \A r \in Pid \ Elems(dead) : prio'[r] = prio[r] /\ wake'[r] = wake[r]
        /\ UNCHANGED <<act, sleep>>
    BY <1>13 DEF KillProcs, Wipe
  <2>2. \A r \in Elems(dead) \cap Pid : state[r] \in Terminated
    BY <1>13 DEF KillProcs, IInv, QueuesMatchStates, Terminated
  <2> QED BY <2>1, <2>2, FreedSorted
<1>14. CASE WakeProcs
  <2>1. QueueBottom(sleep) \in Elems(sleep) /\ Awaken(QueueBottom(sleep))
    BY <1>14, QueueBottomElems DEF WakeProcs, SleeperDue, IInv, TypeOK
  <2> QED BY <2>1, AwakenSorted
<1>15. CASE Elect
  BY <1>15, ElectSorted
<1> QED BY <1>1, <1>2, <1>3, <1>4, <1>5, <1>6, <1>7, <1>8, <1>9, <1>10, <1>11,
           <1>12, <1>13, <1>14, <1>15 DEF Next, Ordonnance

\* The ready queue stays sorted by priority and the sleepers by wake-up time,
\* through every chprio, kill and end of a process.
THEOREM Sortedness == Spec => []QueuesSorted
<1>1. Init => QueuesSorted
  BY DEF Init, QueuesSorted, Sorted
<1> QED BY <1>1, NextSorted, Invariance, PTL DEF Spec

\* What ordonnance elects has the highest priority there is, and whom it
\* leaves asleep has still time to wait.
THEOREM BestIsElected == Spec => BestElected
<1> DEFINE Best == pc = "wake" /\ pc' # "wake" =>
             /\ \A p \in Pid : state'[p] = "ACTIVABLE" => prio[p] <= prio[cur']
             /\ \A p \in Pid : state'[p] = "ASLEEP" => wake[p] > clock
<1>1. IInv /\ QueuesSorted /\ [Next]_vars => [Best]_vars
  <2> SUFFICES ASSUME IInv, QueuesSorted, Next, pc = "wake", pc' # "wake"
               PROVE  Best
    OBVIOUS
  <2>1. Elect
    BY DEF Next, Ordonnance, LaunchShell, Start, Exit, Kill, KillDying, WaitpidZombie,
           WaitpidBlock, WaitpidReturn, Chprio, WaitClock, AbortShellWait, Tick,
           KillProcs, WakeProcs, Undefined, User, vars
  <2>2. /\ Ready # <<>> /\ cur' = QueueTop(Ready) /\ ~ SleeperDue
        /\ \A p \in Pid : state'[p] = IF p = cur' THEN "CHOSEN"
                                    ELSE IF Preempted(p) THEN "ACTIVABLE" ELSE state[p]
    BY <2>1 DEF Elect
  <2>3. ASSUME NEW p \in Pid, state'[p] = "ACTIVABLE"
        PROVE  prio[p] <= prio[cur']
    <3>1. p \in Elems(Ready)
      BY <2>2, <2>3, ReadyFacts
    <3> QED BY <2>2, <3>1, ReadyFacts, QueueOutSorted
  <2>4. ASSUME NEW p \in Pid, state'[p] = "ASLEEP"
        PROVE  wake[p] > clock
    <3>1. p \in Elems(sleep) /\ sleep # <<>>
      <4>1. state[p] = "ASLEEP"
        BY <2>2, <2>4 DEF Preempted
      <4>2. p \in Elems(sleep)
        BY <4>1, QueueFacts
      <4> QED BY <4>2, QueueFacts, ElemsEmpty
    <3>2. wake[QueueBottom(sleep)] <= wake[p]
      BY <3>1, QueueFacts, QueueOutSorted DEF QueuesSorted
    <3>3. ~ (wake[QueueBottom(sleep)] <= clock)
      BY <2>2, <3>1 DEF SleeperDue
    <3>4. wake[QueueBottom(sleep)] \in Int /\ wake[p] \in Int /\ clock \in Int
      <4>1. QueueBottom(sleep) \in Pid
        BY <3>1, QueueFacts, QueueBottomElems
      <4> QED BY <4>1, QueueFacts, ProcessAssumption DEF IInv, TypeOK, Clock
    <3> QED BY <3>2, <3>3, <3>4
  <2> QED BY <2>3, <2>4
<1> HIDE DEF Best
<1>2. Spec => [][Best]_vars
  BY <1>1, Invariance, Sortedness, PTL DEF Spec
<1> QED BY <1>2 DEF Best, BestElected

-----------------------------------------------------------------------------
(* The contract: under the mapping of ProcessProps, which forgets the       *)
(* scheduler, every step is a step of module Lifecycle or a stutter.        *)

\* ordonnance destroys the dying processes before it lists one more, so that
\* head_dead holds one at most, and kill_procs is one end of a process.
DeadFew == Len(dead) <= 1 /\ (pc = "wake" => dead = <<>>)

\* Only ordonnance changes head_dead.
LEMMA NextDeadFew == IInv /\ DeadFew /\ [Next]_vars => DeadFew'
<1> SUFFICES ASSUME IInv, DeadFew, [Next]_vars PROVE DeadFew'
  OBVIOUS
<1>1. CASE KillProcs
  BY <1>1, EmptySeq DEF KillProcs, DeadFew
<1>2. CASE WakeProcs
  BY <1>2 DEF WakeProcs, Awaken, DeadFew
<1>3. CASE Elect
  <2>1. dead = <<>> /\ dead \in Seq(Pid) /\ cur \in Pid /\ prio \in [Pid -> Int] /\ Len(dead) = 0
    BY <1>3, QueueFacts, EmptySeq DEF Elect, DeadFew, IInv, TypeOK
  <2>2. Len(QueueAdd(dead, cur, prio)) = Len(dead) + 1
    BY <2>1, QueueLengths
  <2>3. dead' = QueueAdd(dead, cur, prio) \/ dead' = dead
    BY <1>3 DEF Elect
  <2>4. pc' # "wake"
    BY <1>3 DEF Elect, Resumed
  <2>5. Len(dead') <= 1
    <3>1. CASE dead' = dead
      BY <3>1, <2>1
    <3>2. CASE dead' = QueueAdd(dead, cur, prio)
      <4>1. Len(dead') = Len(dead) + 1
        BY <3>2, <2>2
      <4> QED BY <4>1, <2>1
    <3> QED BY <3>1, <3>2, <2>3
  <2> QED BY <2>4, <2>5 DEF DeadFew
<1>4. CASE ~ Ordonnance
  <2>1. dead' = dead /\ (pc' = pc \/ pc' # "wake")
    BY <1>4 DEF Next, LaunchShell, Start, Create, Exit, Kill, KillDying, WaitpidZombie,
         WaitpidBlock, WaitpidReturn, Reap, Chprio, WaitClock, AbortShellWait, Awaken, Tick,
         Undefined, sched, vars
  <2> QED BY <2>1 DEF DeadFew
<1> QED BY <1>1, <1>2, <1>3, <1>4 DEF Ordonnance

\* head_dead holds at most the process that terminated last.
LEMMA DeadFewInv == Spec => []DeadFew
<1>1. Init => DeadFew
  BY EmptySeq DEF Init, DeadFew
<1> QED BY <1>1, NextDeadFew, Invariance, PTL DEF Spec

\* init_process makes the root of the tree, and nobody else.
LEMMA InitTree == Init => Tree!LInit
<1> SUFFICES ASSUME Init PROVE Tree!LInit
  OBVIOUS
<1>1. lifeOf = [p \in Pid |-> IF p = Idle THEN "alive" ELSE "free"]
  BY DEF Init, lifeOf
<1>2. valueOf = [p \in Pid |-> 0]
  BY DEF Init, valueOf
<1> QED BY <1>1, <1>2 DEF Init, Tree!LInit

\* Steps that move processes among the states of the living say nothing of
\* parents and children.
LEMMA QuietTree ==
  ASSUME Quiet
  PROVE  UNCHANGED Tree!lvars
<1>1. /\ ppid' = ppid
      /\ \A r \in Pid : (state'[r] = state[r] /\ s'[r] = s[r])
                        \/ {state[r], state'[r]} \subseteq Alive
  BY DEF Quiet
<1>2. lifeOf' = lifeOf /\ valueOf' = valueOf
  BY <1>1 DEF lifeOf, valueOf, Alive
<1> QED BY <1>1, <1>2 DEF Tree!lvars

\* start is the creation of a child of the running process.
LEMMA CreateTree ==
  ASSUME IInv, pc \in {"boot", "user"}, NEW n, Create(n)
  PROVE  Tree!LNext
<1> DEFINE c == NewPid
<1>1. c \in Pid /\ state[c] = "NONE" /\ cur \in Pid /\ state[cur] = "CHOSEN"
  BY NewPidFree DEF Create, IInv, TypeOK, OneChosen
<1>2. state' = [state EXCEPT ![c] = "ACTIVABLE"] /\ ppid' = [ppid EXCEPT ![c] = cur] /\ UNCHANGED s
  BY DEF Create
<1>3. state \in [Pid -> States]
  BY DEF IInv, TypeOK
<1> HIDE DEF c
<1>4. lifeOf' = [lifeOf EXCEPT ![c] = "alive"]
  BY <1>1, <1>2, <1>3 DEF lifeOf
<1>5. valueOf' = valueOf
  BY <1>1, <1>2, <1>3 DEF valueOf
<1>6. lifeOf[cur] = "alive" /\ lifeOf[c] = "free"
  BY <1>1 DEF lifeOf
<1>7. Tree!Create(cur, c)
  BY <1>2, <1>4, <1>5, <1>6 DEF Tree!Create
<1> QED BY <1>1, <1>7 DEF Tree!LNext

\* The children of the contract are those of head_child.
LEMMA Offspring ==
  ASSUME IInv, NEW p \in Pid
  PROVE  Tree!Offspring(p) = children[p]
<1>1. \A c \in Pid : lifeOf[c] # "free" <=> state[c] # "NONE"
  BY DEF lifeOf
<1>2. children[p] = {c \in Pid \ {Idle} : state[c] # "NONE" /\ ppid[c] = p}
  BY DEF IInv, FamilyTree
<1> QED BY <1>1, <1>2 DEF Tree!Offspring

\* finish_process of a living process is its termination: its zombie children
\* go, the others lose their parent, and it is kept for its own parent.
LEMMA FinishTree ==
  ASSUME IInv, NEW p \in Pid \ {Idle}, state[p] \in Alive,
         NEW v \in RetVals \cup {0}, NEW queue, NEW F,
         F = {} \/ (F = {p} /\ ppid[p] = Orphan),
         Finish(p, v, queue, F)
  PROVE  Tree!LNext
<1> DEFINE gone == ZombieChildren(p) \cup F
           dropped == {c \in Tree!Offspring(p) : lifeOf[c] = "zombie"}
           end == IF p \in F THEN "free" ELSE IF ppid[p] = Orphan THEN "gone" ELSE "zombie"
<1>1. /\ \A r \in Pid : state'[r] = IF r \in gone THEN "NONE"
                                  ELSE IF r = p THEN (IF ppid[p] >= 0 THEN "ZOMBIE" ELSE "DYING")
                                  ELSE IF ParentWaits(p) /\ r = ppid[p] THEN "ACTIVABLE"
                                  ELSE state[r]
      /\ \A r \in Pid : s'[r] = IF r \in gone THEN 0
                              ELSE IF r = p THEN v ELSE WaitResult(p, r)
      /\ ppid' = [r \in Pid |-> IF r \in children[p] \cup F THEN Orphan ELSE ppid[r]]
  BY DEF Finish, Wipe, Orphans
<1>2. /\ \A r \in Pid : r \in dropped <=> r \in ZombieChildren(p)
      /\ Tree!Offspring(p) = children[p]
  BY Offspring DEF ZombieChildren, lifeOf
<1>3. \A r \in ZombieChildren(p) : state[r] = "ZOMBIE" /\ r # p
  BY DEF ZombieChildren, Alive
<1>4. ppid[p] >= 0 <=> ppid[p] # Orphan
  <2>1. ppid[p] \in Nat \/ ppid[p] = Orphan
    BY PidFacts DEF IInv, TypeOK
  <2> QED BY <2>1 DEF Orphan
<1>5. \A r \in Pid : ParentWaits(p) /\ r = ppid[p] => state[r] = "WAITPID"
  BY DEF ParentWaits
<1> HIDE DEF dropped, end
<1>6. lifeOf' = [c \in Pid |-> IF c = p THEN end
                               ELSE IF c \in dropped THEN "free" ELSE lifeOf[c]]
  <2>1. ASSUME NEW c \in Pid
        PROVE  lifeOf'[c] = IF c = p THEN end ELSE IF c \in dropped THEN "free" ELSE lifeOf[c]
    <3>1. CASE c = p
      BY <3>1, <1>1, <1>3, <1>4 DEF lifeOf, end
    <3>2. CASE c # p /\ c \in dropped
      BY <3>2, <1>1, <1>2 DEF lifeOf
    <3>3. CASE c # p /\ c \notin dropped
      <4>1. c \notin gone
        BY <3>3, <1>2
      <4> QED BY <4>1, <3>3, <1>1, <1>5 DEF lifeOf
    <3> QED BY <3>1, <3>2, <3>3
  <2> QED BY <2>1 DEF lifeOf
<1>7. valueOf' = [c \in Pid |-> IF c = p /\ end = "zombie" THEN v
                                ELSE IF c \in dropped THEN 0 ELSE valueOf[c]]
  <2>1. ASSUME NEW c \in Pid
        PROVE  valueOf'[c] = IF c = p /\ end = "zombie" THEN v
                             ELSE IF c \in dropped THEN 0 ELSE valueOf[c]
    <3>1. CASE c = p
      <4>1. valueOf[p] = 0 /\ p \notin dropped
        BY <1>2, <1>3 DEF valueOf, Alive
      <4> QED BY <3>1, <4>1, <1>1, <1>3, <1>4 DEF valueOf, end
    <3>2. CASE c # p /\ c \in dropped
      BY <3>2, <1>1, <1>2 DEF valueOf
    <3>3. CASE c # p /\ c \notin dropped
      <4>1. c \notin gone
        BY <3>3, <1>2
      <4> QED BY <4>1, <3>3, <1>1, <1>5 DEF valueOf, WaitResult
    <3> QED BY <3>1, <3>2, <3>3
  <2> QED BY <2>1 DEF valueOf
<1>8. ppid' = [c \in Pid |-> IF c \in Tree!Offspring(p) THEN Orphan ELSE ppid[c]]
  BY <1>1, <1>2
<1>9. lifeOf[p] = "alive" /\ p # Idle
  BY DEF lifeOf, Alive
<1>10. end \in IF ppid[p] = Orphan THEN {"gone", "free"} ELSE {"zombie"}
  BY DEF end
<1>11. Tree!Terminate(p, v)
  BY <1>6, <1>7, <1>8, <1>9, <1>10 DEF Tree!Terminate, dropped
<1> QED BY <1>11 DEF Tree!LNext

\* waitpid collects a zombie child of its caller.
LEMMA ReapTree ==
  ASSUME IInv, NEW c, c \in children[cur], state[c] = "ZOMBIE", state[cur] = "CHOSEN", Reap(c)
  PROVE  Tree!LNext
<1>1. c \in Pid /\ ppid[c] = cur /\ cur \in Pid
  BY DEF IInv, TypeOK, FamilyTree
<1>2. /\ state' = [state EXCEPT ![c] = "NONE"]
      /\ ppid' = [ppid EXCEPT ![c] = Orphan]
      /\ s' = [s EXCEPT ![c] = 0]
  BY DEF Reap
<1>3. state \in [Pid -> States] /\ s \in [Pid -> Int]
  BY DEF IInv, TypeOK
<1>4. lifeOf' = [lifeOf EXCEPT ![c] = "free"]
  BY <1>1, <1>2, <1>3 DEF lifeOf
<1>5. valueOf' = [valueOf EXCEPT ![c] = 0]
  BY <1>1, <1>2, <1>3 DEF valueOf
<1>6. lifeOf[c] = "zombie" /\ lifeOf[ppid[c]] = "alive"
  BY <1>1 DEF lifeOf
<1>7. Tree!Collect(c)
  BY <1>2, <1>4, <1>5, <1>6 DEF Tree!Collect
<1> QED BY <1>1, <1>7 DEF Tree!LNext

\* A dying process, whom nobody can collect, is freed.
LEMMA FreedTree ==
  ASSUME IInv, NEW c \in Pid, state[c] = "DYING",
         \A r \in Pid : /\ state'[r] = IF r = c THEN "NONE" ELSE state[r]
                        /\ r # c => s'[r] = s[r],
         ppid' = ppid
  PROVE  Tree!LNext
<1>1. lifeOf' = [lifeOf EXCEPT ![c] = "free"] /\ valueOf' = valueOf
  BY DEF lifeOf, valueOf
<1>2. Tree!Disappear(c)
  BY <1>1 DEF lifeOf, Tree!Disappear
<1> QED BY <1>2 DEF Tree!LNext

\* kill_procs.
LEMMA KillProcsTree ==
  ASSUME IInv, DeadFew, KillProcs
  PROVE  [Tree!LNext]_(Tree!lvars)
<1>1. /\ Elems(dead) = {r \in Pid : state[r] = "DYING"} \ {cur}
      /\ dead \in Seq(Pid) /\ Len(dead) \in Nat
      /\ \A r \in Pid : state[r] = "DYING" => ppid[r] = Orphan
      /\ ppid \in [Pid -> Pid \cup {Orphan}]
  BY LenProperties DEF KillProcs, IInv, TypeOK, QueuesMatchStates, FamilyTree
<1>2. /\ \A r \in Pid : /\ state'[r] = IF r \in Elems(dead) THEN "NONE" ELSE state[r]
                        /\ r \notin Elems(dead) => s'[r] = s[r]
      /\ ppid' = [r \in Pid |-> IF r \in Elems(dead) THEN Orphan ELSE ppid[r]]
  BY DEF KillProcs, Wipe
<1>3. ppid' = ppid
  BY <1>1, <1>2
<1>4. CASE Len(dead) = 0
  <2>1. Elems(dead) = {}
    BY <1>4 DEF Elems
  <2>2. Quiet
    BY <2>1, <1>2, <1>3 DEF Quiet
  <2> QED BY <2>2, QuietTree
<1>5. CASE Len(dead) = 1
  <2>1. Elems(dead) = {dead[1]}
    BY <1>5 DEF Elems
  <2>2. dead[1] \in Pid /\ state[dead[1]] = "DYING"
    BY <2>1, <1>1
  <2>3. \A r \in Pid : /\ state'[r] = IF r = dead[1] THEN "NONE" ELSE state[r]
                       /\ r # dead[1] => s'[r] = s[r]
    BY <2>1, <1>2
  <2> QED BY <2>2, <2>3, <1>3, FreedTree
<1>6. Len(dead) = 0 \/ Len(dead) = 1
  <2>1. Len(dead) \in Nat /\ Len(dead) <= 1
    BY <1>1 DEF DeadFew
  <2>2. \A n \in Nat : n <= 1 => n = 0 \/ n = 1
    OBVIOUS
  <2> QED BY <2>1, <2>2, Zenon
<1> QED BY <1>4, <1>5, <1>6

\* kill of a process that is listed as dying frees it too.
LEMMA KillDyingTree ==
  ASSUME IInv, NEW p \in Pid, KillDying(p)
  PROVE  Tree!LNext
<1>1. state[p] = "DYING" /\ ppid[p] = Orphan /\ Finish(p, 0, act, {p}) /\ p # Orphan
      /\ ppid \in [Pid -> Pid \cup {Orphan}]
  BY PidFacts DEF KillDying, IInv, FamilyTree, TypeOK
<1>2. children[p] = {}
  BY <1>1 DEF IInv, FamilyTree, Terminated
<1>3. ~ ParentWaits(p)
  BY <1>1 DEF ParentWaits, Orphan
<1>4. ZombieChildren(p) \cup {p} = {p} /\ Orphans(p) \cup {p} = {p}
  BY <1>2 DEF ZombieChildren, Orphans
<1>5. /\ \A r \in Pid : state'[r] = IF r = p THEN "NONE" ELSE state[r]
      /\ \A r \in Pid : r # p => s'[r] = s[r]
      /\ ppid' = [r \in Pid |-> IF r = p THEN Orphan ELSE ppid[r]]
  BY <1>1, <1>3, <1>4 DEF Finish, Wipe, WaitResult
<1>6. ppid' = ppid
  BY <1>1, <1>5
<1> QED BY <1>1, <1>5, <1>6, FreedTree

\* Every step is one of the contract, or changes nothing the contract sees.
LEMMA NextTree == IInv /\ DeadFew /\ [Next]_vars => [Tree!LNext]_(Tree!lvars)
<1> SUFFICES ASSUME IInv, DeadFew, [Next]_vars PROVE [Tree!LNext]_(Tree!lvars)
  OBVIOUS
<1>1. CASE LaunchShell
  BY <1>1, CreateTree DEF LaunchShell
<1>2. ASSUME NEW n \in Prio, Start(n) PROVE Tree!LNext
  BY <1>2, CreateTree DEF Start, User
<1>3. ASSUME NEW v \in RetVals \cup {0}, Exit(v) PROVE Tree!LNext
  <2>1. cur \in Pid \ {Idle} /\ state[cur] \in Alive /\ Finish(cur, v, act, {})
    BY <1>3 DEF Exit, User, IInv, TypeOK, OneChosen, Alive
  <2> DEFINE none == {}
  <2>2. Finish(cur, v, act, none) /\ none = {}
    BY <2>1
  <2> HIDE DEF none
  <2> QED BY <2>1, <2>2, FinishTree
<1>4. ASSUME NEW p \in Pid, Kill(p) PROVE Tree!LNext
  <2> DEFINE F == {r \in {p} : ppid[p] < 0}
             z == 0
  <2>1. /\ p \in Pid \ {Idle} /\ state[p] \in Alive /\ z \in RetVals \cup {0}
        /\ Finish(p, z, ActWithout(p), F)
    BY <1>4 DEF Kill, Killable, KilledStates, Alive
  <2>2. F = {} \/ (F = {p} /\ ppid[p] = Orphan)
    <3>1. ppid[p] \in Nat \/ ppid[p] = Orphan
      BY PidFacts DEF IInv, TypeOK
    <3> QED BY <3>1
  <2> HIDE DEF F, z
  <2> QED BY <2>1, <2>2, FinishTree
<1>5. ASSUME NEW p \in Pid, KillDying(p) PROVE Tree!LNext
  BY <1>5, KillDyingTree
<1>6. ASSUME NEW t \in Targets, WaitpidZombie(t) PROVE Tree!LNext
  <2>1. PICK c \in Awaited(t) : state[c] = "ZOMBIE" /\ Reap(c)
    BY <1>6 DEF WaitpidZombie
  <2>2. c \in children[cur] /\ state[cur] = "CHOSEN"
    BY <1>6, <2>1 DEF Awaited, WaitpidZombie, User, IInv, OneChosen
  <2> QED BY <2>1, <2>2, ReapTree
<1>7. CASE WaitpidReturn
  <2>1. s[cur] \in children[cur] /\ state[s[cur]] = "ZOMBIE" /\ Reap(s[cur]) /\ state[cur] = "CHOSEN"
    BY <1>7 DEF WaitpidReturn, IInv, OneChosen, BlockedInWaitpid, WaitedChildThere
  <2> QED BY <2>1, ReapTree
<1>8. CASE KillProcs
  BY <1>8, KillProcsTree
<1>9. CASE QuietStep \/ UNCHANGED vars
  BY <1>9, QuietSteps, QuietTree
<1> QED BY <1>1, <1>2, <1>3, <1>4, <1>5, <1>6, <1>7, <1>8, <1>9 DEF Next, Ordonnance, QuietStep

\* start, exit, kill and waitpid, interleaved with anything the scheduler
\* does, keep the promises of process.h about zombies, orphans and return
\* values: the process table implements module Lifecycle.
THEOREM LifecycleKept == Spec => TerminationContract
<1>1. Spec => Tree!LInit
  BY InitTree, PTL DEF Spec
<1>2. Spec => [][Tree!LNext]_(Tree!lvars)
  BY NextTree, Invariance, DeadFewInv, PTL DEF Spec
<1> QED BY <1>1, <1>2, PTL DEF TerminationContract

-----------------------------------------------------------------------------
(* Turns: no step lets a process overtake its equals in the ready queue.   *)

\* The promise Fifo makes of a step.
Turn == KeepsTurn(act, act', prio, prio')

\* Steps that leave the ready queue and the keys of the chained alone.
LEMMA SameTurn ==
  ASSUME IInv, UNCHANGED act, \A r \in Pid : state[r] = "ACTIVABLE" => prio'[r] = prio[r]
  PROVE  Turn
<1>1. SubOrder(act, act')
  BY QueueFacts, QueueDelOrder
<1>2. \A r \in Elems(act') : prio'[r] = prio[r]
  BY QueueFacts
<1> QED BY <1>1, <1>2, SubTurn DEF Turn

\* Steps that add a process that was not ready to what is left of the queue.
LEMMA AddedTurn ==
  ASSUME IInv, NEW d \in Seq(Pid), NoDup(d), SubOrder(act, d),
         NEW e \in Pid, state[e] # "ACTIVABLE", NEW new \in [Pid -> Int],
         \A r \in Elems(d) : new[r] = prio[r]
  PROVE  KeepsTurn(act, QueueAdd(d, e, new), prio, new)
<1>1. e \notin Elems(act)
  BY QueueFacts
<1>2. e \notin Elems(d)
  BY <1>1 DEF SubOrder
<1> QED BY <1>1, <1>2, AddTurn

\* start chains the new process behind those of its priority.
LEMMA CreateTurn ==
  ASSUME IInv, NEW n \in Prio, Create(n)
  PROVE  Turn
<1> DEFINE p == NewPid
<1>1. p \in Pid /\ state[p] = "NONE"
  BY NewPidFree DEF Create
<1>2. prio' = [prio EXCEPT ![p] = n] /\ act' = QueueAdd(act, p, prio')
  BY DEF Create
<1> HIDE DEF p
<1>3. prio' \in [Pid -> Int] /\ \A r \in Elems(act) : prio'[r] = prio[r]
  BY <1>1, <1>2, QueueFacts, ProcessAssumption DEF Prio
<1>4. \A new \in [Pid -> Int] : (\A r \in Elems(act) : new[r] = prio[r])
        => KeepsTurn(act, QueueAdd(act, p, new), prio, new)
  BY <1>1, QueueFacts, QueueDelOrder, AddedTurn
<1> QED BY <1>2, <1>3, <1>4 DEF Turn

\* finish_process may chain the parent it wakes in what is left of the queue.
LEMMA FinishTurn ==
  ASSUME IInv, NEW p \in Pid, NEW v, NEW F, F \subseteq {p},
         NEW queue \in Seq(Pid), NoDup(queue), SubOrder(act, queue),
         p \notin Elems(queue), ppid[p] # p,
         Finish(p, v, queue, F)
  PROVE  Turn
<1> DEFINE gone == ZombieChildren(p) \cup F
<1>1. \A r \in gone : r = p \/ state[r] = "ZOMBIE"
  BY DEF ZombieChildren
<1>2. /\ \A r \in Pid \ gone : prio'[r] = prio[r]
      /\ act' = IF ParentWaits(p) THEN QueueAdd(queue, ppid[p], prio) ELSE queue
  BY DEF Finish, Wipe
<1> HIDE DEF gone
<1>3. \A r \in Elems(queue) : r \in Pid \ gone
  <2>1. Elems(queue) \subseteq Elems(act)
    BY DEF SubOrder
  <2> QED BY <1>1, <2>1, QueueFacts
<1>4. CASE ~ ParentWaits(p)
  <2>1. act' = queue /\ \A r \in Elems(queue) : prio'[r] = prio[r]
    BY <1>2, <1>3, <1>4
  <2> QED BY <2>1, SubTurn DEF Turn
<1>5. CASE ParentWaits(p)
  <2> DEFINE e == ppid[p]
  <2>1. e \in Pid /\ state[e] = "WAITPID" /\ e \notin gone
    BY <1>1, <1>5, PidFacts DEF ParentWaits, IInv, TypeOK, Orphan
  <2>2. act' = QueueAdd(queue, e, prio)
    BY <1>2, <1>5
  <2>3. prio'[e] = prio[e]
    BY <1>2, <2>1
  <2> HIDE DEF e
  <2>4. prio \in [Pid -> Int] /\ e \notin Elems(queue)
    BY <2>1, QueueFacts DEF SubOrder
  <2>5. KeepsTurn(act, QueueAdd(queue, e, prio), prio, prio)
    BY <2>1, <2>4, AddedTurn
  <2>6. Elems(QueueAdd(queue, e, prio)) = Elems(queue) \cup {e}
    BY <2>1, <2>4, QueueAddElems
  <2>7. \A r \in Elems(act') : prio'[r] = prio[r]
    BY <1>2, <1>3, <2>2, <2>3, <2>6
  <2> QED BY <2>2, <2>5, <2>7 DEF Turn, KeepsTurn
<1> QED BY <1>4, <1>5

\* kill takes its victim out of the queue.
LEMMA KillTurn ==
  ASSUME IInv, NEW p \in Pid, Kill(p)
  PROVE  Turn
<1> DEFINE queue == ActWithout(p)
           z == 0
           F == {r \in {p} : ppid[p] < 0}
<1>1. p # Idle /\ state[p] \in {"ACTIVABLE", "ASLEEP", "WAITPID"} /\ Finish(p, z, queue, F)
  BY DEF Kill, Killable, KilledStates
<1>2. queue \in Seq(Pid) /\ NoDup(queue) /\ SubOrder(act, queue) /\ p \notin Elems(queue)
  <2>1. CASE state[p] = "ACTIVABLE"
    BY <2>1, QueueFacts, QueueDelElems, QueueDelOrder DEF ActWithout
  <2>2. CASE state[p] # "ACTIVABLE"
    BY <2>2, QueueFacts, QueueDelOrder DEF ActWithout
  <2> QED BY <2>1, <2>2
<1>3. ppid[p] # p /\ F \subseteq {p}
  BY <1>1, PidFacts DEF IInv, FamilyTree
<1> HIDE DEF queue, z, F
<1> QED BY <1>1, <1>2, <1>3, FinishTurn

\* exit, and kill of an orphan that has ended, take nobody out of the queue.
LEMMA EndTurn ==
  ASSUME IInv, NEW p \in Pid, p # Idle, state[p] \notin {"ACTIVABLE", "NONE"}, NEW v,
         NEW F, F \subseteq {p}, Finish(p, v, act, F)
  PROVE  Turn
<1>1. act \in Seq(Pid) /\ NoDup(act) /\ SubOrder(act, act) /\ p \notin Elems(act)
  BY QueueFacts, QueueDelOrder
<1>2. ppid[p] # p
  BY PidFacts DEF IInv, FamilyTree
<1> QED BY <1>1, <1>2, FinishTurn

\* chprio puts a ready process behind those of its new priority.
LEMMA ChprioTurn ==
  ASSUME IInv, NEW p \in Pid, NEW n \in Prio, Chprio(p, n)
  PROVE  Turn
<1>1. prio' = [prio EXCEPT ![p] = n] /\ act' = Requeued(p) /\ n # prio[p]
  BY DEF Chprio
<1>2. prio' \in [Pid -> Int] /\ prio'[p] # prio[p] /\ \A r \in Pid \ {p} : prio'[r] = prio[r]
  BY <1>1, QueueFacts, ProcessAssumption DEF Prio
<1>3. CASE state[p] = "ACTIVABLE"
  <2> DEFINE d == QueueDel(act, p)
  <2>1. /\ d \in Seq(Pid) /\ NoDup(d) /\ Elems(d) = Elems(act) \ {p} /\ SubOrder(act, d)
        /\ p \notin Elems(d)
    BY <1>3, QueueFacts, QueueDelElems, QueueDelOrder
  <2>2. act' = QueueAdd(d, p, prio')
    BY <1>1, <1>3 DEF Requeued
  <2> HIDE DEF d
  <2>3. \A r \in Elems(d) : prio'[r] = prio[r]
    BY <2>1, <1>2, QueueFacts
  <2>4. \A new \in [Pid -> Int] :
          (\A r \in Elems(d) : new[r] = prio[r]) /\ new[p] # prio[p]
            => KeepsTurn(act, QueueAdd(d, p, new), prio, new)
    BY <2>1, AddTurn
  <2> QED BY <1>2, <2>2, <2>3, <2>4 DEF Turn
<1>4. CASE state[p] # "ACTIVABLE"
  <2>1. act' = act /\ \A r \in Pid : state[r] = "ACTIVABLE" => prio'[r] = prio[r]
    BY <1>1, <1>2, <1>4 DEF Requeued
  <2> QED BY <2>1, SameTurn
<1> QED BY <1>3, <1>4

\* A sleeper gets behind those of its priority.
LEMMA AwakenTurn ==
  ASSUME IInv, NEW p, p \in Elems(sleep), Awaken(p)
  PROVE  Turn
<1>1. p \in Pid /\ state[p] = "ASLEEP" /\ act' = QueueAdd(act, p, prio) /\ prio' = prio
  BY QueueFacts DEF Awaken
<1>2. KeepsTurn(act, QueueAdd(act, p, prio), prio, prio)
  BY <1>1, QueueFacts, QueueDelOrder, AddedTurn
<1> QED BY <1>1, <1>2 DEF Turn

\* ctx_sw chains the process that stops behind those of its priority and
\* takes out the tail.
LEMMA ElectTurn ==
  ASSUME IInv, Elect
  PROVE  Turn
<1>1. Ready # <<>> /\ act' = QueueOut(Ready) /\ prio' = prio
  BY DEF Elect
<1>2. KeepsTurn(act, Ready, prio, prio) /\ Ready \in Seq(Pid) /\ NoDup(Ready)
  <2>1. CASE Preempted(cur)
    <3>1. cur \in Pid /\ state[cur] # "ACTIVABLE" /\ cur \notin Elems(act)
          /\ Ready = QueueAdd(act, cur, prio)
      BY <2>1, QueueFacts DEF Preempted, Ready
    <3>2. act \in Seq(Pid) /\ NoDup(act) /\ SubOrder(act, act) /\ prio \in [Pid -> Int]
      BY QueueFacts, QueueDelOrder
    <3>3. KeepsTurn(act, QueueAdd(act, cur, prio), prio, prio)
      BY <3>1, <3>2, AddedTurn
    <3>4. QueueAdd(act, cur, prio) \in Seq(Pid) /\ NoDup(QueueAdd(act, cur, prio))
      BY <3>1, <3>2, QueueAddElems
    <3> QED BY <3>1, <3>3, <3>4
  <2>2. CASE ~ Preempted(cur)
    <3>1. Ready = act /\ SubOrder(act, act)
      BY <2>2, QueueFacts, QueueDelOrder DEF Ready
    <3> QED BY <3>1, SubTurn, QueueFacts
  <2> QED BY <2>1, <2>2
<1>3. SubOrder(Ready, QueueOut(Ready))
  BY <1>1, <1>2, QueueDelOrder
<1>4. KeepsTurn(act, QueueOut(Ready), prio, prio)
  BY <1>2, <1>3, TurnSub
<1> QED BY <1>1, <1>4 DEF Turn

\* Every step keeps the turns.
LEMMA NextTurn == IInv /\ [Next]_vars => [Turn]_vars
<1> SUFFICES ASSUME IInv, Next PROVE Turn
  OBVIOUS
<1>1. CASE LaunchShell
  BY <1>1, CreateTurn, ProcessAssumption DEF LaunchShell, Prio
<1>2. ASSUME NEW n \in Prio, Start(n) PROVE Turn
  BY <1>2, CreateTurn DEF Start
<1>3. ASSUME NEW v \in RetVals \cup {0}, Exit(v) PROVE Turn
  <2> DEFINE F == {}
  <2>1. cur \in Pid /\ cur # Idle /\ state[cur] = "CHOSEN" /\ Finish(cur, v, act, F) /\ F \subseteq {cur}
    BY <1>3, QueueFacts DEF Exit, User, IInv, OneChosen
  <2> HIDE DEF F
  <2> QED BY <2>1, EndTurn
<1>4. ASSUME NEW p \in Pid, Kill(p) PROVE Turn
  BY <1>4, KillTurn
<1>5. ASSUME NEW p \in Pid, KillDying(p) PROVE Turn
  <2> DEFINE F == {p}
             z == 0
  <2>1. p # Idle /\ state[p] = "DYING" /\ Finish(p, z, act, F) /\ F \subseteq {p}
    BY <1>5 DEF KillDying, IInv, IdleReady
  <2> HIDE DEF F, z
  <2> QED BY <2>1, EndTurn
<1>6. ASSUME NEW c, c \in children[cur], state[c] = "ZOMBIE", Reap(c) PROVE Turn
  <2>1. act' = act /\ \A r \in Pid : state[r] = "ACTIVABLE" => prio'[r] = prio[r]
    BY <1>6 DEF Reap, sched, IInv, TypeOK
  <2> QED BY <2>1, SameTurn
<1>7. ASSUME NEW t \in Targets, WaitpidZombie(t) PROVE Turn
  <2>1. PICK c \in Awaited(t) : state[c] = "ZOMBIE" /\ Reap(c)
    BY <1>7 DEF WaitpidZombie
  <2>2. c \in children[cur]
    BY <2>1 DEF Awaited
  <2> QED BY <2>1, <2>2, <1>6
<1>8. CASE WaitpidReturn
  <2>1. s[cur] \in children[cur] /\ state[s[cur]] = "ZOMBIE" /\ Reap(s[cur])
    BY <1>8 DEF WaitpidReturn, IInv, OneChosen, BlockedInWaitpid, WaitedChildThere
  <2> QED BY <2>1, <1>6
<1>9. ASSUME NEW p \in Pid, NEW n \in Prio, Chprio(p, n) PROVE Turn
  BY <1>9, ChprioTurn
<1>10. CASE \/ \E t \in Targets : WaitpidBlock(t)
            \/ \E w \in Clock : WaitClock(w)
            \/ Tick \/ Undefined
  <2>1. act' = act /\ prio' = prio
    BY <1>10 DEF WaitpidBlock, WaitClock, Tick, Undefined, vars, table, sched
  <2> QED BY <2>1, SameTurn
<1>11. CASE AbortShellWait
  <2>1. QueueTop(sleep) \in Elems(sleep) /\ Awaken(QueueTop(sleep))
    BY <1>11, QueueOutElems DEF AbortShellWait, IInv, TypeOK, QueuesMatchStates
  <2> QED BY <2>1, AwakenTurn
<1>12. CASE KillProcs
  <2>1. act' = act /\ \A r \in Pid : state[r] = "ACTIVABLE" => prio'[r] = prio[r]
    BY <1>12 DEF KillProcs, Wipe, IInv, QueuesMatchStates
  <2> QED BY <2>1, SameTurn
<1>13. CASE WakeProcs
  <2>1. QueueBottom(sleep) \in Elems(sleep) /\ Awaken(QueueBottom(sleep))
    BY <1>13, QueueBottomElems DEF WakeProcs, SleeperDue, IInv, TypeOK
  <2> QED BY <2>1, AwakenTurn
<1>14. CASE Elect
  BY <1>14, ElectTurn
<1> QED BY <1>1, <1>2, <1>3, <1>4, <1>5, <1>7, <1>8, <1>9, <1>10, <1>11, <1>12, <1>13,
           <1>14 DEF Next, Ordonnance

\* Among equals the ready queue is first come, first served: no start, wake-up,
\* preemption or chprio puts a process in front of one of its priority that
\* was ready before, and no kill or election disturbs the order.
THEOREM FirstComeFirstServed == Spec => Fifo
<1>1. [Turn]_vars => [\A x \in Elems(act) \cap Elems(act') : \A y \in Elems(act') \ {x} :
       /\ prio'[x] = prio[x] /\ prio'[y] = prio[x]
       /\ \/ y \notin Elems(act)
          \/ prio[y] # prio[x]
          \/ Place(act, y) < Place(act, x)
       => Place(act', y) < Place(act', x)]_vars
  BY DEF Turn, KeepsTurn
<1>2. Spec => [][Turn]_vars
  BY NextTurn, Invariance, PTL DEF Spec
<1> QED BY <1>1, <1>2, PTL DEF Fifo
=============================================================================

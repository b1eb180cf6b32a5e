-------------------------- MODULE SemaphoreProofs --------------------------
(***************************************************************************)
(* For every number of processes, cells and units: as long as screate      *)
(* takes free places (PlaceFree, which the code does not ensure), counters *)
(* and waiting lists stay in step, every blocked process is in the list    *)
(* where kill and chprio look for it, signaln serves by priority, and the  *)
(* semaphores keep the promises of module SemaphoreContract.               *)
(***************************************************************************)
EXTENDS SemaphoreProps, SchedulerProofs, FiniteSetTheorems

Blocked(p, i) == state[p] = "BLOCKEDSEMA" /\ sema[p] = i

\* n waiters are what the counter c of semaphore id allows.
Told(n, c, id) == n <= Negative(c) /\ (ResetsFit(id) => n = Negative(c))

-----------------------------------------------------------------------------
(* Arithmetic, and the queue that signaln cuts. *)

\* int16_t arithmetic: what fits stays, and what overflows by less than the
\* width comes out at the other end.
LEMMA Shorts ==
  /\ \A n \in Short : ToShort(n) = n
  /\ ToShort(-MaxShort - 2) = MaxShort
  /\ \A n \in Int : MaxShort < n /\ n <= 2 * MaxShort + 1 =>
                      ToShort(n) = n - 2 * (MaxShort + 1)
<1> DEFINE W == 2 * (MaxShort + 1)
<1>1. W \in Nat \ {0} /\ MaxShort \in Nat \ {0}
  BY SemaphoreAssumption
<1>2. \A x \in Nat : x < W => /\ x % W = x
                              /\ (x + W) % W = x
                              /\ (x - W) % W = x
  <2> HIDE DEF W
  <2> QED BY <1>1, Z3
<1>3. \A n \in Short : ToShort(n) = n
  <2>1. ASSUME NEW n \in Short PROVE ToShort(n) = n
    <3>1. n + MaxShort + 1 \in Nat /\ n + MaxShort + 1 < W
      BY <1>1 DEF Short
    <3>2. (n + MaxShort + 1) % W = n + MaxShort + 1
      BY <1>2, <3>1
    <3> QED BY <1>1, <3>2 DEF ToShort, Short
  <2> QED BY <2>1
<1>4. ToShort(-MaxShort - 2) = MaxShort
  <2>1. -MaxShort - 2 + MaxShort + 1 = (W - 1) - W /\ W - 1 \in Nat /\ W - 1 < W
    BY <1>1
  <2>2. ((W - 1) - W) % W = W - 1
    BY <1>2, <2>1
  <2> QED BY <1>1, <2>1, <2>2 DEF ToShort
<1>5. ASSUME NEW n \in Int, MaxShort < n, n <= 2 * MaxShort + 1
      PROVE  ToShort(n) = n - 2 * (MaxShort + 1)
  <2>1. n + MaxShort + 1 = (n + MaxShort + 1 - W) + W
        /\ n + MaxShort + 1 - W \in Nat /\ n + MaxShort + 1 - W < W
    BY <1>1, <1>5
  <2>2. ((n + MaxShort + 1 - W) + W) % W = n + MaxShort + 1 - W
    BY <1>2, <2>1
  <2> QED BY <1>1, <2>1, <2>2 DEF ToShort
<1> QED BY <1>3, <1>4, <1>5

\* A queue cut in two.
LEMMA CutQueue ==
  ASSUME NEW S, NEW q \in Seq(S), NoDup(q), NEW m \in 0..Len(q)
  PROVE  LET kept  == SubSeq(q, 1, m)
             taken == SubSeq(q, m + 1, Len(q))
         IN /\ kept \in Seq(S) /\ taken \in Seq(S) /\ NoDup(kept) /\ NoDup(taken)
            /\ Len(kept) = m /\ Len(taken) = Len(q) - m
            /\ Elems(kept) \cup Elems(taken) = Elems(q)
            /\ Elems(kept) \cap Elems(taken) = {}
<1> DEFINE n == Len(q)
           kept == SubSeq(q, 1, m)
           taken == SubSeq(q, m + 1, n)
<1>1. n \in Nat /\ m \in Nat /\ m <= n
  BY LenProperties
<1>2. \A i \in 1..n : q[i] \in S
  BY ElementOfSeq
<1>3. /\ kept \in Seq(S) /\ Len(kept) = m
      /\ \A i \in 1..m : kept[i] = q[i]
  BY <1>1, <1>2
<1>4. /\ taken \in Seq(S) /\ Len(taken) = n - m
      /\ \A i \in 1..(n - m) : taken[i] = q[i + m]
  BY <1>1, <1>2
<1> HIDE DEF kept, taken
<1>5. NoDup(kept)
  BY <1>1, <1>3 DEF NoDup
<1>6. NoDup(taken)
  BY <1>1, <1>4 DEF NoDup
<1>7. Elems(kept) \cap Elems(taken) = {}
  BY <1>1, <1>3, <1>4 DEF NoDup, Elems
<1>8. Elems(kept) \cup Elems(taken) = Elems(q)
  <2>1. ASSUME NEW i \in 1..n
        PROVE  q[i] \in Elems(kept) \cup Elems(taken)
    <3>1. CASE i <= m
      BY <3>1, <1>1, <1>3 DEF Elems
    <3>2. CASE i > m
      <4>1. i - m \in 1..(n - m) /\ (i - m) + m = i
        BY <3>2, <1>1
      <4> QED BY <4>1, <1>4 DEF Elems
    <3> QED BY <3>1, <3>2, <1>1
  <2>2. \A i \in 1..m : kept[i] \in Elems(q)
    BY <1>1, <1>3 DEF Elems
  <2>3. \A i \in 1..(n - m) : taken[i] \in Elems(q)
    BY <1>1, <1>4 DEF Elems
  <2> QED BY <1>3, <1>4, <2>1, <2>2, <2>3 DEF Elems
<1> QED BY <1>3, <1>4, <1>5, <1>6, <1>7, <1>8 DEF kept, taken

-----------------------------------------------------------------------------
(* The inductive invariant. *)

SemaTypes ==
  /\ tabId \in [Cell -> Nat]
  /\ cpt \in [Cell -> Short]
  /\ file \in [Cell -> Seq(Pid)]
  /\ sema \in [Proc -> Cell]
  /\ prochainId \in Nat \ {0}

\* Identifiers have been given out; so the next one is in no cell.
IdsGiven == \A i \in Cell : tabId[i] < prochainId

\* The processes blocked on a semaphore are those of its list, each once, and
\* the semaphore is there.
ListsMatch ==
  /\ \A i \in Cell : NoDup(file[i])
  /\ \A i \in Cell, p \in Pid : p \in Elems(file[i]) <=> p \in Proc /\ Blocked(p, i)
  /\ \A p \in Proc : state[p] = "BLOCKEDSEMA" => tabId[sema[p]] # 0

IInv == SchedInv /\ SemaTypes /\ IdsGiven /\ ListsMatch /\ CountInStep

\* What IInv says of the lists is WaitersChained.
LEMMA Chained == SemaTypes /\ ListsMatch => WaitersChained
<1> SUFFICES ASSUME SemaTypes, ListsMatch, NEW p \in Proc, NEW i \in Cell
             PROVE  Occurs(p, file[i]) =
                      IF state[p] = "BLOCKEDSEMA" /\ sema[p] = i THEN 1 ELSE 0
  BY DEF WaitersChained, ListsMatch
<1> DEFINE w == file[i]
           K == {k \in 1..Len(w) : w[k] = p}
<1>1. NoDup(w) /\ (p \in Elems(w) <=> Blocked(p, i))
  BY PidFacts DEF ListsMatch
<1>2. CASE Blocked(p, i)
  <2>1. PICK k \in 1..Len(w) : w[k] = p
    BY <1>1, <1>2 DEF Elems
  <2>2. K = {k}
    BY <1>1, <2>1 DEF NoDup
  <2> HIDE DEF K
  <2> QED BY <1>2, <2>2, FS_Singleton DEF Occurs, K, Blocked
<1>3. CASE ~ Blocked(p, i)
  <2>1. K = {}
    BY <1>1, <1>3 DEF Elems
  <2> QED BY <1>3, <2>1, FS_EmptySet DEF Occurs, Blocked
<1> QED BY <1>2, <1>3

\* A step that gives one semaphore another counter and another list.
LEMMA QueueStep ==
  ASSUME IInv, SchedInv', NEW i \in Cell, NEW w \in Seq(Pid), NoDup(w),
         file' = [file EXCEPT ![i] = w],
         NEW c \in Short, cpt' = [cpt EXCEPT ![i] = c],
         tabId' \in [Cell -> Nat], \A j \in Cell : tabId'[j] \in {0, tabId[j]},
         \A j \in Cell : j # i => tabId'[j] = tabId[j],
         sema' \in [Proc -> Cell], UNCHANGED prochainId,
         \A p \in Proc, j \in Cell :
           j # i => (state'[p] = "BLOCKEDSEMA" /\ sema'[p] = j <=> Blocked(p, j)),
         \A p \in Pid :
           p \in Elems(w) <=> p \in Proc /\ state'[p] = "BLOCKEDSEMA" /\ sema'[p] = i,
         w # <<>> => tabId'[i] # 0,
         tabId'[i] # 0 => Told(Len(w), c, tabId[i])
  PROVE  IInv'
<1>1. /\ \A j \in Cell : file'[j] = IF j = i THEN w ELSE file[j]
      /\ \A j \in Cell : cpt'[j] = IF j = i THEN c ELSE cpt[j]
  BY DEF IInv, SemaTypes
<1>2. SemaTypes'
  BY DEF IInv, SemaTypes
<1>3. IdsGiven'
  <2>1. \A j \in Cell : tabId'[j] < prochainId
    <3>1. ASSUME NEW j \in Cell PROVE tabId'[j] < prochainId
      <4>1. tabId[j] < prochainId /\ 0 < prochainId
        BY DEF IInv, IdsGiven, SemaTypes
      <4>2. tabId'[j] = 0 \/ tabId'[j] = tabId[j]
        OBVIOUS
      <4> QED BY <4>1, <4>2
    <3> QED BY <3>1
  <2> QED BY <2>1 DEF IdsGiven
<1>4. ListsMatch'
  <2>1. \A j \in Cell : NoDup(file'[j])
    BY <1>1 DEF IInv, ListsMatch
  <2>2. \A j \in Cell, p \in Pid : p \in Elems(file'[j]) <=>
          p \in Proc /\ state'[p] = "BLOCKEDSEMA" /\ sema'[p] = j
    <3>1. ASSUME NEW j \in Cell, NEW p \in Pid, j = i
          PROVE  p \in Elems(file'[j]) <=>
                   p \in Proc /\ state'[p] = "BLOCKEDSEMA" /\ sema'[p] = j
      BY <1>1, <3>1
    <3>2. ASSUME NEW j \in Cell, NEW p \in Pid, j # i
          PROVE  p \in Elems(file'[j]) <=>
                   p \in Proc /\ state'[p] = "BLOCKEDSEMA" /\ sema'[p] = j
      BY <1>1, <3>2 DEF IInv, ListsMatch
    <3> QED BY <3>1, <3>2
  <2>3. ASSUME NEW p \in Proc, state'[p] = "BLOCKEDSEMA"
        PROVE  tabId'[sema'[p]] # 0
    <3>1. CASE sema'[p] = i
      <4>1. p \in Elems(w)
        BY <2>3, <3>1, PidFacts
      <4>2. w # <<>>
        BY <4>1, ElemsEmpty
      <4> QED BY <3>1, <4>2
    <3>2. CASE sema'[p] # i
      BY <2>3, <3>2 DEF IInv, ListsMatch, Blocked
    <3> QED BY <3>1, <3>2
  <2> QED BY <2>1, <2>2, <2>3 DEF ListsMatch, Blocked
<1>5. CountInStep'
  <2>1. ASSUME NEW j \in Cell, tabId'[j] # 0
        PROVE  Told(Len(file'[j]), cpt'[j], tabId'[j])
    <3>1. CASE j = i
      <4>1. tabId'[i] = tabId[i]
        BY <2>1, <3>1
      <4> QED BY <1>1, <2>1, <3>1, <4>1
    <3>2. CASE j # i
      BY <1>1, <2>1, <3>2 DEF IInv, CountInStep, Told
    <3> QED BY <3>1, <3>2
  <2> QED BY <2>1 DEF CountInStep, Told
<1> QED BY <1>2, <1>3, <1>4, <1>5 DEF IInv

\* A step that moves no blocked process, and touches no semaphore.
LEMMA SchedStep ==
  ASSUME IInv, SchedInv', UNCHANGED <<tabId, cpt, file, prochainId>>,
         sema' \in [Proc -> Cell],
         \A p \in Proc : state'[p] = "BLOCKEDSEMA" <=> state[p] = "BLOCKEDSEMA",
         \A p \in Proc : state[p] = "BLOCKEDSEMA" => sema'[p] = sema[p]
  PROVE  IInv'
<1>1. SemaTypes' /\ IdsGiven' /\ CountInStep'
  BY DEF IInv, SemaTypes, IdsGiven, CountInStep
<1>2. ListsMatch'
  BY DEF IInv, ListsMatch, Blocked
<1> QED BY <1>1, <1>2 DEF IInv

\* The cell of a semaphore that is found.
LEMMA PosFound ==
  ASSUME SemaTypes, 0 \notin Ids, NEW id \in Ids, Found(id)
  PROVE  Pos(id) \in Cell /\ tabId[Pos(id)] = id /\ id # 0
<1> DEFINE a == id % NbMaxSema
<1>1. id \in Nat /\ id # 0 /\ NbMaxSema \in Nat \ {0}
  BY SemaphoreAssumption
<1>2. a \in 0..(NbMaxSema - 1)
  BY <1>1, Z3
<1> HIDE DEF a
<1>3. a \in Cell /\ a + NbMaxSema \in Cell /\ a < a + NbMaxSema /\ a \in Nat
  BY <1>1, <1>2 DEF Cell
<1>4. Cells(id) = {a, a + NbMaxSema}
  BY DEF Cells, a
<1>5. \E i \in Cells(id) : /\ tabId[i] = id
                           /\ \A j \in Cells(id) : tabId[j] = id => i <= j
  BY <1>1, <1>3, <1>4 DEF Found
<1>6. Pos(id) \in Cells(id) /\ tabId[Pos(id)] = id
  BY <1>5 DEF Pos
<1> QED BY <1>1, <1>3, <1>4, <1>6

-----------------------------------------------------------------------------
(* One lemma per operation. *)

\* screate takes a cell where nobody waits.
LEMMA ScreateIInv ==
  ASSUME IInv, NEW count \in 0..MaxShort, Screate(count),
         \A i \in Cell : tabId[i] # 0 => tabId'[i] \in {0, tabId[i]}
  PROVE  IInv'
<1> DEFINE i == NvellePlace(prochainId)
<1>1. i \in Cell
  <2>1. NbMaxSema \in Nat \ {0} /\ prochainId \in Nat
    BY SemaphoreAssumption DEF IInv, SemaTypes
  <2>2. prochainId % NbMaxSema \in 0..(NbMaxSema - 1)
    BY <2>1, Z3
  <2> QED BY <2>1, <2>2 DEF NvellePlace, Cell
<1>2. /\ tabId' = [tabId EXCEPT ![i] = prochainId]
      /\ cpt' = [cpt EXCEPT ![i] = count]
      /\ file' = [file EXCEPT ![i] = <<>>]
      /\ prochainId' = prochainId + 1
      /\ UNCHANGED <<sched, sema>>
  BY DEF Screate
<1> HIDE DEF i
<1>3. tabId[i] = 0
  <2> SUFFICES ASSUME tabId[i] # 0 PROVE FALSE
    OBVIOUS
  <2>1. tabId'[i] = prochainId /\ tabId[i] < prochainId /\ prochainId # 0
    BY <1>1, <1>2 DEF IInv, SemaTypes, IdsGiven
  <2>2. tabId[i] \in Nat /\ prochainId \in Nat
    BY <1>1 DEF IInv, SemaTypes
  <2> QED BY <1>1, <2>1, <2>2
<1>4. file[i] = <<>>
  <2>1. file[i] \in Seq(Pid)
    BY <1>1 DEF IInv, SemaTypes
  <2>2. Elems(file[i]) = {}
    <3>1. \A p \in Pid : p \notin Elems(file[i])
      BY <1>1, <1>3 DEF IInv, ListsMatch, Blocked
    <3> QED BY <2>1, <3>1, ElemsEmpty
  <2> QED BY <2>1, <2>2, ElemsEmpty
<1>5. UNCHANGED file
  BY <1>1, <1>2, <1>4 DEF IInv, SemaTypes
<1>6. count \in Short /\ count \in Nat
  BY SemaphoreAssumption DEF Short
<1>7. SemaTypes'
  BY <1>1, <1>2, <1>5, <1>6 DEF IInv, SemaTypes
<1>8. IdsGiven'
  <2>1. \A j \in Cell : tabId'[j] < prochainId + 1
    <3>1. ASSUME NEW j \in Cell PROVE tabId'[j] < prochainId + 1
      <4>1. tabId[j] < prochainId /\ tabId[j] \in Nat /\ prochainId \in Nat
        BY DEF IInv, IdsGiven, SemaTypes
      <4>2. tabId'[j] = prochainId \/ tabId'[j] = tabId[j]
        BY <1>2 DEF IInv, SemaTypes
      <4> QED BY <4>1, <4>2
    <3> QED BY <3>1
  <2> QED BY <1>2, <2>1 DEF IdsGiven
<1>9. ListsMatch'
  <2>1. \A j \in Cell : tabId[j] # 0 => tabId'[j] # 0
    BY <1>2, <1>3 DEF IInv, SemaTypes
  <2>2. UNCHANGED state
    BY <1>2 DEF sched
  <2>3. sema \in [Proc -> Cell]
    BY DEF IInv, SemaTypes
  <2> QED BY <1>2, <1>5, <2>1, <2>2, <2>3 DEF IInv, ListsMatch, Blocked
<1>10. CountInStep'
  <2>1. ASSUME NEW j \in Cell, tabId'[j] # 0
        PROVE  Told(Len(file[j]), cpt'[j], tabId'[j])
    <3>1. CASE j = i
      <4>1. cpt'[j] = count /\ Len(file[j]) = 0
        BY <3>1, <1>1, <1>2, <1>4 DEF IInv, SemaTypes
      <4> QED BY <4>1, <1>6 DEF Told, Negative
    <3>2. CASE j # i
      <4>1. cpt'[j] = cpt[j] /\ tabId'[j] = tabId[j]
        BY <3>2, <1>1, <1>2 DEF IInv, SemaTypes
      <4> QED BY <2>1, <4>1 DEF IInv, CountInStep, Told
    <3> QED BY <3>1, <3>2
  <2> QED BY <1>5, <2>1 DEF CountInStep, Told
<1> QED BY <1>2, <1>7, <1>8, <1>9, <1>10, OtherSched DEF IInv

\* Some waiters of semaphore i are woken, and the others go on waiting.
LEMMA WokenIInv ==
  ASSUME IInv, pc # "ordonnance", NEW i \in Cell,
         NEW kept \in Seq(Pid), NEW taken \in Seq(Pid), NoDup(kept), NoDup(taken),
         Elems(kept) \cup Elems(taken) = Elems(file[i]),
         Elems(kept) \cap Elems(taken) = {},
         file' = [file EXCEPT ![i] = kept], NEW resched, Wake(taken, resched),
         NEW c \in Short, cpt' = [cpt EXCEPT ![i] = c],
         tabId' \in [Cell -> Nat], tabId'[i] \in {0, tabId[i]},
         \A j \in Cell : j # i => tabId'[j] = tabId[j],
         UNCHANGED <<sema, prochainId>>,
         kept # <<>> => tabId'[i] # 0,
         tabId'[i] # 0 => Told(Len(kept), c, tabId[i])
  PROVE  IInv'
<1>1. \A p \in Pid : p \in Elems(file[i]) <=> p \in Proc /\ Blocked(p, i)
  BY DEF IInv, ListsMatch
<1>2. Elems(taken) \subseteq Pid /\ \A p \in Elems(taken) : p \in Proc /\ Blocked(p, i)
  BY <1>1, ElemsEmpty
<1>3. SchedInv'
  <2>1. \A p \in Elems(taken) : state[p] \notin {"CHOSEN", "ACTIVABLE"}
    BY <1>2 DEF Blocked
  <2> QED BY <2>1, WakeSched DEF IInv
<1>4. \A p \in Pid : state'[p] = IF p \in Elems(taken) THEN "ACTIVABLE" ELSE state[p]
  BY DEF Wake
<1>5. \A p \in Proc, j \in Cell :
         j # i => (state'[p] = "BLOCKEDSEMA" /\ sema'[p] = j <=> Blocked(p, j))
  BY <1>2, <1>4, PidFacts DEF Blocked
<1>6. \A p \in Pid :
         p \in Elems(kept) <=> p \in Proc /\ state'[p] = "BLOCKEDSEMA" /\ sema'[p] = i
  <2>1. ASSUME NEW p \in Pid
        PROVE  p \in Elems(kept) <=>
                 p \in Proc /\ state'[p] = "BLOCKEDSEMA" /\ sema'[p] = i
    <3>1. CASE p \in Elems(taken)
      BY <3>1, <1>4
    <3>2. CASE p \notin Elems(taken)
      BY <3>2, <1>1, <1>4 DEF Blocked
    <3> QED BY <3>1, <3>2
  <2> QED BY <2>1
<1>7. sema' \in [Proc -> Cell] /\ \A j \in Cell : tabId'[j] \in {0, tabId[j]}
  BY DEF IInv, SemaTypes
<1> QED BY <1>3, <1>5, <1>6, <1>7, QueueStep

\* sdelete and sreset wake everybody; a counter that sreset leaves below 0
\* comes from a count that did not fit.
LEMMA DebloquerIInv ==
  ASSUME IInv, pc # "ordonnance", NEW i \in Cell, NEW code, Debloquer(i, code, TRUE),
         NEW c \in Short, cpt' = [cpt EXCEPT ![i] = c],
         tabId' \in [Cell -> Nat], tabId'[i] \in {0, tabId[i]},
         \A j \in Cell : j # i => tabId'[j] = tabId[j],
         UNCHANGED <<sema, prochainId>>,
         tabId'[i] # 0 => (ResetsFit(tabId[i]) => c >= 0)
  PROVE  IInv'
<1>1. file' = [file EXCEPT ![i] = <<>>] /\ Wake(file[i], TRUE)
  BY DEF Debloquer
<1>2. file[i] \in Seq(Pid) /\ NoDup(file[i])
  BY DEF IInv, SemaTypes, ListsMatch
<1>3. <<>> \in Seq(Pid) /\ NoDup(<<>>) /\ Elems(<<>>) = {} /\ Len(<<>>) = 0
  BY <1>2, ElemsEmpty
<1>4. tabId'[i] # 0 => Told(Len(<<>>), c, tabId[i])
  <2>1. c \in Int /\ Negative(c) >= 0
    BY SemaphoreAssumption DEF Negative, Short
  <2>2. c >= 0 => Negative(c) = 0
    BY <2>1 DEF Negative
  <2> QED BY <1>3, <2>1, <2>2 DEF Told
<1> QED BY <1>1, <1>2, <1>3, <1>4, WokenIInv

\* sdelete: the semaphore is gone, and its list is empty.
LEMMA SdeleteIInv ==
  ASSUME IInv, 0 \notin Ids, NEW id \in Ids, Sdelete(id)
  PROVE  IInv'
<1> DEFINE i == Pos(id)
<1>1. i \in Cell /\ pc # "ordonnance"
  BY PosFound DEF IInv, Sdelete, User
<1>2. /\ tabId' = [tabId EXCEPT ![i] = 0] /\ Debloquer(i, 3, TRUE)
      /\ UNCHANGED <<cpt, prochainId, sema>>
  BY DEF Sdelete
<1> HIDE DEF i
<1>3. cpt[i] \in Short /\ cpt' = [cpt EXCEPT ![i] = cpt[i]]
  BY <1>1, <1>2 DEF IInv, SemaTypes
<1>4. /\ tabId' \in [Cell -> Nat] /\ tabId'[i] = 0
      /\ \A j \in Cell : j # i => tabId'[j] = tabId[j]
  BY <1>1, <1>2 DEF IInv, SemaTypes
<1> QED BY <1>1, <1>2, <1>3, <1>4, DebloquerIInv

\* int16_t arithmetic: whatever is converted fits.
LEMMA ShortRange == \A n \in Int : ToShort(n) \in Short
<1> DEFINE W == 2 * (MaxShort + 1)
<1>1. W \in Nat \ {0} /\ MaxShort \in Nat \ {0}
  BY SemaphoreAssumption
<1>2. \A x \in Int : x % W \in 0..(W - 1)
  <2> HIDE DEF W
  <2> QED BY <1>1, Z3
<1>3. ASSUME NEW n \in Int PROVE ToShort(n) \in Short
  <2>1. (n + MaxShort + 1) % W \in 0..(W - 1)
    BY <1>1, <1>2
  <2> QED BY <1>1, <2>1 DEF ToShort, Short
<1> QED BY <1>3

\* sreset: the counter is new, and not negative if the count fits.
LEMMA SresetIInv ==
  ASSUME IInv, 0 \notin Ids, NEW r \in Resets, Sreset(r[1], r[2])
  PROVE  IInv'
<1>0. r[1] \in Ids /\ r[2] \in Nat
  BY SemaphoreAssumption
<1> DEFINE id == r[1]
           count == r[2]
           i == Pos(id)
<1>1. i \in Cell /\ pc # "ordonnance"
  BY <1>0, PosFound DEF IInv, Sreset, User
<1>2. /\ cpt' = [cpt EXCEPT ![i] = ToShort(count)] /\ Debloquer(i, 4, TRUE)
      /\ UNCHANGED <<tabId, prochainId, sema>>
      /\ tabId[i] = id
  BY <1>0, PosFound DEF Sreset, IInv
<1> HIDE DEF i
<1>3. /\ ToShort(count) \in Short
      /\ ResetsFit(tabId[i]) => ToShort(count) >= 0
  <2>1. ASSUME ResetsFit(tabId[i]) PROVE ToShort(count) >= 0
    <3>1. count <= MaxShort
      BY <1>2, <2>1 DEF ResetsFit
    <3>2. count \in Short
      BY <1>0, <3>1, SemaphoreAssumption DEF Short
    <3> QED BY <1>0, <3>2, Shorts
  <2> QED BY <1>0, <2>1, ShortRange
<1>4. tabId' \in [Cell -> Nat] /\ tabId'[i] \in {0, tabId[i]}
      /\ \A j \in Cell : j # i => tabId'[j] = tabId[j]
  BY <1>2 DEF IInv, SemaTypes
<1> QED BY <1>1, <1>2, <1>3, <1>4, DebloquerIInv

\* test_wait: the counter is not the least.
LEMMA Lowerable ==
  ASSUME SemaTypes, NEW i \in Cell, ToShort(cpt[i] - 1) < cpt[i]
  PROVE  cpt[i] - 1 \in Short
<1>1. cpt[i] \in Short
  BY DEF SemaTypes
<1>2. cpt[i] # -MaxShort - 1
  <2> SUFFICES ASSUME cpt[i] = -MaxShort - 1 PROVE FALSE
    OBVIOUS
  <2>1. cpt[i] - 1 = -MaxShort - 2
    BY SemaphoreAssumption
  <2>2. MaxShort < cpt[i]
    BY <2>1, Shorts
  <2> QED BY <2>2, SemaphoreAssumption
<1> QED BY <1>1, <1>2, SemaphoreAssumption DEF Short

\* A unit is taken from a counter that stays at 0 or above.
LEMMA TakenIInv ==
  ASSUME IInv, 0 \notin Ids, NEW id \in Ids, TestWait(id), cpt[Pos(id)] - 1 >= 0,
         cpt' = [cpt EXCEPT ![Pos(id)] = @ - 1],
         UNCHANGED <<sched, tabId, file, prochainId, sema>>
  PROVE  IInv'
<1> DEFINE i == Pos(id)
           c == cpt[i] - 1
<1>1. i \in Cell /\ tabId[i] # 0 /\ SemaTypes
  BY PosFound DEF IInv, TestWait
<1>2. c \in Short /\ c >= 0
  BY <1>1, Lowerable DEF TestWait
<1>3. cpt' = [cpt EXCEPT ![i] = c] /\ cpt[i] \in Int
  BY <1>1 DEF SemaTypes, Short
<1>4. Len(file[i]) = 0
  <2>1. file[i] \in Seq(Pid) /\ Len(file[i]) \in Nat
    BY <1>1 DEF SemaTypes
  <2> QED BY <1>1, <1>2, <1>3, <2>1, SemaphoreAssumption
          DEF IInv, CountInStep, Short, Negative
<1>5. /\ file[i] \in Seq(Pid) /\ NoDup(file[i]) /\ file' = [file EXCEPT ![i] = file[i]]
      /\ tabId \in [Cell -> Nat] /\ sema \in [Proc -> Cell]
  BY <1>1 DEF IInv, SemaTypes, ListsMatch
<1> HIDE DEF i, c
<1>6. SchedInv' /\ UNCHANGED <<state, tabId, sema, prochainId>>
  BY OtherSched DEF IInv
<1>7. Told(Len(file[i]), c, tabId[i])
  <2>1. Negative(c) = 0
    BY <1>2 DEF Negative, Short
  <2> QED BY <1>4, <2>1 DEF Told
<1>8. /\ \A p \in Proc, j \in Cell :
           j # i => (state'[p] = "BLOCKEDSEMA" /\ sema'[p] = j <=> Blocked(p, j))
      /\ \A p \in Pid :
           p \in Elems(file[i]) <=> p \in Proc /\ state'[p] = "BLOCKEDSEMA" /\ sema'[p] = i
  BY <1>1, <1>6 DEF IInv, ListsMatch, Blocked
<1>9. /\ tabId' \in [Cell -> Nat] /\ tabId'[i] # 0 /\ sema' \in [Proc -> Cell]
      /\ \A j \in Cell : tabId'[j] = tabId[j]
  BY <1>1, <1>5, <1>6
<1> DEFINE w == file[i]
<1>10. /\ w \in Seq(Pid) /\ NoDup(w) /\ file' = [file EXCEPT ![i] = w]
       /\ Told(Len(w), c, tabId[i])
  BY <1>5, <1>7
<1>11. \A p \in Pid :
         p \in Elems(w) <=> p \in Proc /\ state'[p] = "BLOCKEDSEMA" /\ sema'[p] = i
  BY <1>8
<1> HIDE DEF w
<1> QED BY <1>1, <1>2, <1>3, <1>6, <1>8, <1>9, <1>10, <1>11, QueueStep

\* wait blocks: one waiter more, one unit less.
LEMMA WaitBlockIInv ==
  ASSUME IInv, 0 \notin Ids, NEW id \in Ids, WaitBlock(id)
  PROVE  IInv'
<1> DEFINE i == Pos(id)
           c == cpt[i] - 1
           w == QueueAdd(file[i], cur, prio)
<1>1. i \in Cell /\ tabId[i] # 0 /\ SemaTypes
  BY PosFound DEF IInv, WaitBlock, TestWait
<1>2. /\ cpt' = [cpt EXCEPT ![i] = c] /\ file' = [file EXCEPT ![i] = w]
      /\ sema' = [sema EXCEPT ![cur] = i] /\ Block("BLOCKEDSEMA") /\ c < 0
      /\ UNCHANGED <<tabId, prochainId>>
  BY <1>1 DEF WaitBlock, MustBlock, SemaTypes
<1>3. c \in Short /\ cpt[i] \in Int
  BY <1>1, Lowerable DEF WaitBlock, TestWait, SemaTypes, Short
<1>4. /\ cur \in Proc /\ cur \in Pid /\ state[cur] = "CHOSEN"
      /\ pc # "ordonnance" /\ cur # Idle
  BY PidFacts DEF IInv, SchedInv, WaitBlock, User
<1>5. SchedInv'
  BY <1>2, <1>4, BlockSched DEF IInv
<1>6. /\ file[i] \in Seq(Pid) /\ NoDup(file[i]) /\ cur \notin Elems(file[i])
      /\ prio \in [Pid -> Int]
  BY <1>1, <1>4 DEF IInv, SchedInv, SemaTypes, ListsMatch, Blocked
<1>7. /\ w \in Seq(Pid) /\ NoDup(w) /\ Elems(w) = Elems(file[i]) \cup {cur}
      /\ Len(w) = Len(file[i]) + 1
  <2> DEFINE q == file[i]
  <2>1. q \in Seq(Pid) /\ NoDup(q) /\ cur \notin Elems(q)
    BY <1>6
  <2> HIDE DEF q, i
  <2>2. /\ QueueAdd(q, cur, prio) \in Seq(Pid) /\ NoDup(QueueAdd(q, cur, prio))
        /\ Elems(QueueAdd(q, cur, prio)) = Elems(q) \cup {cur}
    BY <1>4, <1>6, <2>1, QueueAddElems
  <2>3. Len(QueueAdd(q, cur, prio)) = Len(q) + 1
    BY <1>4, <1>6, <2>1, QueueLengths
  <2> QED BY <2>2, <2>3 DEF q
<1>8. Told(Len(w), c, tabId[i])
  <2> DEFINE n == Len(file[i])
  <2>1. Told(n, cpt[i], tabId[i]) /\ n \in Nat /\ Len(w) = n + 1
    BY <1>1, <1>6, <1>7 DEF IInv, CountInStep, Told
  <2>2. c \in Int /\ Negative(c) >= Negative(cpt[i]) + 1
        /\ (cpt[i] <= 0 => Negative(c) = Negative(cpt[i]) + 1)
    BY <1>2, <1>3 DEF Negative
  <2>3. cpt[i] <= 0
    BY <1>2, <1>3
  <2>4. Negative(cpt[i]) \in Int
    BY <1>3 DEF Negative
  <2> HIDE DEF n, w, c
  <2> QED BY <2>1, <2>2, <2>3, <2>4 DEF Told
<1> HIDE DEF i, c, w
<1>9. /\ \A p \in Pid : state'[p] = IF p = cur THEN "BLOCKEDSEMA" ELSE state[p]
      /\ \A p \in Proc : sema'[p] = IF p = cur THEN i ELSE sema[p]
      /\ sema' \in [Proc -> Cell]
  BY <1>1, <1>2, <1>4 DEF IInv, SchedInv, SemaTypes, Block
<1>10. /\ \A p \in Proc, j \in Cell :
            j # i => (state'[p] = "BLOCKEDSEMA" /\ sema'[p] = j <=> Blocked(p, j))
       /\ \A p \in Pid :
            p \in Elems(w) <=> p \in Proc /\ state'[p] = "BLOCKEDSEMA" /\ sema'[p] = i
  BY <1>1, <1>4, <1>7, <1>9, PidFacts DEF IInv, ListsMatch, Blocked
<1>11. /\ tabId' \in [Cell -> Nat] /\ tabId'[i] # 0
       /\ \A j \in Cell : tabId'[j] = tabId[j]
  BY <1>1, <1>2 DEF SemaTypes
<1> QED BY <1>1, <1>2, <1>3, <1>5, <1>7, <1>8, <1>9, <1>10, <1>11, QueueStep

\* signaln adds what does not overflow, and serves a waiter for each unit.
LEMMA SignalCount ==
  ASSUME IInv, NEW i \in Cell, tabId[i] # 0, NEW count \in Short, Raisable(cpt[i], count),
         NEW up, up = IF count > 0 THEN count ELSE 0
  PROVE  /\ up \in Nat /\ cpt[i] + up \in Short /\ ToShort(cpt[i] + up) = cpt[i] + up
         /\ Told(Len(file[i]), cpt[i], tabId[i]) /\ Len(file[i]) \in Nat /\ cpt[i] \in Int
         /\ Served(i, count) = IF up < Len(file[i]) THEN up ELSE Len(file[i])
<1> DEFINE n == Len(file[i])
<1>1. /\ cpt[i] \in Short /\ cpt[i] \in Int /\ count \in Int /\ MaxShort \in Nat \ {0}
      /\ Told(n, cpt[i], tabId[i]) /\ n <= Negative(cpt[i]) /\ n \in Nat
  <2>1. file[i] \in Seq(Pid) /\ n \in Nat
    BY DEF IInv, SemaTypes
  <2> QED BY <2>1, SemaphoreAssumption DEF IInv, SemaTypes, Short, CountInStep, Told
<1>2. up \in Nat
  BY <1>1
<1>3. cpt[i] + up \in Short
  <2>1. CASE count <= 0
    BY <2>1, <1>1
  <2>2. CASE count > 0
    <3>1. cpt[i] + count <= 2 * MaxShort + 1 /\ cpt[i] + count >= -MaxShort - 1
      BY <2>2, <1>1 DEF Short
    <3>2. CASE cpt[i] + count > MaxShort
      <4>1. ToShort(cpt[i] + count) = cpt[i] + count - 2 * (MaxShort + 1)
        BY <1>1, <3>1, <3>2, Shorts
      <4>2. cpt[i] + count - 2 * (MaxShort + 1) < cpt[i]
        BY <1>1 DEF Short
      <4>3. cpt[i] + count - 2 * (MaxShort + 1) >= cpt[i]
        BY <4>1 DEF Raisable
      <4> QED BY <1>1, <4>2, <4>3
    <3>3. CASE ~ (cpt[i] + count > MaxShort)
      BY <1>1, <2>2, <3>1, <3>3 DEF Short
    <3> QED BY <3>2, <3>3
  <2> QED BY <2>1, <2>2, <1>1
<1>4. ToShort(cpt[i] + up) = cpt[i] + up
  BY <1>3, Shorts
<1>5. Served(i, count) = IF up < n THEN up ELSE n
  <2> DEFINE K == {k \in 1..count : cpt[i] + k <= 0 /\ k <= n}
             b == IF up < n THEN up ELSE n
  <2>1. b \in Nat /\ K = 1..b
    <3>1. \A k \in Int : k \in K <=> k \in 1..b
      BY <1>1, <1>2 DEF Negative
    <3> QED BY <3>1, <1>1, <1>2
  <2>2. Cardinality(1..b) = b
    <3>1. b \in Int /\ 1 \in Int /\ b - 1 + 1 = b
      BY <2>1
    <3> HIDE DEF b
    <3> QED BY <2>1, <3>1, FS_Interval
  <2> QED BY <2>1, <2>2 DEF Served
<1> QED BY <1>1, <1>2, <1>3, <1>4, <1>5

\* It wakes the last of the list, and leaves the others.
LEMMA SignalnIInv ==
  ASSUME IInv, 0 \notin Ids, NEW id \in Ids, NEW count \in Short, Signaln(id, count)
  PROVE  IInv'
<1> DEFINE i == Pos(id)
           n == Len(file[i])
           up == IF count > 0 THEN count ELSE 0
           left == n - Served(i, count)
           kept == SubSeq(file[i], 1, left)
           taken == SubSeq(file[i], left + 1, n)
           c == ToShort(cpt[i] + up)
<1>1. i \in Cell /\ tabId[i] # 0 /\ SemaTypes /\ pc # "ordonnance"
  BY PosFound DEF IInv, Signaln, User
<1>2. /\ cpt' = [cpt EXCEPT ![i] = c]
      /\ file' = [file EXCEPT ![i] = kept]
      /\ Wake(taken, cpt'[i] <= 0)
      /\ Raisable(cpt[i], count)
      /\ UNCHANGED <<tabId, prochainId, sema>>
  BY DEF Signaln
<1>3. file[i] \in Seq(Pid) /\ NoDup(file[i])
  BY <1>1 DEF IInv, SemaTypes, ListsMatch
<1>4. up = IF count > 0 THEN count ELSE 0
  OBVIOUS
<1> HIDE DEF up
<1>5. /\ up \in Nat /\ cpt[i] + up \in Short /\ c = cpt[i] + up
      /\ Told(n, cpt[i], tabId[i]) /\ n \in Nat /\ cpt[i] \in Int
      /\ Served(i, count) = IF up < n THEN up ELSE n
  BY <1>1, <1>2, <1>4, SignalCount
<1>6. left \in 0..n /\ Told(left, cpt[i] + up, tabId[i])
  <2> DEFINE served == Served(i, count)
  <2>1. served = (IF up < n THEN up ELSE n) /\ left = n - served
    BY <1>5
  <2> HIDE DEF served, left, n
  <2>2. left \in 0..n /\ left = IF up < n THEN n - up ELSE 0
    BY <1>5, <2>1
  <2>3. /\ n <= Negative(cpt[i]) => left <= Negative(cpt[i] + up)
        /\ n = Negative(cpt[i]) => left = Negative(cpt[i] + up)
    BY <1>5, <2>2 DEF Negative
  <2> QED BY <1>5, <2>2, <2>3 DEF Told
<1> HIDE DEF left, n
<1>7. /\ kept \in Seq(Pid) /\ taken \in Seq(Pid) /\ NoDup(kept) /\ NoDup(taken)
      /\ Len(kept) = left
      /\ Elems(kept) \cup Elems(taken) = Elems(file[i])
      /\ Elems(kept) \cap Elems(taken) = {}
  BY <1>3, <1>6, CutQueue DEF n
<1> HIDE DEF i, kept, taken, c
<1>8. tabId' \in [Cell -> Nat] /\ tabId'[i] = tabId[i] /\ tabId'[i] # 0
      /\ \A j \in Cell : j # i => tabId'[j] = tabId[j]
  BY <1>1, <1>2 DEF SemaTypes
<1>9. c \in Short /\ Told(Len(kept), c, tabId[i])
  BY <1>5, <1>6, <1>7
<1> QED BY <1>1, <1>2, <1>7, <1>8, <1>9, WokenIInv

\* kill of a blocked process: one waiter less, and its unit given back.
LEMMA KillIInv ==
  ASSUME IInv, NEW p \in Proc, Kill(p)
  PROVE  IInv'
<1>1. /\ SchedInv' /\ p \in Pid /\ DOMAIN state = Pid /\ SemaTypes
      /\ state' = [state EXCEPT ![p] = "ENDED"]
      /\ UNCHANGED <<tabId, prochainId, sema>>
  BY EndedSched, PidFacts DEF IInv, Kill, Ended, SchedInv
<1>2. CASE state[p] # "BLOCKEDSEMA"
  <2>1. UNCHANGED <<cpt, file>>
    BY <1>2 DEF Kill, GiveBack, Leave
  <2>2. /\ \A r \in Proc : state'[r] = "BLOCKEDSEMA" <=> state[r] = "BLOCKEDSEMA"
        /\ sema' \in [Proc -> Cell]
    BY <1>1, <1>2, PidFacts DEF SemaTypes
  <2> QED BY <1>1, <2>1, <2>2, SchedStep
<1>3. CASE state[p] = "BLOCKEDSEMA"
  <2> DEFINE i == sema[p]
             q == file[i]
             w == QueueDel(q, p)
             c == cpt[i] + 1
  <2>1. /\ i \in Cell /\ tabId[i] # 0 /\ q \in Seq(Pid) /\ NoDup(q)
        /\ Told(Len(q), cpt[i], tabId[i]) /\ cpt[i] \in Short
    BY <1>1, <1>3 DEF IInv, SemaTypes, ListsMatch, CountInStep, Told
  <2>2. \A r \in Pid : r \in Elems(q) <=> r \in Proc /\ Blocked(r, i)
    BY <2>1 DEF IInv, ListsMatch
  <2>3. /\ cpt' = [cpt EXCEPT ![i] = ToShort(c)] /\ file' = [file EXCEPT ![i] = w]
    BY <1>1, <1>3, <2>1 DEF Kill, GiveBack, Leave, SemaTypes
  <2>4. p \in Elems(q)
    BY <1>1, <1>3, <2>2 DEF Blocked
  <2> HIDE DEF q, i
  <2>5. w \in Seq(Pid) /\ NoDup(w) /\ Elems(w) = Elems(q) \ {p}
    BY <2>1, <2>4, QueueDelElems
  <2>6. Len(w) = Len(q) - 1 /\ Len(q) \in Nat /\ Len(w) \in Nat
    <3>1. prio \in [Pid -> Int]
      BY DEF IInv, SchedInv
    <3>2. Len(w) = Len(q) - 1
      BY <1>1, <2>1, <2>4, <3>1, QueueLengths
    <3> QED BY <2>1, <2>5, <3>2, LenProperties
  <2>7. cpt[i] < 0 /\ c \in Short /\ Told(Len(w), c, tabId[i]) /\ ToShort(c) = c
    <3>1. cpt[i] \in Int /\ MaxShort \in Nat
      BY <2>1, SemaphoreAssumption DEF Short
    <3>2. cpt[i] < 0
      BY <2>1, <2>6, <3>1 DEF Negative, Told
    <3>3. c \in Short /\ Negative(c) = Negative(cpt[i]) - 1 /\ Negative(cpt[i]) \in Int
      BY <2>1, <3>1, <3>2, SemaphoreAssumption DEF Short, Negative
    <3>4. Told(Len(w), c, tabId[i])
      BY <2>1, <2>6, <3>3 DEF Told
    <3> QED BY <3>2, <3>3, <3>4, Shorts
  <2> HIDE DEF w, c
  <2>8. /\ cpt' = [cpt EXCEPT ![i] = c] /\ tabId' \in [Cell -> Nat] /\ tabId'[i] # 0
        /\ \A j \in Cell : tabId'[j] = tabId[j]
        /\ sema' \in [Proc -> Cell] /\ sema' = sema
    BY <1>1, <2>1, <2>3, <2>7 DEF SemaTypes
  <2>9. \A r \in Pid : state'[r] = IF r = p THEN "ENDED" ELSE state[r]
    BY <1>1
  <2>10. /\ \A r \in Proc, j \in Cell :
              j # i => (state'[r] = "BLOCKEDSEMA" /\ sema'[r] = j <=> Blocked(r, j))
         /\ \A r \in Pid :
              r \in Elems(w) <=> r \in Proc /\ state'[r] = "BLOCKEDSEMA" /\ sema'[r] = i
    <3>1. sema[p] = i
      BY DEF i
    <3> QED BY <2>2, <2>5, <2>8, <2>9, <3>1, PidFacts DEF Blocked
  <2> QED BY <1>1, <2>1, <2>3, <2>5, <2>7, <2>8, <2>10, QueueStep
<1> QED BY <1>2, <1>3

\* start fills the structure of the process with zeros; it is not blocked.
LEMMA StartIInv ==
  ASSUME IInv, NEW p \in Proc, NEW n \in Prio, Start(p, n)
  PROVE  IInv'
<1>1. /\ SchedInv' /\ DOMAIN state = Pid /\ state[p] = "ENDED"
      /\ state' = [state EXCEPT ![p] = "ACTIVABLE"]
      /\ sema' = [sema EXCEPT ![p] = 0]
      /\ UNCHANGED <<tabId, cpt, file, prochainId>>
  BY StartedSched DEF IInv, Start, Started, SchedInv
<1>2. sema \in [Proc -> Cell] /\ 0 \in Cell
  BY SemaphoreAssumption DEF IInv, SemaTypes, Cell
<1>3. /\ sema' \in [Proc -> Cell]
      /\ \A r \in Proc : r # p => sema'[r] = sema[r]
      /\ \A r \in Proc : state'[r] = IF r = p THEN "ACTIVABLE" ELSE state[r]
  BY <1>1, <1>2, PidFacts
<1> QED BY <1>1, <1>3, SchedStep

\* chprio of a blocked process moves it within its list.
LEMMA ChprioIInv ==
  ASSUME IInv, NEW p \in Proc, NEW n \in Prio, Chprio(p, n)
  PROVE  IInv'
<1>1. /\ SchedInv' /\ p \in Pid /\ SemaTypes /\ prio' \in [Pid -> Int]
      /\ UNCHANGED <<state, tabId, cpt, prochainId, sema>>
  <2>1. SchedInv'
    BY RepriorisedSched DEF IInv, Chprio
  <2> QED BY <2>1, PidFacts DEF IInv, Chprio, Repriorised, SchedInv
<1>2. CASE state[p] # "BLOCKEDSEMA"
  <2>1. UNCHANGED file
    BY <1>2 DEF Chprio
  <2>2. sema' \in [Proc -> Cell]
    BY <1>1 DEF SemaTypes
  <2> QED BY <1>1, <2>1, <2>2, SchedStep
<1>3. CASE state[p] = "BLOCKEDSEMA"
  <2> DEFINE i == sema[p]
             q == file[i]
             d == QueueDel(q, p)
             w == QueueAdd(d, p, prio')
             c == cpt[i]
  <2>1. /\ i \in Cell /\ tabId[i] # 0 /\ q \in Seq(Pid) /\ NoDup(q)
        /\ Told(Len(q), c, tabId[i]) /\ c \in Short
    BY <1>1, <1>3 DEF IInv, SemaTypes, ListsMatch, CountInStep, Told
  <2>2. \A r \in Pid : r \in Elems(q) <=> r \in Proc /\ Blocked(r, i)
    BY <2>1 DEF IInv, ListsMatch
  <2>3. p \in Elems(q)
    BY <1>1, <1>3, <2>2 DEF Blocked
  <2>4. file' = [file EXCEPT ![i] = w]
    BY <1>1, <1>3, <2>1, <2>3 DEF Chprio, Requeued, SemaTypes
  <2>5. cpt' = [cpt EXCEPT ![i] = c]
    BY <1>1, <2>1 DEF SemaTypes
  <2> HIDE DEF i, q, c
  <2>6. /\ d \in Seq(Pid) /\ NoDup(d) /\ Elems(d) = Elems(q) \ {p}
        /\ Len(d) = Len(q) - 1
    <3>1. /\ d \in Seq(Pid) /\ NoDup(d) /\ Elems(d) = Elems(q) \ {p}
      BY <2>1, <2>3, QueueDelElems
    <3>2. prio \in [Pid -> Int]
      BY DEF IInv, SchedInv
    <3>3. Len(d) = Len(q) - 1
      BY <1>1, <2>1, <2>3, <3>2, QueueLengths
    <3> QED BY <3>1, <3>3
  <2> HIDE DEF d
  <2>7. w \in Seq(Pid) /\ NoDup(w) /\ Elems(w) = Elems(q) /\ Len(w) = Len(q)
    <3>1. \A key \in [Pid -> Int] :
             /\ QueueAdd(d, p, key) \in Seq(Pid) /\ NoDup(QueueAdd(d, p, key))
             /\ Elems(QueueAdd(d, p, key)) = Elems(d) \cup {p}
      BY <1>1, <2>6, QueueAddElems
    <3>2. \A key \in [Pid -> Int] : Len(QueueAdd(d, p, key)) = Len(d) + 1
      BY <1>1, <2>6, QueueLengths
    <3>3. Len(q) \in Nat /\ Len(d) \in Nat
      BY <2>1, <2>6, LenProperties
    <3>4. /\ w \in Seq(Pid) /\ NoDup(w) /\ Elems(w) = Elems(d) \cup {p}
          /\ Len(w) = Len(d) + 1
      BY <1>1, <3>1, <3>2
    <3> HIDE DEF w
    <3>5. Elems(w) = Elems(q)
      BY <2>3, <2>6, <3>4
    <3>6. Len(w) = Len(q)
      BY <2>6, <3>3, <3>4
    <3> QED BY <3>4, <3>5, <3>6
  <2> HIDE DEF w
  <2>8. /\ tabId' \in [Cell -> Nat] /\ tabId'[i] # 0
        /\ \A j \in Cell : tabId'[j] = tabId[j]
        /\ sema' \in [Proc -> Cell]
    BY <1>1, <2>1 DEF SemaTypes
  <2>9. /\ \A r \in Proc, j \in Cell :
             j # i => (state'[r] = "BLOCKEDSEMA" /\ sema'[r] = j <=> Blocked(r, j))
        /\ \A r \in Pid :
             r \in Elems(w) <=> r \in Proc /\ state'[r] = "BLOCKEDSEMA" /\ sema'[r] = i
    BY <1>1, <2>2, <2>7 DEF Blocked
  <2>10. Told(Len(w), c, tabId[i])
    BY <2>1, <2>7
  <2> QED BY <1>1, <2>1, <2>4, <2>5, <2>7, <2>8, <2>9, <2>10, QueueStep
<1> QED BY <1>2, <1>3

\* The tick, ordonnance and the end of wait leave blocked processes blocked.
LEMMA OthersIInv ==
  ASSUME IInv, WaitReturn \/ Tick \/ Ordonnance \/ UNCHANGED vars
  PROVE  IInv'
<1>1. UNCHANGED <<tabId, cpt, file, prochainId, sema>> /\ sema' \in [Proc -> Cell]
  BY DEF WaitReturn, Tick, Ordonnance, vars, semas, IInv, SemaTypes
<1>2. CASE Ordonnance
  <2>1. /\ SchedInv'
        /\ \A p \in Pid : state[p] \notin {"CHOSEN", "ACTIVABLE"} => state'[p] = state[p]
        /\ \A p \in Pid : state[p] \in {"CHOSEN", "ACTIVABLE"} =>
                             state'[p] \in {"CHOSEN", "ACTIVABLE"}
    BY <1>2, ElectedSched DEF IInv, Ordonnance
  <2>2. \A p \in Proc : state'[p] = "BLOCKEDSEMA" <=> state[p] = "BLOCKEDSEMA"
    BY <2>1, PidFacts
  <2> QED BY <1>1, <2>1, <2>2, SchedStep
<1>3. CASE WaitReturn \/ Tick \/ UNCHANGED vars
  <2>1. SchedInv' /\ UNCHANGED state
    BY <1>3, OtherSched DEF IInv, WaitReturn, Tick, vars
  <2> QED BY <1>1, <2>1, SchedStep
<1> QED BY <1>2, <1>3

-----------------------------------------------------------------------------
(* The steps together. *)

\* At first there is no semaphore and nobody is blocked.
LEMMA InitIInv == Init => IInv
<1> SUFFICES ASSUME Init PROVE IInv
  OBVIOUS
<1>1. SchedInv
  BY InitSched DEF Init
<1>2. 0 \in Short /\ 0 \in Cell
  BY SemaphoreAssumption DEF Short, Cell
<1>3. <<>> \in Seq(Pid) /\ NoDup(<<>>) /\ Elems(<<>>) = {}
  BY DEF NoDup, Elems
<1>4. SemaTypes /\ IdsGiven /\ CountInStep
  BY <1>2, <1>3 DEF Init, SemaTypes, IdsGiven, CountInStep
<1>5. \A p \in Proc : state[p] # "BLOCKEDSEMA"
  BY PidFacts DEF Init, SchedInit
<1>6. ListsMatch
  BY <1>3, <1>5 DEF Init, ListsMatch, Blocked
<1> QED BY <1>1, <1>4, <1>6 DEF IInv

\* A step of the system keeps the invariant if screate takes a free place.
LEMMA NextIInv ==
  ASSUME IInv, 0 \notin Ids, [Next]_vars,
         \A i \in Cell : tabId[i] # 0 => tabId'[i] \in {0, tabId[i]}
  PROVE  IInv'
<1>1. ASSUME NEW c \in 0..MaxShort, Screate(c) PROVE IInv'
  BY <1>1, ScreateIInv
<1>2. ASSUME NEW id \in Ids, Sdelete(id) PROVE IInv'
  BY <1>2, SdeleteIInv
<1>3. ASSUME NEW r \in Resets, Sreset(r[1], r[2]) PROVE IInv'
  BY <1>3, SresetIInv
<1>4. ASSUME NEW id \in Ids, TryWait(id) \/ Wait(id) PROVE IInv'
  <2>1. Pos(id) \in Cell /\ cpt[Pos(id)] \in Int
    BY <1>4, PosFound DEF IInv, SemaTypes, TryWait, Wait, TestWait, Short
  <2>2. /\ TestWait(id) /\ cpt[Pos(id)] - 1 >= 0
        /\ cpt' = [cpt EXCEPT ![Pos(id)] = @ - 1]
        /\ UNCHANGED <<sched, tabId, file, prochainId, sema>>
    BY <1>4, <2>1 DEF TryWait, Wait, MustBlock
  <2> QED BY <2>2, TakenIInv
<1>5. ASSUME NEW id \in Ids, WaitBlock(id) PROVE IInv'
  BY <1>5, WaitBlockIInv
<1>6. ASSUME NEW id \in Ids, NEW c \in Short, Signaln(id, c) PROVE IInv'
  BY <1>6, SignalnIInv
<1>7. ASSUME NEW p \in Proc, Kill(p) PROVE IInv'
  BY <1>7, KillIInv
<1>8. ASSUME NEW p \in Proc, NEW n \in Prio, Start(p, n) PROVE IInv'
  BY <1>8, StartIInv
<1>9. ASSUME NEW p \in Proc, NEW n \in Prio, Chprio(p, n) PROVE IInv'
  BY <1>9, ChprioIInv
<1>10. ASSUME WaitReturn \/ Tick \/ Ordonnance \/ UNCHANGED vars PROVE IInv'
  BY <1>10, OthersIInv
<1> QED BY <1>1, <1>2, <1>3, <1>4, <1>5, <1>6, <1>7, <1>8, <1>9, <1>10 DEF Next

-----------------------------------------------------------------------------
(* The order of the waiting lists, and whom signaln wakes. *)

\* The waiting lists are sorted by the priorities of the moment.
ListsSorted == \A i \in Cell : Sorted(file[i], prio)

\* signaln serves no more waiters than there are.
LEMMA ServedFew ==
  ASSUME IInv, NEW i \in Cell, NEW count \in Short
  PROVE  Len(file[i]) - Served(i, count) \in 0..Len(file[i])
<1> DEFINE n == Len(file[i])
           K == {k \in 1..count : cpt[i] + k <= 0 /\ k <= n}
<1>1. n \in Nat /\ count \in Int
  BY LenProperties, SemaphoreAssumption DEF IInv, SemaTypes, Short
<1>2. K \in SUBSET (1..n)
  BY <1>1
<1>3. IsFiniteSet(1..n) /\ Cardinality(1..n) = n
  BY <1>1, FS_Interval
<1>4. Cardinality(K) \in Nat /\ Cardinality(K) <= n
  BY <1>2, <1>3, FS_Subset, FS_CardinalityType
<1> HIDE DEF n, K
<1>5. n - Cardinality(K) \in 0..n
  BY <1>1, <1>4
<1> QED BY <1>5 DEF Served, n, K

\* A list that gets shorter, longer by one, or empty, while no priority of a
\* waiter changes, or one that is sorted again.
LEMMA ListStep ==
  ASSUME IInv, ListsSorted, NEW i \in Cell, NEW w, file' = [file EXCEPT ![i] = w],
         Sorted(w, prio'),
         \A r \in Pid : state[r] = "BLOCKEDSEMA" /\ sema[r] # i => prio'[r] = prio[r]
  PROVE  ListsSorted'
<1>1. ASSUME NEW j \in Cell PROVE Sorted(file'[j], prio')
  <2>1. CASE j = i
    BY <2>1 DEF IInv, SemaTypes
  <2>2. CASE j # i
    <3>1. file'[j] = file[j] /\ file[j] \in Seq(Pid)
      BY <2>2 DEF IInv, SemaTypes
    <3>2. \A r \in Elems(file[j]) : prio'[r] = prio[r]
      <4>1. \A r \in Elems(file[j]) : r \in Pid /\ state[r] = "BLOCKEDSEMA" /\ sema[r] # i
        BY <2>2, <3>1, ElemsEmpty DEF IInv, ListsMatch, Blocked
      <4> QED BY <4>1
    <3> QED BY <3>1, <3>2, SortedByKeys DEF ListsSorted
  <2> QED BY <2>1, <2>2
<1> QED BY <1>1 DEF ListsSorted

\* Every step keeps the lists sorted.
LEMMA NextListsSorted ==
  ASSUME IInv, 0 \notin Ids, ListsSorted, [Next]_vars
  PROVE  ListsSorted'
<1>1. ASSUME UNCHANGED <<file, prio>> PROVE ListsSorted'
  BY <1>1 DEF ListsSorted
<1>2. ASSUME NEW i, prio' = prio, file' = [file EXCEPT ![i] = <<>>] PROVE ListsSorted'
  <2> DEFINE w == <<>>
  <2>1. Sorted(w, prio') /\ file' = [file EXCEPT ![i] = w]
    BY <1>2 DEF Sorted
  <2>2. ASSUME NEW j \in Cell PROVE Sorted(file'[j], prio')
    <3>1. file'[j] = w \/ file'[j] = file[j]
      BY <2>1 DEF IInv, SemaTypes
    <3> HIDE DEF w
    <3> QED BY <1>2, <2>1, <3>1 DEF ListsSorted
  <2> QED BY <2>2 DEF ListsSorted
<1>3. ASSUME NEW c \in 0..MaxShort, Screate(c) PROVE ListsSorted'
  BY <1>3, <1>2 DEF Screate, sched
<1>4. ASSUME NEW id \in Ids, Sdelete(id) PROVE ListsSorted'
  BY <1>4, <1>2 DEF Sdelete, Debloquer, Wake
<1>5. ASSUME NEW r \in Resets, Sreset(r[1], r[2]) PROVE ListsSorted'
  BY <1>5, <1>2 DEF Sreset, Debloquer, Wake
<1>6. ASSUME NEW id \in Ids, TryWait(id) \/ Wait(id) PROVE ListsSorted'
  BY <1>6, <1>1 DEF TryWait, Wait, sched
<1>7. ASSUME NEW id \in Ids, WaitBlock(id) PROVE ListsSorted'
  <2> DEFINE i == Pos(id)
             q == file[i]
             w == QueueAdd(q, cur, prio)
  <2>1. i \in Cell
    BY <1>7, PosFound DEF IInv, WaitBlock, TestWait
  <2>2. file' = [file EXCEPT ![i] = w] /\ prio' = prio /\ cur \in Pid
    BY <1>7, <2>1 DEF WaitBlock, Block, IInv, SemaTypes, SchedInv
  <2> HIDE DEF i
  <2>3. q \in Seq(Pid) /\ prio \in [Pid -> Int] /\ Sorted(q, prio)
    BY <2>1 DEF IInv, SemaTypes, SchedInv, ListsSorted
  <2> HIDE DEF q
  <2>4. Sorted(w, prio)
    BY <2>2, <2>3, QueueAddSorted
  <2>5. Sorted(w, prio')
    BY <2>2, <2>4
  <2> HIDE DEF w
  <2> QED BY <2>1, <2>2, <2>5, ListStep
<1>8. ASSUME NEW id \in Ids, NEW c \in Short, Signaln(id, c) PROVE ListsSorted'
  <2> DEFINE i == Pos(id)
             q == file[i]
             m == Len(q) - Served(i, c)
             w == SubSeq(q, 1, m)
  <2>1. i \in Cell
    BY <1>8, PosFound DEF IInv, Signaln
  <2>2. file' = [file EXCEPT ![i] = w] /\ prio' = prio
    BY <1>8, <2>1 DEF Signaln, Wake, IInv, SemaTypes
  <2>3. m \in 0..Len(q)
    BY <2>1, ServedFew
  <2> HIDE DEF i, m
  <2>4. q \in Seq(Pid) /\ Sorted(q, prio)
    BY <2>1 DEF IInv, SemaTypes, ListsSorted
  <2> HIDE DEF q
  <2>5. Sorted(w, prio)
    BY <2>3, <2>4, CutSorted
  <2>6. Sorted(w, prio')
    BY <2>2, <2>5
  <2> HIDE DEF w
  <2> QED BY <2>1, <2>2, <2>6, ListStep
<1>9. ASSUME NEW p \in Proc, Kill(p) PROVE ListsSorted'
  <2>1. prio' = prio /\ file' = Leave(p)
    BY <1>9 DEF Kill, Ended
  <2>2. CASE state[p] # "BLOCKEDSEMA"
    BY <2>1, <2>2, <1>1 DEF Leave
  <2>3. CASE state[p] = "BLOCKEDSEMA"
    <3> DEFINE i == sema[p]
               q == file[i]
               w == QueueDel(q, p)
    <3>1. i \in Cell /\ file' = [file EXCEPT ![i] = w] /\ p \in Pid
      BY <2>1, <2>3, PidFacts DEF Leave, IInv, SemaTypes
    <3>2. q \in Seq(Pid) /\ Sorted(q, prio) /\ p \in Elems(q)
      BY <2>3, <3>1 DEF IInv, SemaTypes, ListsSorted, ListsMatch, Blocked
    <3> HIDE DEF q, i
    <3>3. Sorted(w, prio')
      BY <2>1, <3>2, QueueDelSorted
    <3> HIDE DEF w
    <3> QED BY <2>1, <3>1, <3>3, ListStep
  <2> QED BY <2>2, <2>3
<1>10. ASSUME NEW p \in Proc, NEW n \in Prio, Start(p, n) PROVE ListsSorted'
  <2>1. file' = file /\ prio' = [prio EXCEPT ![p] = n] /\ state[p] = "ENDED"
    BY <1>10 DEF Start, Started
  <2>2. \A r \in Pid : state[r] = "BLOCKEDSEMA" => prio'[r] = prio[r]
    BY <2>1 DEF IInv, SchedInv
  <2>3. ASSUME NEW j \in Cell PROVE Sorted(file'[j], prio')
    <3>1. \A r \in Elems(file[j]) : r \in Pid /\ state[r] = "BLOCKEDSEMA"
      BY ElemsEmpty DEF IInv, SemaTypes, ListsMatch, Blocked
    <3>2. \A r \in Elems(file[j]) : prio'[r] = prio[r]
      BY <2>2, <3>1
    <3>3. Sorted(file[j], prio)
      BY DEF ListsSorted
    <3>4. Sorted(file[j], prio')
      BY <3>2, <3>3, SortedByKeys
    <3> QED BY <2>1, <3>4
  <2> QED BY <2>3 DEF ListsSorted
<1>11. ASSUME NEW p \in Proc, NEW n \in Prio, Chprio(p, n) PROVE ListsSorted'
  <2>1. prio' = [prio EXCEPT ![p] = n] /\ p \in Pid /\ prio \in [Pid -> Int] /\ n \in Int
    BY <1>11, PidFacts DEF Chprio, Repriorised, IInv, SchedInv, Prio
  <2>2. prio' \in [Pid -> Int] /\ \A r \in Pid \ {p} : prio'[r] = prio[r]
    BY <2>1
  <2>3. CASE state[p] # "BLOCKEDSEMA"
    <3>1. ASSUME NEW j \in Cell PROVE Sorted(file'[j], prio')
      <4>1. \A r \in Elems(file[j]) : r \in Pid /\ state[r] = "BLOCKEDSEMA"
        BY ElemsEmpty DEF IInv, SemaTypes, ListsMatch, Blocked
      <4>2. \A r \in Elems(file[j]) : prio'[r] = prio[r]
        BY <2>2, <2>3, <4>1
      <4>3. file' = file
        BY <1>11, <2>3 DEF Chprio
      <4> QED BY <4>2, <4>3, SortedByKeys DEF ListsSorted
    <3> QED BY <3>1 DEF ListsSorted
  <2>4. CASE state[p] = "BLOCKEDSEMA"
    <3> DEFINE i == sema[p]
               q == file[i]
               w == QueueAdd(QueueDel(q, p), p, prio')
    <3>1. i \in Cell /\ p \in Elems(q)
      BY <2>1, <2>4 DEF IInv, SemaTypes, ListsMatch, Blocked
    <3>2. file' = [file EXCEPT ![i] = w]
      BY <1>11, <2>4, <3>1 DEF Chprio, Requeued, IInv, SemaTypes
    <3>3. q \in Seq(Pid) /\ NoDup(q) /\ Sorted(q, prio) /\ \A r \in Elems(q) : r \in Pid
      BY <3>1, ElemsEmpty DEF IInv, SemaTypes, ListsSorted, ListsMatch
    <3>4. \A r \in Pid : state[r] = "BLOCKEDSEMA" /\ sema[r] # i => prio'[r] = prio[r]
      BY <2>2
    <3> HIDE DEF q, i
    <3>5. \A x \in Elems(q) \ {p} : prio'[x] = prio[x]
      BY <2>2, <3>3
    <3>6. \A new \in [Pid -> Int] : (\A x \in Elems(q) \ {p} : new[x] = prio[x])
            => Sorted(QueueAdd(QueueDel(q, p), p, new), new)
      BY <2>1, <3>1, <3>3, RequeueSorted
    <3>7. Sorted(w, prio')
      BY <2>2, <3>5, <3>6
    <3> HIDE DEF w
    <3> QED BY <3>1, <3>2, <3>4, <3>7, ListStep
  <2> QED BY <2>3, <2>4
<1>12. ASSUME WaitReturn \/ Tick \/ Ordonnance \/ UNCHANGED vars PROVE ListsSorted'
  BY <1>12, <1>1 DEF WaitReturn, Returned, Tick, Preempted, Ordonnance, Elected, vars, semas, sched
<1> QED BY <1>3, <1>4, <1>5, <1>6, <1>7, <1>8, <1>9, <1>10, <1>11, <1>12 DEF Next

\* What HighestFirst says of a step.
Served1st ==
  \A p, r \in Proc :
    Signalled(p) /\ state[r] = "BLOCKEDSEMA" /\ sema[r] = sema[p] /\ ~ Signalled(r)
      => prio[r] <= prio[p]

\* Only signaln wakes with the code 0 and leaves the semaphores there: it cuts
\* off the tail of a sorted list.
LEMMA NextServed1st ==
  ASSUME IInv, 0 \notin Ids, ListsSorted, Next
  PROVE  Served1st
<1> SUFFICES ASSUME NEW p \in Proc, NEW r \in Proc, Signalled(p),
                    state[r] = "BLOCKEDSEMA", sema[r] = sema[p], ~ Signalled(r)
             PROVE  prio[r] <= prio[p]
  BY DEF Served1st
<1>1. /\ state[p] = "BLOCKEDSEMA" /\ state'[p] = "ACTIVABLE"
      /\ tabId' = tabId /\ codeReveil'[p] = 0
      /\ p \in Pid /\ r \in Pid /\ DOMAIN state = Pid
  BY PidFacts DEF Signalled, IInv, SchedInv
<1>2. \E id \in Ids, c \in Short : Signaln(id, c)
  <2>1. ASSUME NEW id \in Ids, Sdelete(id) PROVE FALSE
    <3>1. Pos(id) \in Cell /\ tabId[Pos(id)] # 0 /\ tabId' = [tabId EXCEPT ![Pos(id)] = 0]
      BY <2>1, PosFound DEF IInv, Sdelete
    <3>2. tabId'[Pos(id)] = 0
      BY <3>1 DEF IInv, SemaTypes
    <3> QED BY <1>1, <3>1, <3>2
  <2>2. ASSUME NEW c \in Resets, Sreset(c[1], c[2]) PROVE FALSE
    <3>1. p \in Elems(file[Pos(c[1])])
      BY <1>1, <2>2 DEF Sreset, Debloquer, Wake
    <3> QED BY <1>1, <2>2, <3>1 DEF Sreset, Debloquer
  <2>3. ASSUME NEW q \in Proc, Kill(q) PROVE FALSE
    BY <1>1, <2>3 DEF Kill, Ended
  <2>4. ASSUME NEW q \in Proc, NEW n \in Prio, Start(q, n) PROVE FALSE
    BY <1>1, <2>4 DEF Start, Started
  <2>5. ASSUME NEW id \in Ids, WaitBlock(id) PROVE FALSE
    BY <1>1, <2>5 DEF WaitBlock, Block
  <2>6. ASSUME Ordonnance PROVE FALSE
    BY <1>1, <2>6, ElectedSched DEF Ordonnance, IInv
  <2>7. ASSUME UNCHANGED state PROVE FALSE
    BY <1>1, <2>7
  <2>8. UNCHANGED state \/ (\E id \in Ids, c \in Short : Signaln(id, c))
    BY <2>1, <2>2, <2>3, <2>4, <2>5, <2>6
       DEF Next, Screate, TryWait, Wait, WaitReturn, Returned, Chprio, Repriorised, Tick,
           Preempted, sched
  <2> QED BY <2>7, <2>8
<1>3. PICK id \in Ids, c \in Short : Signaln(id, c)
  BY <1>2
<1> DEFINE i == Pos(id)
           q == file[i]
           m == Len(q) - Served(i, c)
           kept == SubSeq(q, 1, m)
           taken == SubSeq(q, m + 1, Len(q))
<1>4. i \in Cell
  BY <1>3, PosFound DEF IInv, Signaln
<1>5. /\ \A x \in Pid : state'[x] = IF x \in Elems(taken) THEN "ACTIVABLE" ELSE state[x]
      /\ \A x \in Proc : x \in Elems(taken) => codeReveil'[x] = 0
  BY <1>3 DEF Signaln, Wake
<1>6. m \in 0..Len(q)
  BY <1>4, ServedFew
<1> HIDE DEF i, m
<1>7. q \in Seq(Pid) /\ NoDup(q) /\ Sorted(q, prio)
      /\ \A x \in Pid : x \in Elems(q) <=> x \in Proc /\ Blocked(x, i)
  BY <1>4 DEF IInv, SemaTypes, ListsMatch, ListsSorted
<1> HIDE DEF q
<1>8. /\ Elems(kept) \cup Elems(taken) = Elems(q)
      /\ \A x \in Elems(kept), y \in Elems(taken) : prio[x] <= prio[y]
  BY <1>6, <1>7, CutQueue, CutSorted
<1> HIDE DEF kept, taken
<1>9. p \in Elems(taken)
  BY <1>1, <1>5
<1>10. r \in Elems(q)
  BY <1>1, <1>7, <1>8, <1>9 DEF Blocked
<1>11. r \notin Elems(taken)
  BY <1>1, <1>5 DEF Signalled
<1> QED BY <1>8, <1>9, <1>10, <1>11

-----------------------------------------------------------------------------
(* The values of the variables. *)

\* The cells in use.
Given == {i \in Cell : tabId[i] # 0}

\* What TypeOK says beyond SemaTypes, and why nb_sema stays in its range: it
\* counts the cells in use, and screate stops at NB_MAX_SEMA.
Ranges ==
  /\ \A i \in Cell : tabId[i] <= LastId
  /\ prochainId <= LastId + 1
  /\ codeReveil \in [Proc -> {0, 3, 4}]
  /\ nbSema = Cardinality(Given)
  /\ nbSema <= NbMaxSema

\* The cells are finitely many.
LEMMA GivenFinite == IsFiniteSet(Given) /\ Cardinality(Given) \in Nat
<1>1. IsFiniteSet(Cell)
  BY SemaphoreAssumption, FS_Interval DEF Cell
<1>2. Given \in SUBSET Cell
  BY DEF Given
<1> QED BY <1>1, <1>2, FS_Subset, FS_CardinalityType

\* Every step keeps the ranges, if screate takes a free place.
LEMMA NextRanges ==
  ASSUME IInv, 0 \notin Ids, Ranges, [Next]_vars,
         \A i \in Cell : tabId[i] # 0 => tabId'[i] \in {0, tabId[i]}
  PROVE  Ranges'
<1>1. ASSUME UNCHANGED <<tabId, prochainId, nbSema>>, codeReveil' \in [Proc -> {0, 3, 4}]
      PROVE  Ranges'
  BY <1>1 DEF Ranges, Given
<1>2. ASSUME UNCHANGED <<tabId, prochainId, nbSema>>, NEW P, NEW k \in {0, 3, 4},
             codeReveil' = [p \in Proc |-> IF p \in P THEN k ELSE codeReveil[p]]
      PROVE  Ranges'
  <2>1. codeReveil' \in [Proc -> {0, 3, 4}]
    BY <1>2 DEF Ranges
  <2> QED BY <1>1, <1>2, <2>1
<1>3. ASSUME NEW c \in 0..MaxShort, Screate(c) PROVE Ranges'
  <2> DEFINE i == NvellePlace(prochainId)
  <2>1. i \in Cell
    <3>1. NbMaxSema \in Nat \ {0} /\ prochainId \in Nat
      BY SemaphoreAssumption DEF IInv, SemaTypes
    <3>2. prochainId % NbMaxSema \in 0..(NbMaxSema - 1)
      BY <3>1, Z3
    <3> QED BY <3>1, <3>2 DEF NvellePlace, Cell
  <2>2. /\ tabId' = [tabId EXCEPT ![i] = prochainId]
        /\ prochainId' = prochainId + 1 /\ prochainId <= LastId
        /\ nbSema' = nbSema + 1 /\ nbSema \in 0..(NbMaxSema - 1)
        /\ UNCHANGED codeReveil
    BY <1>3 DEF Screate, Creatable
  <2> HIDE DEF i
  <2>3. prochainId \in Nat \ {0} /\ tabId \in [Cell -> Nat] /\ LastId \in Nat /\ NbMaxSema \in Nat
    BY SemaphoreAssumption DEF IInv, SemaTypes
  <2>4. \A j \in Cell : tabId'[j] = IF j = i THEN prochainId ELSE tabId[j]
    BY <2>2, <2>3
  <2>5. tabId[i] = 0
    <3>1. tabId[i] < prochainId /\ tabId[i] \in Nat
      BY <2>1, <2>3 DEF IInv, IdsGiven
    <3>2. tabId'[i] = prochainId
      BY <2>1, <2>4
    <3>3. tabId[i] # 0 => prochainId = 0 \/ prochainId = tabId[i]
      BY <2>1, <3>2
    <3> QED BY <2>3, <3>1, <3>3
  <2>6. Given' = Given \cup {i} /\ i \notin Given
    BY <2>1, <2>3, <2>4, <2>5 DEF Given
  <2>7. Cardinality(Given') = Cardinality(Given) + 1
    BY <2>6, GivenFinite, FS_AddElement
  <2>8. \A j \in Cell : tabId'[j] <= LastId
    BY <2>2, <2>4 DEF Ranges
  <2>9. prochainId' <= LastId + 1 /\ nbSema' <= NbMaxSema
    BY <2>2, <2>3
  <2>10. nbSema' = Cardinality(Given') /\ codeReveil' \in [Proc -> {0, 3, 4}]
    BY <2>2, <2>7 DEF Ranges
  <2> QED BY <2>8, <2>9, <2>10 DEF Ranges
<1>4. ASSUME NEW id \in Ids, Sdelete(id) PROVE Ranges'
  <2> DEFINE i == Pos(id)
             P == Elems(file[i])
  <2>1. i \in Cell /\ tabId[i] # 0
    BY <1>4, PosFound DEF IInv, Sdelete
  <2>2. /\ tabId' = [tabId EXCEPT ![i] = 0] /\ UNCHANGED prochainId
        /\ nbSema' = nbSema - 1
        /\ codeReveil' = [p \in Proc |-> IF p \in P THEN 3 ELSE codeReveil[p]]
    BY <1>4 DEF Sdelete, Debloquer
  <2> HIDE DEF i, P
  <2>3. tabId \in [Cell -> Nat] /\ LastId \in Nat /\ NbMaxSema \in Nat
    BY SemaphoreAssumption DEF IInv, SemaTypes
  <2>4. \A j \in Cell : tabId'[j] = IF j = i THEN 0 ELSE tabId[j]
    BY <2>2, <2>3
  <2>5. Given' = Given \ {i} /\ i \in Given
    BY <2>1, <2>4 DEF Given
  <2>6. Cardinality(Given') = Cardinality(Given) - 1
    BY <2>5, GivenFinite, FS_RemoveElement
  <2>7. \A j \in Cell : tabId'[j] <= LastId
    BY <2>3, <2>4 DEF Ranges
  <2>8. nbSema' = Cardinality(Given') /\ nbSema' <= NbMaxSema
    BY <2>2, <2>3, <2>6, GivenFinite DEF Ranges
  <2>9. codeReveil' \in [Proc -> {0, 3, 4}]
    BY <2>2 DEF Ranges
  <2>10. prochainId' <= LastId + 1
    BY <2>2 DEF Ranges
  <2> QED BY <2>7, <2>8, <2>9, <2>10 DEF Ranges
<1>5. ASSUME NEW r \in Resets, Sreset(r[1], r[2]) PROVE Ranges'
  BY <1>5, <1>2 DEF Sreset, Debloquer
<1>6. ASSUME NEW id \in Ids, NEW c \in Short, Signaln(id, c) PROVE Ranges'
  <2> DEFINE i == Pos(id)
             P == Elems(SubSeq(file[i], Len(file[i]) - Served(i, c) + 1, Len(file[i])))
  <2>1. /\ codeReveil' = [p \in Proc |-> IF p \in P THEN 0 ELSE codeReveil[p]]
        /\ UNCHANGED <<tabId, prochainId, nbSema>>
    BY <1>6 DEF Signaln
  <2> HIDE DEF P
  <2> QED BY <2>1, <1>2
<1>7. ASSUME NEW p \in Proc, NEW n \in Prio, Start(p, n) PROVE Ranges'
  BY <1>7, <1>1 DEF Start, Ranges
<1>8. ASSUME UNCHANGED <<tabId, prochainId, nbSema, codeReveil>> PROVE Ranges'
  BY <1>8, <1>1 DEF Ranges
<1>9. \/ \E c \in 0..MaxShort : Screate(c)
      \/ \E id \in Ids : \/ Sdelete(id)
                         \/ \E c \in Short : Signaln(id, c)
      \/ \E r \in Resets : Sreset(r[1], r[2])
      \/ \E p \in Proc, n \in Prio : Start(p, n)
      \/ UNCHANGED <<tabId, prochainId, nbSema, codeReveil>>
  BY DEF Next, TryWait, Wait, WaitBlock, WaitReturn, Kill, Chprio, Tick, Ordonnance, semas, vars
<1> QED BY <1>3, <1>4, <1>5, <1>6, <1>7, <1>8, <1>9

-----------------------------------------------------------------------------
(* The theorems: what holds as long as the calls are made with identifiers  *)
(* that screate can have given and screate takes free places only.         *)

\* The whole invariant.
LEMMA InvariantHolds == 0 \notin Ids /\ Spec /\ PlaceFree => [](IInv /\ ListsSorted /\ Ranges)
<1> SUFFICES ASSUME 0 \notin Ids
             PROVE  Spec /\ PlaceFree => [](IInv /\ ListsSorted /\ Ranges)
  OBVIOUS
<1>1. Init => IInv /\ ListsSorted /\ Ranges
  <2> SUFFICES ASSUME Init PROVE IInv /\ ListsSorted /\ Ranges
    OBVIOUS
  <2>1. ListsSorted
    BY DEF Init, ListsSorted, Sorted
  <2>2. Given = {} /\ \A i \in Cell : tabId[i] = 0
    BY DEF Init, Given
  <2>3. Cardinality(Given) = 0
    BY <2>2, FS_EmptySet
  <2>4. LastId \in Nat /\ NbMaxSema \in Nat
    BY SemaphoreAssumption
  <2>5. Ranges
    BY <2>2, <2>3, <2>4 DEF Init, Ranges
  <2> QED BY <2>1, <2>5, InitIInv
<1>2. IInv /\ ListsSorted /\ Ranges /\ [Next]_vars
        /\ [\A i \in Cell : tabId[i] # 0 => tabId'[i] \in {0, tabId[i]}]_vars
        => IInv' /\ ListsSorted' /\ Ranges'
  <2> SUFFICES ASSUME IInv, ListsSorted, Ranges, [Next]_vars,
                      [\A i \in Cell : tabId[i] # 0 => tabId'[i] \in {0, tabId[i]}]_vars
               PROVE  IInv' /\ ListsSorted' /\ Ranges'
    OBVIOUS
  <2>1. \A i \in Cell : tabId[i] # 0 => tabId'[i] \in {0, tabId[i]}
    BY DEF vars, semas
  <2> QED BY <2>1, NextIInv, NextListsSorted, NextRanges
<1> QED BY <1>1, <1>2, PTL DEF Spec, PlaceFree

\* Whatever sreset is called with, no semaphore has more waiters than its
\* counter tells of; and a negative counter is the number of the waiters if
\* all the counts that sreset is called with for that semaphore fit in it.
THEOREM CountsHold == 0 \notin Ids /\ Spec /\ PlaceFree => []CountInStep
<1>1. IInv => CountInStep
  BY DEF IInv
<1> QED BY <1>1, InvariantHolds, PTL

\* Every blocked process is once in the waiting list of the semaphore it
\* names, which is there, and in no other: so kill, chprio and signaln find it.
THEOREM WaitersHold == 0 \notin Ids /\ Spec /\ PlaceFree => []WaitersChained
<1>1. IInv => WaitersChained
  BY Chained DEF IInv
<1> QED BY <1>1, InvariantHolds, PTL

\* The variables of semaphores.c keep their ranges; in particular nb_sema,
\* which is unsigned, is never decremented below 0.
THEOREM TypesHold == 0 \notin Ids /\ Spec /\ PlaceFree => []TypeOK
<1>1. IInv /\ Ranges => TypeOK
  <2> SUFFICES ASSUME IInv, Ranges PROVE TypeOK
    OBVIOUS
  <2>1. \A i \in Cell : Elems(file[i]) \subseteq Proc
    BY ElemsEmpty DEF IInv, SemaTypes, ListsMatch
  <2>2. LastId \in Nat /\ NbMaxSema \in Nat
    BY SemaphoreAssumption
  <2>3. nbSema \in 0..NbMaxSema
    BY <2>2, GivenFinite DEF Ranges
  <2>4. prochainId \in 1..(LastId + 1) /\ tabId \in [Cell -> 0..LastId]
    BY <2>2 DEF Ranges, IInv, SemaTypes
  <2> QED BY <2>1, <2>3, <2>4 DEF TypeOK, IInv, SemaTypes, Ranges
<1> QED BY <1>1, InvariantHolds, PTL

\* A signal never passes over a waiter for one of lower priority, whatever
\* chprio did to the waiters meanwhile.
THEOREM HighestFirstHolds == 0 \notin Ids /\ Spec /\ PlaceFree => HighestFirst
<1> SUFFICES ASSUME 0 \notin Ids PROVE Spec /\ PlaceFree => HighestFirst
  OBVIOUS
<1>1. IInv /\ ListsSorted /\ [Next]_vars => [Served1st]_vars
  BY NextServed1st
<1>2. [Served1st]_vars =>
        [\A p, r \in Proc :
           Signalled(p) /\ state[r] = "BLOCKEDSEMA" /\ sema[r] = sema[p] /\ ~ Signalled(r)
             => prio[r] <= prio[p]]_vars
  BY DEF Served1st
<1> QED BY <1>1, <1>2, InvariantHolds, PTL DEF Spec, HighestFirst

-----------------------------------------------------------------------------
(* When places are free. *)

\* The identifiers of the cells are given out, each stands in one of its two
\* cells, and none stands twice.
Places ==
  /\ tabId \in [Cell -> Nat] /\ prochainId \in Nat \ {0}
  /\ IdsGiven
  /\ \A i \in Cell : tabId[i] # 0 => i \in Cells(tabId[i])
  /\ \A i, j \in Cell : tabId[i] = tabId[j] /\ tabId[i] # 0 => i = j

\* Among the first 2 * NbMaxSema identifiers, two have the same cells at most.
LEMMA TwoPerCell ==
  ASSUME NEW x \in Nat \ {0}, NEW y \in Nat \ {0}, NEW z \in Nat \ {0},
         x < z, y < z, z <= 2 * NbMaxSema,
         x % NbMaxSema = z % NbMaxSema, y % NbMaxSema = z % NbMaxSema
  PROVE  x = y
<1>1. NbMaxSema \in Nat \ {0}
  BY SemaphoreAssumption
<1>2. \A u \in Nat : u < NbMaxSema => u % NbMaxSema = u /\ (u + NbMaxSema) % NbMaxSema = u
  BY <1>1, Z3
<1>3. \A u \in Nat : u < 2 * NbMaxSema =>
                     u = u % NbMaxSema \/ u = (u % NbMaxSema) + NbMaxSema
  <2>1. ASSUME NEW u \in Nat, u < 2 * NbMaxSema
        PROVE  u = u % NbMaxSema \/ u = (u % NbMaxSema) + NbMaxSema
    <3>1. CASE u < NbMaxSema
      BY <3>1, <1>2
    <3>2. CASE u >= NbMaxSema
      <4>1. /\ u - NbMaxSema \in Nat /\ u - NbMaxSema < NbMaxSema
            /\ (u - NbMaxSema) + NbMaxSema = u
        BY <1>1, <2>1, <3>2
      <4>2. u % NbMaxSema = u - NbMaxSema
        BY <1>2, <4>1
      <4> QED BY <1>1, <4>2
    <3> QED BY <1>1, <3>1, <3>2
  <2> QED BY <2>1
<1>4. z % NbMaxSema \in Nat
  BY <1>1, Z3
<1>5. x < 2 * NbMaxSema /\ y < 2 * NbMaxSema
  BY <1>1
<1>6. CASE z < 2 * NbMaxSema
  BY <1>1, <1>3, <1>4, <1>5, <1>6
<1>7. CASE z = 2 * NbMaxSema
  <2>1. z % NbMaxSema = 0
    BY <1>1, <1>7, Z3
  <2> QED BY <1>1, <1>3, <1>5, <2>1
<1> QED BY <1>1, <1>6, <1>7

\* A step keeps Places, and it takes a free place as long as there are two
\* cells for each identifier.
LEMMA PlacesStep ==
  ASSUME Places, [Next]_vars
  PROVE  /\ Places'
         /\ LastId <= 2 * NbMaxSema =>
              \A i \in Cell : tabId[i] # 0 => tabId'[i] \in {0, tabId[i]}
<1>1. ASSUME UNCHANGED <<tabId, prochainId>>
      PROVE  Places' /\ \A i \in Cell : tabId[i] # 0 => tabId'[i] \in {0, tabId[i]}
  BY <1>1 DEF Places, IdsGiven
<1>2. ASSUME NEW id \in Ids, Sdelete(id)
      PROVE  Places' /\ \A i \in Cell : tabId[i] # 0 => tabId'[i] \in {0, tabId[i]}
  <2> DEFINE p == Pos(id)
  <2>1. tabId' = [tabId EXCEPT ![p] = 0] /\ UNCHANGED prochainId
    BY <1>2 DEF Sdelete
  <2> HIDE DEF p
  <2>2. /\ tabId' \in [Cell -> Nat]
        /\ \A i \in Cell : tabId'[i] = 0 \/ tabId'[i] = tabId[i]
    BY <2>1 DEF Places
  <2>3. IdsGiven'
    <3>1. \A i \in Cell : tabId'[i] < prochainId
      BY <2>2 DEF Places, IdsGiven
    <3> QED BY <2>1, <3>1 DEF IdsGiven
  <2>4. /\ \A i \in Cell : tabId'[i] # 0 => i \in Cells(tabId'[i])
        /\ \A i, j \in Cell : tabId'[i] = tabId'[j] /\ tabId'[i] # 0 => i = j
    BY <2>2 DEF Places
  <2> QED BY <2>1, <2>2, <2>3, <2>4 DEF Places, Cells
<1>3. ASSUME NEW c \in 0..MaxShort, Screate(c)
      PROVE  /\ Places'
             /\ LastId <= 2 * NbMaxSema =>
                  \A i \in Cell : tabId[i] # 0 => tabId'[i] \in {0, tabId[i]}
  <2> DEFINE n == prochainId
             a == n % NbMaxSema
             i == NvellePlace(n)
  <2>1. NbMaxSema \in Nat \ {0} /\ n \in Nat \ {0} /\ n <= LastId /\ LastId \in Nat
    BY <1>3, SemaphoreAssumption DEF Screate, Places
  <2>2. a \in 0..(NbMaxSema - 1)
    BY <2>1, Z3
  <2>3. tabId' = [tabId EXCEPT ![i] = n] /\ prochainId' = n + 1
    BY <1>3 DEF Screate
  <2>4. /\ a \in Cell /\ a + NbMaxSema \in Cell /\ a # a + NbMaxSema
        /\ i = IF tabId[a] = 0 THEN a ELSE a + NbMaxSema
        /\ Cells(n) = {a, a + NbMaxSema}
    <3>1. a \in Cell /\ a + NbMaxSema \in Cell /\ a # a + NbMaxSema
      <4> HIDE DEF a
      <4> QED BY <2>1, <2>2 DEF Cell
    <3> QED BY <3>1 DEF NvellePlace, Cells
  <2>5. i \in Cell /\ i \in Cells(n)
    BY <2>4
  <2>6. ASSUME NEW k \in Cell, k \in Cells(n), tabId[k] # 0
        PROVE  tabId[k] \in Nat \ {0} /\ tabId[k] < n /\ tabId[k] % NbMaxSema = a
    <3> DEFINE b == tabId[k] % NbMaxSema
    <3>1. tabId[k] \in Nat /\ tabId[k] < n /\ k \in {b, b + NbMaxSema}
      BY <2>6 DEF Places, IdsGiven, Cells
    <3>2. b \in 0..(NbMaxSema - 1)
      BY <2>1, <3>1, Z3
    <3>3. k \in {a, a + NbMaxSema}
      BY <2>4, <2>6
    <3> HIDE DEF a, b
    <3>4. a = b
      BY <2>1, <2>2, <3>1, <3>2, <3>3
    <3> QED BY <2>6, <3>1, <3>4 DEF b
  <2>7. LastId <= 2 * NbMaxSema => tabId[i] = 0
    <3> SUFFICES ASSUME LastId <= 2 * NbMaxSema, tabId[i] # 0 PROVE FALSE
      OBVIOUS
    <3>1. tabId[a] # 0 /\ tabId[a + NbMaxSema] # 0
      BY <2>4
    <3> DEFINE x == tabId[a]
               y == tabId[a + NbMaxSema]
    <3>2. x # y
      BY <2>4, <3>1 DEF Places
    <3>3. /\ x \in Nat \ {0} /\ x < n /\ x % NbMaxSema = a
          /\ y \in Nat \ {0} /\ y < n /\ y % NbMaxSema = a
      BY <2>4, <2>6, <3>1
    <3> HIDE DEF x, y
    <3>4. n <= 2 * NbMaxSema
      BY <2>1
    <3> QED BY <2>1, <3>2, <3>3, <3>4, TwoPerCell
  <2> HIDE DEF i
  <2>8. /\ tabId' \in [Cell -> Nat]
        /\ \A k \in Cell : tabId'[k] = IF k = i THEN n ELSE tabId[k]
    BY <2>1, <2>3, <2>5 DEF Places
  <2>9. \A k \in Cell : tabId[k] \in Nat /\ tabId[k] < n
    BY DEF Places, IdsGiven
  <2>10. IdsGiven'
    <3>1. \A k \in Cell : tabId'[k] < n + 1
      BY <2>1, <2>8, <2>9
    <3> QED BY <2>3, <3>1 DEF IdsGiven
  <2>11. \A k \in Cell : tabId'[k] # 0 => k \in Cells(tabId'[k])
    <3>1. \A k \in Cell : k = i => k \in Cells(tabId'[k])
      BY <2>5, <2>8
    <3>2. \A k \in Cell : k # i /\ tabId'[k] # 0 => k \in Cells(tabId'[k])
      BY <2>8 DEF Places
    <3> QED BY <3>1, <3>2
  <2>12. \A k, j \in Cell : tabId'[k] = tabId'[j] /\ tabId'[k] # 0 => k = j
    BY <2>1, <2>8, <2>9 DEF Places
  <2>13. LastId <= 2 * NbMaxSema =>
           \A k \in Cell : tabId[k] # 0 => tabId'[k] \in {0, tabId[k]}
    BY <2>7, <2>8
  <2>14. prochainId' \in Nat \ {0}
    BY <2>1, <2>3
  <2> QED BY <2>8, <2>10, <2>11, <2>12, <2>13, <2>14 DEF Places, Cells
<1>4. ASSUME ~ \E c \in 0..MaxShort : Screate(c), ~ \E id \in Ids : Sdelete(id)
      PROVE  UNCHANGED <<tabId, prochainId>>
  <2>1. UNCHANGED vars => UNCHANGED <<tabId, prochainId>>
    BY DEF vars, semas
  <2>2. Next => UNCHANGED <<tabId, prochainId>>
    BY <1>4 DEF Next, Sreset, TryWait, Wait, WaitBlock, WaitReturn, Signaln, Kill, Start,
                Chprio, Tick, Ordonnance, semas
  <2> QED BY <2>1, <2>2
<1> QED BY <1>1, <1>2, <1>3, <1>4

\* Until 2 * NB_MAX_SEMA semaphores have been created in all, screate never
\* takes the place of another; the run sema_place shows that it then can.
THEOREM FirstPlacesFree == LastId <= 2 * NbMaxSema /\ Spec => PlaceFree
<1> SUFFICES ASSUME LastId <= 2 * NbMaxSema PROVE Spec => PlaceFree
  OBVIOUS
<1>1. Init => Places
  BY DEF Init, Places, IdsGiven
<1>2. Places /\ [Next]_vars => Places'
  BY PlacesStep
<1>3. Places /\ [Next]_vars =>
        [\A i \in Cell : tabId[i] # 0 => tabId'[i] \in {0, tabId[i]}]_vars
  BY PlacesStep
<1> QED BY <1>1, <1>2, <1>3, PTL DEF Spec, PlaceFree

-----------------------------------------------------------------------------
(* The semaphores as module SemaphoreContract sees them.                   *)

Units == [id \in 1..LastId |->
            IF Found(id) THEN cpt[Pos(id)] + Len(file[Pos(id)]) ELSE Gone]
Wants == [p \in Proc |-> IF state[p] = "BLOCKEDSEMA" THEN tabId[sema[p]] ELSE 0]
Answers == [p \in Proc |-> IF p \in stopped /\ state[p] # "BLOCKEDSEMA"
                           THEN -codeReveil[p] ELSE 1]

\* The units of the semaphore of a cell: its waiters each hold one back.
Level(i) == cpt[i] + Len(file[i])

\* The same after the step, of a cell chosen before it.
NextLevel(i) == cpt'[i] + Len(file'[i])

\* Whoever is blocked has its kernel stack inside wait, and is elected back
\* into it; a process that has ended is not, and the next one of its pid
\* begins outside.
StopInv ==
  /\ stopped \subseteq Proc
  /\ \A p \in Proc : state[p] = "BLOCKEDSEMA" => p \in stopped
  /\ \A p \in Proc : state[p] = "ENDED" => p \notin stopped
  /\ pc = "user" => cur \notin stopped
  /\ pc = "resumed" => cur \in stopped

AllInv == IInv /\ Ranges /\ Places /\ StopInv

\* The process that makes a call.
LEMMA Caller ==
  ASSUME IInv, StopInv, User
  PROVE  /\ cur \in Proc /\ cur \in Pid /\ state[cur] = "CHOSEN" /\ cur \notin stopped
         /\ pc = "user" /\ DOMAIN state = Pid
BY PidFacts DEF IInv, SchedInv, StopInv, User

\* A process is stopped in wait from the moment when it blocks to that when
\* it is elected again, or ended.
LEMMA NextStopInv ==
  ASSUME IInv, 0 \notin Ids, StopInv, [Next]_vars
  PROVE  StopInv'
<1>1. ASSUME NEW i \in Cell, NEW ps, Elems(ps) \subseteq Elems(file[i]),
             NEW resched, Wake(ps, resched), pc = "user"
      PROVE  StopInv'
  <2>1. \A p \in Elems(ps) : p \in Proc /\ state[p] = "BLOCKEDSEMA"
    <3>1. Elems(file[i]) \subseteq Pid
      BY ElemsEmpty DEF IInv, SemaTypes
    <3> QED BY <1>1, <3>1 DEF IInv, ListsMatch, Blocked
  <2>2. /\ \A p \in Pid : state'[p] = IF p \in Elems(ps) THEN "ACTIVABLE" ELSE state[p]
        /\ pc' = IF resched THEN "ordonnance" ELSE "user"
        /\ UNCHANGED <<cur, stopped>>
    BY <1>1 DEF Wake
  <2> QED BY <1>1, <2>1, <2>2, PidFacts DEF StopInv
<1>2. ASSUME UNCHANGED sched PROVE StopInv'
  BY <1>2 DEF StopInv, sched
<1>3. ASSUME NEW c \in 0..MaxShort, Screate(c) PROVE StopInv'
  BY <1>3, <1>2 DEF Screate
<1>4. ASSUME NEW id \in Ids, Sdelete(id) PROVE StopInv'
  <2>1. Pos(id) \in Cell
    BY <1>4, PosFound DEF IInv, Sdelete
  <2> QED BY <1>4, <2>1, <1>1 DEF Sdelete, Debloquer, User
<1>5. ASSUME NEW r \in Resets, Sreset(r[1], r[2]) PROVE StopInv'
  <2>1. Pos(r[1]) \in Cell
    BY <1>5, PosFound, SemaphoreAssumption DEF IInv, Sreset
  <2> QED BY <1>5, <2>1, <1>1 DEF Sreset, Debloquer, User
<1>6. ASSUME NEW id \in Ids, TryWait(id) \/ Wait(id) PROVE StopInv'
  BY <1>6, <1>2 DEF TryWait, Wait
<1>7. ASSUME NEW id \in Ids, WaitBlock(id) PROVE StopInv'
  <2>1. cur \in Proc /\ cur \in Pid /\ DOMAIN state = Pid
    BY <1>7, Caller DEF WaitBlock
  <2>2. /\ state' = [state EXCEPT ![cur] = "BLOCKEDSEMA"] /\ stopped' = stopped \cup {cur}
        /\ pc' = "ordonnance"
    BY <1>7 DEF WaitBlock, Block
  <2>3. \A p \in Proc : state'[p] = IF p = cur THEN "BLOCKEDSEMA" ELSE state[p]
    BY <2>1, <2>2, PidFacts
  <2> QED BY <2>1, <2>2, <2>3 DEF StopInv
<1>8. ASSUME NEW id \in Ids, NEW c \in Short, Signaln(id, c) PROVE StopInv'
  <2> DEFINE i == Pos(id)
             q == file[i]
             m == Len(q) - Served(i, c)
             kept == SubSeq(q, 1, m)
             taken == SubSeq(q, m + 1, Len(q))
  <2>1. i \in Cell /\ pc = "user" /\ Wake(taken, cpt'[i] <= 0)
    BY <1>8, PosFound DEF IInv, Signaln, User
  <2>2. m \in 0..Len(q)
    BY <2>1, ServedFew
  <2> HIDE DEF i, m
  <2>3. q \in Seq(Pid) /\ NoDup(q)
    BY <2>1 DEF IInv, SemaTypes, ListsMatch
  <2> HIDE DEF q
  <2>4. Elems(taken) \subseteq Elems(q)
    <3>1. Elems(kept) \cup Elems(taken) = Elems(q)
      BY <2>2, <2>3, CutQueue
    <3> QED BY <3>1
  <2> HIDE DEF taken, kept
  <2> QED BY <2>1, <2>4, <1>1 DEF q
<1>9. ASSUME WaitReturn PROVE StopInv'
  <2>1. /\ pc = "resumed" /\ stopped' = stopped \ {cur} /\ pc' = "user"
        /\ UNCHANGED <<state, cur>> /\ state[cur] = "CHOSEN"
    BY <1>9 DEF WaitReturn, Returned, IInv, SchedInv
  <2> QED BY <2>1 DEF StopInv
<1>10. ASSUME NEW p \in Proc, Kill(p) PROVE StopInv'
  <2>1. /\ state' = [state EXCEPT ![p] = "ENDED"] /\ stopped' = stopped \ {p}
        /\ pc' = IF p = cur THEN "ordonnance" ELSE "user"
        /\ pc = "user" /\ UNCHANGED cur
    BY <1>10 DEF Kill, Ended, User
  <2>2. \A q \in Proc : state'[q] = IF q = p THEN "ENDED" ELSE state[q]
    BY <2>1, PidFacts DEF IInv, SchedInv
  <2> QED BY <2>1, <2>2 DEF StopInv
<1>11. ASSUME NEW p \in Proc, NEW n \in Prio, Start(p, n) PROVE StopInv'
  <2>1. /\ state' = [state EXCEPT ![p] = "ACTIVABLE"]
        /\ pc' \in {"ordonnance", "user"}
        /\ pc = "user" /\ UNCHANGED <<cur, stopped>>
    BY <1>11 DEF Start, Started, User
  <2>2. \A q \in Proc : state'[q] = IF q = p THEN "ACTIVABLE" ELSE state[q]
    BY <2>1, PidFacts DEF IInv, SchedInv
  <2> QED BY <2>1, <2>2 DEF StopInv
<1>12. ASSUME NEW p \in Proc, NEW n \in Prio, Chprio(p, n) PROVE StopInv'
  BY <1>12 DEF Chprio, Repriorised, User, StopInv
<1>13. ASSUME Tick PROVE StopInv'
  BY <1>13 DEF Tick, Preempted, StopInv
<1>14. ASSUME Ordonnance PROVE StopInv'
  <2>1. /\ \A p \in Pid : state[p] \notin {"CHOSEN", "ACTIVABLE"} => state'[p] = state[p]
        /\ \A p \in Pid : state[p] \in {"CHOSEN", "ACTIVABLE"} =>
                            state'[p] \in {"CHOSEN", "ACTIVABLE"}
    BY <1>14, ElectedSched DEF IInv, Ordonnance
  <2>2. /\ pc' = IF cur' \in stopped THEN "resumed" ELSE "user"
        /\ UNCHANGED stopped
    BY <1>14 DEF Ordonnance, Elected
  <2> QED BY <2>1, <2>2, PidFacts DEF StopInv
<1>15. ASSUME UNCHANGED vars PROVE StopInv'
  BY <1>15, <1>2 DEF vars
<1> QED BY <1>3, <1>4, <1>5, <1>6, <1>7, <1>8, <1>9, <1>10, <1>11, <1>12, <1>13, <1>14, <1>15
        DEF Next

\* Each identifier in use stands in one cell, and there it is found.
WellPlaced(t) ==
  /\ \A i \in Cell : t[i] # 0 => i \in Cells(t[i])
  /\ \A i, j \in Cell : t[i] = t[j] /\ t[i] # 0 => i = j

\* get_semaphore and get_pos_semaphore find it.
LEMMA PlaceOf ==
  ASSUME NEW t, WellPlaced(t), NEW id \in Nat \ {0}
  PROVE  /\ Cells(id) \subseteq Cell
         /\ \A i \in Cell : t[i] = id =>
              /\ \E k \in Cells(id) : t[k] = id
              /\ (CHOOSE k \in Cells(id) :
                    t[k] = id /\ \A j \in Cells(id) : t[j] = id => k <= j) = i
<1>1. Cells(id) \subseteq Cell
  <2> DEFINE a == id % NbMaxSema
  <2>1. NbMaxSema \in Nat \ {0}
    BY SemaphoreAssumption
  <2>2. a \in 0..(NbMaxSema - 1)
    BY <2>1, Z3
  <2>3. Cells(id) = {a, a + NbMaxSema}
    BY DEF Cells
  <2> HIDE DEF a
  <2> QED BY <2>1, <2>2, <2>3 DEF Cell
<1>2. ASSUME NEW i \in Cell, t[i] = id
      PROVE  /\ \E k \in Cells(id) : t[k] = id
             /\ (CHOOSE k \in Cells(id) :
                   t[k] = id /\ \A j \in Cells(id) : t[j] = id => k <= j) = i
  <2>1. i \in Cells(id) /\ \A j \in Cells(id) : t[j] = id => j = i
    BY <1>1, <1>2 DEF WellPlaced
  <2>2. i <= i
    BY SemaphoreAssumption DEF Cell
  <2>3. \A k \in Cells(id) :
          (t[k] = id /\ \A j \in Cells(id) : t[j] = id => k <= j) <=> k = i
    BY <1>2, <2>1, <2>2
  <2> QED BY <1>2, <2>1, <2>3
<1> QED BY <1>1, <1>2

\* What the counter says of the units: there are some when it is above 0, and
\* then nobody waits; and whatever it says, the semaphore is there.
LEMMA LevelBounds ==
  ASSUME AllInv, NEW i \in Cell, tabId[i] # 0
  PROVE  /\ cpt[i] \in Short /\ cpt[i] \in Int /\ Len(file[i]) \in Nat
         /\ Level(i) \in Int /\ Level(i) # Gone
         /\ cpt[i] >= 0 => Len(file[i]) = 0 /\ Level(i) = cpt[i]
         /\ cpt[i] <= 0 => Level(i) <= 0
<1> DEFINE n == Len(file[i])
           c == cpt[i]
<1>1. c \in Short /\ c \in Int /\ c >= -MaxShort - 1 /\ MaxShort \in Nat
  BY SemaphoreAssumption DEF AllInv, IInv, SemaTypes, Short
<1>2. n \in Nat
  BY LenProperties DEF AllInv, IInv, SemaTypes
<1>3. n <= Negative(c)
  BY DEF AllInv, IInv, CountInStep
<1> HIDE DEF n, c
<1>4. /\ c + n \in Int /\ c + n # -MaxShort - 2
      /\ c >= 0 => n = 0 /\ c + n = c
      /\ c <= 0 => c + n <= 0
  BY <1>1, <1>2, <1>3 DEF Negative
<1> QED BY <1>1, <1>2, <1>4 DEF n, c, Level, NextLevel, Gone

\* The units of a semaphore are in the cell where its identifier stands.
LEMMA UnitsAre ==
  ASSUME AllInv, NEW id \in 1..LastId
  PROVE  /\ \A i \in Cell : tabId[i] = id =>
              Found(id) /\ Pos(id) = i /\ Units[id] = Level(i)
         /\ (\A i \in Cell : tabId[i] # id) => Units[id] = Gone
<1>1. WellPlaced(tabId) /\ id \in Nat \ {0}
  BY SemaphoreAssumption DEF AllInv, Places, WellPlaced
<1>2. ASSUME NEW i \in Cell, tabId[i] = id
      PROVE  Found(id) /\ Pos(id) = i
  BY <1>1, <1>2, PlaceOf DEF Found, Pos
<1>3. (\A i \in Cell : tabId[i] # id) => ~ Found(id)
  BY <1>1, PlaceOf DEF Found
<1> QED BY <1>2, <1>3 DEF Units, Level, NextLevel

\* The same of the next state.
LEMMA UnitsAreNext ==
  ASSUME AllInv', NEW id \in 1..LastId
  PROVE  /\ \A i \in Cell : tabId'[i] = id => Units'[id] = NextLevel(i)
         /\ (\A i \in Cell : tabId'[i] # id) => Units'[id] = Gone
<1>1. WellPlaced(tabId') /\ id \in Nat \ {0}
  BY SemaphoreAssumption DEF AllInv, Places, WellPlaced, Cells
<1>2. \A t : WellPlaced(t) =>
         /\ Cells(id) \subseteq Cell
         /\ \A i \in Cell : t[i] = id =>
              /\ \E k \in Cells(id) : t[k] = id
              /\ (CHOOSE k \in Cells(id) :
                    t[k] = id /\ \A j \in Cells(id) : t[j] = id => k <= j) = i
  BY <1>1, PlaceOf
<1>3. ASSUME NEW i \in Cell, tabId'[i] = id
      PROVE  Found(id)' /\ Pos(id)' = i
  BY <1>1, <1>2, <1>3 DEF Found, Pos, Cells
<1>4. (\A i \in Cell : tabId'[i] # id) => ~ Found(id)'
  BY <1>1, <1>2 DEF Found, Cells
<1>5. Units'[id] = IF Found(id)' THEN cpt'[Pos(id)'] + Len(file'[Pos(id)']) ELSE Gone
  BY DEF Units, Gone
<1> QED BY <1>3, <1>4, <1>5 DEF Level, NextLevel

\* A step that concerns one cell at most changes the units of no other.
LEMMA UnitsStep ==
  ASSUME AllInv, AllInv', NEW i \in Cell,
         \A j \in Cell : j # i => tabId'[j] = tabId[j] /\ NextLevel(j) = Level(j),
         NEW id \in 1..LastId, tabId[i] \in {0, id}, tabId'[i] \in {0, id}
  PROVE  \A e \in 1..LastId : e # id => Units'[e] = Units[e]
<1>1. ASSUME NEW e \in 1..LastId, e # id PROVE Units'[e] = Units[e]
  <2>1. e # 0
    BY SemaphoreAssumption
  <2>2. CASE \E j \in Cell : tabId[j] = e
    <3>1. PICK j \in Cell : tabId[j] = e
      BY <2>2
    <3>2. tabId'[j] = e /\ NextLevel(j) = Level(j)
      BY <1>1, <2>1, <3>1
    <3>3. Units[e] = Level(j)
      BY <3>1, UnitsAre
    <3>4. Units'[e] = NextLevel(j)
      BY <3>2, UnitsAreNext
    <3> QED BY <3>2, <3>3, <3>4
  <2>3. CASE \A j \in Cell : tabId[j] # e
    <3>1. \A j \in Cell : tabId'[j] # e
      BY <1>1, <2>1, <2>3
    <3>2. Units[e] = Gone
      BY <2>3, UnitsAre
    <3>3. Units'[e] = Gone
      BY <3>1, UnitsAreNext
    <3> QED BY <3>2, <3>3
  <2> QED BY <2>2, <2>3
<1> QED BY <1>1

\* A step that changes no identifier, and the counter and list of one cell.
LEMMA UnitsSet ==
  ASSUME AllInv, AllInv', NEW i \in Cell, tabId[i] # 0, UNCHANGED tabId,
         \A j \in Cell : j # i => cpt'[j] = cpt[j] /\ file'[j] = file[j]
  PROVE  /\ tabId[i] \in 1..LastId
         /\ Units[tabId[i]] = Level(i)
         /\ Units' = [Units EXCEPT ![tabId[i]] = NextLevel(i)]
<1> DEFINE id == tabId[i]
<1>1. id \in 1..LastId
  BY SemaphoreAssumption DEF AllInv, Ranges, IInv, SemaTypes
<1>2. tabId[i] = id /\ tabId'[i] = id
  OBVIOUS
<1> HIDE DEF id
<1>3. \A e \in 1..LastId : e # id => Units'[e] = Units[e]
  <2>1. \A j \in Cell : j # i => tabId'[j] = tabId[j] /\ NextLevel(j) = Level(j)
    BY DEF Level, NextLevel
  <2> QED BY <1>1, <1>2, <2>1, UnitsStep
<1>4. Units[id] = Level(i)
  BY <1>1, <1>2, UnitsAre
<1>5. Units'[id] = NextLevel(i)
  BY <1>1, <1>2, UnitsAreNext
<1>6. Units' = [Units EXCEPT ![id] = NextLevel(i)]
  BY <1>1, <1>3, <1>5 DEF Units
<1> QED BY <1>1, <1>4, <1>6 DEF id

\* As many elements as places, in a sequence without repetitions.
LEMMA ElemsSize ==
  ASSUME NEW S, NEW q \in Seq(S), NoDup(q)
  PROVE  IsFiniteSet(Elems(q)) /\ Cardinality(Elems(q)) = Len(q) /\ Len(q) \in Nat
<1> DEFINE n == Len(q)
           f == [k \in 1..n |-> q[k]]
<1>1. n \in Nat
  BY LenProperties
<1>2. f \in Bijection(1..n, Elems(q))
  BY <1>1 DEF NoDup, Elems, Bijection, Injection, Surjection, IsInjective
<1>3. ExistsBijection(1..n, Elems(q))
  BY <1>2 DEF ExistsBijection
<1>4. IsFiniteSet(1..n) /\ Cardinality(1..n) = n
  BY <1>1, FS_Interval
<1> QED BY <1>1, <1>3, <1>4, FS_Bijection

\* Those who want a semaphore are those in its list.
LEMMA WaitersAre ==
  ASSUME AllInv, NEW i \in Cell, tabId[i] # 0
  PROVE  {p \in Proc : Wants[p] = tabId[i]} = Elems(file[i])
<1>1. \A p \in Proc : Wants[p] = tabId[i] <=> Blocked(p, i)
  <2>1. ASSUME NEW p \in Proc PROVE Wants[p] = tabId[i] <=> Blocked(p, i)
    <3>1. sema[p] \in Cell
      BY DEF AllInv, IInv, SemaTypes
    <3> QED BY <3>1 DEF Wants, Blocked, AllInv, Places
  <2> QED BY <2>1
<1>2. file[i] \in Seq(Pid)
  BY DEF AllInv, IInv, SemaTypes
<1>3. Elems(file[i]) \subseteq Pid
  BY <1>2, ElemsEmpty
<1>4. \A p \in Pid : p \in Elems(file[i]) <=> p \in Proc /\ Blocked(p, i)
  BY DEF AllInv, IInv, ListsMatch
<1> QED BY <1>1, <1>3, <1>4, PidFacts

\* Who is woken has its answer; the others go on waiting for what they did.
LEMMA WokenAnswers ==
  ASSUME AllInv, NEW ps, UNCHANGED stopped,
         state' = [p \in Pid |-> IF p \in Elems(ps) THEN "ACTIVABLE" ELSE state[p]],
         NEW code, NEW a, a = -code,
         codeReveil' = [p \in Proc |-> IF p \in Elems(ps) THEN code ELSE codeReveil[p]],
         UNCHANGED sema,
         \A p \in Elems(ps) : p \in Proc /\ state[p] = "BLOCKEDSEMA",
         \A p \in Proc : p \notin Elems(ps) /\ state[p] = "BLOCKEDSEMA"
                           => tabId'[sema[p]] = tabId[sema[p]],
         NEW P, P = Elems(ps)
  PROVE  /\ Wants' = [p \in Proc |-> IF p \in P THEN 0 ELSE Wants[p]]
         /\ Answers' = [p \in Proc |-> IF p \in P THEN a ELSE Answers[p]]
<1>1. \A p \in Proc : state'[p] = IF p \in P THEN "ACTIVABLE" ELSE state[p]
  BY PidFacts
<1>2. \A p \in P : p \in Proc /\ p \in stopped
  BY DEF AllInv, StopInv
<1>3. ASSUME NEW p \in Proc
      PROVE  /\ (IF state'[p] = "BLOCKEDSEMA" THEN tabId'[sema'[p]] ELSE 0)
                  = IF p \in P THEN 0 ELSE Wants[p]
             /\ (IF p \in stopped' /\ state'[p] # "BLOCKEDSEMA" THEN -codeReveil'[p] ELSE 1)
                  = IF p \in P THEN a ELSE Answers[p]
  BY <1>1, <1>2 DEF Wants, Answers
<1> QED BY <1>3 DEF Wants, Answers

\* Where nobody becomes blocked or unblocked, and no answer is given or lost.
LEMMA ClientsKept ==
  ASSUME \A p \in Proc : state'[p] = "BLOCKEDSEMA" <=> state[p] = "BLOCKEDSEMA",
         \A p \in Proc : state[p] = "BLOCKEDSEMA" => tabId'[sema'[p]] = tabId[sema[p]],
         \A p \in Proc : p \in stopped' <=> p \in stopped,
         \A p \in Proc : p \in stopped => codeReveil'[p] = codeReveil[p]
  PROVE  Wants' = Wants /\ Answers' = Answers
BY DEF Wants, Answers

\* Where nobody becomes blocked or unblocked either, the lists keep their
\* lengths, and no unit comes or goes.
LEMMA UnitsKept ==
  ASSUME AllInv, AllInv', UNCHANGED <<tabId, cpt>>,
         \A p \in Proc : state'[p] = "BLOCKEDSEMA" <=> state[p] = "BLOCKEDSEMA",
         \A p \in Proc : state[p] = "BLOCKEDSEMA" => sema'[p] = sema[p]
  PROVE  Units' = Units
<1>1. ASSUME NEW i \in Cell PROVE NextLevel(i) = Level(i)
  <2>1. /\ file[i] \in Seq(Pid) /\ NoDup(file[i])
        /\ file'[i] \in Seq(Pid) /\ NoDup(file'[i])
    BY DEF AllInv, IInv, SemaTypes, ListsMatch
  <2>2. \A p \in Pid : p \in Elems(file'[i]) <=> p \in Elems(file[i])
    BY DEF AllInv, IInv, ListsMatch, Blocked
  <2>3. Elems(file[i]) \subseteq Pid /\ Elems(file'[i]) \subseteq Pid
    BY <2>1, ElemsEmpty
  <2>4. Elems(file'[i]) = Elems(file[i])
    BY <2>2, <2>3
  <2>5. /\ Len(file[i]) = Cardinality(Elems(file[i]))
        /\ Len(file'[i]) = Cardinality(Elems(file'[i]))
    BY <2>1, ElemsSize
  <2> QED BY <2>4, <2>5 DEF Level, NextLevel
<1>2. ASSUME NEW e \in 1..LastId PROVE Units'[e] = Units[e]
  <2>1. ASSUME NEW j \in Cell, tabId[j] = e PROVE Units'[e] = Units[e]
    BY <1>1, <2>1, UnitsAre, UnitsAreNext
  <2>2. ASSUME \A j \in Cell : tabId[j] # e PROVE Units'[e] = Units[e]
    BY <2>2, UnitsAre, UnitsAreNext
  <2> QED BY <2>1, <2>2
<1> QED BY <1>2 DEF Units

(* The steps of the contract. *)

\* Nothing that the contract speaks of happens.
LEMMA IdleStep ==
  ASSUME Units' = Units, Wants' = Wants, Answers' = Answers
  PROVE  UNCHANGED Contract!cvars
BY DEF Contract!cvars, Units, Wants, Answers

\* A semaphore is opened.
LEMMA OpenStep ==
  ASSUME NEW id \in 1..LastId, NEW n \in 0..MaxShort, Units[id] = Gone,
         Units' = [Units EXCEPT ![id] = n], Wants' = Wants, Answers' = Answers
  PROVE  Contract!CNext
<1>1. Contract!Open(id, n)
  BY DEF Contract!Open, Units, Wants, Answers
<1> QED BY <1>1 DEF Contract!CNext

\* It is closed, and who waits is told.
LEMMA CloseStep ==
  ASSUME NEW id \in 1..LastId, Units[id] # Gone, Units' = [Units EXCEPT ![id] = Gone],
         NEW P, P = {p \in Proc : Wants[p] = id},
         Wants' = [p \in Proc |-> IF p \in P THEN 0 ELSE Wants[p]],
         Answers' = [p \in Proc |-> IF p \in P THEN -3 ELSE Answers[p]]
  PROVE  Contract!CNext
<1>1. Contract!Close(id)
  BY DEF Contract!Close, Contract!Answered, Contract!Waiters, Units, Wants, Answers
<1> QED BY <1>1 DEF Contract!CNext

\* It gets other units, and who waits is told.
LEMMA ResetStep ==
  ASSUME NEW r \in Resets, NEW id, id = r[1], NEW n, n = ToShort(r[2]), Units[id] # Gone,
         Units' = [Units EXCEPT ![id] = n],
         NEW P, P = {p \in Proc : Wants[p] = id},
         Wants' = [p \in Proc |-> IF p \in P THEN 0 ELSE Wants[p]],
         Answers' = [p \in Proc |-> IF p \in P THEN -4 ELSE Answers[p]]
  PROVE  Contract!CNext
<1>1. Contract!Reset(id, n)
  BY DEF Contract!Reset, Contract!Answered, Contract!Waiters, Units, Wants, Answers
<1> DEFINE l == <<id, n>>
<1>2. l \in {<<c[1], ToShort(c[2])>> : c \in Resets} /\ l[1] = id /\ l[2] = n
  OBVIOUS
<1> HIDE DEF l
<1>3. Contract!Reset(l[1], l[2])
  BY <1>1, <1>2
<1> QED BY <1>2, <1>3 DEF Contract!CNext

\* A unit is taken.
LEMMA TakeStep ==
  ASSUME NEW id \in 1..LastId, Units[id] # Gone, Units[id] > 0,
         Units' = [Units EXCEPT ![id] = Units[id] - 1],
         Wants' = Wants, Answers' = Answers
  PROVE  Contract!CNext
<1>1. Contract!Take(id)
  BY DEF Contract!Take, Units, Wants, Answers
<1> QED BY <1>1 DEF Contract!CNext

\* There is none, and the client waits for one.
LEMMA EnqueueStep ==
  ASSUME NEW id \in 1..LastId, NEW p \in Proc, Units[id] # Gone, Units[id] <= 0,
         Wants[p] = 0, Answers[p] = 1, Units' = Units, Wants' = [Wants EXCEPT ![p] = id], Answers' = Answers
  PROVE  Contract!CNext
<1>1. Contract!Enqueue(p, id)
  BY DEF Contract!Enqueue, Contract!NoAnswer, Units, Wants, Answers
<1> QED BY <1>1 DEF Contract!CNext

\* Units are given, to waiters first.
LEMMA GiveStep ==
  ASSUME NEW id \in 1..LastId, NEW n \in 0..MaxShort, Units[id] # Gone,
         NEW P, P \subseteq {p \in Proc : Wants[p] = id},
         \/ Cardinality(P) = n
         \/ Cardinality(P) < n /\ P = {p \in Proc : Wants[p] = id},
         Units' = [Units EXCEPT ![id] = Units[id] + n - Cardinality(P)],
         Units'[id] > 0 => Units'[id] \in 0..MaxShort,
         Wants' = [p \in Proc |-> IF p \in P THEN 0 ELSE Wants[p]],
         Answers' = [p \in Proc |-> IF p \in P THEN 0 ELSE Answers[p]]
  PROVE  Contract!CNext
<1>1. Contract!Answered(P, 0)
  BY DEF Contract!Answered, Wants, Answers
<1>2. Contract!Waiters(id) = {p \in Proc : Wants[p] = id}
  BY DEF Contract!Waiters, Wants
<1>3. Contract!Cardinality(P) = Cardinality(P)
  BY Zenon DEF Contract!Cardinality, Cardinality, Contract!IsFiniteSet, IsFiniteSet
<1>4. Contract!Give(id, n)
  BY <1>1, <1>2, <1>3 DEF Contract!Give, Units
<1> QED BY <1>4 DEF Contract!CNext

\* A client returns with its answer.
LEMMA ReturnStep ==
  ASSUME NEW p \in Proc, Answers[p] # 1, Answers' = [Answers EXCEPT ![p] = 1],
         Units' = Units, Wants' = Wants
  PROVE  Contract!CNext
<1>1. Contract!Return(p)
  BY DEF Contract!Return, Contract!NoAnswer, Units, Wants, Answers
<1> QED BY <1>1 DEF Contract!CNext

\* A client is ended while it waits.
LEMMA AbandonStep ==
  ASSUME NEW p \in Proc, Wants[p] # 0, Wants' = [Wants EXCEPT ![p] = 0],
         Units' = Units, Answers' = Answers
  PROVE  Contract!CNext
<1>1. Contract!Abandon(p)
  BY DEF Contract!Abandon, Units, Wants, Answers
<1> QED BY <1>1 DEF Contract!CNext

(* Which step of the contract each operation takes. *)

\* screate opens the next semaphore.
LEMMA ScreateOpens ==
  ASSUME AllInv, AllInv', NEW count \in 0..MaxShort, Screate(count),
         \A i \in Cell : tabId[i] # 0 => tabId'[i] \in {0, tabId[i]}
  PROVE  Contract!CNext
<1> DEFINE i == NvellePlace(prochainId)
           id == prochainId
<1>1. i \in Cell
  <2>1. NbMaxSema \in Nat \ {0} /\ prochainId \in Nat
    BY SemaphoreAssumption DEF AllInv, IInv, SemaTypes
  <2>2. prochainId % NbMaxSema \in 0..(NbMaxSema - 1)
    BY <2>1, Z3
  <2> QED BY <2>1, <2>2 DEF NvellePlace, Cell
<1>2. /\ tabId' = [tabId EXCEPT ![i] = id] /\ cpt' = [cpt EXCEPT ![i] = count]
      /\ file' = [file EXCEPT ![i] = <<>>]
      /\ UNCHANGED <<sched, sema, codeReveil>>
      /\ id \in 1..LastId
  BY SemaphoreAssumption DEF Screate, AllInv, IInv, SemaTypes
<1> HIDE DEF i, id
<1>3. /\ tabId \in [Cell -> Nat] /\ cpt \in [Cell -> Short] /\ sema \in [Proc -> Cell]
      /\ file \in [Cell -> Seq(Pid)]
      /\ \A j \in Cell : tabId[j] # id
  <2>1. \A j \in Cell : tabId[j] # prochainId
    BY DEF AllInv, IInv, IdsGiven, SemaTypes
  <2> QED BY <2>1 DEF AllInv, IInv, SemaTypes, id
<1>4. /\ tabId'[i] = id /\ NextLevel(i) = count
      /\ \A j \in Cell : j # i => tabId'[j] = tabId[j] /\ NextLevel(j) = Level(j)
  <2>1. file'[i] = <<>> /\ cpt'[i] = count /\ Len(<<>>) = 0 /\ count \in Int
    BY <1>1, <1>2, <1>3
  <2>2. NextLevel(i) = count
    BY <2>1 DEF Level, NextLevel
  <2> QED BY <1>1, <1>2, <1>3, <2>2 DEF Level, NextLevel
<1>5. tabId[i] = 0
  <2>1. id # 0 /\ tabId[i] # id
    BY <1>1, <1>2, <1>3, SemaphoreAssumption
  <2> QED BY <1>1, <1>4, <2>1
<1>6. Wants' = Wants /\ Answers' = Answers
  <2>1. UNCHANGED <<state, sema, stopped, codeReveil>>
    BY <1>2 DEF sched
  <2>2. \A p \in Proc : state[p] = "BLOCKEDSEMA" => sema[p] \in Cell /\ sema[p] # i
    BY <1>3, <1>5 DEF AllInv, IInv, ListsMatch
  <2>3. \A p \in Proc : state[p] = "BLOCKEDSEMA" => tabId'[sema'[p]] = tabId[sema[p]]
    BY <1>4, <2>1, <2>2
  <2> QED BY <2>1, <2>3, ClientsKept
<1>7. \A e \in 1..LastId : e # id => Units'[e] = Units[e]
  <2>1. /\ tabId[i] \in {0, id} /\ tabId'[i] \in {0, id}
        /\ \A j \in Cell : j # i => tabId'[j] = tabId[j] /\ NextLevel(j) = Level(j)
    BY <1>4, <1>5
  <2> QED BY <1>1, <1>2, <2>1, UnitsStep
<1>8. Units[id] = Gone
  BY <1>2, <1>3, UnitsAre
<1>9. Units'[id] = NextLevel(i)
  BY <1>1, <1>2, <1>4, UnitsAreNext
<1>10. Units' = [Units EXCEPT ![id] = count]
  <2>1. Units'[id] = count
    BY <1>4, <1>9
  <2> QED BY <1>2, <1>7, <2>1 DEF Units
<1> QED BY <1>2, <1>6, <1>8, <1>10, OpenStep

\* sdelete and sreset tell every waiter.
LEMMA DebloquerTells ==
  ASSUME AllInv, NEW i \in Cell, tabId[i] # 0, NEW code, NEW a, a = -code,
         NEW all, Debloquer(i, code, all),
         UNCHANGED sema, \A j \in Cell : j # i => tabId'[j] = tabId[j],
         NEW P, P = {p \in Proc : Wants[p] = tabId[i]}
  PROVE  /\ Wants' = [p \in Proc |-> IF p \in P THEN 0 ELSE Wants[p]]
         /\ Answers' = [p \in Proc |-> IF p \in P THEN a ELSE Answers[p]]
<1> DEFINE ps == file[i]
<1>1. /\ state' = [p \in Pid |-> IF p \in Elems(ps) THEN "ACTIVABLE" ELSE state[p]]
      /\ UNCHANGED stopped
      /\ codeReveil' = [p \in Proc |-> IF p \in Elems(ps) THEN code ELSE codeReveil[p]]
  BY DEF Debloquer, Wake
<1>2. P = Elems(ps)
  BY WaitersAre
<1>3. /\ Elems(ps) \subseteq Pid
      /\ \A p \in Pid : p \in Elems(ps) <=> p \in Proc /\ Blocked(p, i)
  BY ElemsEmpty DEF AllInv, IInv, SemaTypes, ListsMatch
<1>4. \A p \in Elems(ps) : p \in Proc /\ state[p] = "BLOCKEDSEMA"
  BY <1>3 DEF Blocked
<1>5. \A p \in Proc : p \notin Elems(ps) /\ state[p] = "BLOCKEDSEMA"
                        => tabId'[sema[p]] = tabId[sema[p]]
  BY <1>3, PidFacts DEF Blocked, AllInv, IInv, SemaTypes
<1> HIDE DEF ps
<1> QED BY <1>1, <1>2, <1>4, <1>5, WokenAnswers

\* sdelete closes the semaphore.
LEMMA SdeleteCloses ==
  ASSUME AllInv, AllInv', 0 \notin Ids, NEW id \in Ids, Sdelete(id)
  PROVE  Contract!CNext
<1> DEFINE i == Pos(id)
<1>1. i \in Cell /\ tabId[i] = id /\ id # 0
  BY PosFound DEF AllInv, IInv, Sdelete
<1>2. /\ tabId' = [tabId EXCEPT ![i] = 0] /\ Debloquer(i, 3, TRUE)
      /\ UNCHANGED <<cpt, prochainId, sema>>
  BY DEF Sdelete
<1> HIDE DEF i
<1>3. id \in 1..LastId
  BY <1>1, SemaphoreAssumption DEF AllInv, Ranges, IInv, SemaTypes
<1>4. tabId'[i] = 0 /\ \A j \in Cell : j # i => tabId'[j] = tabId[j] /\ tabId[j] # id
  BY <1>1, <1>2 DEF AllInv, IInv, SemaTypes, Places
<1>40. \A j \in Cell : j # i => NextLevel(j) = Level(j)
  BY <1>1, <1>2 DEF Debloquer, Level, NextLevel, AllInv, IInv, SemaTypes
<1> DEFINE P == {p \in Proc : Wants[p] = id}
<1>5. P = {p \in Proc : Wants[p] = tabId[i]}
  BY <1>1
<1> HIDE DEF P
<1>6. /\ Wants' = [p \in Proc |-> IF p \in P THEN 0 ELSE Wants[p]]
      /\ Answers' = [p \in Proc |-> IF p \in P THEN -3 ELSE Answers[p]]
  <2>1. tabId[i] # 0 /\ UNCHANGED sema /\ \A j \in Cell : j # i => tabId'[j] = tabId[j]
    BY <1>1, <1>2, <1>4
  <2> DEFINE code == 3
             a == -3
             all == TRUE
  <2>2. Debloquer(i, code, all) /\ a = -code
    BY <1>2
  <2> HIDE DEF code, a, all
  <2>3. /\ Wants' = [p \in Proc |-> IF p \in P THEN 0 ELSE Wants[p]]
        /\ Answers' = [p \in Proc |-> IF p \in P THEN a ELSE Answers[p]]
    BY <1>1, <1>5, <2>1, <2>2, DebloquerTells
  <2> QED BY <2>3 DEF a
<1>7. Units[id] = Level(i) /\ Level(i) # Gone
  BY <1>1, <1>3, UnitsAre, LevelBounds
<1>8. Units' = [Units EXCEPT ![id] = Gone]
  <2>1. Units'[id] = Gone
    <3>1. \A j \in Cell : tabId'[j] # id
      BY <1>1, <1>4
    <3> QED BY <1>3, <3>1, UnitsAreNext
  <2>2. \A e \in 1..LastId : e # id => Units'[e] = Units[e]
    <3>1. /\ tabId[i] \in {0, id} /\ tabId'[i] \in {0, id}
          /\ \A j \in Cell : j # i => tabId'[j] = tabId[j] /\ NextLevel(j) = Level(j)
      BY <1>1, <1>2, <1>4, <1>40
    <3> QED BY <1>1, <1>3, <3>1, UnitsStep
  <2> QED BY <1>3, <2>1, <2>2 DEF Units
<1>9. Units[id] # Gone
  BY <1>7
<1>10. P = {p \in Proc : Wants[p] = id}
  BY DEF P
<1> QED BY <1>3, <1>6, <1>8, <1>9, <1>10, CloseStep

\* sreset resets it.
LEMMA SresetResets ==
  ASSUME AllInv, AllInv', 0 \notin Ids, NEW r \in Resets, Sreset(r[1], r[2])
  PROVE  Contract!CNext
<1> DEFINE id == r[1]
           count == ToShort(r[2])
           i == Pos(id)
<1>0. r[1] \in Ids /\ r[2] \in Nat
  BY SemaphoreAssumption
<1>1. i \in Cell /\ tabId[i] = id /\ id # 0
  BY <1>0, PosFound DEF AllInv, IInv, Sreset
<1>2. /\ cpt' = [cpt EXCEPT ![i] = count] /\ Debloquer(i, 4, TRUE)
      /\ UNCHANGED <<tabId, prochainId, sema>>
  BY DEF Sreset
<1> HIDE DEF i
<1>20. id = r[1] /\ count = ToShort(r[2]) /\ count \in Int
  BY <1>0, ShortRange, SemaphoreAssumption DEF Short
<1> HIDE DEF id, count
<1>3. /\ NextLevel(i) = count
      /\ \A j \in Cell : j # i => cpt'[j] = cpt[j] /\ file'[j] = file[j]
  <2>1. file'[i] = <<>> /\ cpt'[i] = count /\ Len(<<>>) = 0
    BY <1>1, <1>2 DEF AllInv, IInv, SemaTypes, Debloquer
  <2>2. NextLevel(i) = count
    BY <1>20, <2>1 DEF Level, NextLevel
  <2> QED BY <1>1, <1>2, <2>2 DEF AllInv, IInv, SemaTypes, Debloquer
<1>4. /\ id \in 1..LastId /\ Units[id] = Level(i)
      /\ Units' = [Units EXCEPT ![id] = NextLevel(i)]
  BY <1>1, <1>2, <1>3, UnitsSet
<1> DEFINE P == {p \in Proc : Wants[p] = id}
<1>5. P = {p \in Proc : Wants[p] = tabId[i]}
  BY <1>1
<1> HIDE DEF P
<1>6. /\ Wants' = [p \in Proc |-> IF p \in P THEN 0 ELSE Wants[p]]
      /\ Answers' = [p \in Proc |-> IF p \in P THEN -4 ELSE Answers[p]]
  <2>1. tabId[i] # 0 /\ UNCHANGED sema /\ \A j \in Cell : j # i => tabId'[j] = tabId[j]
    BY <1>1, <1>2
  <2> DEFINE code == 4
             a == -4
             all == TRUE
  <2>2. Debloquer(i, code, all) /\ a = -code
    BY <1>2
  <2> HIDE DEF code, a, all
  <2>3. /\ Wants' = [p \in Proc |-> IF p \in P THEN 0 ELSE Wants[p]]
        /\ Answers' = [p \in Proc |-> IF p \in P THEN a ELSE Answers[p]]
    BY <1>1, <1>5, <2>1, <2>2, DebloquerTells
  <2> QED BY <2>3 DEF a
<1>7. Units[id] # Gone
  BY <1>1, <1>4, LevelBounds
<1>8. Units' = [Units EXCEPT ![id] = count]
  BY <1>3, <1>4
<1>9. P = {p \in Proc : Wants[p] = id}
  BY DEF P
<1> QED BY <1>20, <1>6, <1>7, <1>8, <1>9, ResetStep

\* try_wait, and wait that need not block, take a unit.
LEMMA WaitTakes ==
  ASSUME AllInv, AllInv', 0 \notin Ids, NEW id \in Ids, TryWait(id) \/ Wait(id)
  PROVE  Contract!CNext
<1> DEFINE i == Pos(id)
<1>1. i \in Cell /\ tabId[i] = id /\ id # 0 /\ cpt[i] \in Int
  BY PosFound, SemaphoreAssumption
     DEF AllInv, IInv, SemaTypes, Short, TryWait, Wait, TestWait
<1>2. /\ cpt[i] > 0 /\ cpt' = [cpt EXCEPT ![i] = cpt[i] - 1]
      /\ UNCHANGED <<sched, tabId, file, sema, codeReveil>>
  BY <1>1 DEF TryWait, Wait, MustBlock
<1> HIDE DEF i
<1>3. /\ cpt'[i] = cpt[i] - 1
      /\ \A j \in Cell : j # i => cpt'[j] = cpt[j] /\ file'[j] = file[j]
  BY <1>1, <1>2 DEF AllInv, IInv, SemaTypes
<1>4. /\ id \in 1..LastId /\ Units[id] = Level(i)
      /\ Units' = [Units EXCEPT ![id] = NextLevel(i)]
  BY <1>1, <1>2, <1>3, UnitsSet
<1>5. Units[id] > 0 /\ Units[id] # Gone /\ NextLevel(i) = Units[id] - 1
  <2>1. Level(i) = cpt[i] /\ Level(i) # Gone /\ Len(file[i]) = 0
    BY <1>1, <1>2, LevelBounds
  <2>2. NextLevel(i) = cpt[i] - 1
    BY <1>1, <1>2, <1>3, <2>1 DEF Level, NextLevel
  <2> QED BY <1>2, <1>4, <2>1, <2>2
<1>6. Units' = [Units EXCEPT ![id] = Units[id] - 1]
  BY <1>4, <1>5
<1>7. Wants' = Wants /\ Answers' = Answers
  BY <1>2, ClientsKept DEF sched
<1> QED BY <1>4, <1>5, <1>6, <1>7, TakeStep

\* wait that blocks finds no unit.
LEMMA WaitEnqueues ==
  ASSUME AllInv, AllInv', 0 \notin Ids, NEW id \in Ids, WaitBlock(id)
  PROVE  Contract!CNext
<1> DEFINE i == Pos(id)
<1>1. i \in Cell /\ tabId[i] = id /\ id # 0 /\ cpt[i] \in Int
  BY PosFound, SemaphoreAssumption DEF AllInv, IInv, SemaTypes, Short, WaitBlock, TestWait
<1>2. /\ cpt[i] - 1 < 0 /\ cpt' = [cpt EXCEPT ![i] = cpt[i] - 1]
      /\ file' = [file EXCEPT ![i] = QueueAdd(file[i], cur, prio)]
      /\ sema' = [sema EXCEPT ![cur] = i] /\ Block("BLOCKEDSEMA")
      /\ UNCHANGED <<tabId, codeReveil>>
  BY <1>1 DEF WaitBlock, MustBlock
<1> HIDE DEF i
<1>3. /\ cpt'[i] = cpt[i] - 1
      /\ \A j \in Cell : j # i => cpt'[j] = cpt[j] /\ file'[j] = file[j]
  BY <1>1, <1>2 DEF AllInv, IInv, SemaTypes
<1>4. /\ id \in 1..LastId /\ Units[id] = Level(i)
      /\ Units' = [Units EXCEPT ![id] = NextLevel(i)]
  BY <1>1, <1>2, <1>3, UnitsSet
<1>7. cur \in Proc /\ cur \in Pid /\ state[cur] = "CHOSEN" /\ cur \notin stopped
      /\ DOMAIN state = Pid
  BY Caller DEF AllInv, WaitBlock
<1>5. Units[id] <= 0 /\ Units[id] # Gone /\ NextLevel(i) = Units[id]
  <2> DEFINE q == file[i]
             w == QueueAdd(q, cur, prio)
  <2>1. Level(i) <= 0 /\ Level(i) # Gone /\ Len(q) \in Nat /\ cpt[i] <= 0
    BY <1>1, <1>2, LevelBounds
  <2>2. q \in Seq(Pid) /\ NoDup(q) /\ cur \notin Elems(q) /\ prio \in [Pid -> Int]
    BY <1>1, <1>7 DEF AllInv, IInv, SchedInv, SemaTypes, ListsMatch, Blocked
  <2>3. file'[i] = w
    BY <1>1, <1>2 DEF AllInv, IInv, SemaTypes
  <2>4. Level(i) = cpt[i] + Len(q)
    BY DEF Level, NextLevel
  <2> HIDE DEF q
  <2>5. Len(w) = Len(q) + 1
    BY <1>7, <2>2, QueueLengths
  <2> HIDE DEF w
  <2>6. NextLevel(i) = (cpt[i] - 1) + (Len(q) + 1)
    BY <1>3, <2>3, <2>5 DEF Level, NextLevel
  <2> QED BY <1>1, <1>4, <2>1, <2>4, <2>6
<1>6. Units' = Units
  BY <1>4, <1>5 DEF Units
<1>8. /\ \A p \in Proc : state'[p] = IF p = cur THEN "BLOCKEDSEMA" ELSE state[p]
      /\ \A p \in Proc : sema'[p] = IF p = cur THEN i ELSE sema[p]
      /\ stopped' = stopped \cup {cur}
  BY <1>2, <1>7, PidFacts DEF Block, AllInv, IInv, SemaTypes
<1>9. Wants[cur] = 0 /\ Answers[cur] = 1
  BY <1>7 DEF Wants, Answers
<1>10. Wants' = [Wants EXCEPT ![cur] = id]
  <2>1. ASSUME NEW p \in Proc
        PROVE  (IF state'[p] = "BLOCKEDSEMA" THEN tabId'[sema'[p]] ELSE 0)
                 = IF p = cur THEN id ELSE Wants[p]
    BY <1>1, <1>2, <1>7, <1>8 DEF Wants
  <2> QED BY <1>7, <2>1 DEF Wants
<1>11. Answers' = Answers
  BY <1>2, <1>7, <1>8 DEF Answers
<1> QED BY <1>4, <1>5, <1>6, <1>7, <1>9, <1>10, <1>11, EnqueueStep

\* signaln gives its units, to waiters first.
LEMMA SignalnGives ==
  ASSUME AllInv, AllInv', 0 \notin Ids, NEW id \in Ids, NEW count \in Short,
         Signaln(id, count)
  PROVE  Contract!CNext
<1> DEFINE i == Pos(id)
           q == file[i]
           n == Len(q)
           up == IF count > 0 THEN count ELSE 0
           served == Served(i, count)
           left == n - served
           kept == SubSeq(q, 1, left)
           taken == SubSeq(q, left + 1, n)
           P == Elems(taken)
<1>1. i \in Cell /\ tabId[i] = id /\ id # 0 /\ IInv
  BY PosFound DEF AllInv, IInv, Signaln
<1>2. /\ cpt' = [cpt EXCEPT ![i] = ToShort(cpt[i] + up)]
      /\ file' = [file EXCEPT ![i] = kept]
      /\ Raisable(cpt[i], count) /\ Wake(taken, cpt'[i] <= 0)
      /\ codeReveil' = [p \in Proc |-> IF p \in Elems(taken) THEN 0 ELSE codeReveil[p]]
      /\ UNCHANGED <<tabId, sema>>
  BY DEF Signaln
<1>3. up = IF count > 0 THEN count ELSE 0
  OBVIOUS
<1> HIDE DEF i, up
<1>4. /\ up \in Nat /\ cpt[i] + up \in Short /\ ToShort(cpt[i] + up) = cpt[i] + up
      /\ n <= Negative(cpt[i]) /\ n \in Nat /\ cpt[i] \in Int
      /\ served = IF up < n THEN up ELSE n
  <2>1. tabId[i] # 0
    BY <1>1
  <2> QED BY <1>1, <1>2, <1>3, <2>1, SignalCount DEF Told
<1>5. up \in 0..MaxShort
  BY <1>3, SemaphoreAssumption DEF Short
<1>6. q \in Seq(Pid) /\ NoDup(q)
  BY <1>1 DEF IInv, SemaTypes, ListsMatch
<1> HIDE DEF served, q
<1>7. left \in 0..n /\ n - left = served
  BY <1>4
<1> HIDE DEF left
<1>8. /\ taken \in Seq(Pid) /\ NoDup(taken) /\ Len(taken) = n - left
      /\ kept \in Seq(Pid) /\ Len(kept) = left
      /\ Elems(kept) \cup Elems(taken) = Elems(q)
  BY <1>6, <1>7, CutQueue
<1>80. Level(i) = cpt[i] + n
  BY DEF Level, NextLevel, q
<1> HIDE DEF taken, kept, n
<1>9. Cardinality(P) = served
  <2>1. Cardinality(Elems(taken)) = Len(taken)
    BY <1>8, ElemsSize
  <2> QED BY <1>7, <1>8, <2>1
<1>10. {p \in Proc : Wants[p] = id} = Elems(q)
  BY <1>1, WaitersAre DEF q
<1>11. P \subseteq {p \in Proc : Wants[p] = id}
  BY <1>8, <1>10
<1>12. served < up => P = {p \in Proc : Wants[p] = id}
  <2> SUFFICES ASSUME served < up PROVE P = Elems(q)
    BY <1>10
  <2>1. left = 0
    BY <1>4, <1>7
  <2>2. Elems(kept) = {}
    BY <1>8, <2>1 DEF Elems
  <2> QED BY <1>8, <2>2
<1>13. /\ cpt'[i] = cpt[i] + up /\ file'[i] = kept
       /\ \A j \in Cell : j # i => cpt'[j] = cpt[j] /\ file'[j] = file[j]
  BY <1>1, <1>2, <1>4 DEF IInv, SemaTypes
<1>14. /\ id \in 1..LastId /\ Units[id] = Level(i)
       /\ Units' = [Units EXCEPT ![id] = NextLevel(i)]
  BY <1>1, <1>2, <1>13, UnitsSet
<1>15. /\ NextLevel(i) = Units[id] + up - served
       /\ NextLevel(i) > 0 => NextLevel(i) \in 0..MaxShort
       /\ Units[id] # Gone
  <2>1. NextLevel(i) = cpt[i] + up + left
    BY <1>8, <1>13 DEF Level, NextLevel
  <2>2. left = n - served /\ left \in Int
    BY <1>4, <1>7
  <2>3. cpt[i] + up + left > 0 => cpt[i] + up + left \in 0..MaxShort
    BY <1>4, <2>2, SemaphoreAssumption DEF Negative, Short
  <2>4. Units[id] # Gone
    BY <1>1, <1>14, LevelBounds
  <2> QED BY <1>4, <1>14, <1>80, <2>1, <2>2, <2>3, <2>4
<1>16. /\ Wants' = [p \in Proc |-> IF p \in P THEN 0 ELSE Wants[p]]
       /\ Answers' = [p \in Proc |-> IF p \in P THEN 0 ELSE Answers[p]]
  <2>1. \A p \in Elems(taken) : p \in Proc /\ state[p] = "BLOCKEDSEMA"
    <3>1. Elems(q) \subseteq Pid
      BY <1>6, ElemsEmpty
    <3> QED BY <1>1, <1>8, <3>1 DEF IInv, ListsMatch, Blocked, q
  <2> HIDE DEF P
  <2>2. P = Elems(taken)
    BY DEF P
  <2>3. \A p \in Proc : p \notin Elems(taken) /\ state[p] = "BLOCKEDSEMA"
                          => tabId'[sema[p]] = tabId[sema[p]]
    BY <1>2
  <2>4. UNCHANGED sema
    BY <1>2
  <2> DEFINE zero == 0
  <2>5. zero = -zero
    <3>1. \A z \in Int : -z = 0 - z
      OBVIOUS
    <3>2. zero \in Int /\ zero = 0 - zero
      OBVIOUS
    <3> HIDE DEF zero
    <3> QED BY <3>1, <3>2
  <2>6. /\ codeReveil' = [p \in Proc |-> IF p \in Elems(taken) THEN zero ELSE codeReveil[p]]
        /\ state' = [p \in Pid |-> IF p \in Elems(taken) THEN "ACTIVABLE" ELSE state[p]]
        /\ UNCHANGED stopped
    BY <1>2 DEF Wake
  <2> HIDE DEF zero
  <2>7. /\ Wants' = [p \in Proc |-> IF p \in P THEN 0 ELSE Wants[p]]
        /\ Answers' = [p \in Proc |-> IF p \in P THEN zero ELSE Answers[p]]
    BY <2>1, <2>2, <2>3, <2>4, <2>5, <2>6, WokenAnswers
  <2> QED BY <2>7 DEF zero
<1> HIDE DEF P
<1>17. /\ Units' = [Units EXCEPT ![id] = Units[id] + up - Cardinality(P)]
       /\ Units'[id] > 0 => Units'[id] \in 0..MaxShort
  BY <1>9, <1>14, <1>15 DEF Units
<1>18. \/ Cardinality(P) = up
       \/ Cardinality(P) < up /\ P = {p \in Proc : Wants[p] = id}
  BY <1>4, <1>9, <1>12
<1> QED BY <1>5, <1>11, <1>14, <1>15, <1>16, <1>17, <1>18, GiveStep

\* kill of a waiter abandons its wait; kill of a process that has been woken
\* drops its answer; kill of another does nothing to the contract.
LEMMA KillEnds ==
  ASSUME AllInv, AllInv', NEW p \in Proc, Kill(p)
  PROVE  Contract!CNext \/ UNCHANGED Contract!cvars
<1>1. /\ \A r \in Proc : state'[r] = IF r = p THEN "ENDED" ELSE state[r]
      /\ stopped' = stopped \ {p}
      /\ UNCHANGED <<tabId, sema, codeReveil>>
  BY PidFacts DEF Kill, Ended, AllInv, IInv, SchedInv
<1>2. CASE state[p] = "BLOCKEDSEMA"
  <2> DEFINE i == sema[p]
  <2>1. /\ i \in Cell /\ tabId[i] # 0 /\ cpt[i] \in Short /\ cpt \in [Cell -> Short]
        /\ cpt' = [cpt EXCEPT ![i] = ToShort(cpt[i] + 1)]
        /\ file' = [file EXCEPT ![i] = QueueDel(file[i], p)]
    BY <1>2 DEF AllInv, IInv, SemaTypes, ListsMatch, Kill, GiveBack, Leave
  <2>2. p \in Elems(file[i]) /\ file[i] \in Seq(Pid) /\ NoDup(file[i])
    BY <1>2, <2>1, PidFacts DEF AllInv, IInv, ListsMatch, Blocked, SemaTypes
  <2> HIDE DEF i
  <2>3. cpt[i] < 0
    <3>1. Len(file[i]) # 0 /\ Len(file[i]) \in Nat
      BY <2>2, LenProperties DEF Elems
    <3> QED BY <2>1, <3>1, LevelBounds
  <2>4. cpt[i] + 1 \in Short /\ cpt[i] \in Int
    BY <2>1, <2>3, SemaphoreAssumption DEF Short
  <2>5. /\ cpt'[i] = cpt[i] + 1
        /\ \A j \in Cell : j # i => cpt'[j] = cpt[j] /\ file'[j] = file[j]
    <3>1. ToShort(cpt[i] + 1) = cpt[i] + 1
      BY <2>4, Shorts
    <3> QED BY <2>1, <3>1 DEF AllInv, IInv, SemaTypes
  <2>6. /\ tabId[i] \in 1..LastId /\ Units[tabId[i]] = Level(i)
        /\ Units' = [Units EXCEPT ![tabId[i]] = NextLevel(i)]
    BY <1>1, <2>1, <2>5, UnitsSet
  <2>7. NextLevel(i) = Level(i)
    <3> DEFINE q == file[i]
               w == QueueDel(q, p)
    <3>1. q \in Seq(Pid) /\ NoDup(q) /\ p \in Elems(q) /\ p \in Pid /\ prio \in [Pid -> Int]
      BY <2>2, PidFacts DEF AllInv, IInv, SchedInv
    <3>2. file'[i] = w /\ Level(i) = cpt[i] + Len(q) /\ Len(q) \in Nat
      BY <2>1, LevelBounds DEF AllInv, IInv, SemaTypes, Level, NextLevel
    <3> HIDE DEF q
    <3>3. Len(w) = Len(q) - 1
      BY <3>1, QueueLengths
    <3> HIDE DEF w
    <3> QED BY <2>4, <2>5, <3>2, <3>3 DEF Level, NextLevel
  <2>8. Units' = Units
    BY <2>6, <2>7 DEF Units
  <2>9. Wants[p] # 0
    BY <1>2, <2>1 DEF Wants, i
  <2>10. Wants' = [Wants EXCEPT ![p] = 0]
    BY <1>1 DEF Wants
  <2>11. Answers' = Answers
    BY <1>1, <1>2 DEF Answers
  <2> QED BY <2>8, <2>9, <2>10, <2>11, AbandonStep
<1>3. CASE state[p] # "BLOCKEDSEMA"
  <2>1. Units' = Units
    <3>1. UNCHANGED <<tabId, cpt>>
      BY <1>1, <1>3 DEF Kill, GiveBack
    <3> QED BY <1>1, <1>3, <3>1, UnitsKept
  <2>2. Wants' = Wants
    BY <1>1, <1>3 DEF Wants
  <2>3. CASE p \in stopped
    <3>1. Answers[p] # 1
      <4>1. codeReveil[p] \in {0, 3, 4}
        BY DEF AllInv, Ranges
      <4>2. \A c \in {0, 3, 4} : -c # 1
        OBVIOUS
      <4> QED BY <1>3, <2>3, <4>1, <4>2 DEF Answers
    <3>2. Answers' = [Answers EXCEPT ![p] = 1]
      BY <1>1, <1>3 DEF Answers
    <3> QED BY <2>1, <2>2, <3>1, <3>2, ReturnStep
  <2>4. CASE p \notin stopped
    <3>1. Answers' = Answers
      BY <1>1, <1>3, <2>4 DEF Answers
    <3> QED BY <2>1, <2>2, <3>1, IdleStep
  <2> QED BY <2>3, <2>4
<1> QED BY <1>2, <1>3

\* wait returns with the reason of the wake-up.
LEMMA WaitReturns ==
  ASSUME AllInv, AllInv', WaitReturn
  PROVE  Contract!CNext
<1>1. /\ pc = "resumed" /\ stopped' = stopped \ {cur} /\ state[cur] = "CHOSEN"
      /\ UNCHANGED <<state, tabId, cpt, sema, codeReveil>>
  BY DEF WaitReturn, Returned, semas, AllInv, IInv, SchedInv
<1>2. cur \in stopped /\ cur \in Proc
  BY <1>1 DEF AllInv, StopInv
<1>3. Units' = Units
  BY <1>1, UnitsKept
<1>4. Wants' = Wants
  BY <1>1 DEF Wants
<1>5. Answers[cur] # 1
  <2>1. codeReveil[cur] \in {0, 3, 4}
    BY <1>2 DEF AllInv, Ranges
  <2>2. \A c \in {0, 3, 4} : -c # 1
    OBVIOUS
  <2> QED BY <1>1, <1>2, <2>1, <2>2 DEF Answers
<1>6. Answers' = [Answers EXCEPT ![cur] = 1]
  BY <1>1, <1>2 DEF Answers
<1> QED BY <1>2, <1>3, <1>4, <1>5, <1>6, ReturnStep

\* The other operations leave the contract alone.
LEMMA OthersIdle ==
  ASSUME AllInv, AllInv',
         \/ \E p \in Proc, n \in Prio : Start(p, n)
         \/ \E p \in Proc, n \in Prio : Chprio(p, n)
         \/ Tick \/ Ordonnance \/ UNCHANGED vars
  PROVE  UNCHANGED Contract!cvars
<1>1. ASSUME UNCHANGED <<tabId, cpt>>,
             \A p \in Proc : state'[p] = "BLOCKEDSEMA" <=> state[p] = "BLOCKEDSEMA",
             \A p \in Proc : state[p] = "BLOCKEDSEMA" => sema'[p] = sema[p],
             UNCHANGED stopped,
             \A p \in Proc : p \in stopped => codeReveil'[p] = codeReveil[p]
      PROVE  UNCHANGED Contract!cvars
  <2>1. Units' = Units
    BY <1>1, UnitsKept
  <2>2. \A p \in Proc : state[p] = "BLOCKEDSEMA" => tabId'[sema'[p]] = tabId[sema[p]]
    BY <1>1
  <2>3. Wants' = Wants /\ Answers' = Answers
    BY <1>1, <2>2, ClientsKept
  <2> QED BY <2>1, <2>3, IdleStep
<1>2. ASSUME NEW p \in Proc, NEW n \in Prio, Start(p, n) PROVE UNCHANGED Contract!cvars
  <2>1. /\ \A r \in Proc : state'[r] = IF r = p THEN "ACTIVABLE" ELSE state[r]
        /\ state[p] = "ENDED" /\ p \notin stopped
        /\ \A r \in Proc : r # p => sema'[r] = sema[r] /\ codeReveil'[r] = codeReveil[r]
        /\ UNCHANGED <<tabId, cpt, stopped>>
    BY <1>2, PidFacts
       DEF Start, Started, AllInv, IInv, SchedInv, SemaTypes, StopInv, Ranges
  <2> QED BY <2>1, <1>1
<1>3. ASSUME NEW p \in Proc, NEW n \in Prio, Chprio(p, n) PROVE UNCHANGED Contract!cvars
  BY <1>3, <1>1 DEF Chprio, Repriorised
<1>4. ASSUME Tick PROVE UNCHANGED Contract!cvars
  BY <1>4, <1>1 DEF Tick, Preempted, semas
<1>5. ASSUME Ordonnance PROVE UNCHANGED Contract!cvars
  <2>1. /\ \A p \in Pid : state[p] \notin {"CHOSEN", "ACTIVABLE"} => state'[p] = state[p]
        /\ \A p \in Pid : state[p] \in {"CHOSEN", "ACTIVABLE"} =>
                            state'[p] \in {"CHOSEN", "ACTIVABLE"}
    BY <1>5, ElectedSched DEF AllInv, IInv, Ordonnance
  <2>2. \A p \in Proc : state'[p] = "BLOCKEDSEMA" <=> state[p] = "BLOCKEDSEMA"
    BY <2>1, PidFacts
  <2> QED BY <1>5, <2>2, <1>1 DEF Ordonnance, Elected, semas
<1>6. ASSUME UNCHANGED vars PROVE UNCHANGED Contract!cvars
  BY <1>6, <1>1 DEF vars, sched, semas
<1> QED BY <1>2, <1>3, <1>4, <1>5, <1>6

\* Every step is a step of the contract, or none.
LEMMA NextContract ==
  ASSUME AllInv, AllInv', 0 \notin Ids, [Next]_vars,
         \A i \in Cell : tabId[i] # 0 => tabId'[i] \in {0, tabId[i]}
  PROVE  Contract!CNext \/ UNCHANGED Contract!cvars
<1>1. ASSUME NEW c \in 0..MaxShort, Screate(c) PROVE Contract!CNext
  BY <1>1, ScreateOpens
<1>2. ASSUME NEW id \in Ids, Sdelete(id) PROVE Contract!CNext
  BY <1>2, SdeleteCloses
<1>3. ASSUME NEW r \in Resets, Sreset(r[1], r[2]) PROVE Contract!CNext
  BY <1>3, SresetResets
<1>4. ASSUME NEW id \in Ids, TryWait(id) \/ Wait(id) PROVE Contract!CNext
  BY <1>4, WaitTakes
<1>5. ASSUME NEW id \in Ids, WaitBlock(id) PROVE Contract!CNext
  BY <1>5, WaitEnqueues
<1>6. ASSUME NEW id \in Ids, NEW c \in Short, Signaln(id, c) PROVE Contract!CNext
  BY <1>6, SignalnGives
<1>7. ASSUME WaitReturn PROVE Contract!CNext
  BY <1>7, WaitReturns
<1>8. ASSUME NEW p \in Proc, Kill(p) PROVE Contract!CNext \/ UNCHANGED Contract!cvars
  BY <1>8, KillEnds
<1>9. ASSUME \/ \E p \in Proc, n \in Prio : Start(p, n)
             \/ \E p \in Proc, n \in Prio : Chprio(p, n)
             \/ Tick \/ Ordonnance \/ UNCHANGED vars
      PROVE  UNCHANGED Contract!cvars
  BY <1>9, OthersIdle
<1> QED BY <1>1, <1>2, <1>3, <1>4, <1>5, <1>6, <1>7, <1>8, <1>9 DEF Next

\* The semaphores keep the promises of module SemaphoreContract: every wait is
\* answered once and with its own reason, by an operation on its semaphore, and
\* no unit is lost, made or given twice, whatever kill, chprio and the
\* scheduler do.  Of the count of an sreset the units are what the counter
\* keeps: the count if it fits, and else possibly a debt.
THEOREM PromiseKept == 0 \notin Ids /\ Spec /\ PlaceFree => SemaphorePromise
<1> SUFFICES ASSUME 0 \notin Ids PROVE Spec /\ PlaceFree => SemaphorePromise
  OBVIOUS
<1>1. Init => Places /\ StopInv
  <2> SUFFICES ASSUME Init PROVE Places /\ StopInv
    OBVIOUS
  <2>1. Places
    BY DEF Init, Places, IdsGiven
  <2>2. \A p \in Proc : state[p] \in {"CHOSEN", "ACTIVABLE"}
    BY PidFacts DEF Init, SchedInit
  <2>3. StopInv
    BY <2>2 DEF Init, SchedInit, StopInv
  <2> QED BY <2>1, <2>3
<1>2. Init => Contract!CInit
  <2> SUFFICES ASSUME Init PROVE Contract!CInit
    OBVIOUS
  <2>1. \A i \in Cell : tabId[i] = 0
    BY DEF Init
  <2>2. ASSUME NEW id \in 1..LastId PROVE ~ Found(id)
    <3>1. Cells(id) \subseteq Cell
      BY <1>1, <2>1, PlaceOf, SemaphoreAssumption DEF WellPlaced
    <3> QED BY <2>1, <3>1, SemaphoreAssumption DEF Found
  <2>3. \A p \in Proc : state[p] \in {"CHOSEN", "ACTIVABLE"} /\ p \notin stopped
    BY PidFacts DEF Init, SchedInit
  <2> QED BY <2>2, <2>3 DEF Contract!CInit, Contract!NoAnswer
<1>3. Places /\ StopInv /\ IInv /\ [Next]_vars => Places' /\ StopInv'
  BY PlacesStep, NextStopInv
<1>4. /\ IInv /\ Ranges /\ Places /\ StopInv
      /\ IInv' /\ Ranges' /\ Places' /\ StopInv' /\ [Next]_vars
      /\ [\A i \in Cell : tabId[i] # 0 => tabId'[i] \in {0, tabId[i]}]_vars
      => [Contract!CNext]_(Contract!cvars)
  <2> SUFFICES ASSUME AllInv, AllInv', [Next]_vars,
                      [\A i \in Cell : tabId[i] # 0 => tabId'[i] \in {0, tabId[i]}]_vars
               PROVE  [Contract!CNext]_(Contract!cvars)
    BY DEF AllInv
  <2>1. \A i \in Cell : tabId[i] # 0 => tabId'[i] \in {0, tabId[i]}
    BY DEF vars, semas
  <2> QED BY <2>1, NextContract
<1>5. Spec /\ PlaceFree => [](IInv /\ ListsSorted /\ Ranges)
  BY InvariantHolds
<1> QED BY <1>1, <1>2, <1>3, <1>4, <1>5, PTL DEF Spec, PlaceFree, SemaphorePromise, Contract!CSpec

\* Hence, for these, all of the above without a condition on the places.  What
\* CountInStep says depends on the counts of the resets, as in CountsHold.
THEOREM FirstSemaphoresHold ==
  0 \notin Ids /\ LastId <= 2 * NbMaxSema /\ Spec
    => [](CountInStep /\ WaitersChained /\ TypeOK) /\ HighestFirst /\ SemaphorePromise
<1> SUFFICES ASSUME 0 \notin Ids, LastId <= 2 * NbMaxSema
             PROVE  Spec => [](CountInStep /\ WaitersChained /\ TypeOK)
                             /\ HighestFirst /\ SemaphorePromise
  OBVIOUS
<1>1. Spec => PlaceFree
  BY FirstPlacesFree
<1>2. Spec /\ PlaceFree => []CountInStep
  BY CountsHold
<1>3. Spec /\ PlaceFree => []WaitersChained
  BY WaitersHold
<1>4. Spec /\ PlaceFree => []TypeOK
  BY TypesHold
<1>5. Spec /\ PlaceFree => HighestFirst
  BY HighestFirstHolds
<1>6. Spec /\ PlaceFree => SemaphorePromise
  BY PromiseKept
<1> QED BY <1>1, <1>2, <1>3, <1>4, <1>5, <1>6, PTL
=============================================================================

--------------------------- MODULE MessageProofs ---------------------------
(***************************************************************************)
(* For every number of processes and of queues, every capacity and every   *)
(* use of preset and of null pointers: counters and lists of waiters agree,*)
(* nobody waits in vain, a process is in the list where kill looks for it, *)
(* the one served has the highest priority, no index leaves its buffer, an *)
(* error belongs to the wait that ends, and no queue is lost.  Without     *)
(* null pointers, and while the indices of a queue agree with its number   *)
(* of messages, which they do without preset, the queues implement module  *)
(* MessageContract.                                                        *)
(***************************************************************************)
EXTENDS MessageProps, SchedulerProofs, FiniteSetTheorems

WaitPairs == Fid \X {"readers", "writers"}

\* Pairs are told apart from each other and from the empty tuple.
LEMMA Pairs ==
  /\ \A q \in Fid : <<q, "readers">> \in WaitPairs /\ <<q, "writers">> \in WaitPairs
  /\ <<>> \notin WaitPairs
  /\ \A w \in WaitPairs : \E q \in Fid : w = <<q, "readers">> \/ w = <<q, "writers">>
  /\ \A q, r \in Fid : <<q, "readers">> # <<r, "writers">>
  /\ \A q, r \in Fid : <<q, "readers">> = <<r, "readers">> => q = r
  /\ \A q, r \in Fid : <<q, "writers">> = <<r, "writers">> => q = r
<1>1. /\ \A q \in Fid : <<q, "readers">> \in WaitPairs /\ <<q, "writers">> \in WaitPairs
      /\ \A w \in WaitPairs : \E q \in Fid : w = <<q, "readers">> \/ w = <<q, "writers">>
      /\ \A q, r \in Fid : <<q, "readers">> # <<r, "writers">>
      /\ \A q, r \in Fid : <<q, "readers">> = <<r, "readers">> => q = r
      /\ \A q, r \in Fid : <<q, "writers">> = <<r, "writers">> => q = r
  BY DEF WaitPairs
<1>2. <<>> \notin WaitPairs
  <2>1. \A q \in Fid : \A x : <<q, x>> # <<>>
    OBVIOUS
  <2> QED BY <2>1 DEF WaitPairs
<1> QED BY <1>1, <1>2

\* A sequence read backwards has the same elements.
LEMMA ReverseElems ==
  ASSUME NEW S, NEW s \in Seq(S), NoDup(s)
  PROVE  /\ Reverse(s) \in Seq(S) /\ NoDup(Reverse(s))
         /\ Elems(Reverse(s)) = Elems(s)
<1> DEFINE r == Reverse(s)
           n == Len(s)
<1>1. n \in Nat /\ \A i \in 1..n : n - i + 1 \in 1..n /\ s[n - i + 1] \in S
                                   /\ n - (n - i + 1) + 1 = i
  BY LenProperties, ElementOfSeq
<1>2. r \in Seq(S) /\ Len(r) = n /\ \A i \in 1..n : r[i] = s[n - i + 1]
  BY <1>1 DEF Reverse
<1> HIDE DEF r
<1>3. NoDup(r)
  <2> SUFFICES ASSUME NEW i \in 1..n, NEW j \in 1..n, r[i] = r[j] PROVE i = j
    BY <1>2 DEF NoDup
  <2>1. n - i + 1 = n - j + 1
    BY <1>1, <1>2 DEF NoDup
  <2> QED BY <1>1, <2>1
<1>4. Elems(r) = Elems(s)
  <2>1. \A i \in 1..n : r[i] \in Elems(s)
    BY <1>1, <1>2 DEF Elems
  <2>2. \A i \in 1..n : s[i] \in Elems(r)
    BY <1>1, <1>2 DEF Elems
  <2> QED BY <1>2, <2>1, <2>2 DEF Elems
<1> QED BY <1>2, <1>3, <1>4 DEF r

\* Two disjoint lists, one behind the other.
LEMMA ConcatElems ==
  ASSUME NEW S, NEW a \in Seq(S), NEW b \in Seq(S), NoDup(a), NoDup(b),
         Elems(a) \cap Elems(b) = {}
  PROVE  /\ a \o b \in Seq(S) /\ NoDup(a \o b)
         /\ Elems(a \o b) = Elems(a) \cup Elems(b)
<1> DEFINE r == a \o b
           m == Len(a)
           n == Len(b)
<1>1. m \in Nat /\ n \in Nat
  BY LenProperties
<1>2. /\ r \in Seq(S) /\ Len(r) = m + n
      /\ \A i \in 1..m : r[i] = a[i]
      /\ \A i \in (m + 1)..(m + n) : r[i] = b[i - m]
  BY ConcatAt
<1>3. \A i \in 1..(m + n) : i \in 1..m \/ (i \in (m + 1)..(m + n) /\ i - m \in 1..n)
  BY <1>1
<1>4. \A i \in 1..n : i + m \in (m + 1)..(m + n) /\ (i + m) - m = i
  BY <1>1
<1> HIDE DEF r
<1>5. \A i \in 1..m : r[i] \in Elems(a)
  BY <1>2 DEF Elems
<1>6. \A i \in (m + 1)..(m + n) : r[i] \in Elems(b)
  <2>1. \A i \in (m + 1)..(m + n) : i - m \in 1..n
    BY <1>1
  <2> QED BY <1>2, <2>1 DEF Elems
<1>7. NoDup(r)
  <2> SUFFICES ASSUME NEW i \in 1..(m + n), NEW j \in 1..(m + n), r[i] = r[j] PROVE i = j
    BY <1>2 DEF NoDup
  <2>1. CASE i \in 1..m /\ j \in 1..m
    BY <2>1, <1>2 DEF NoDup
  <2>2. CASE i \in (m + 1)..(m + n) /\ j \in (m + 1)..(m + n)
    <3>1. i - m \in 1..n /\ j - m \in 1..n /\ b[i - m] = b[j - m]
      BY <2>2, <1>1, <1>2
    <3>2. i - m = j - m
      BY <3>1 DEF NoDup
    <3> QED BY <3>2, <1>1
  <2> QED BY <1>3, <1>5, <1>6, <2>1, <2>2
<1>8. Elems(r) = Elems(a) \cup Elems(b)
  <2>1. \A i \in 1..m : a[i] \in Elems(r)
    <3>1. \A i \in 1..m : i \in 1..(m + n)
      BY <1>1
    <3> QED BY <1>2, <3>1 DEF Elems
  <2>2. \A i \in 1..n : b[i] \in Elems(r)
    <3>1. \A i \in 1..n : i + m \in 1..(m + n)
      BY <1>1
    <3> QED BY <1>2, <1>4, <3>1 DEF Elems
  <2>3. \A i \in 1..(m + n) : r[i] \in Elems(a) \cup Elems(b)
    BY <1>3, <1>5, <1>6
  <2>4. Elems(r) \subseteq Elems(a) \cup Elems(b)
    BY <1>2, <2>3 DEF Elems
  <2>5. Elems(a) \cup Elems(b) \subseteq Elems(r)
    BY <2>1, <2>2 DEF Elems
  <2> QED BY <2>4, <2>5
<1> QED BY <1>2, <1>7, <1>8 DEF r

-----------------------------------------------------------------------------
(* The inductive invariants. *)

WaitTypes ==
  /\ alive \in [Fid -> BOOLEAN]
  /\ size \in [Fid -> Nat]
  /\ nbMessages \in [Fid -> Int]
  /\ nbReaders \in [Fid -> Int] /\ nbWriters \in [Fid -> Int]
  /\ readers \in [Fid -> Seq(Pid)] /\ writers \in [Fid -> Seq(Pid)]
  /\ blockedQueue \in [Proc -> WaitPairs \cup {<<>>}]

\* The processes in WAITMSG are those of the lists, each in the one its
\* blocked_queue names, and a dead queue has empty lists.
ListsMatch ==
  /\ \A q \in Fid : NoDup(readers[q]) /\ NoDup(writers[q])
  /\ \A q \in Fid, p \in Pid :
       p \in Elems(readers[q]) <=> p \in Proc /\ blockedQueue[p] = <<q, "readers">>
  /\ \A q \in Fid, p \in Pid :
       p \in Elems(writers[q]) <=> p \in Proc /\ blockedQueue[p] = <<q, "writers">>
  /\ \A p \in Proc : state[p] = "WAITMSG" <=> blockedQueue[p] # <<>>
  /\ \A q \in Fid : ~ alive[q] => readers[q] = <<>> /\ writers[q] = <<>>

WInv == SchedInv /\ WaitTypes /\ ListsMatch /\ WaitersCounted /\ NoWaitInVain

\* The table of queues.
TInv ==
  /\ alive \in [Fid -> BOOLEAN] /\ list \in Seq(Fid) /\ created \in 0..NbQueues
  /\ \A q \in Fid : q >= created => ~ alive[q]
  /\ QueuesAccounted

\* Errors, and the processes inside a call.
EInv ==
  /\ \A p \in Proc : state[p] = "WAITMSG" => p \in stopped
  /\ pc = "user" => cur \notin stopped
  /\ hasMsgError \in [Proc -> BOOLEAN]
  /\ ErrorIsCurrent

\* What WInv says of the lists is WaitersChained.
LEMMA Chained == WaitTypes /\ ListsMatch => WaitersChained
<1> SUFFICES ASSUME WaitTypes, ListsMatch PROVE WaitersChained
  OBVIOUS
<1>1. ASSUME NEW p \in Proc, NEW w \in Seq(Pid), NoDup(w)
      PROVE  Occurs(p, w) = IF p \in Elems(w) THEN 1 ELSE 0
  <2> DEFINE K == {i \in 1..Len(w) : w[i] = p}
  <2>1. CASE p \in Elems(w)
    <3>1. PICK k \in 1..Len(w) : w[k] = p
      BY <2>1 DEF Elems
    <3>2. K = {k}
      BY <1>1, <3>1 DEF NoDup
    <3> HIDE DEF K
    <3> QED BY <2>1, <3>2, FS_Singleton DEF Occurs, K
  <2>2. CASE p \notin Elems(w)
    <3>1. K = {}
      BY <2>2 DEF Elems
    <3> QED BY <2>2, <3>1, FS_EmptySet DEF Occurs
  <2> QED BY <2>1, <2>2
<1>2. ASSUME NEW p \in Proc, NEW q \in Fid
      PROVE  /\ Occurs(p, readers[q]) = IF blockedQueue[p] = <<q, "readers">> THEN 1 ELSE 0
             /\ Occurs(p, writers[q]) = IF blockedQueue[p] = <<q, "writers">> THEN 1 ELSE 0
  <2>1. /\ readers[q] \in Seq(Pid) /\ writers[q] \in Seq(Pid)
        /\ NoDup(readers[q]) /\ NoDup(writers[q])
    BY DEF WaitTypes, ListsMatch
  <2>2. /\ p \in Elems(readers[q]) <=> blockedQueue[p] = <<q, "readers">>
        /\ p \in Elems(writers[q]) <=> blockedQueue[p] = <<q, "writers">>
    BY PidFacts DEF ListsMatch
  <2> QED BY <1>1, <2>1, <2>2
<1>3. ASSUME NEW p \in Proc, NEW q \in Fid, blockedQueue[p] # <<>>, blockedQueue[p][1] = q
      PROVE  alive[q]
  <2>1. blockedQueue[p] = <<q, "readers">> \/ blockedQueue[p] = <<q, "writers">>
    BY <1>3 DEF WaitTypes, WaitPairs
  <2>2. readers[q] # <<>> \/ writers[q] # <<>>
    <3>1. p \in Elems(readers[q]) \/ p \in Elems(writers[q])
      BY <2>1, PidFacts DEF ListsMatch
    <3>2. readers[q] \in Seq(Pid) /\ writers[q] \in Seq(Pid)
      BY DEF WaitTypes
    <3> QED BY <3>1, <3>2, ElemsEmpty
  <2> QED BY <2>2 DEF ListsMatch
<1>4. \A p \in Proc : state[p] = "WAITMSG" <=> blockedQueue[p] # <<>>
  BY DEF ListsMatch
<1> QED BY <1>2, <1>3, <1>4 DEF WaitersChained

\* A step that gives one queue other lists of waiters, another number of
\* messages and another capacity.
LEMMA QueueStep ==
  ASSUME WInv, SchedInv', NEW q \in Fid,
         NEW rs \in Seq(Pid), NEW ws \in Seq(Pid), NoDup(rs), NoDup(ws),
         NEW m \in Int, NEW n \in Nat,
         readers' = [readers EXCEPT ![q] = rs], writers' = [writers EXCEPT ![q] = ws],
         nbReaders' = [nbReaders EXCEPT ![q] = Len(rs)],
         nbWriters' = [nbWriters EXCEPT ![q] = Len(ws)],
         nbMessages' = [nbMessages EXCEPT ![q] = m], size' = [size EXCEPT ![q] = n],
         alive' \in [Fid -> BOOLEAN], \A r \in Fid : r # q => alive'[r] = alive[r],
         ~ alive'[q] => rs = <<>> /\ ws = <<>>,
         rs # <<>> => m = 0 /\ ws = <<>>, ws # <<>> => m = n,
         blockedQueue' \in [Proc -> WaitPairs \cup {<<>>}],
         \A p \in Proc, r \in Fid : r # q =>
           /\ blockedQueue'[p] = <<r, "readers">> <=> blockedQueue[p] = <<r, "readers">>
           /\ blockedQueue'[p] = <<r, "writers">> <=> blockedQueue[p] = <<r, "writers">>,
         \A p \in Pid : p \in Elems(rs) <=> p \in Proc /\ blockedQueue'[p] = <<q, "readers">>,
         \A p \in Pid : p \in Elems(ws) <=> p \in Proc /\ blockedQueue'[p] = <<q, "writers">>,
         \A p \in Proc : state'[p] = "WAITMSG" <=> blockedQueue'[p] # <<>>
  PROVE  WInv'
<1>1. /\ \A r \in Fid : readers'[r] = IF r = q THEN rs ELSE readers[r]
      /\ \A r \in Fid : writers'[r] = IF r = q THEN ws ELSE writers[r]
      /\ \A r \in Fid : nbReaders'[r] = IF r = q THEN Len(rs) ELSE nbReaders[r]
      /\ \A r \in Fid : nbWriters'[r] = IF r = q THEN Len(ws) ELSE nbWriters[r]
      /\ \A r \in Fid : nbMessages'[r] = IF r = q THEN m ELSE nbMessages[r]
      /\ \A r \in Fid : size'[r] = IF r = q THEN n ELSE size[r]
  BY DEF WInv, WaitTypes
<1>2. WaitTypes'
  <2>1. Len(rs) \in Int /\ Len(ws) \in Int
    BY LenProperties
  <2> QED BY <2>1 DEF WInv, WaitTypes
<1>3. ListsMatch'
  <2>1. \A r \in Fid : NoDup(readers'[r]) /\ NoDup(writers'[r])
    BY <1>1 DEF WInv, ListsMatch
  <2>2. \A r \in Fid, p \in Pid :
          p \in Elems(readers'[r]) <=> p \in Proc /\ blockedQueue'[p] = <<r, "readers">>
    <3>1. ASSUME NEW r \in Fid, NEW p \in Pid, r = q
          PROVE  p \in Elems(readers'[r]) <=> p \in Proc /\ blockedQueue'[p] = <<r, "readers">>
      BY <1>1, <3>1
    <3>2. ASSUME NEW r \in Fid, NEW p \in Pid, r # q
          PROVE  p \in Elems(readers'[r]) <=> p \in Proc /\ blockedQueue'[p] = <<r, "readers">>
      BY <1>1, <3>2 DEF WInv, ListsMatch
    <3> QED BY <3>1, <3>2
  <2>3. \A r \in Fid, p \in Pid :
          p \in Elems(writers'[r]) <=> p \in Proc /\ blockedQueue'[p] = <<r, "writers">>
    <3>1. ASSUME NEW r \in Fid, NEW p \in Pid, r = q
          PROVE  p \in Elems(writers'[r]) <=> p \in Proc /\ blockedQueue'[p] = <<r, "writers">>
      BY <1>1, <3>1
    <3>2. ASSUME NEW r \in Fid, NEW p \in Pid, r # q
          PROVE  p \in Elems(writers'[r]) <=> p \in Proc /\ blockedQueue'[p] = <<r, "writers">>
      BY <1>1, <3>2 DEF WInv, ListsMatch
    <3> QED BY <3>1, <3>2
  <2>4. \A r \in Fid : ~ alive'[r] => readers'[r] = <<>> /\ writers'[r] = <<>>
    BY <1>1 DEF WInv, ListsMatch
  <2> QED BY <2>1, <2>2, <2>3, <2>4 DEF ListsMatch
<1>4. WaitersCounted'
  <2>1. \A r \in Fid : nbReaders'[r] = Len(readers'[r]) /\ nbWriters'[r] = Len(writers'[r])
    BY <1>1 DEF WInv, WaitersCounted
  <2> QED BY <2>1 DEF WaitersCounted
<1>5. NoWaitInVain'
  <2>1. \A r \in Fid :
          /\ readers'[r] # <<>> => nbMessages'[r] = 0 /\ writers'[r] = <<>>
          /\ writers'[r] # <<>> => nbMessages'[r] = size'[r]
    BY <1>1 DEF WInv, NoWaitInVain
  <2> QED BY <2>1 DEF NoWaitInVain
<1> QED BY <1>2, <1>3, <1>4, <1>5 DEF WInv

\* A step that touches no queue and moves no waiter.
LEMMA SchedStep ==
  ASSUME WInv, SchedInv', UNCHANGED <<alive, size, nbMessages, waits>>,
         \A p \in Proc : state'[p] = "WAITMSG" <=> state[p] = "WAITMSG"
  PROVE  WInv'
<1>1. WaitTypes' /\ WaitersCounted' /\ NoWaitInVain'
  BY DEF WInv, WaitTypes, WaitersCounted, NoWaitInVain, waits
<1>2. ListsMatch'
  BY DEF WInv, ListsMatch, waits
<1> QED BY <1>1, <1>2 DEF WInv

-----------------------------------------------------------------------------
(* Waiting: one lemma per operation. *)

\* pcreate takes a queue that is dead, and has no waiters.
LEMMA PcreateWInv ==
  ASSUME WInv, TInv, NEW n \in Sizes, Pcreate(n)
  PROVE  WInv'
<1> DEFINE q == NewFid
<1>1. q \in Fid /\ ~ alive[q]
  <2>1. CASE list # <<>>
    <3>1. list \in Seq(Fid) /\ Len(list) \in Nat /\ Len(list) # 0
      BY <2>1, EmptySeq DEF TInv
    <3>2. list[1] \in Elems(list) /\ q = list[1]
      BY <2>1, <3>1 DEF Elems, NewFid
    <3>3. Elems(list) \subseteq {r \in 0..(created - 1) : ~ alive[r]} /\ created \in 0..NbQueues
      BY DEF TInv, QueuesAccounted
    <3>4. NbQueues \in Nat
      BY MessageAssumption
    <3> QED BY <3>2, <3>3, <3>4 DEF Fid
  <2>2. CASE list = <<>>
    <3>1. q = created /\ created < NbQueues /\ created \in 0..NbQueues /\ NbQueues \in Nat
      BY <2>2, MessageAssumption DEF Pcreate, TInv, NewFid
    <3>2. q \in Fid
      BY <3>1 DEF Fid
    <3> QED BY <3>1, <3>2 DEF TInv
  <2> QED BY <2>1, <2>2
<1>2. /\ alive' = [alive EXCEPT ![q] = TRUE] /\ size' = [size EXCEPT ![q] = n]
      /\ nbMessages' = [nbMessages EXCEPT ![q] = 0]
      /\ nbReaders' = [nbReaders EXCEPT ![q] = 0] /\ nbWriters' = [nbWriters EXCEPT ![q] = 0]
      /\ readers' = [readers EXCEPT ![q] = <<>>] /\ writers' = [writers EXCEPT ![q] = <<>>]
      /\ UNCHANGED <<sched, blockedQueue>>
  BY DEF Pcreate, Opened
<1> HIDE DEF q
<1>3. readers[q] = <<>> /\ writers[q] = <<>>
  BY <1>1 DEF WInv, ListsMatch
<1>4. /\ <<>> \in Seq(Pid) /\ NoDup(<<>>) /\ Elems(<<>>) = {} /\ Len(<<>>) = 0
      /\ n \in Nat
  <2>1. readers[q] \in Seq(Pid)
    BY <1>1 DEF WInv, WaitTypes
  <2> QED BY <2>1, ElemsEmpty, MessageAssumption
<1>5. SchedInv' /\ UNCHANGED state
  BY <1>2, OtherSched DEF WInv
<1>6. /\ alive' \in [Fid -> BOOLEAN] /\ \A r \in Fid : r # q => alive'[r] = alive[r]
      /\ blockedQueue' \in [Proc -> WaitPairs \cup {<<>>}]
  BY <1>2 DEF WInv, WaitTypes
<1>7. /\ \A p \in Pid : p \in Elems(<<>>) <=> p \in Proc /\ blockedQueue'[p] = <<q, "readers">>
      /\ \A p \in Pid : p \in Elems(<<>>) <=> p \in Proc /\ blockedQueue'[p] = <<q, "writers">>
      /\ \A p \in Proc : state'[p] = "WAITMSG" <=> blockedQueue'[p] # <<>>
  BY <1>1, <1>2, <1>3, <1>5 DEF WInv, ListsMatch
<1> DEFINE e == <<>>
           z == 0
<1>8. /\ e \in Seq(Pid) /\ NoDup(e) /\ z \in Int /\ (e # <<>> => FALSE) /\ e = <<>>
      /\ readers' = [readers EXCEPT ![q] = e] /\ writers' = [writers EXCEPT ![q] = e]
      /\ nbReaders' = [nbReaders EXCEPT ![q] = Len(e)]
      /\ nbWriters' = [nbWriters EXCEPT ![q] = Len(e)]
      /\ nbMessages' = [nbMessages EXCEPT ![q] = z]
      /\ \A p \in Pid : p \in Elems(e) <=> p \in Proc /\ blockedQueue'[p] = <<q, "readers">>
      /\ \A p \in Pid : p \in Elems(e) <=> p \in Proc /\ blockedQueue'[p] = <<q, "writers">>
  BY <1>2, <1>4, <1>7
<1> HIDE DEF e, z
<1>9. \A p \in Proc, r \in Fid : r # q =>
        /\ blockedQueue'[p] = <<r, "readers">> <=> blockedQueue[p] = <<r, "readers">>
        /\ blockedQueue'[p] = <<r, "writers">> <=> blockedQueue[p] = <<r, "writers">>
  BY <1>2
<1> QED BY <1>1, <1>2, <1>4, <1>5, <1>6, <1>7, <1>8, <1>9, QueueStep

\* preset and pdelete wake all waiters of q, each once.
LEMMA ExpelledElems ==
  ASSUME WInv, NEW q \in Fid
  PROVE  /\ Expelled(q) \in Seq(Pid) /\ NoDup(Expelled(q))
         /\ \A p \in Pid : p \in Elems(Expelled(q)) <=>
              p \in Proc /\ (blockedQueue[p] = <<q, "readers">> \/ blockedQueue[p] = <<q, "writers">>)
         /\ Elems(Expelled(q)) \subseteq Proc
         /\ \A p \in Elems(Expelled(q)) : state[p] = "WAITMSG"
<1> DEFINE a == readers[q]
           b == writers[q]
<1>1. /\ a \in Seq(Pid) /\ b \in Seq(Pid) /\ NoDup(a) /\ NoDup(b)
  BY DEF WInv, WaitTypes, ListsMatch
<1>2. /\ \A p \in Pid : p \in Elems(a) <=> p \in Proc /\ blockedQueue[p] = <<q, "readers">>
      /\ \A p \in Pid : p \in Elems(b) <=> p \in Proc /\ blockedQueue[p] = <<q, "writers">>
  BY DEF WInv, ListsMatch
<1>3. Expelled(q) = Reverse(a \o b)
  BY DEF Expelled
<1> HIDE DEF a, b
<1>4. Elems(a) \subseteq Pid /\ Elems(b) \subseteq Pid
  BY <1>1, ElemsEmpty
<1>5. Elems(a) \cap Elems(b) = {}
  BY <1>2, <1>4, Pairs
<1>6. /\ a \o b \in Seq(Pid) /\ NoDup(a \o b) /\ Elems(a \o b) = Elems(a) \cup Elems(b)
  BY <1>1, <1>5, ConcatElems
<1>7. /\ Expelled(q) \in Seq(Pid) /\ NoDup(Expelled(q))
      /\ Elems(Expelled(q)) = Elems(a) \cup Elems(b)
  BY <1>3, <1>6, ReverseElems
<1>8. \A p \in Proc : blockedQueue[p] \in WaitPairs => state[p] = "WAITMSG"
  BY Pairs DEF WInv, ListsMatch
<1>9. /\ \A p \in Pid : p \in Elems(Expelled(q)) <=>
           p \in Proc /\ (blockedQueue[p] = <<q, "readers">> \/ blockedQueue[p] = <<q, "writers">>)
      /\ Elems(Expelled(q)) \subseteq Proc
  BY <1>2, <1>4, <1>7
<1>10. \A p \in Elems(Expelled(q)) : state[p] = "WAITMSG"
  BY <1>8, <1>9, Pairs, PidFacts
<1> QED BY <1>7, <1>9, <1>10

\* force_reload_proc keeps the ready queue.
LEMMA ExpelSched ==
  ASSUME WInv, pc = "user", NEW q \in Fid, Expel(q)
  PROVE  SchedInv'
<1>1. Wake(Expelled(q), TRUE)
  BY DEF Expel
<1>2. /\ Expelled(q) \in Seq(Pid) /\ NoDup(Expelled(q))
      /\ \A p \in Elems(Expelled(q)) : state[p] = "WAITMSG"
  BY ExpelledElems
<1>3. SchedInv /\ pc # "ordonnance" /\ \A p \in Elems(Expelled(q)) : state[p] \notin {"CHOSEN", "ACTIVABLE"}
  BY <1>2 DEF WInv
<1> HIDE DEF WInv
<1> QED BY <1>1, <1>2, <1>3, WakeSched

\* preset and pdelete leave q without waiters and without messages.
LEMMA ExpelWInv ==
  ASSUME WInv, pc = "user", NEW q \in Fid, Expel(q),
         NEW n \in Nat, size' = [size EXCEPT ![q] = n],
         alive' \in [Fid -> BOOLEAN], \A r \in Fid : r # q => alive'[r] = alive[r]
  PROVE  WInv'
<1> DEFINE X == Elems(Expelled(q))
<1>1. /\ readers' = [readers EXCEPT ![q] = <<>>] /\ writers' = [writers EXCEPT ![q] = <<>>]
      /\ nbReaders' = [nbReaders EXCEPT ![q] = 0] /\ nbWriters' = [nbWriters EXCEPT ![q] = 0]
      /\ nbMessages' = [nbMessages EXCEPT ![q] = 0]
      /\ blockedQueue' = [p \in Proc |-> IF p \in X THEN <<>> ELSE blockedQueue[p]]
      /\ state' = [p \in Pid |-> IF p \in X THEN "ACTIVABLE" ELSE state[p]]
  BY DEF Expel, Wake
<1>2. /\ \A p \in Pid : p \in X <=>
           p \in Proc /\ (blockedQueue[p] = <<q, "readers">> \/ blockedQueue[p] = <<q, "writers">>)
  BY ExpelledElems
<1> HIDE DEF X
<1>3. SchedInv'
  BY ExpelSched
<1>4. /\ <<>> \in Seq(Pid) /\ NoDup(<<>>) /\ Elems(<<>>) = {} /\ Len(<<>>) = 0
  <2>1. readers[q] \in Seq(Pid)
    BY DEF WInv, WaitTypes
  <2> QED BY <2>1, ElemsEmpty
<1>5. blockedQueue' \in [Proc -> WaitPairs \cup {<<>>}]
  BY <1>1 DEF WInv, WaitTypes
<1>6. \A p \in Proc : /\ p \in Pid
                      /\ p \in X => blockedQueue'[p] = <<>> /\ state'[p] = "ACTIVABLE"
                      /\ p \notin X => blockedQueue'[p] = blockedQueue[p] /\ state'[p] = state[p]
  BY <1>1, PidFacts
<1>7. \A p \in Proc, r \in Fid : r # q =>
        /\ blockedQueue'[p] = <<r, "readers">> <=> blockedQueue[p] = <<r, "readers">>
        /\ blockedQueue'[p] = <<r, "writers">> <=> blockedQueue[p] = <<r, "writers">>
  BY <1>2, <1>6, Pairs
<1>8. /\ \A p \in Pid : p \in Elems(<<>>) <=> p \in Proc /\ blockedQueue'[p] = <<q, "readers">>
      /\ \A p \in Pid : p \in Elems(<<>>) <=> p \in Proc /\ blockedQueue'[p] = <<q, "writers">>
  BY <1>2, <1>4, <1>6, Pairs
<1>9. \A p \in Proc : state'[p] = "WAITMSG" <=> blockedQueue'[p] # <<>>
  BY <1>6 DEF WInv, ListsMatch
<1> DEFINE e == <<>>
           z == 0
<1>10. /\ e \in Seq(Pid) /\ NoDup(e) /\ z \in Int /\ (e # <<>> => FALSE) /\ e = <<>>
       /\ readers' = [readers EXCEPT ![q] = e] /\ writers' = [writers EXCEPT ![q] = e]
       /\ nbReaders' = [nbReaders EXCEPT ![q] = Len(e)]
       /\ nbWriters' = [nbWriters EXCEPT ![q] = Len(e)]
       /\ nbMessages' = [nbMessages EXCEPT ![q] = z]
       /\ \A p \in Pid : p \in Elems(e) <=> p \in Proc /\ blockedQueue'[p] = <<q, "readers">>
       /\ \A p \in Pid : p \in Elems(e) <=> p \in Proc /\ blockedQueue'[p] = <<q, "writers">>
  <2>1. /\ readers' = [readers EXCEPT ![q] = e] /\ writers' = [writers EXCEPT ![q] = e]
        /\ nbMessages' = [nbMessages EXCEPT ![q] = z]
    BY <1>1
  <2>2. /\ nbReaders' = [nbReaders EXCEPT ![q] = Len(e)]
        /\ nbWriters' = [nbWriters EXCEPT ![q] = Len(e)]
    BY <1>1, <1>4
  <2>3. e \in Seq(Pid) /\ NoDup(e) /\ z \in Int /\ e = <<>>
    BY <1>4
  <2> QED BY <1>8, <2>1, <2>2, <2>3
<1> HIDE DEF e, z
<1> QED BY <1>1, <1>3, <1>4, <1>5, <1>7, <1>8, <1>9, <1>10, QueueStep

\* The two calls.
LEMMA PresetPdeleteWInv ==
  ASSUME WInv, NEW q \in Fid, Preset(q) \/ Pdelete(q)
  PROVE  WInv'
<1>1. pc = "user" /\ Expel(q)
  BY DEF Preset, Pdelete, User
<1>2. CASE Preset(q)
  <2>1. /\ size[q] \in Nat /\ size' = [size EXCEPT ![q] = size[q]]
        /\ alive' \in [Fid -> BOOLEAN] /\ \A r \in Fid : r # q => alive'[r] = alive[r]
    BY <1>2 DEF Preset, WInv, WaitTypes, table
  <2> QED BY <1>1, <2>1, ExpelWInv
<1>3. CASE Pdelete(q)
  <2>1. /\ 0 \in Nat /\ size' = [size EXCEPT ![q] = 0]
        /\ alive' \in [Fid -> BOOLEAN] /\ \A r \in Fid : r # q => alive'[r] = alive[r]
    BY <1>3 DEF Pdelete, WInv, WaitTypes
  <2> QED BY <1>1, <2>1, ExpelWInv
<1> QED BY <1>2, <1>3

\* The running process is in no list, and waits for nothing.
LEMMA RunningWaits ==
  ASSUME WInv, User
  PROVE  /\ cur \in Proc /\ cur \in Pid /\ state[cur] = "CHOSEN" /\ blockedQueue[cur] = <<>>
         /\ \A q \in Fid : cur \notin Elems(readers[q]) /\ cur \notin Elems(writers[q])
<1>1. cur \in Proc /\ cur \in Pid /\ state[cur] = "CHOSEN"
  BY PidFacts DEF WInv, SchedInv, User
<1>2. blockedQueue[cur] = <<>>
  BY <1>1 DEF WInv, ListsMatch
<1>3. \A q \in Fid : cur \notin Elems(readers[q]) /\ cur \notin Elems(writers[q])
  BY <1>1, <1>2, Pairs DEF WInv, ListsMatch
<1> QED BY <1>1, <1>2, <1>3

\* What Wait does to the tables of processes.
LEMMA WaitStates ==
  ASSUME WInv, User, NEW q \in Fid, NEW side \in {"readers", "writers"}, NEW c,
         Wait(q, side, c)
  PROVE  /\ SchedInv'
         /\ \A p \in Pid : state'[p] = IF p = cur THEN "WAITMSG" ELSE state[p]
         /\ \A p \in Proc : blockedQueue'[p] = IF p = cur THEN <<q, side>> ELSE blockedQueue[p]
         /\ blockedQueue' \in [Proc -> WaitPairs \cup {<<>>}]
         /\ \A p \in Proc : state'[p] = "WAITMSG" <=> blockedQueue'[p] # <<>>
<1>1. /\ Block("WAITMSG") /\ blockedQueue' = [blockedQueue EXCEPT ![cur] = <<q, side>>]
  BY DEF Wait
<1>2. /\ cur \in Proc /\ cur \in Pid /\ cur # Idle /\ pc # "ordonnance"
      /\ <<q, side>> \in WaitPairs
  BY RunningWaits, Pairs DEF User
<1>3. SchedInv'
  BY <1>1, <1>2, BlockSched DEF WInv
<1>4. \A p \in Pid : state'[p] = IF p = cur THEN "WAITMSG" ELSE state[p]
  BY <1>1, <1>2 DEF Block, WInv, SchedInv
<1>5. /\ \A p \in Proc : blockedQueue'[p] = IF p = cur THEN <<q, side>> ELSE blockedQueue[p]
      /\ blockedQueue' \in [Proc -> WaitPairs \cup {<<>>}]
  BY <1>1, <1>2 DEF WInv, WaitTypes
<1>6. \A p \in Proc : state'[p] = "WAITMSG" <=> blockedQueue'[p] # <<>>
  BY <1>2, <1>4, <1>5, Pairs, PidFacts DEF WInv, ListsMatch
<1> QED BY <1>3, <1>4, <1>5, <1>6

\* psend blocks on a full queue.
LEMMA PsendBlockWInv ==
  ASSUME WInv, NEW q \in Fid, NEW msg, PsendBlock(q, msg)
  PROVE  WInv'
<1> DEFINE rs == readers[q]
           ws == writers[q]
           w  == QueueAdd(ws, cur, prio)
           m  == nbMessages[q]
           n  == size[q]
<1>1. /\ User /\ alive[q] /\ m = n /\ nbReaders[q] = 0
      /\ writers' = [writers EXCEPT ![q] = w]
      /\ nbWriters' = [nbWriters EXCEPT ![q] = nbWriters[q] + 1]
      /\ Wait(q, "writers", "send")
      /\ UNCHANGED <<size, nbMessages, nbReaders, readers, alive>>
  BY DEF PsendBlock, buffer, table, WInv, WaitTypes
<1>2. /\ rs \in Seq(Pid) /\ ws \in Seq(Pid) /\ NoDup(rs) /\ NoDup(ws)
      /\ m \in Int /\ n \in Nat /\ prio \in [Pid -> Int]
      /\ nbReaders[q] = Len(rs) /\ nbWriters[q] = Len(ws)
      /\ alive' \in [Fid -> BOOLEAN] /\ \A r \in Fid : alive'[r] = alive[r]
  BY <1>1 DEF WInv, SchedInv, WaitTypes, ListsMatch, WaitersCounted
<1>3. /\ nbMessages' = [nbMessages EXCEPT ![q] = m] /\ size' = [size EXCEPT ![q] = n]
      /\ readers' = [readers EXCEPT ![q] = rs] /\ nbReaders' = [nbReaders EXCEPT ![q] = Len(rs)]
  BY <1>1, <1>2 DEF WInv, WaitTypes
<1>4. /\ \A p \in Pid : p \in Elems(rs) <=> p \in Proc /\ blockedQueue[p] = <<q, "readers">>
      /\ \A p \in Pid : p \in Elems(ws) <=> p \in Proc /\ blockedQueue[p] = <<q, "writers">>
  BY DEF WInv, ListsMatch
<1>5. cur \in Pid /\ cur \in Proc /\ cur \notin Elems(ws) /\ cur \notin Elems(rs)
  BY <1>1, RunningWaits
<1> HIDE DEF rs, ws, m, n
<1>6. w \in Seq(Pid) /\ NoDup(w) /\ Elems(w) = Elems(ws) \cup {cur}
  BY <1>2, <1>5, QueueAddElems
<1>7. Len(w) = Len(ws) + 1
  BY <1>2, <1>5, QueueLengths
<1>8. rs = <<>>
  BY <1>1, <1>2, EmptySeq
<1> HIDE DEF w
<1>9. nbWriters' = [nbWriters EXCEPT ![q] = Len(w)]
  BY <1>1, <1>2, <1>7
<1>10. /\ SchedInv'
       /\ \A p \in Proc : blockedQueue'[p] = IF p = cur THEN <<q, "writers">> ELSE blockedQueue[p]
       /\ blockedQueue' \in [Proc -> WaitPairs \cup {<<>>}]
       /\ \A p \in Proc : state'[p] = "WAITMSG" <=> blockedQueue'[p] # <<>>
  BY <1>1, WaitStates
<1>11. /\ \A p \in Pid : p \in Elems(rs) <=> p \in Proc /\ blockedQueue'[p] = <<q, "readers">>
       /\ \A p \in Pid : p \in Elems(w) <=> p \in Proc /\ blockedQueue'[p] = <<q, "writers">>
  BY <1>4, <1>5, <1>6, <1>10, Pairs
<1>12. \A p \in Proc, r \in Fid : r # q =>
         /\ blockedQueue'[p] = <<r, "readers">> <=> blockedQueue[p] = <<r, "readers">>
         /\ blockedQueue'[p] = <<r, "writers">> <=> blockedQueue[p] = <<r, "writers">>
  <2>1. blockedQueue[cur] = <<>>
    BY <1>1, RunningWaits
  <2> QED BY <1>10, <2>1, Pairs
<1>13. /\ rs \in Seq(Pid) /\ ws \in Seq(Pid) /\ w \in Seq(Pid) /\ NoDup(rs) /\ NoDup(ws)
       /\ NoDup(w) /\ m \in Int /\ n \in Nat
       /\ alive' \in [Fid -> BOOLEAN] /\ alive'[q]
       /\ \A r \in Fid : r # q => alive'[r] = alive[r]
       /\ rs # <<>> => m = 0 /\ w = <<>>
       /\ w # <<>> => m = n
       /\ writers' = [writers EXCEPT ![q] = w]
  BY <1>1, <1>2, <1>6, <1>8
<1> QED BY <1>3, <1>9, <1>10, <1>11, <1>12, <1>13, QueueStep

\* preceive blocks on an empty queue that no sender waits for.
LEMMA PreceiveBlockWInv ==
  ASSUME WInv, NEW q \in Fid, NEW ptr, PreceiveBlock(q, ptr)
  PROVE  WInv'
<1> DEFINE rs == readers[q]
           ws == writers[q]
           w  == QueueAdd(rs, cur, prio)
           m  == nbMessages[q]
           n  == size[q]
           c  == IF ptr THEN "receive" ELSE "discard"
<1>1. /\ User /\ alive[q] /\ m = 0 /\ nbWriters[q] = 0
      /\ readers' = [readers EXCEPT ![q] = w]
      /\ nbReaders' = [nbReaders EXCEPT ![q] = nbReaders[q] + 1]
      /\ Wait(q, "readers", c)
      /\ UNCHANGED <<size, nbMessages, nbWriters, writers, alive>>
  BY DEF PreceiveBlock, buffer, table, WInv, WaitTypes
<1>2. /\ rs \in Seq(Pid) /\ ws \in Seq(Pid) /\ NoDup(rs) /\ NoDup(ws)
      /\ m \in Int /\ n \in Nat /\ prio \in [Pid -> Int]
      /\ nbReaders[q] = Len(rs) /\ nbWriters[q] = Len(ws)
      /\ alive' \in [Fid -> BOOLEAN] /\ \A r \in Fid : alive'[r] = alive[r]
  BY <1>1 DEF WInv, SchedInv, WaitTypes, ListsMatch, WaitersCounted
<1>3. /\ nbMessages' = [nbMessages EXCEPT ![q] = m] /\ size' = [size EXCEPT ![q] = n]
      /\ writers' = [writers EXCEPT ![q] = ws] /\ nbWriters' = [nbWriters EXCEPT ![q] = Len(ws)]
  BY <1>1, <1>2 DEF WInv, WaitTypes
<1>4. /\ \A p \in Pid : p \in Elems(rs) <=> p \in Proc /\ blockedQueue[p] = <<q, "readers">>
      /\ \A p \in Pid : p \in Elems(ws) <=> p \in Proc /\ blockedQueue[p] = <<q, "writers">>
  BY DEF WInv, ListsMatch
<1>5. cur \in Pid /\ cur \in Proc /\ cur \notin Elems(ws) /\ cur \notin Elems(rs)
  BY <1>1, RunningWaits
<1> HIDE DEF rs, ws, m, n, c
<1>6. w \in Seq(Pid) /\ NoDup(w) /\ Elems(w) = Elems(rs) \cup {cur}
  BY <1>2, <1>5, QueueAddElems
<1>7. Len(w) = Len(rs) + 1
  BY <1>2, <1>5, QueueLengths
<1>8. ws = <<>>
  BY <1>1, <1>2, EmptySeq
<1> HIDE DEF w
<1>9. nbReaders' = [nbReaders EXCEPT ![q] = Len(w)]
  BY <1>1, <1>2, <1>7
<1>10. /\ SchedInv'
       /\ \A p \in Proc : blockedQueue'[p] = IF p = cur THEN <<q, "readers">> ELSE blockedQueue[p]
       /\ blockedQueue' \in [Proc -> WaitPairs \cup {<<>>}]
       /\ \A p \in Proc : state'[p] = "WAITMSG" <=> blockedQueue'[p] # <<>>
  BY <1>1, WaitStates
<1>11. /\ \A p \in Pid : p \in Elems(w) <=> p \in Proc /\ blockedQueue'[p] = <<q, "readers">>
       /\ \A p \in Pid : p \in Elems(ws) <=> p \in Proc /\ blockedQueue'[p] = <<q, "writers">>
  BY <1>4, <1>5, <1>6, <1>10, Pairs
<1>12. \A p \in Proc, r \in Fid : r # q =>
         /\ blockedQueue'[p] = <<r, "readers">> <=> blockedQueue[p] = <<r, "readers">>
         /\ blockedQueue'[p] = <<r, "writers">> <=> blockedQueue[p] = <<r, "writers">>
  <2>1. blockedQueue[cur] = <<>>
    BY <1>1, RunningWaits
  <2> QED BY <1>10, <2>1, Pairs
<1>13. /\ rs \in Seq(Pid) /\ ws \in Seq(Pid) /\ w \in Seq(Pid) /\ NoDup(rs) /\ NoDup(ws)
       /\ NoDup(w) /\ m \in Int /\ n \in Nat
       /\ alive' \in [Fid -> BOOLEAN] /\ alive'[q]
       /\ \A r \in Fid : r # q => alive'[r] = alive[r]
       /\ w # <<>> => m = 0 /\ ws = <<>>
       /\ ws # <<>> => m = n
       /\ readers' = [readers EXCEPT ![q] = w]
  BY <1>1, <1>2, <1>6, <1>8
<1> QED BY <1>3, <1>9, <1>10, <1>11, <1>12, <1>13, QueueStep

\* What Serve does to the tables of processes.
LEMMA ServeStates ==
  ASSUME WInv, User, NEW p \in Proc, blockedQueue[p] # <<>>, NEW c, Serve(p, c)
  PROVE  /\ SchedInv'
         /\ \A r \in Proc : blockedQueue'[r] = IF r = p THEN <<>> ELSE blockedQueue[r]
         /\ blockedQueue' \in [Proc -> WaitPairs \cup {<<>>}]
         /\ \A r \in Proc : state'[r] = "WAITMSG" <=> blockedQueue'[r] # <<>>
<1>1. /\ state' = [state EXCEPT ![p] = "ACTIVABLE"] /\ act' = QueueAdd(act, p, prio)
      /\ blockedQueue' = [blockedQueue EXCEPT ![p] = <<>>]
      /\ pc' = "ordonnance" /\ UNCHANGED <<prio, cur>>
  BY DEF Serve
<1>2. state[p] = "WAITMSG" /\ p \in Pid /\ p # Idle
  BY PidFacts DEF WInv, ListsMatch
<1>3. /\ act \in Seq(Pid) /\ NoDup(act) /\ prio \in [Pid -> Int] /\ DOMAIN state = Pid
      /\ Elems(act) = {r \in Pid : state[r] = "ACTIVABLE"} /\ p \notin Elems(act)
      /\ state[cur] = "CHOSEN" /\ cur \in Pid /\ state[Idle] \in {"CHOSEN", "ACTIVABLE"}
      /\ \A r \in Pid : state[r] = "CHOSEN" => r = cur
  BY <1>2 DEF WInv, SchedInv, User
<1>4. act' \in Seq(Pid) /\ NoDup(act') /\ Elems(act') = Elems(act) \cup {p}
  BY <1>1, <1>2, <1>3, QueueAddElems
<1>5. \A r \in Pid : state'[r] = IF r = p THEN "ACTIVABLE" ELSE state[r]
  BY <1>1, <1>3
<1>6. SchedInv'
  <2>1. DOMAIN state' = Pid
    BY <1>1, <1>3
  <2>2. Elems(act') = {r \in Pid : state'[r] = "ACTIVABLE"}
    BY <1>2, <1>3, <1>4, <1>5
  <2>3. /\ \A r \in Pid : state'[r] = "CHOSEN" => r = cur
        /\ state'[Idle] \in {"CHOSEN", "ACTIVABLE"}
    BY <1>2, <1>3, <1>5, PidFacts
  <2> QED BY <1>1, <1>3, <1>4, <2>1, <2>2, <2>3 DEF SchedInv
<1>7. /\ \A r \in Proc : blockedQueue'[r] = IF r = p THEN <<>> ELSE blockedQueue[r]
      /\ blockedQueue' \in [Proc -> WaitPairs \cup {<<>>}]
  BY <1>1 DEF WInv, WaitTypes
<1>8. \A r \in Proc : state'[r] = "WAITMSG" <=> blockedQueue'[r] # <<>>
  BY <1>5, <1>7, PidFacts DEF WInv, ListsMatch
<1> QED BY <1>6, <1>7, <1>8

\* psend hands its message to a receiver that waits.
LEMMA PsendHandWInv ==
  ASSUME WInv, NEW q \in Fid, NEW msg, PsendHand(q, msg)
  PROVE  WInv'
<1> DEFINE rs == readers[q]
           ws == writers[q]
           p  == QueueTop(rs)
           w  == QueueOut(rs)
           m  == nbMessages[q]
           n  == size[q]
<1>1. /\ User /\ alive[q] /\ nbReaders[q] # 0
      /\ readers' = [readers EXCEPT ![q] = w]
      /\ nbReaders' = [nbReaders EXCEPT ![q] = nbReaders[q] - 1]
      /\ Serve(p, "send")
      /\ UNCHANGED <<size, nbMessages, nbWriters, writers, alive>>
  BY DEF PsendHand, HasReader, buffer, table, WInv, WaitTypes
<1>2. /\ rs \in Seq(Pid) /\ ws \in Seq(Pid) /\ NoDup(rs) /\ NoDup(ws)
      /\ m \in Int /\ n \in Nat
      /\ nbReaders[q] = Len(rs) /\ nbWriters[q] = Len(ws)
      /\ rs # <<>> => m = 0 /\ ws = <<>>
      /\ alive' \in [Fid -> BOOLEAN] /\ \A r \in Fid : alive'[r] = alive[r]
  BY <1>1 DEF WInv, WaitTypes, ListsMatch, WaitersCounted, NoWaitInVain
<1>3. /\ nbMessages' = [nbMessages EXCEPT ![q] = m] /\ size' = [size EXCEPT ![q] = n]
      /\ writers' = [writers EXCEPT ![q] = ws] /\ nbWriters' = [nbWriters EXCEPT ![q] = Len(ws)]
  BY <1>1, <1>2 DEF WInv, WaitTypes
<1>4. /\ \A r \in Pid : r \in Elems(rs) <=> r \in Proc /\ blockedQueue[r] = <<q, "readers">>
      /\ \A r \in Pid : r \in Elems(ws) <=> r \in Proc /\ blockedQueue[r] = <<q, "writers">>
  BY DEF WInv, ListsMatch
<1> HIDE DEF rs, ws, m, n
<1>5. rs # <<>>
  BY <1>1, <1>2, EmptySeq
<1>6. /\ p \in Elems(rs) /\ p \in Pid /\ w \in Seq(Pid) /\ NoDup(w) /\ Elems(w) = Elems(rs) \ {p}
  BY <1>2, <1>5, QueueOutElems
<1>7. Len(w) = Len(rs) - 1
  <2>1. Len(rs) \in 1..Len(rs)
    BY <1>2, <1>5, LenProperties, EmptySeq
  <2> QED BY <1>2, <2>1, RemoveAtProp DEF QueueOut
<1>8. ws = <<>> /\ m = 0
  BY <1>2, <1>5
<1> HIDE DEF w, p
<1>9. p \in Proc /\ blockedQueue[p] = <<q, "readers">> /\ blockedQueue[p] # <<>>
  BY <1>4, <1>6, Pairs
<1>10. /\ SchedInv'
       /\ \A r \in Proc : blockedQueue'[r] = IF r = p THEN <<>> ELSE blockedQueue[r]
       /\ blockedQueue' \in [Proc -> WaitPairs \cup {<<>>}]
       /\ \A r \in Proc : state'[r] = "WAITMSG" <=> blockedQueue'[r] # <<>>
  BY <1>1, <1>9, ServeStates
<1>11. /\ \A r \in Pid : r \in Elems(w) <=> r \in Proc /\ blockedQueue'[r] = <<q, "readers">>
       /\ \A r \in Pid : r \in Elems(ws) <=> r \in Proc /\ blockedQueue'[r] = <<q, "writers">>
  BY <1>4, <1>6, <1>9, <1>10, Pairs
<1>12. \A t \in Proc, r \in Fid : r # q =>
         /\ blockedQueue'[t] = <<r, "readers">> <=> blockedQueue[t] = <<r, "readers">>
         /\ blockedQueue'[t] = <<r, "writers">> <=> blockedQueue[t] = <<r, "writers">>
  BY <1>9, <1>10, Pairs
<1>13. /\ rs \in Seq(Pid) /\ ws \in Seq(Pid) /\ w \in Seq(Pid) /\ NoDup(ws)
       /\ NoDup(w) /\ m \in Int /\ n \in Nat
       /\ alive' \in [Fid -> BOOLEAN] /\ alive'[q]
       /\ \A r \in Fid : r # q => alive'[r] = alive[r]
       /\ w # <<>> => m = 0 /\ ws = <<>>
       /\ ws # <<>> => m = n
       /\ readers' = [readers EXCEPT ![q] = w]
       /\ nbReaders' = [nbReaders EXCEPT ![q] = Len(w)]
  BY <1>1, <1>2, <1>6, <1>7, <1>8
<1> QED BY <1>3, <1>10, <1>11, <1>12, <1>13, QueueStep

\* A step that changes the number of messages of a queue without waiters.
LEMMA BufferStep ==
  ASSUME WInv, NEW q \in Fid, readers[q] = <<>>, writers[q] = <<>>,
         NEW m \in Int, nbMessages' = [nbMessages EXCEPT ![q] = m],
         UNCHANGED <<sched, size, alive, waits>>
  PROVE  WInv'
<1>1. /\ UNCHANGED <<size, alive, nbReaders, nbWriters, readers, writers, blockedQueue, state>>
      /\ SchedInv'
  BY OtherSched DEF WInv, waits
<1>2. \A r \in Fid : nbMessages'[r] = IF r = q THEN m ELSE nbMessages[r]
  BY DEF WInv, WaitTypes
<1>3. WaitTypes' /\ ListsMatch' /\ WaitersCounted'
  BY <1>1 DEF WInv, WaitTypes, ListsMatch, WaitersCounted
<1>4. NoWaitInVain'
  BY <1>1, <1>2 DEF WInv, NoWaitInVain
<1> QED BY <1>1, <1>3, <1>4 DEF WInv

\* psend and preceive on the buffer alone: nobody waits then.
LEMMA BufferWInv ==
  ASSUME WInv, NEW q \in Fid,
         (\E msg \in Msg : PsendWrite(q, msg)) \/ (\E ptr \in Receivers : Preceive(q, ptr))
  PROVE  WInv'
<1>1. /\ readers[q] \in Seq(Pid) /\ writers[q] \in Seq(Pid) /\ nbMessages[q] \in Int
      /\ nbReaders[q] = Len(readers[q]) /\ nbWriters[q] = Len(writers[q])
      /\ readers[q] # <<>> => nbMessages[q] = 0 /\ writers[q] = <<>>
      /\ writers[q] # <<>> => nbMessages[q] = size[q]
  BY DEF WInv, WaitTypes, WaitersCounted, NoWaitInVain
<1>2. CASE \E msg \in Msg : PsendWrite(q, msg)
  <2>1. /\ nbMessages[q] # size[q] /\ ~ HasReader(q)
        /\ nbMessages' = [nbMessages EXCEPT ![q] = nbMessages[q] + 1]
        /\ UNCHANGED <<sched, size, alive, waits>>
    BY <1>2 DEF PsendWrite, Write, table
  <2>2. readers[q] = <<>> /\ writers[q] = <<>>
    BY <1>1, <2>1, EmptySeq DEF HasReader
  <2>3. nbMessages[q] + 1 \in Int
    BY <1>1
  <2> QED BY <2>1, <2>2, <2>3, BufferStep
<1>3. CASE \E ptr \in Receivers : Preceive(q, ptr)
  <2>1. /\ nbMessages[q] # 0 /\ ~ LetsIn(q)
        /\ nbMessages' = [nbMessages EXCEPT ![q] = nbMessages[q] - 1]
        /\ UNCHANGED <<sched, size, alive, waits>>
    BY <1>3 DEF Preceive, table, WInv, WaitTypes
  <2>2. readers[q] = <<>> /\ writers[q] = <<>>
    BY <1>1, <2>1, EmptySeq DEF LetsIn
  <2>3. nbMessages[q] - 1 \in Int
    BY <1>1
  <2> QED BY <2>1, <2>2, <2>3, BufferStep
<1> QED BY <1>2, <1>3

\* preceive reads from a full buffer and lets a sender in: it stays full.
LEMMA PreceiveLetInWInv ==
  ASSUME WInv, NEW q \in Fid, NEW ptr, PreceiveLetIn(q, ptr)
  PROVE  WInv'
<1> DEFINE rs == readers[q]
           ws == writers[q]
           p  == QueueTop(ws)
           w  == QueueDel(ws, p)
           m  == nbMessages[q]
           n  == size[q]
<1>1. /\ User /\ alive[q] /\ m # 0 /\ m = n /\ nbWriters[q] # 0
      /\ writers' = [writers EXCEPT ![q] = w]
      /\ nbWriters' = [nbWriters EXCEPT ![q] = nbWriters[q] - 1]
      /\ nbMessages' = [nbMessages EXCEPT ![q] = (m - 1) + 1]
      /\ Serve(p, "send")
      /\ UNCHANGED <<size, nbReaders, readers, alive>>
  BY DEF PreceiveLetIn, LetsIn, LetIn, Write, table, WInv, WaitTypes
<1>2. /\ rs \in Seq(Pid) /\ ws \in Seq(Pid) /\ NoDup(rs) /\ NoDup(ws)
      /\ m \in Int /\ n \in Nat /\ prio \in [Pid -> Int]
      /\ nbReaders[q] = Len(rs) /\ nbWriters[q] = Len(ws)
      /\ rs # <<>> => m = 0 /\ ws = <<>>
      /\ alive' \in [Fid -> BOOLEAN] /\ \A r \in Fid : alive'[r] = alive[r]
  BY <1>1 DEF WInv, SchedInv, WaitTypes, ListsMatch, WaitersCounted, NoWaitInVain
<1>3. /\ size' = [size EXCEPT ![q] = n]
      /\ readers' = [readers EXCEPT ![q] = rs] /\ nbReaders' = [nbReaders EXCEPT ![q] = Len(rs)]
  BY <1>1, <1>2 DEF WInv, WaitTypes
<1>4. /\ \A r \in Pid : r \in Elems(rs) <=> r \in Proc /\ blockedQueue[r] = <<q, "readers">>
      /\ \A r \in Pid : r \in Elems(ws) <=> r \in Proc /\ blockedQueue[r] = <<q, "writers">>
  BY DEF WInv, ListsMatch
<1> HIDE DEF rs, ws, m, n
<1>5. ws # <<>> /\ rs = <<>> /\ (m - 1) + 1 = m
  BY <1>1, <1>2, EmptySeq
<1>6. p \in Elems(ws) /\ p \in Pid
  BY <1>2, <1>5, QueueOutElems
<1> HIDE DEF p
<1>7. /\ w \in Seq(Pid) /\ NoDup(w) /\ Elems(w) = Elems(ws) \ {p}
  BY <1>2, <1>6, QueueDelElems
<1>8. Len(w) = Len(ws) - 1
  BY <1>2, <1>6, QueueLengths
<1> HIDE DEF w
<1>9. p \in Proc /\ blockedQueue[p] = <<q, "writers">> /\ blockedQueue[p] # <<>>
  BY <1>4, <1>6, Pairs
<1>10. /\ SchedInv'
       /\ \A r \in Proc : blockedQueue'[r] = IF r = p THEN <<>> ELSE blockedQueue[r]
       /\ blockedQueue' \in [Proc -> WaitPairs \cup {<<>>}]
       /\ \A r \in Proc : state'[r] = "WAITMSG" <=> blockedQueue'[r] # <<>>
  BY <1>1, <1>9, ServeStates
<1>11. /\ \A r \in Pid : r \in Elems(rs) <=> r \in Proc /\ blockedQueue'[r] = <<q, "readers">>
       /\ \A r \in Pid : r \in Elems(w) <=> r \in Proc /\ blockedQueue'[r] = <<q, "writers">>
  BY <1>4, <1>7, <1>9, <1>10, Pairs
<1>12. \A t \in Proc, r \in Fid : r # q =>
         /\ blockedQueue'[t] = <<r, "readers">> <=> blockedQueue[t] = <<r, "readers">>
         /\ blockedQueue'[t] = <<r, "writers">> <=> blockedQueue[t] = <<r, "writers">>
  BY <1>9, <1>10, Pairs
<1>13. /\ rs \in Seq(Pid) /\ ws \in Seq(Pid) /\ w \in Seq(Pid) /\ NoDup(rs)
       /\ NoDup(w) /\ m \in Int /\ n \in Nat
       /\ alive' \in [Fid -> BOOLEAN] /\ alive'[q]
       /\ \A r \in Fid : r # q => alive'[r] = alive[r]
       /\ rs # <<>> => m = 0 /\ w = <<>>
       /\ w # <<>> => m = n
       /\ writers' = [writers EXCEPT ![q] = w]
       /\ nbWriters' = [nbWriters EXCEPT ![q] = Len(w)]
       /\ nbMessages' = [nbMessages EXCEPT ![q] = m]
  BY <1>1, <1>2, <1>5, <1>7, <1>8
<1> QED BY <1>3, <1>10, <1>11, <1>12, <1>13, QueueStep

\* The tick, ordonnance and the ends of psend and preceive move no waiter.
LEMMA OthersWInv ==
  ASSUME WInv, Resume \/ Tick \/ Ordonnance \/ PcreateNoMemory \/ UNCHANGED vars
  PROVE  WInv'
<1>1. UNCHANGED <<alive, size, nbMessages, waits>>
  BY DEF Resume, Tick, Ordonnance, PcreateNoMemory, vars, buffer, table
<1>2. CASE Ordonnance
  <2>1. /\ SchedInv'
        /\ \A p \in Pid : state[p] \notin {"CHOSEN", "ACTIVABLE"} => state'[p] = state[p]
        /\ \A p \in Pid : state[p] \in {"CHOSEN", "ACTIVABLE"} =>
                             state'[p] \in {"CHOSEN", "ACTIVABLE"}
    BY <1>2, ElectedSched DEF WInv, Ordonnance
  <2>2. \A p \in Proc : state'[p] = "WAITMSG" <=> state[p] = "WAITMSG"
    BY <2>1, PidFacts
  <2> QED BY <1>1, <2>1, <2>2, SchedStep
<1>3. CASE Resume \/ Tick \/ PcreateNoMemory \/ UNCHANGED vars
  <2>1. SchedInv' /\ UNCHANGED state
    BY <1>3, OtherSched DEF WInv, Resume, Tick, PcreateNoMemory, vars
  <2> QED BY <1>1, <2>1, SchedStep
<1> QED BY <1>2, <1>3

\* kill of a process that waits in the list of readers.
LEMMA KillReadersWInv ==
  ASSUME WInv, NEW p \in Proc, Kill(p), NEW q \in Fid, blockedQueue[p] = <<q, "readers">>
  PROVE  WInv'
<1> DEFINE rs == readers[q]
           ws == writers[q]
           w  == QueueDel(rs, p)
           m  == nbMessages[q]
           n  == size[q]
<1>1. /\ SchedInv' /\ p \in Pid /\ DOMAIN state = Pid
      /\ state' = [state EXCEPT ![p] = "ENDED"]
      /\ blockedQueue' = [blockedQueue EXCEPT ![p] = <<>>]
      /\ UNCHANGED <<size, nbMessages, alive>>
  BY EndedSched, PidFacts DEF WInv, SchedInv, Kill, Ended, buffer, table
<1>2. /\ rs \in Seq(Pid) /\ ws \in Seq(Pid) /\ NoDup(rs) /\ NoDup(ws)
      /\ m \in Int /\ n \in Nat /\ prio \in [Pid -> Int]
      /\ nbReaders[q] = Len(rs) /\ nbWriters[q] = Len(ws)
      /\ rs # <<>> => m = 0 /\ ws = <<>>
      /\ ws # <<>> => m = n
      /\ alive' \in [Fid -> BOOLEAN] /\ \A r \in Fid : alive'[r] = alive[r]
      /\ ~ alive[q] => rs = <<>> /\ ws = <<>>
  BY <1>1 DEF WInv, SchedInv, WaitTypes, ListsMatch, WaitersCounted, NoWaitInVain
<1>3. /\ nbMessages' = [nbMessages EXCEPT ![q] = m] /\ size' = [size EXCEPT ![q] = n]
  BY <1>1, <1>2 DEF WInv, WaitTypes
<1>4. /\ readers' = [readers EXCEPT ![q] = w]
      /\ nbReaders' = [nbReaders EXCEPT ![q] = nbReaders[q] - 1]
      /\ writers' = [writers EXCEPT ![q] = ws]
      /\ nbWriters' = [nbWriters EXCEPT ![q] = nbWriters[q]]
  <2>1. \A r \in Fid : /\ blockedQueue[p] = <<r, "readers">> <=> r = q
                       /\ blockedQueue[p] # <<r, "writers">>
    BY Pairs
  <2>2. /\ readers' = [r \in Fid |-> IF r = q THEN QueueDel(readers[r], p) ELSE readers[r]]
        /\ writers' = [r \in Fid |-> writers[r]]
        /\ nbReaders' = [r \in Fid |-> IF r = q THEN nbReaders[r] - 1 ELSE nbReaders[r]]
        /\ nbWriters' = [r \in Fid |-> nbWriters[r]]
    BY <2>1 DEF Kill, Without, Uncounted
  <2> QED BY <2>2 DEF WInv, WaitTypes
<1>5. /\ \A r \in Pid : r \in Elems(rs) <=> r \in Proc /\ blockedQueue[r] = <<q, "readers">>
      /\ \A r \in Pid : r \in Elems(ws) <=> r \in Proc /\ blockedQueue[r] = <<q, "writers">>
      /\ \A r \in Proc : state[r] = "WAITMSG" <=> blockedQueue[r] # <<>>
  BY DEF WInv, ListsMatch
<1> HIDE DEF rs, ws, m, n
<1>6. p \in Elems(rs)
  BY <1>1, <1>5
<1>7. /\ w \in Seq(Pid) /\ NoDup(w) /\ Elems(w) = Elems(rs) \ {p}
  BY <1>2, <1>6, QueueDelElems
<1>8. Len(w) = Len(rs) - 1
  BY <1>1, <1>2, <1>6, QueueLengths
<1>9. rs # <<>>
  BY <1>2, <1>6, ElemsEmpty
<1> HIDE DEF w
<1>10. /\ \A r \in Proc : blockedQueue'[r] = IF r = p THEN <<>> ELSE blockedQueue[r]
       /\ blockedQueue' \in [Proc -> WaitPairs \cup {<<>>}]
       /\ \A r \in Proc : state'[r] = IF r = p THEN "ENDED" ELSE state[r]
  BY <1>1, PidFacts DEF WInv, WaitTypes
<1>11. \A r \in Proc : state'[r] = "WAITMSG" <=> blockedQueue'[r] # <<>>
  BY <1>5, <1>10
<1>12. /\ \A r \in Pid : r \in Elems(w) <=> r \in Proc /\ blockedQueue'[r] = <<q, "readers">>
       /\ \A r \in Pid : r \in Elems(ws) <=> r \in Proc /\ blockedQueue'[r] = <<q, "writers">>
  BY <1>5, <1>7, <1>10, Pairs
<1>13. \A t \in Proc, r \in Fid : r # q =>
         /\ blockedQueue'[t] = <<r, "readers">> <=> blockedQueue[t] = <<r, "readers">>
         /\ blockedQueue'[t] = <<r, "writers">> <=> blockedQueue[t] = <<r, "writers">>
  BY <1>10, Pairs
<1>14. /\ ws \in Seq(Pid) /\ w \in Seq(Pid) /\ NoDup(ws) /\ NoDup(w)
       /\ m \in Int /\ n \in Nat
       /\ alive' \in [Fid -> BOOLEAN] /\ alive'[q]
       /\ \A r \in Fid : r # q => alive'[r] = alive[r]
       /\ w # <<>> => m = 0 /\ ws = <<>>
       /\ ws # <<>> => m = n
       /\ nbReaders' = [nbReaders EXCEPT ![q] = Len(w)]
       /\ nbWriters' = [nbWriters EXCEPT ![q] = Len(ws)]
  BY <1>2, <1>4, <1>7, <1>8, <1>9
<1>15. SchedInv'
  BY <1>1
<1> QED BY <1>3, <1>4, <1>10, <1>11, <1>12, <1>13, <1>14, <1>15, QueueStep

\* kill of a process that waits in the list of writers.
LEMMA KillWritersWInv ==
  ASSUME WInv, NEW p \in Proc, Kill(p), NEW q \in Fid, blockedQueue[p] = <<q, "writers">>
  PROVE  WInv'
<1> DEFINE rs == readers[q]
           ws == writers[q]
           w  == QueueDel(ws, p)
           m  == nbMessages[q]
           n  == size[q]
<1>1. /\ SchedInv' /\ p \in Pid /\ DOMAIN state = Pid
      /\ state' = [state EXCEPT ![p] = "ENDED"]
      /\ blockedQueue' = [blockedQueue EXCEPT ![p] = <<>>]
      /\ UNCHANGED <<size, nbMessages, alive>>
  BY EndedSched, PidFacts DEF WInv, SchedInv, Kill, Ended, buffer, table
<1>2. /\ rs \in Seq(Pid) /\ ws \in Seq(Pid) /\ NoDup(rs) /\ NoDup(ws)
      /\ m \in Int /\ n \in Nat /\ prio \in [Pid -> Int]
      /\ nbReaders[q] = Len(rs) /\ nbWriters[q] = Len(ws)
      /\ rs # <<>> => m = 0 /\ ws = <<>>
      /\ ws # <<>> => m = n
      /\ alive' \in [Fid -> BOOLEAN] /\ \A r \in Fid : alive'[r] = alive[r]
      /\ ~ alive[q] => rs = <<>> /\ ws = <<>>
  BY <1>1 DEF WInv, SchedInv, WaitTypes, ListsMatch, WaitersCounted, NoWaitInVain
<1>3. /\ nbMessages' = [nbMessages EXCEPT ![q] = m] /\ size' = [size EXCEPT ![q] = n]
  BY <1>1, <1>2 DEF WInv, WaitTypes
<1>4. /\ writers' = [writers EXCEPT ![q] = w]
      /\ nbWriters' = [nbWriters EXCEPT ![q] = nbWriters[q] - 1]
      /\ readers' = [readers EXCEPT ![q] = rs]
      /\ nbReaders' = [nbReaders EXCEPT ![q] = nbReaders[q]]
  <2>1. \A r \in Fid : /\ blockedQueue[p] = <<r, "writers">> <=> r = q
                       /\ blockedQueue[p] # <<r, "readers">>
    BY Pairs
  <2>2. /\ writers' = [r \in Fid |-> IF r = q THEN QueueDel(writers[r], p) ELSE writers[r]]
        /\ readers' = [r \in Fid |-> readers[r]]
        /\ nbWriters' = [r \in Fid |-> IF r = q THEN nbWriters[r] - 1 ELSE nbWriters[r]]
        /\ nbReaders' = [r \in Fid |-> nbReaders[r]]
    BY <2>1 DEF Kill, Without, Uncounted
  <2> QED BY <2>2 DEF WInv, WaitTypes
<1>5. /\ \A r \in Pid : r \in Elems(rs) <=> r \in Proc /\ blockedQueue[r] = <<q, "readers">>
      /\ \A r \in Pid : r \in Elems(ws) <=> r \in Proc /\ blockedQueue[r] = <<q, "writers">>
      /\ \A r \in Proc : state[r] = "WAITMSG" <=> blockedQueue[r] # <<>>
  BY DEF WInv, ListsMatch
<1> HIDE DEF rs, ws, m, n
<1>6. p \in Elems(ws)
  BY <1>1, <1>5
<1>7. /\ w \in Seq(Pid) /\ NoDup(w) /\ Elems(w) = Elems(ws) \ {p}
  BY <1>2, <1>6, QueueDelElems
<1>8. Len(w) = Len(ws) - 1
  BY <1>1, <1>2, <1>6, QueueLengths
<1>9. ws # <<>>
  BY <1>2, <1>6, ElemsEmpty
<1> HIDE DEF w
<1>10. /\ \A r \in Proc : blockedQueue'[r] = IF r = p THEN <<>> ELSE blockedQueue[r]
       /\ blockedQueue' \in [Proc -> WaitPairs \cup {<<>>}]
       /\ \A r \in Proc : state'[r] = IF r = p THEN "ENDED" ELSE state[r]
  BY <1>1, PidFacts DEF WInv, WaitTypes
<1>11. \A r \in Proc : state'[r] = "WAITMSG" <=> blockedQueue'[r] # <<>>
  BY <1>5, <1>10
<1>12. /\ \A r \in Pid : r \in Elems(rs) <=> r \in Proc /\ blockedQueue'[r] = <<q, "readers">>
       /\ \A r \in Pid : r \in Elems(w) <=> r \in Proc /\ blockedQueue'[r] = <<q, "writers">>
  BY <1>5, <1>7, <1>10, Pairs
<1>13. \A t \in Proc, r \in Fid : r # q =>
         /\ blockedQueue'[t] = <<r, "readers">> <=> blockedQueue[t] = <<r, "readers">>
         /\ blockedQueue'[t] = <<r, "writers">> <=> blockedQueue[t] = <<r, "writers">>
  BY <1>10, Pairs
<1>14. /\ rs \in Seq(Pid) /\ w \in Seq(Pid) /\ NoDup(rs) /\ NoDup(w)
       /\ m \in Int /\ n \in Nat
       /\ alive' \in [Fid -> BOOLEAN] /\ alive'[q]
       /\ \A r \in Fid : r # q => alive'[r] = alive[r]
       /\ rs # <<>> => m = 0 /\ w = <<>>
       /\ w # <<>> => m = n
       /\ nbWriters' = [nbWriters EXCEPT ![q] = Len(w)]
       /\ nbReaders' = [nbReaders EXCEPT ![q] = Len(rs)]
  BY <1>2, <1>4, <1>7, <1>8, <1>9
<1>15. SchedInv'
  BY <1>1
<1> QED BY <1>3, <1>4, <1>10, <1>11, <1>12, <1>13, <1>14, <1>15, QueueStep

\* kill, whatever the process is doing.
LEMMA KillWInv ==
  ASSUME WInv, NEW p \in Proc, Kill(p)
  PROVE  WInv'
<1>1. blockedQueue[p] \in WaitPairs \cup {<<>>}
  BY DEF WInv, WaitTypes
<1>2. CASE blockedQueue[p] = <<>>
  <2>1. \A r \in Fid : /\ blockedQueue[p] # <<r, "readers">>
                       /\ blockedQueue[p] # <<r, "writers">>
    BY <1>2, Pairs
  <2>2. /\ readers' = [r \in Fid |-> readers[r]] /\ writers' = [r \in Fid |-> writers[r]]
        /\ nbReaders' = [r \in Fid |-> nbReaders[r]] /\ nbWriters' = [r \in Fid |-> nbWriters[r]]
    BY <2>1 DEF Kill, Without, Uncounted
  <2>3. UNCHANGED <<readers, writers, nbReaders, nbWriters>>
    BY <2>2 DEF WInv, WaitTypes
  <2>4. UNCHANGED <<blockedQueue, alive, size, nbMessages>>
    BY <1>2 DEF Kill, WInv, WaitTypes, buffer, table
  <2>5. SchedInv' /\ p \in Pid /\ state' = [state EXCEPT ![p] = "ENDED"] /\ DOMAIN state = Pid
    BY EndedSched, PidFacts DEF WInv, SchedInv, Kill, Ended
  <2>6. state[p] # "WAITMSG"
    BY <1>2 DEF WInv, ListsMatch
  <2>7. \A r \in Proc : state'[r] = "WAITMSG" <=> state[r] = "WAITMSG"
    BY <2>5, <2>6, PidFacts
  <2> QED BY <2>3, <2>4, <2>5, <2>7, SchedStep DEF waits
<1>3. CASE blockedQueue[p] \in WaitPairs
  <2>1. PICK q \in Fid : blockedQueue[p] = <<q, "readers">> \/ blockedQueue[p] = <<q, "writers">>
    BY <1>3, Pairs
  <2> QED BY <2>1, KillReadersWInv, KillWritersWInv
<1> QED BY <1>1, <1>2, <1>3

\* start: the process is not waiting.
LEMMA StartWInv ==
  ASSUME WInv, NEW p \in Proc, NEW n \in Prio, Start(p, n)
  PROVE  WInv'
<1>1. /\ SchedInv' /\ DOMAIN state = Pid /\ state[p] = "ENDED"
      /\ state' = [state EXCEPT ![p] = "ACTIVABLE"]
      /\ UNCHANGED <<alive, size, nbMessages, waits>>
  BY StartedSched DEF WInv, Start, Started, SchedInv, buffer, table
<1>2. \A r \in Proc : state'[r] = "WAITMSG" <=> state[r] = "WAITMSG"
  BY <1>1, PidFacts
<1> QED BY <1>1, <1>2, SchedStep

\* chprio of a process that waits in the list of readers moves it within.
LEMMA ChprioReadersWInv ==
  ASSUME WInv, NEW p \in Proc, NEW v \in Prio, Chprio(p, v), NEW q \in Fid,
         blockedQueue[p] = <<q, "readers">>
  PROVE  WInv'
<1> DEFINE rs == readers[q]
           ws == writers[q]
           d  == QueueDel(rs, p)
           w  == QueueAdd(d, p, prio')
           m  == nbMessages[q]
           n  == size[q]
<1>1. /\ SchedInv' /\ p \in Pid /\ prio' \in [Pid -> Int]
      /\ UNCHANGED <<state, blockedQueue, nbReaders, nbWriters, size, nbMessages, alive>>
  <2>1. SchedInv'
    BY RepriorisedSched DEF WInv, Chprio
  <2> QED BY <2>1, PidFacts DEF SchedInv, Chprio, Repriorised, buffer, table
<1>2. /\ rs \in Seq(Pid) /\ ws \in Seq(Pid) /\ NoDup(rs) /\ NoDup(ws)
      /\ m \in Int /\ n \in Nat /\ prio \in [Pid -> Int]
      /\ nbReaders[q] = Len(rs) /\ nbWriters[q] = Len(ws)
      /\ rs # <<>> => m = 0 /\ ws = <<>>
      /\ ws # <<>> => m = n
      /\ alive' \in [Fid -> BOOLEAN] /\ \A r \in Fid : alive'[r] = alive[r]
      /\ ~ alive[q] => rs = <<>> /\ ws = <<>>
  BY <1>1 DEF WInv, SchedInv, WaitTypes, ListsMatch, WaitersCounted, NoWaitInVain
<1>3. /\ nbMessages' = [nbMessages EXCEPT ![q] = m] /\ size' = [size EXCEPT ![q] = n]
      /\ blockedQueue' \in [Proc -> WaitPairs \cup {<<>>}]
  BY <1>1, <1>2 DEF WInv, WaitTypes
<1>4. /\ \A r \in Pid : r \in Elems(rs) <=> r \in Proc /\ blockedQueue[r] = <<q, "readers">>
      /\ \A r \in Pid : r \in Elems(ws) <=> r \in Proc /\ blockedQueue[r] = <<q, "writers">>
      /\ \A r \in Proc : state[r] = "WAITMSG" <=> blockedQueue[r] # <<>>
  BY DEF WInv, ListsMatch
<1>5. p \in Elems(rs)
  BY <1>1, <1>4
<1>6. /\ readers' = [readers EXCEPT ![q] = w]
      /\ writers' = [writers EXCEPT ![q] = ws]
      /\ nbReaders' = [nbReaders EXCEPT ![q] = nbReaders[q]]
      /\ nbWriters' = [nbWriters EXCEPT ![q] = nbWriters[q]]
  <2>1. \A r \in Fid : /\ blockedQueue[p] = <<r, "readers">> <=> r = q
                       /\ blockedQueue[p] # <<r, "writers">>
    BY Pairs
  <2>2. /\ readers' = [r \in Fid |-> IF r = q THEN w ELSE readers[r]]
        /\ writers' = [r \in Fid |-> writers[r]]
    BY <1>5, <2>1 DEF Chprio, Replaced, Requeued
  <2> HIDE DEF w
  <2>3. /\ nbReaders' = [nbReaders EXCEPT ![q] = nbReaders[q]]
        /\ nbWriters' = [nbWriters EXCEPT ![q] = nbWriters[q]]
    BY <1>1 DEF WInv, WaitTypes
  <2> QED BY <2>2, <2>3 DEF WInv, WaitTypes
<1> HIDE DEF rs, ws, m, n
<1>7. /\ d \in Seq(Pid) /\ NoDup(d) /\ Elems(d) = Elems(rs) \ {p}
      /\ Len(d) = Len(rs) - 1
  <2>1. /\ d \in Seq(Pid) /\ NoDup(d) /\ Elems(d) = Elems(rs) \ {p}
    BY <1>2, <1>5, QueueDelElems
  <2>2. Len(d) = Len(rs) - 1
    BY <1>1, <1>2, <1>5, QueueLengths
  <2> QED BY <2>1, <2>2
<1> HIDE DEF d
<1>8. w \in Seq(Pid) /\ NoDup(w) /\ Elems(w) = Elems(d) \cup {p} /\ Len(w) = Len(d) + 1
  <2>1. \A key \in [Pid -> Int] :
           /\ QueueAdd(d, p, key) \in Seq(Pid) /\ NoDup(QueueAdd(d, p, key))
           /\ Elems(QueueAdd(d, p, key)) = Elems(d) \cup {p}
    BY <1>1, <1>7, QueueAddElems
  <2>2. \A key \in [Pid -> Int] : Len(QueueAdd(d, p, key)) = Len(d) + 1
    BY <1>1, <1>7, QueueLengths
  <2> QED BY <1>1, <2>1, <2>2
<1> HIDE DEF w
<1>9. Elems(w) = Elems(rs)
  BY <1>5, <1>7, <1>8
<1>10. Len(w) = Len(rs) /\ rs # <<>>
  <2>1. Len(rs) \in Nat /\ Len(d) \in Nat
    BY <1>2, <1>7, LenProperties
  <2>2. rs # <<>>
    BY <1>2, <1>5, ElemsEmpty
  <2> QED BY <1>7, <1>8, <2>1, <2>2
<1>11. /\ \A r \in Pid : r \in Elems(w) <=> r \in Proc /\ blockedQueue'[r] = <<q, "readers">>
       /\ \A r \in Pid : r \in Elems(ws) <=> r \in Proc /\ blockedQueue'[r] = <<q, "writers">>
       /\ \A r \in Proc : state'[r] = "WAITMSG" <=> blockedQueue'[r] # <<>>
  BY <1>1, <1>4, <1>9
<1>12. \A t \in Proc, r \in Fid : r # q =>
         /\ blockedQueue'[t] = <<r, "readers">> <=> blockedQueue[t] = <<r, "readers">>
         /\ blockedQueue'[t] = <<r, "writers">> <=> blockedQueue[t] = <<r, "writers">>
  BY <1>1
<1>13. /\ ws \in Seq(Pid) /\ w \in Seq(Pid) /\ NoDup(ws) /\ NoDup(w)
       /\ m \in Int /\ n \in Nat
       /\ alive' \in [Fid -> BOOLEAN] /\ alive'[q]
       /\ \A r \in Fid : r # q => alive'[r] = alive[r]
       /\ w # <<>> => m = 0 /\ ws = <<>>
       /\ ws # <<>> => m = n
       /\ nbReaders' = [nbReaders EXCEPT ![q] = Len(w)]
       /\ nbWriters' = [nbWriters EXCEPT ![q] = Len(ws)]
  BY <1>2, <1>6, <1>8, <1>10
<1>14. SchedInv'
  BY <1>1
<1> QED BY <1>3, <1>6, <1>11, <1>12, <1>13, <1>14, QueueStep

\* chprio of a process that waits in the list of writers moves it within.
LEMMA ChprioWritersWInv ==
  ASSUME WInv, NEW p \in Proc, NEW v \in Prio, Chprio(p, v), NEW q \in Fid,
         blockedQueue[p] = <<q, "writers">>
  PROVE  WInv'
<1> DEFINE rs == readers[q]
           ws == writers[q]
           d  == QueueDel(ws, p)
           w  == QueueAdd(d, p, prio')
           m  == nbMessages[q]
           n  == size[q]
<1>1. /\ SchedInv' /\ p \in Pid /\ prio' \in [Pid -> Int]
      /\ UNCHANGED <<state, blockedQueue, nbReaders, nbWriters, size, nbMessages, alive>>
  <2>1. SchedInv'
    BY RepriorisedSched DEF WInv, Chprio
  <2> QED BY <2>1, PidFacts DEF SchedInv, Chprio, Repriorised, buffer, table
<1>2. /\ rs \in Seq(Pid) /\ ws \in Seq(Pid) /\ NoDup(rs) /\ NoDup(ws)
      /\ m \in Int /\ n \in Nat /\ prio \in [Pid -> Int]
      /\ nbReaders[q] = Len(rs) /\ nbWriters[q] = Len(ws)
      /\ rs # <<>> => m = 0 /\ ws = <<>>
      /\ ws # <<>> => m = n
      /\ alive' \in [Fid -> BOOLEAN] /\ \A r \in Fid : alive'[r] = alive[r]
      /\ ~ alive[q] => rs = <<>> /\ ws = <<>>
  BY <1>1 DEF WInv, SchedInv, WaitTypes, ListsMatch, WaitersCounted, NoWaitInVain
<1>3. /\ nbMessages' = [nbMessages EXCEPT ![q] = m] /\ size' = [size EXCEPT ![q] = n]
      /\ blockedQueue' \in [Proc -> WaitPairs \cup {<<>>}]
  BY <1>1, <1>2 DEF WInv, WaitTypes
<1>4. /\ \A r \in Pid : r \in Elems(rs) <=> r \in Proc /\ blockedQueue[r] = <<q, "readers">>
      /\ \A r \in Pid : r \in Elems(ws) <=> r \in Proc /\ blockedQueue[r] = <<q, "writers">>
      /\ \A r \in Proc : state[r] = "WAITMSG" <=> blockedQueue[r] # <<>>
  BY DEF WInv, ListsMatch
<1>5. p \in Elems(ws)
  BY <1>1, <1>4
<1>6. /\ writers' = [writers EXCEPT ![q] = w]
      /\ readers' = [readers EXCEPT ![q] = rs]
      /\ nbReaders' = [nbReaders EXCEPT ![q] = nbReaders[q]]
      /\ nbWriters' = [nbWriters EXCEPT ![q] = nbWriters[q]]
  <2>1. \A r \in Fid : /\ blockedQueue[p] = <<r, "writers">> <=> r = q
                       /\ blockedQueue[p] # <<r, "readers">>
    BY Pairs
  <2>2. /\ writers' = [r \in Fid |-> IF r = q THEN w ELSE writers[r]]
        /\ readers' = [r \in Fid |-> readers[r]]
    BY <1>5, <2>1 DEF Chprio, Replaced, Requeued
  <2> HIDE DEF w
  <2>3. /\ nbReaders' = [nbReaders EXCEPT ![q] = nbReaders[q]]
        /\ nbWriters' = [nbWriters EXCEPT ![q] = nbWriters[q]]
    BY <1>1 DEF WInv, WaitTypes
  <2> QED BY <2>2, <2>3 DEF WInv, WaitTypes
<1> HIDE DEF rs, ws, m, n
<1>7. /\ d \in Seq(Pid) /\ NoDup(d) /\ Elems(d) = Elems(ws) \ {p}
      /\ Len(d) = Len(ws) - 1
  <2>1. /\ d \in Seq(Pid) /\ NoDup(d) /\ Elems(d) = Elems(ws) \ {p}
    BY <1>2, <1>5, QueueDelElems
  <2>2. Len(d) = Len(ws) - 1
    BY <1>1, <1>2, <1>5, QueueLengths
  <2> QED BY <2>1, <2>2
<1> HIDE DEF d
<1>8. w \in Seq(Pid) /\ NoDup(w) /\ Elems(w) = Elems(d) \cup {p} /\ Len(w) = Len(d) + 1
  <2>1. \A key \in [Pid -> Int] :
           /\ QueueAdd(d, p, key) \in Seq(Pid) /\ NoDup(QueueAdd(d, p, key))
           /\ Elems(QueueAdd(d, p, key)) = Elems(d) \cup {p}
    BY <1>1, <1>7, QueueAddElems
  <2>2. \A key \in [Pid -> Int] : Len(QueueAdd(d, p, key)) = Len(d) + 1
    BY <1>1, <1>7, QueueLengths
  <2> QED BY <1>1, <2>1, <2>2
<1> HIDE DEF w
<1>9. Elems(w) = Elems(ws)
  BY <1>5, <1>7, <1>8
<1>10. Len(w) = Len(ws) /\ ws # <<>>
  <2>1. Len(ws) \in Nat /\ Len(d) \in Nat
    BY <1>2, <1>7, LenProperties
  <2>2. ws # <<>>
    BY <1>2, <1>5, ElemsEmpty
  <2> QED BY <1>7, <1>8, <2>1, <2>2
<1>11. /\ \A r \in Pid : r \in Elems(rs) <=> r \in Proc /\ blockedQueue'[r] = <<q, "readers">>
       /\ \A r \in Pid : r \in Elems(w) <=> r \in Proc /\ blockedQueue'[r] = <<q, "writers">>
       /\ \A r \in Proc : state'[r] = "WAITMSG" <=> blockedQueue'[r] # <<>>
  BY <1>1, <1>4, <1>9
<1>12. \A t \in Proc, r \in Fid : r # q =>
         /\ blockedQueue'[t] = <<r, "readers">> <=> blockedQueue[t] = <<r, "readers">>
         /\ blockedQueue'[t] = <<r, "writers">> <=> blockedQueue[t] = <<r, "writers">>
  BY <1>1
<1>13. /\ rs \in Seq(Pid) /\ w \in Seq(Pid) /\ NoDup(rs) /\ NoDup(w)
       /\ m \in Int /\ n \in Nat
       /\ alive' \in [Fid -> BOOLEAN] /\ alive'[q]
       /\ \A r \in Fid : r # q => alive'[r] = alive[r]
       /\ rs # <<>> => m = 0 /\ w = <<>>
       /\ w # <<>> => m = n
       /\ nbReaders' = [nbReaders EXCEPT ![q] = Len(rs)]
       /\ nbWriters' = [nbWriters EXCEPT ![q] = Len(w)]
  BY <1>2, <1>6, <1>8, <1>10
<1>14. SchedInv'
  BY <1>1
<1> QED BY <1>3, <1>6, <1>11, <1>12, <1>13, <1>14, QueueStep

\* chprio, whatever the process is doing.
LEMMA ChprioWInv ==
  ASSUME WInv, NEW p \in Proc, NEW v \in Prio, Chprio(p, v)
  PROVE  WInv'
<1>1. blockedQueue[p] \in WaitPairs \cup {<<>>}
  BY DEF WInv, WaitTypes
<1>2. CASE blockedQueue[p] = <<>>
  <2>1. \A r \in Fid : /\ blockedQueue[p] # <<r, "readers">>
                       /\ blockedQueue[p] # <<r, "writers">>
    BY <1>2, Pairs
  <2>2. readers' = [r \in Fid |-> readers[r]] /\ writers' = [r \in Fid |-> writers[r]]
    BY <2>1 DEF Chprio, Replaced
  <2>3. UNCHANGED <<readers, writers>>
    BY <2>2 DEF WInv, WaitTypes
  <2>4. UNCHANGED <<state, blockedQueue, nbReaders, nbWriters, alive, size, nbMessages>>
    BY DEF Chprio, Repriorised, buffer, table
  <2>5. SchedInv'
    BY RepriorisedSched DEF WInv, Chprio
  <2> QED BY <2>3, <2>4, <2>5, SchedStep DEF waits
<1>3. CASE blockedQueue[p] \in WaitPairs
  <2>1. PICK q \in Fid : blockedQueue[p] = <<q, "readers">> \/ blockedQueue[p] = <<q, "writers">>
    BY <1>3, Pairs
  <2> QED BY <2>1, ChprioReadersWInv, ChprioWritersWInv
<1> QED BY <1>1, <1>2, <1>3

-----------------------------------------------------------------------------
(* The theorems about waiting. *)

\* At first no queue has been created.
LEMMA InitWInv == Init => WInv
<1> SUFFICES ASSUME Init PROVE WInv
  OBVIOUS
<1>1. SchedInv
  BY InitSched DEF Init
<1>2. /\ \A q \in Fid : readers[q] = <<>> /\ writers[q] = <<>>
      /\ \A p \in Proc : blockedQueue[p] = <<>>
  BY DEF Init
<1>3. <<>> \in Seq(Pid) /\ NoDup(<<>>) /\ Elems(<<>>) = {} /\ Len(<<>>) = 0
  BY DEF NoDup, Elems
<1>4. WaitTypes
  BY <1>3 DEF Init, WaitTypes
<1>5. ListsMatch
  <2>1. \A p \in Proc : state[p] # "WAITMSG"
    BY PidFacts DEF Init, SchedInit
  <2>2. \A p \in Proc, q \in Fid : blockedQueue[p] # <<q, "readers">>
                                   /\ blockedQueue[p] # <<q, "writers">>
    BY <1>2, Pairs
  <2> QED BY <1>2, <1>3, <2>1, <2>2 DEF ListsMatch
<1>6. WaitersCounted /\ NoWaitInVain
  BY <1>2, <1>3 DEF Init, WaitersCounted, NoWaitInVain
<1> QED BY <1>1, <1>4, <1>5, <1>6 DEF WInv

-----------------------------------------------------------------------------
(* The table of queues. *)

\* At first no queue is in use.
LEMMA InitTInv == Init => TInv
<1> SUFFICES ASSUME Init PROVE TInv
  OBVIOUS
<1>1. /\ alive = [q \in Fid |-> FALSE] /\ list = <<>> /\ created = 0 /\ remaining = NbQueues
      /\ NbQueues \in Nat \ {0}
  BY MessageAssumption DEF Init
<1>2. {q \in Fid : ~ alive[q]} = 0..(NbQueues - 1) /\ Cardinality(0..(NbQueues - 1)) = NbQueues
  <2>1. NbQueues - 1 \in Int /\ 0 \in Int /\ ~ (0 > NbQueues - 1)
        /\ (NbQueues - 1) - 0 + 1 = NbQueues
    BY <1>1
  <2>2. Cardinality(0..(NbQueues - 1)) = NbQueues
    BY <2>1, FS_Interval
  <2> QED BY <1>1, <2>2 DEF Fid
<1>3. {q \in 0..(created - 1) : ~ alive[q]} = {} /\ Elems(list) = {} /\ NoDup(list)
  BY <1>1 DEF Elems, NoDup
<1>4. /\ alive \in [Fid -> BOOLEAN] /\ list \in Seq(Fid) /\ created \in 0..NbQueues
      /\ \A q \in Fid : ~ alive[q]
  BY <1>1
<1>5. QueuesAccounted
  BY <1>1, <1>2, <1>3 DEF QueuesAccounted
<1> QED BY <1>4, <1>5 DEF TInv

\* The queues are finitely many.
LEMMA DeadFinite ==
  /\ \A D \in SUBSET Fid : IsFiniteSet(D)
  /\ \A D \in SUBSET Fid, q \in Fid :
       /\ q \in D => Cardinality(D \ {q}) = Cardinality(D) - 1
       /\ q \notin D => Cardinality(D \cup {q}) = Cardinality(D) + 1
<1>1. IsFiniteSet(Fid)
  <2>1. NbQueues - 1 \in Int /\ 0 \in Int
    BY MessageAssumption
  <2> QED BY <2>1, FS_Interval DEF Fid
<1>2. \A D \in SUBSET Fid : IsFiniteSet(D)
  BY <1>1, FS_Subset
<1> QED BY <1>2, FS_AddElement, FS_RemoveElement

\* pcreate takes the first queue of the list, or a new one.
LEMMA PcreateTInv ==
  ASSUME TInv, NEW n \in Sizes, Pcreate(n)
  PROVE  TInv'
<1> DEFINE q == NewFid
           D == {r \in Fid : ~ alive[r]}
<1>1. /\ alive' = [alive EXCEPT ![q] = TRUE] /\ remaining' = remaining - 1
      /\ created' = (IF list # <<>> THEN created ELSE created + 1)
      /\ list' = (IF list # <<>> THEN Tail(list) ELSE list)
      /\ list # <<>> \/ created < NbQueues
  BY DEF Pcreate, Opened
<1>2. /\ alive \in [Fid -> BOOLEAN] /\ list \in Seq(Fid) /\ created \in 0..NbQueues
      /\ \A r \in Fid : r >= created => ~ alive[r]
      /\ remaining = Cardinality(D) /\ NoDup(list)
      /\ Elems(list) = {r \in 0..(created - 1) : ~ alive[r]}
      /\ NbQueues \in Nat /\ Fid = 0..(NbQueues - 1)
  BY MessageAssumption DEF TInv, QueuesAccounted, Fid
<1>3. /\ q \in Fid /\ ~ alive[q]
      /\ list # <<>> => q = Head(list) /\ q \in 0..(created - 1)
      /\ list = <<>> => q = created
  <2>1. CASE list # <<>>
    <3>1. q = Head(list) /\ q \in Elems(list)
      BY <1>2, <2>1, HeadTail DEF NewFid
    <3> QED BY <1>2, <2>1, <3>1
  <2>2. CASE list = <<>>
    BY <1>1, <1>2, <2>2 DEF NewFid
  <2> QED BY <2>1, <2>2
<1> HIDE DEF q
<1>4. /\ alive' \in [Fid -> BOOLEAN]
      /\ \A r \in Fid : alive'[r] = IF r = q THEN TRUE ELSE alive[r]
  BY <1>1, <1>2, <1>3
<1>5. /\ {r \in Fid : ~ alive'[r]} = D \ {q} /\ q \in D /\ D \in SUBSET Fid
  BY <1>3, <1>4
<1>6. remaining' = Cardinality({r \in Fid : ~ alive'[r]})
  <2> HIDE DEF D
  <2>1. Cardinality(D \ {q}) = Cardinality(D) - 1
    BY <1>3, <1>5, DeadFinite
  <2> QED BY <1>1, <1>2, <1>5, <2>1
<1>7. /\ list' \in Seq(Fid) /\ NoDup(list') /\ created' \in 0..NbQueues
      /\ Elems(list') = {r \in 0..(created' - 1) : ~ alive'[r]}
      /\ \A r \in Fid : r >= created' => ~ alive'[r]
  <2>1. CASE list # <<>>
    <3>1. list' = Tail(list) /\ created' = created /\ q = Head(list) /\ q \in 0..(created - 1)
      BY <1>1, <1>3, <2>1
    <3>2. list' \in Seq(Fid) /\ NoDup(list') /\ Elems(list') = Elems(list) \ {q}
      BY <1>2, <2>1, <3>1, HeadTail
    <3>3. \A r \in 0..(created - 1) : r \in Fid
      BY <1>2
    <3>4. /\ list' \in Seq(Fid) /\ NoDup(list') /\ created' \in 0..NbQueues
          /\ \A r \in Fid : r >= created' => ~ alive'[r]
      <4>1. list' \in Seq(Fid) /\ NoDup(list') /\ created' \in 0..NbQueues
        BY <1>2, <3>1, <3>2
      <4>2. q \in Int /\ created \in Int /\ ~ (q >= created)
        BY <1>2, <3>1
      <4>3. \A r \in Fid : r >= created => ~ alive'[r]
        BY <1>2, <1>4, <4>2
      <4> QED BY <3>1, <4>1, <4>3
    <3>5. Elems(list') = {r \in 0..(created' - 1) : ~ alive'[r]}
      BY <1>2, <1>4, <3>1, <3>2, <3>3
    <3> QED BY <3>4, <3>5
  <2>2. CASE list = <<>>
    <3>1. list' = list /\ created' = created + 1 /\ q = created /\ created < NbQueues
      BY <1>1, <1>3, <2>2
    <3>2. \A r \in 0..created : r \in 0..(created - 1) \/ r = q
      BY <1>2, <3>1
    <3>3. /\ \A r \in 0..(created - 1) : r \in Fid /\ r # q /\ r \in 0..created
          /\ created' \in 0..NbQueues /\ created' - 1 = created
      BY <1>2, <3>1
    <3>4. Elems(list) = {r \in 0..created : ~ alive'[r]}
      BY <1>2, <1>3, <1>4, <3>2, <3>3
    <3>5. ASSUME NEW r \in Fid, r >= created'
          PROVE  ~ alive'[r]
      <4>1. r \in Int /\ created \in Int /\ r >= created + 1
        BY <1>2, <3>1, <3>5
      <4>2. r >= created /\ r # q
        BY <3>1, <4>1
      <4> QED BY <1>2, <1>4, <4>2
    <3>6. Elems(list') = {r \in 0..(created' - 1) : ~ alive'[r]}
      BY <3>1, <3>3, <3>4
    <3>7. list' \in Seq(Fid) /\ NoDup(list')
      BY <1>2, <3>1
    <3> QED BY <3>3, <3>5, <3>6, <3>7
  <2> QED BY <2>1, <2>2
<1> QED BY <1>4, <1>6, <1>7 DEF TInv, QueuesAccounted

\* pcreate without memory turns the list by one place.
LEMMA PutBackTInv ==
  ASSUME TInv, PcreateNoMemory
  PROVE  TInv'
<1>1. list # <<>> /\ list' = Append(Tail(list), Head(list))
      /\ UNCHANGED <<alive, created, remaining>>
  BY DEF PcreateNoMemory, PutBack
<1>2. list \in Seq(Fid) /\ NoDup(list)
  BY DEF TInv, QueuesAccounted
<1>3. /\ Head(list) \in Elems(list) /\ Head(list) \in Fid
      /\ Tail(list) \in Seq(Fid) /\ NoDup(Tail(list))
      /\ Elems(Tail(list)) = Elems(list) \ {Head(list)}
  BY <1>1, <1>2, HeadTail
<1>4. /\ list' \in Seq(Fid) /\ NoDup(list')
      /\ Elems(list') = (Elems(list) \ {Head(list)}) \cup {Head(list)}
  <2>1. Head(list) \notin Elems(Tail(list))
    BY <1>3
  <2> QED BY <1>1, <1>3, <2>1, HeadTail
<1>5. Elems(list') = Elems(list)
  BY <1>3, <1>4
<1> QED BY <1>1, <1>4, <1>5 DEF TInv, QueuesAccounted

\* pdelete lists the queue.
LEMMA PdeleteTInv ==
  ASSUME TInv, NEW q \in Fid, Pdelete(q)
  PROVE  TInv'
<1> DEFINE D == {r \in Fid : ~ alive[r]}
<1>1. /\ alive' = [alive EXCEPT ![q] = FALSE] /\ remaining' = remaining + 1
      /\ list' = Append(list, q) /\ UNCHANGED created /\ alive[q]
  BY DEF Pdelete
<1>2. /\ alive \in [Fid -> BOOLEAN] /\ list \in Seq(Fid) /\ created \in 0..NbQueues
      /\ \A r \in Fid : r >= created => ~ alive[r]
      /\ remaining = Cardinality(D) /\ NoDup(list)
      /\ Elems(list) = {r \in 0..(created - 1) : ~ alive[r]}
      /\ NbQueues \in Nat /\ Fid = 0..(NbQueues - 1)
  BY MessageAssumption DEF TInv, QueuesAccounted, Fid
<1>3. q \in 0..(created - 1) /\ q \notin Elems(list)
  BY <1>1, <1>2
<1>4. /\ alive' \in [Fid -> BOOLEAN]
      /\ \A r \in Fid : alive'[r] = IF r = q THEN FALSE ELSE alive[r]
  BY <1>1, <1>2
<1>5. {r \in Fid : ~ alive'[r]} = D \cup {q} /\ q \notin D /\ D \in SUBSET Fid
  BY <1>1, <1>4
<1>6. remaining' = Cardinality({r \in Fid : ~ alive'[r]})
  <2> HIDE DEF D
  <2>1. Cardinality(D \cup {q}) = Cardinality(D) + 1
    BY <1>5, DeadFinite
  <2> QED BY <1>1, <1>2, <1>5, <2>1
<1>7. list' \in Seq(Fid) /\ NoDup(list') /\ Elems(list') = Elems(list) \cup {q}
  BY <1>1, <1>2, <1>3, HeadTail
<1>8. Elems(list') = {r \in 0..(created' - 1) : ~ alive'[r]}
  <2>1. \A r \in 0..(created - 1) : r \in Fid
    BY <1>2
  <2> QED BY <1>1, <1>2, <1>3, <1>4, <1>7, <2>1
<1>9. created' \in 0..NbQueues /\ \A r \in Fid : r >= created' => ~ alive'[r]
  BY <1>1, <1>2, <1>4
<1> QED BY <1>4, <1>6, <1>7, <1>8, <1>9 DEF TInv, QueuesAccounted

\* No other operation touches the table.
LEMMA NextTInv ==
  ASSUME TInv, [Next]_vars
  PROVE  TInv'
<1>1. CASE UNCHANGED table
  BY <1>1 DEF TInv, QueuesAccounted, table
<1>2. CASE \E n \in Sizes : Pcreate(n)
  BY <1>2, PcreateTInv
<1>3. CASE PcreateNoMemory
  BY <1>3, PutBackTInv
<1>4. CASE \E q \in Fid : Pdelete(q)
  BY <1>4, PdeleteTInv
<1>5. \/ UNCHANGED table
      \/ \E n \in Sizes : Pcreate(n)
      \/ PcreateNoMemory
      \/ \E q \in Fid : Pdelete(q)
  BY DEF Next, Preset, PsendHand, PsendBlock, PsendWrite, PreceiveBlock, Preceive,
         PreceiveLetIn, Resume, Kill, Start, Chprio, Tick, Ordonnance, vars
<1> QED BY <1>1, <1>2, <1>3, <1>4, <1>5

\* Every operation keeps the lists of waiters right.
LEMMA NextWInv ==
  ASSUME WInv, TInv, [Next]_vars
  PROVE  WInv'
<1>1. CASE \E n \in Sizes : Pcreate(n)
  BY <1>1, PcreateWInv
<1>2. CASE \E q \in Fid : Preset(q) \/ Pdelete(q)
  BY <1>2, PresetPdeleteWInv
<1>3. CASE \E q \in Fid, m \in Msg : PsendHand(q, m)
  BY <1>3, PsendHandWInv
<1>4. CASE \E q \in Fid, m \in Msg : PsendBlock(q, m)
  BY <1>4, PsendBlockWInv
<1>5. CASE \E q \in Fid : \/ \E m \in Msg : PsendWrite(q, m)
                          \/ \E ptr \in Receivers : Preceive(q, ptr)
  BY <1>5, BufferWInv
<1>6. CASE \E q \in Fid, ptr \in Receivers : PreceiveBlock(q, ptr)
  BY <1>6, PreceiveBlockWInv
<1>7. CASE \E q \in Fid, ptr \in Receivers : PreceiveLetIn(q, ptr)
  BY <1>7, PreceiveLetInWInv
<1>8. CASE \E p \in Proc : Kill(p)
  BY <1>8, KillWInv
<1>9. CASE \E p \in Proc, n \in Prio : Start(p, n)
  BY <1>9, StartWInv
<1>10. CASE \E p \in Proc, n \in Prio : Chprio(p, n)
  BY <1>10, ChprioWInv
<1>11. CASE Resume \/ Tick \/ Ordonnance \/ PcreateNoMemory \/ UNCHANGED vars
  BY <1>11, OthersWInv
<1>12. ResetIds \subseteq Fid
  BY MessageAssumption DEF Fid
<1> QED BY <1>1, <1>2, <1>3, <1>4, <1>5, <1>6, <1>7, <1>8, <1>9, <1>10, <1>11, <1>12 DEF Next

-----------------------------------------------------------------------------
(* Errors. *)

\* At first no process is in a call, and none has an error.
LEMMA InitEInv == Init => EInv
BY PidFacts DEF Init, SchedInit, EInv, ErrorIsCurrent

\* Waiting: the process had no error, since it was running.
LEMMA WaitEInv ==
  ASSUME WInv, EInv, User, UNCHANGED hasMsgError, NEW q \in Fid,
         NEW side \in {"readers", "writers"}, NEW c, Wait(q, side, c)
  PROVE  EInv'
<1>1. /\ cur \in Proc /\ state[cur] = "CHOSEN" /\ cur \notin stopped
      /\ stopped' = stopped \cup {cur} /\ pc' = "ordonnance"
  BY RunningWaits DEF User, EInv, Wait, Block
<1>2. \A p \in Proc : state'[p] = IF p = cur THEN "WAITMSG" ELSE state[p]
  BY WaitStates, PidFacts
<1>3. ~ hasMsgError[cur]
  BY <1>1 DEF EInv, ErrorIsCurrent
<1> QED BY <1>1, <1>2, <1>3 DEF EInv, ErrorIsCurrent

\* Serving: the process served had no error, since it was waiting.
LEMMA ServeEInv ==
  ASSUME WInv, EInv, User, UNCHANGED hasMsgError, NEW p \in Proc, blockedQueue[p] # <<>>,
         NEW c, Serve(p, c)
  PROVE  EInv'
<1>1. /\ cur \in Proc /\ state[cur] = "CHOSEN" /\ cur \notin stopped
      /\ stopped' = stopped \cup {cur} /\ pc' = "ordonnance"
  BY RunningWaits DEF User, EInv, Serve
<1>2. state[p] = "WAITMSG"
  BY DEF WInv, ListsMatch
<1>3. \A r \in Proc : state'[r] = IF r = p THEN "ACTIVABLE" ELSE state[r]
  BY PidFacts DEF Serve, WInv, SchedInv
<1> QED BY <1>1, <1>2, <1>3 DEF EInv, ErrorIsCurrent

\* preset and pdelete give an error to processes that are inside their call.
LEMMA ExpelEInv ==
  ASSUME WInv, EInv, pc = "user", NEW q \in Fid, Expel(q)
  PROVE  EInv'
<1> DEFINE X == Elems(Expelled(q))
<1>1. /\ hasMsgError' = [p \in Proc |-> p \in X \/ hasMsgError[p]]
      /\ state' = [p \in Pid |-> IF p \in X THEN "ACTIVABLE" ELSE state[p]]
      /\ pc' = "ordonnance" /\ UNCHANGED stopped
  BY DEF Expel, Wake
<1>2. \A p \in X : state[p] = "WAITMSG"
  BY ExpelledElems
<1> HIDE DEF X
<1>3. \A p \in Proc : state'[p] = IF p \in X THEN "ACTIVABLE" ELSE state[p]
  BY <1>1, PidFacts
<1>4. /\ hasMsgError' \in [Proc -> BOOLEAN]
      /\ \A p \in Proc : hasMsgError'[p] <=> p \in X \/ hasMsgError[p]
  BY <1>1 DEF EInv
<1>5. ASSUME NEW p \in Proc
      PROVE  /\ state'[p] = "WAITMSG" => p \in stopped'
             /\ hasMsgError'[p] /\ state'[p] # "ENDED" => p \in stopped' /\ state'[p] # "WAITMSG"
  BY <1>1, <1>2, <1>3, <1>4 DEF EInv, ErrorIsCurrent
<1> QED BY <1>1, <1>4, <1>5 DEF EInv, ErrorIsCurrent

\* kill and start.
LEMMA KillStartEInv ==
  ASSUME WInv, EInv, NEW p \in Proc, Kill(p) \/ \E n \in Prio : Start(p, n)
  PROVE  EInv'
<1>1. p \in Pid /\ DOMAIN state = Pid /\ Proc \subseteq Pid
  BY PidFacts DEF WInv, SchedInv
<1>2. CASE Kill(p)
  <2>1. /\ state' = [state EXCEPT ![p] = "ENDED"] /\ stopped' = stopped \ {p}
        /\ pc' = "user" => cur # p
        /\ UNCHANGED <<hasMsgError, cur>> /\ pc = "user"
    BY <1>2 DEF Kill, Ended, User
  <2>2. \A r \in Proc : state'[r] = IF r = p THEN "ENDED" ELSE state[r]
    BY <1>1, <2>1
  <2> QED BY <2>1, <2>2 DEF EInv, ErrorIsCurrent
<1>3. CASE \E n \in Prio : Start(p, n)
  <2>1. /\ state' = [state EXCEPT ![p] = "ACTIVABLE"]
        /\ hasMsgError' = [hasMsgError EXCEPT ![p] = FALSE]
        /\ UNCHANGED <<cur, stopped>> /\ pc = "user"
    BY <1>3 DEF Start, Started, User
  <2>2. \A r \in Proc : state'[r] = IF r = p THEN "ACTIVABLE" ELSE state[r]
    BY <1>1, <2>1
  <2>3. /\ hasMsgError' \in [Proc -> BOOLEAN]
        /\ \A r \in Proc : hasMsgError'[r] = IF r = p THEN FALSE ELSE hasMsgError[r]
    BY <2>1 DEF EInv
  <2> QED BY <2>1, <2>2, <2>3 DEF EInv, ErrorIsCurrent
<1> QED BY <1>2, <1>3

\* The end of psend and preceive.
LEMMA ResumeEInv ==
  ASSUME WInv, EInv, Resume
  PROVE  EInv'
<1>1. /\ pc = "resumed" /\ stopped' = stopped \ {cur} /\ UNCHANGED <<state, cur>>
      /\ hasMsgError' = [hasMsgError EXCEPT ![cur] = FALSE]
  BY DEF Resume, Returned, CheckErrors
<1>2. state[cur] = "CHOSEN"
  BY <1>1 DEF WInv, SchedInv
<1>3. /\ hasMsgError' \in [Proc -> BOOLEAN]
      /\ \A p \in Proc : hasMsgError'[p] = IF p = cur THEN FALSE ELSE hasMsgError[p]
  BY <1>1 DEF EInv
<1> QED BY <1>1, <1>2, <1>3 DEF EInv, ErrorIsCurrent

\* ordonnance elects no process that waits, and knows who is in a call.
LEMMA OrdonnanceEInv ==
  ASSUME WInv, EInv, Ordonnance
  PROVE  EInv'
<1>1. /\ pc' = (IF cur' \in stopped THEN "resumed" ELSE "user")
      /\ UNCHANGED <<stopped, hasMsgError>>
  BY DEF Ordonnance, Elected, mine
<1>2. /\ \A p \in Pid : state[p] \notin {"CHOSEN", "ACTIVABLE"} => state'[p] = state[p]
      /\ \A p \in Pid : state[p] \in {"CHOSEN", "ACTIVABLE"} =>
                          state'[p] \in {"CHOSEN", "ACTIVABLE"}
  BY ElectedSched DEF WInv, Ordonnance
<1>3. \A p \in Proc : /\ state'[p] = "WAITMSG" <=> state[p] = "WAITMSG"
                      /\ state'[p] = "ENDED" <=> state[p] = "ENDED"
  BY <1>2, PidFacts
<1> QED BY <1>1, <1>3 DEF EInv, ErrorIsCurrent

\* Every operation keeps errors with the wait they belong to.
LEMMA NextEInv ==
  ASSUME WInv, EInv, [Next]_vars
  PROVE  EInv'
<1>1. CASE \E q \in Fid : Preset(q) \/ Pdelete(q)
  BY <1>1, ExpelEInv DEF Preset, Pdelete, User
<1>2. CASE \E q \in Fid, m \in Msg : PsendHand(q, m)
  <2>1. PICK q \in Fid, m \in Msg : PsendHand(q, m)
    BY <1>2
  <2>2. /\ User /\ nbReaders[q] # 0 /\ Serve(QueueTop(readers[q]), "send")
        /\ UNCHANGED hasMsgError
    BY <2>1 DEF PsendHand, HasReader
  <2>3. QueueTop(readers[q]) \in Proc /\ blockedQueue[QueueTop(readers[q])] # <<>>
    <3>1. readers[q] \in Seq(Pid) /\ NoDup(readers[q]) /\ Len(readers[q]) # 0
      BY <2>2 DEF WInv, WaitTypes, ListsMatch, WaitersCounted
    <3>2. QueueTop(readers[q]) \in Elems(readers[q]) /\ QueueTop(readers[q]) \in Pid
      BY <3>1, QueueOutElems, EmptySeq
    <3> QED BY <3>2, Pairs DEF WInv, ListsMatch
  <2> QED BY <2>2, <2>3, ServeEInv
<1>3. CASE \E q \in Fid, m \in Msg : PsendBlock(q, m)
  <2>1. PICK q \in Fid : User /\ Wait(q, "writers", "send") /\ UNCHANGED hasMsgError
    BY <1>3 DEF PsendBlock
  <2> QED BY <2>1, WaitEInv
<1>4. CASE \E q \in Fid, ptr \in Receivers : PreceiveBlock(q, ptr)
  <2>1. PICK q \in Fid, ptr \in Receivers :
          /\ User /\ UNCHANGED hasMsgError
          /\ Wait(q, "readers", IF ptr THEN "receive" ELSE "discard")
    BY <1>4 DEF PreceiveBlock
  <2> QED BY <2>1, WaitEInv
<1>5. CASE \E q \in Fid, ptr \in Receivers : PreceiveLetIn(q, ptr)
  <2>1. PICK q \in Fid, ptr \in Receivers : PreceiveLetIn(q, ptr)
    BY <1>5
  <2>2. /\ User /\ nbWriters[q] # 0 /\ Serve(QueueTop(writers[q]), "send")
        /\ UNCHANGED hasMsgError
    BY <2>1 DEF PreceiveLetIn, LetsIn, LetIn
  <2>3. QueueTop(writers[q]) \in Proc /\ blockedQueue[QueueTop(writers[q])] # <<>>
    <3>1. writers[q] \in Seq(Pid) /\ NoDup(writers[q]) /\ Len(writers[q]) # 0
      BY <2>2 DEF WInv, WaitTypes, ListsMatch, WaitersCounted
    <3>2. QueueTop(writers[q]) \in Elems(writers[q]) /\ QueueTop(writers[q]) \in Pid
      BY <3>1, QueueOutElems, EmptySeq
    <3> QED BY <3>2, Pairs DEF WInv, ListsMatch
  <2> QED BY <2>2, <2>3, ServeEInv
<1>6. CASE \E p \in Proc : Kill(p) \/ \E n \in Prio : Start(p, n)
  BY <1>6, KillStartEInv
<1>7. CASE Resume
  BY <1>7, ResumeEInv
<1>8. CASE Ordonnance
  BY <1>8, OrdonnanceEInv
<1>9. CASE \/ \E n \in Sizes : Pcreate(n)
           \/ PcreateNoMemory
           \/ \E q \in Fid, m \in Msg : PsendWrite(q, m)
           \/ \E q \in Fid, ptr \in Receivers : Preceive(q, ptr)
           \/ UNCHANGED vars
  <2>1. UNCHANGED <<sched, hasMsgError>>
    BY <1>9 DEF Pcreate, PcreateNoMemory, PsendWrite, Preceive, vars, mine
  <2> QED BY <2>1 DEF sched, EInv, ErrorIsCurrent
<1>10. CASE Tick \/ \E p \in Proc, n \in Prio : Chprio(p, n)
  <2>1. UNCHANGED <<state, stopped, cur, hasMsgError>> /\ pc = "user"
    BY <1>10 DEF Tick, Preempted, Chprio, Repriorised, User, mine
  <2> QED BY <2>1 DEF EInv, ErrorIsCurrent
<1>11. ResetIds \subseteq Fid
  BY MessageAssumption DEF Fid
<1> QED BY <1>1, <1>2, <1>3, <1>4, <1>5, <1>6, <1>7, <1>8, <1>9, <1>10, <1>11 DEF Next

-----------------------------------------------------------------------------
(* The order of the waiting lists, and whom psend and preceive serve. *)

\* The lists of waiters are sorted by the priorities of the moment.
ListsSorted == \A q \in Fid : Sorted(readers[q], prio) /\ Sorted(writers[q], prio)

\* A sorted list that gets shorter, or longer by one, stays sorted.
LEMMA ListsKept ==
  ASSUME WInv, ListsSorted, NEW q \in Fid
  PROVE  /\ \A p \in Elems(readers[q]) : Sorted(QueueDel(readers[q], p), prio)
         /\ \A p \in Elems(writers[q]) : Sorted(QueueDel(writers[q], p), prio)
         /\ \A p \in Pid : Sorted(QueueAdd(readers[q], p, prio), prio)
         /\ \A p \in Pid : Sorted(QueueAdd(writers[q], p, prio), prio)
         /\ readers[q] # <<>> => Sorted(QueueOut(readers[q]), prio)
         /\ Sorted(<<>>, prio)
<1> DEFINE a == readers[q]
           b == writers[q]
<1>1. /\ a \in Seq(Pid) /\ b \in Seq(Pid) /\ prio \in [Pid -> Int]
      /\ Sorted(a, prio) /\ Sorted(b, prio)
  BY DEF WInv, WaitTypes, SchedInv, ListsSorted
<1> HIDE DEF a, b
<1>2. /\ \A p \in Elems(a) : Sorted(QueueDel(a, p), prio)
      /\ \A p \in Elems(b) : Sorted(QueueDel(b, p), prio)
  BY <1>1, QueueDelSorted
<1>3. /\ \A p \in Pid : Sorted(QueueAdd(a, p, prio), prio)
      /\ \A p \in Pid : Sorted(QueueAdd(b, p, prio), prio)
  BY <1>1, QueueAddSorted
<1>4. a # <<>> => Sorted(QueueOut(a), prio)
  BY <1>1, QueueOutSorted
<1>5. Sorted(<<>>, prio)
  BY DEF Sorted
<1> QED BY <1>2, <1>3, <1>4, <1>5 DEF a, b

\* The process that psend or preceive serves waits in the list it is taken from.
LEMMA TopWaits ==
  ASSUME WInv, NEW q \in Fid
  PROVE  /\ nbReaders[q] # 0 =>
              /\ readers[q] # <<>> /\ QueueTop(readers[q]) \in Elems(readers[q])
              /\ QueueTop(readers[q]) \in Proc
              /\ blockedQueue[QueueTop(readers[q])] = <<q, "readers">>
         /\ nbWriters[q] # 0 =>
              /\ writers[q] # <<>> /\ QueueTop(writers[q]) \in Elems(writers[q])
              /\ QueueTop(writers[q]) \in Proc
              /\ blockedQueue[QueueTop(writers[q])] = <<q, "writers">>
<1>1. (nbReaders[q] # 0 =>
              /\ readers[q] # <<>> /\ QueueTop(readers[q]) \in Elems(readers[q])
              /\ QueueTop(readers[q]) \in Proc
              /\ blockedQueue[QueueTop(readers[q])] = <<q, "readers">>)
  <2>1. CASE nbReaders[q] # 0
    <3>1. readers[q] \in Seq(Pid) /\ NoDup(readers[q]) /\ Len(readers[q]) # 0
      BY <2>1 DEF WInv, WaitTypes, ListsMatch, WaitersCounted
    <3>2. /\ readers[q] # <<>> /\ QueueTop(readers[q]) \in Elems(readers[q])
          /\ QueueTop(readers[q]) \in Pid
      BY <3>1, QueueOutElems, EmptySeq
    <3> QED BY <3>2 DEF WInv, ListsMatch
  <2> QED BY <2>1
<1>2. (nbWriters[q] # 0 =>
              /\ writers[q] # <<>> /\ QueueTop(writers[q]) \in Elems(writers[q])
              /\ QueueTop(writers[q]) \in Proc
              /\ blockedQueue[QueueTop(writers[q])] = <<q, "writers">>)
  <2>1. CASE nbWriters[q] # 0
    <3>1. writers[q] \in Seq(Pid) /\ NoDup(writers[q]) /\ Len(writers[q]) # 0
      BY <2>1 DEF WInv, WaitTypes, ListsMatch, WaitersCounted
    <3>2. /\ writers[q] # <<>> /\ QueueTop(writers[q]) \in Elems(writers[q])
          /\ QueueTop(writers[q]) \in Pid
      BY <3>1, QueueOutElems, EmptySeq
    <3> QED BY <3>2 DEF WInv, ListsMatch
  <2> QED BY <2>1
<1> QED BY <1>1, <1>2

\* A step that changes the lists of one queue only, and no priority.
LEMMA ListStep ==
  ASSUME WInv, ListsSorted, UNCHANGED prio, NEW q,
         NEW rs, NEW ws, Sorted(rs, prio), Sorted(ws, prio),
         readers' = [readers EXCEPT ![q] = rs] \/ UNCHANGED readers,
         writers' = [writers EXCEPT ![q] = ws] \/ UNCHANGED writers
  PROVE  ListsSorted'
<1>1. \A r \in Fid : /\ readers'[r] = rs \/ readers'[r] = readers[r]
                     /\ writers'[r] = ws \/ writers'[r] = writers[r]
  BY DEF WInv, WaitTypes
<1>2. \A r \in Fid : Sorted(readers'[r], prio') /\ Sorted(writers'[r], prio')
  BY <1>1 DEF ListsSorted
<1> QED BY <1>2 DEF ListsSorted

\* A step that takes no list apart and changes the priority of one process.
LEMMA PrioStep ==
  ASSUME WInv, ListsSorted, NEW p \in Proc, NEW n \in Prio, prio' = [prio EXCEPT ![p] = n],
         \A q \in Fid :
           /\ \/ readers'[q] = readers[q] /\ p \notin Elems(readers[q])
              \/ Sorted(readers'[q], prio')
           /\ \/ writers'[q] = writers[q] /\ p \notin Elems(writers[q])
              \/ Sorted(writers'[q], prio')
  PROVE  ListsSorted'
<1>1. \A r \in Pid : r # p => prio'[r] = prio[r]
  BY DEF WInv, SchedInv
<1>2. ASSUME NEW q \in Fid, p \notin Elems(readers[q]) PROVE Sorted(readers[q], prio')
  <2>1. \A r \in Elems(readers[q]) : prio'[r] = prio[r]
    BY <1>1, <1>2, ElemsEmpty DEF WInv, WaitTypes
  <2>2. Sorted(readers[q], prio)
    BY DEF ListsSorted
  <2> QED BY <2>1, <2>2, SortedByKeys
<1>3. ASSUME NEW q \in Fid, p \notin Elems(writers[q]) PROVE Sorted(writers[q], prio')
  <2>1. \A r \in Elems(writers[q]) : prio'[r] = prio[r]
    BY <1>1, <1>3, ElemsEmpty DEF WInv, WaitTypes
  <2>2. Sorted(writers[q], prio)
    BY DEF ListsSorted
  <2> QED BY <2>1, <2>2, SortedByKeys
<1>4. \A q \in Fid : Sorted(readers'[q], prio') /\ Sorted(writers'[q], prio')
  BY <1>2, <1>3
<1> QED BY <1>4 DEF ListsSorted

\* The list that chprio has written a priority in is sorted again.
LEMMA ReplacedSorted ==
  ASSUME WInv, ListsSorted, NEW p \in Proc, NEW n \in Prio, Chprio(p, n), NEW q \in Fid
  PROVE  /\ p \in Elems(readers[q]) => Sorted(readers'[q], prio')
         /\ p \in Elems(writers[q]) => Sorted(writers'[q], prio')
<1>1. /\ prio' = [prio EXCEPT ![p] = n] /\ p \in Pid /\ prio \in [Pid -> Int] /\ n \in Int
      /\ readers' = Replaced(p, "readers", readers)
      /\ writers' = Replaced(p, "writers", writers)
  BY PidFacts DEF Chprio, Repriorised, WInv, SchedInv, Prio
<1>2. prio' \in [Pid -> Int] /\ \A r \in Pid \ {p} : prio'[r] = prio[r]
  BY <1>1
<1>3. ASSUME NEW a \in Seq(Pid), NoDup(a), Sorted(a, prio), p \in Elems(a)
      PROVE  Sorted(QueueAdd(QueueDel(a, p), p, prio'), prio')
  <2>1. \A x \in Elems(a) \ {p} : prio'[x] = prio[x]
    BY <1>2, <1>3, ElemsEmpty
  <2>2. \A new \in [Pid -> Int] : (\A x \in Elems(a) \ {p} : new[x] = prio[x])
          => Sorted(QueueAdd(QueueDel(a, p), p, new), new)
    BY <1>1, <1>3, RequeueSorted
  <2> QED BY <1>2, <2>1, <2>2
<1>4. ASSUME p \in Elems(readers[q]) PROVE Sorted(readers'[q], prio')
  <2>1. blockedQueue[p] = <<q, "readers">>
    BY <1>1, <1>4 DEF WInv, ListsMatch
  <2>2. readers'[q] = QueueAdd(QueueDel(readers[q], p), p, prio')
    BY <1>1, <1>4, <2>1 DEF Replaced, Requeued
  <2> QED BY <1>3, <1>4, <2>2 DEF WInv, WaitTypes, ListsMatch, ListsSorted
<1>5. ASSUME p \in Elems(writers[q]) PROVE Sorted(writers'[q], prio')
  <2>1. blockedQueue[p] = <<q, "writers">>
    BY <1>1, <1>5 DEF WInv, ListsMatch
  <2>2. writers'[q] = QueueAdd(QueueDel(writers[q], p), p, prio')
    BY <1>1, <1>5, <2>1 DEF Replaced, Requeued
  <2> QED BY <1>3, <1>5, <2>2 DEF WInv, WaitTypes, ListsMatch, ListsSorted
<1> QED BY <1>4, <1>5

\* Every step keeps the lists sorted.
LEMMA NextListsSorted ==
  ASSUME WInv, ListsSorted, [Next]_vars
  PROVE  ListsSorted'
<1>1. ASSUME UNCHANGED <<readers, writers, prio>> PROVE ListsSorted'
  BY <1>1 DEF ListsSorted
<1>2. ASSUME NEW q, UNCHANGED prio, readers' = [readers EXCEPT ![q] = <<>>],
             writers' = [writers EXCEPT ![q] = <<>>]
      PROVE  ListsSorted'
  <2> DEFINE e == <<>>
  <2>1. Sorted(e, prio)
    BY DEF Sorted
  <2>2. readers' = [readers EXCEPT ![q] = e] /\ writers' = [writers EXCEPT ![q] = e]
    BY <1>2
  <2> HIDE DEF e
  <2> QED BY <1>2, <2>1, <2>2, ListStep
<1>3. ASSUME NEW n \in Sizes, Pcreate(n) PROVE ListsSorted'
  BY <1>3, <1>2 DEF Pcreate, Opened, sched
<1>4. ASSUME NEW q \in Fid, Preset(q) \/ Pdelete(q) PROVE ListsSorted'
  BY <1>4, <1>2 DEF Preset, Pdelete, Expel, Wake
<1>5. ASSUME NEW q \in Fid, NEW m \in Msg, PsendHand(q, m) PROVE ListsSorted'
  <2> DEFINE w == QueueOut(readers[q])
  <2>1. /\ nbReaders[q] # 0 /\ UNCHANGED <<writers, prio>>
        /\ readers' = [readers EXCEPT ![q] = w]
    BY <1>5 DEF PsendHand, HasReader, Serve
  <2>2. Sorted(w, prio)
    BY <2>1, TopWaits, ListsKept
  <2> HIDE DEF w
  <2> QED BY <2>1, <2>2, ListStep
<1>6. ASSUME NEW q \in Fid, NEW m \in Msg, PsendBlock(q, m) PROVE ListsSorted'
  <2> DEFINE w == QueueAdd(writers[q], cur, prio)
  <2>1. User /\ UNCHANGED <<readers, prio>> /\ writers' = [writers EXCEPT ![q] = w]
    BY <1>6 DEF PsendBlock, Wait, Block
  <2>2. Sorted(w, prio)
    BY <2>1, RunningWaits, ListsKept
  <2> HIDE DEF w
  <2> QED BY <2>1, <2>2, ListStep
<1>7. ASSUME NEW q \in Fid, NEW ptr \in Receivers, PreceiveBlock(q, ptr) PROVE ListsSorted'
  <2> DEFINE w == QueueAdd(readers[q], cur, prio)
  <2>1. User /\ UNCHANGED <<writers, prio>> /\ readers' = [readers EXCEPT ![q] = w]
    BY <1>7 DEF PreceiveBlock, Wait, Block
  <2>2. Sorted(w, prio)
    BY <2>1, RunningWaits, ListsKept
  <2> HIDE DEF w
  <2> QED BY <2>1, <2>2, ListStep
<1>8. ASSUME NEW q \in Fid, NEW ptr \in Receivers, PreceiveLetIn(q, ptr) PROVE ListsSorted'
  <2> DEFINE w == QueueDel(writers[q], QueueTop(writers[q]))
  <2>1. /\ nbWriters[q] # 0 /\ UNCHANGED <<readers, prio>>
        /\ writers' = [writers EXCEPT ![q] = w]
    BY <1>8 DEF PreceiveLetIn, LetsIn, LetIn, Serve
  <2>2. Sorted(w, prio)
    BY <2>1, TopWaits, ListsKept
  <2> HIDE DEF w
  <2> QED BY <2>1, <2>2, ListStep
<1>9. ASSUME NEW p \in Proc, Kill(p) PROVE ListsSorted'
  <2>1. /\ prio' = prio
        /\ \A q \in Fid :
             /\ readers'[q] = IF blockedQueue[p] = <<q, "readers">> THEN QueueDel(readers[q], p)
                              ELSE readers[q]
             /\ writers'[q] = IF blockedQueue[p] = <<q, "writers">> THEN QueueDel(writers[q], p)
                              ELSE writers[q]
    BY <1>9 DEF Kill, Ended, Without
  <2>2. ASSUME NEW q \in Fid
        PROVE  Sorted(readers'[q], prio') /\ Sorted(writers'[q], prio')
    <3>1. Sorted(readers[q], prio) /\ Sorted(writers[q], prio)
      BY DEF ListsSorted
    <3>2. /\ blockedQueue[p] = <<q, "readers">> => p \in Elems(readers[q])
          /\ blockedQueue[p] = <<q, "writers">> => p \in Elems(writers[q])
      BY PidFacts DEF WInv, ListsMatch
    <3> QED BY <2>1, <3>1, <3>2, ListsKept
  <2> QED BY <2>2 DEF ListsSorted
<1>10. ASSUME NEW p \in Proc, NEW n \in Prio, Start(p, n) PROVE ListsSorted'
  <2>1. /\ UNCHANGED <<readers, writers>> /\ prio' = [prio EXCEPT ![p] = n]
        /\ state[p] = "ENDED"
    BY <1>10 DEF Start, Started, waits
  <2>2. \A q \in Fid : p \notin Elems(readers[q]) /\ p \notin Elems(writers[q])
    BY <2>1, PidFacts, Pairs DEF WInv, ListsMatch
  <2>3. \A q \in Fid :
          /\ \/ readers'[q] = readers[q] /\ p \notin Elems(readers[q])
             \/ Sorted(readers'[q], prio')
          /\ \/ writers'[q] = writers[q] /\ p \notin Elems(writers[q])
             \/ Sorted(writers'[q], prio')
    BY <2>1, <2>2
  <2> QED BY <2>1, <2>3, PrioStep
<1>11. ASSUME NEW p \in Proc, NEW n \in Prio, Chprio(p, n) PROVE ListsSorted'
  <2>1. prio' = [prio EXCEPT ![p] = n]
    BY <1>11 DEF Chprio, Repriorised
  <2>2. ASSUME NEW q \in Fid
        PROVE  /\ \/ readers'[q] = readers[q] /\ p \notin Elems(readers[q])
                  \/ Sorted(readers'[q], prio')
               /\ \/ writers'[q] = writers[q] /\ p \notin Elems(writers[q])
                  \/ Sorted(writers'[q], prio')
    <3>1. /\ p \notin Elems(readers[q]) => readers'[q] = readers[q]
          /\ p \notin Elems(writers[q]) => writers'[q] = writers[q]
      BY <1>11 DEF Chprio, Replaced, Requeued
    <3>2. /\ p \in Elems(readers[q]) => Sorted(readers'[q], prio')
          /\ p \in Elems(writers[q]) => Sorted(writers'[q], prio')
      BY <1>11, ReplacedSorted
    <3> QED BY <3>1, <3>2
  <2> QED BY <2>1, <2>2, PrioStep
<1>12. ASSUME \/ PcreateNoMemory \/ Resume \/ Tick \/ Ordonnance \/ UNCHANGED vars
              \/ \E q \in Fid, m \in Msg : PsendWrite(q, m)
              \/ \E q \in Fid, ptr \in Receivers : Preceive(q, ptr)
       PROVE  ListsSorted'
  BY <1>12, <1>1 DEF PcreateNoMemory, Resume, Returned, Tick, Preempted, Ordonnance, Elected,
                     vars, PsendWrite, Preceive, waits, sched
<1>13. ResetIds \subseteq Fid
  BY MessageAssumption DEF Fid
<1> QED BY <1>3, <1>4, <1>5, <1>6, <1>7, <1>8, <1>9, <1>10, <1>11, <1>12, <1>13 DEF Next

\* What ServedFirst says of a step.
Served1st ==
  \A p, r \in Proc : Served(p) /\ blockedQueue[r] = blockedQueue[p] => prio[r] <= prio[p]

\* psend and preceive serve the tail of a sorted list; preset and pdelete let
\* go of waiters with an error, and nothing else does.
LEMMA NextServed1st ==
  ASSUME WInv, ListsSorted, Next
  PROVE  Served1st
<1> SUFFICES ASSUME NEW p \in Proc, NEW r \in Proc, Served(p), blockedQueue[r] = blockedQueue[p]
             PROVE  prio[r] <= prio[p]
  BY DEF Served1st
<1>1. /\ state[p] = "WAITMSG" /\ state'[p] = "ACTIVABLE" /\ ~ hasMsgError'[p]
      /\ p \in Pid /\ r \in Pid /\ DOMAIN state = Pid
  BY PidFacts DEF Served, WInv, SchedInv
<1>2. ASSUME NEW q \in Fid, Preset(q) \/ Pdelete(q) PROVE FALSE
  BY <1>1, <1>2 DEF Preset, Pdelete, Expel, Wake
<1>3. ASSUME NEW x \in Proc, Kill(x) PROVE FALSE
  BY <1>1, <1>3 DEF Kill, Ended
<1>4. ASSUME NEW x \in Proc, NEW n \in Prio, Start(x, n) PROVE FALSE
  BY <1>1, <1>4 DEF Start, Started
<1>5. ASSUME Block("WAITMSG") PROVE FALSE
  BY <1>1, <1>5 DEF Block
<1>6. ASSUME Ordonnance PROVE FALSE
  BY <1>1, <1>6, ElectedSched DEF Ordonnance, WInv
<1>7. ASSUME UNCHANGED state PROVE FALSE
  BY <1>1, <1>7
<1>8. ASSUME NEW q \in Fid, NEW a \in Seq(Pid), a = readers[q] \/ a = writers[q], a # <<>>,
             NEW c, Serve(QueueTop(a), c),
             \A x \in Proc : blockedQueue[x] = blockedQueue[QueueTop(a)] => x \in Elems(a)
      PROVE  prio[r] <= prio[p]
  <2>1. p = QueueTop(a)
    BY <1>1, <1>8 DEF Serve
  <2>2. r \in Elems(a)
    BY <1>8, <2>1
  <2>3. Sorted(a, prio)
    BY <1>8 DEF ListsSorted
  <2> QED BY <1>8, <2>1, <2>2, <2>3, QueueOutSorted
<1>9. ASSUME NEW q \in Fid, NEW m \in Msg, PsendHand(q, m) PROVE prio[r] <= prio[p]
  <2>1. nbReaders[q] # 0 /\ Serve(QueueTop(readers[q]), "send")
    BY <1>9 DEF PsendHand, HasReader
  <2>2. readers[q] # <<>> /\ blockedQueue[QueueTop(readers[q])] = <<q, "readers">>
    BY <2>1, TopWaits
  <2>3. /\ readers[q] \in Seq(Pid)
        /\ \A x \in Proc : blockedQueue[x] = <<q, "readers">> => x \in Elems(readers[q])
    BY PidFacts DEF WInv, WaitTypes, ListsMatch
  <2> QED BY <1>8, <2>1, <2>2, <2>3
<1>10. ASSUME NEW q \in Fid, NEW ptr \in Receivers, PreceiveLetIn(q, ptr)
       PROVE  prio[r] <= prio[p]
  <2>1. nbWriters[q] # 0 /\ Serve(QueueTop(writers[q]), "send")
    BY <1>10 DEF PreceiveLetIn, LetsIn, LetIn
  <2>2. writers[q] # <<>> /\ blockedQueue[QueueTop(writers[q])] = <<q, "writers">>
    BY <2>1, TopWaits
  <2>3. /\ writers[q] \in Seq(Pid)
        /\ \A x \in Proc : blockedQueue[x] = <<q, "writers">> => x \in Elems(writers[q])
    BY PidFacts DEF WInv, WaitTypes, ListsMatch
  <2> QED BY <1>8, <2>1, <2>2, <2>3
<1>11. \/ UNCHANGED state \/ Block("WAITMSG") \/ Ordonnance
       \/ \E q \in Fid : Preset(q) \/ Pdelete(q)
       \/ \E x \in Proc : Kill(x) \/ \E n \in Prio : Start(x, n)
       \/ \E q \in Fid, m \in Msg : PsendHand(q, m)
       \/ \E q \in Fid, ptr \in Receivers : PreceiveLetIn(q, ptr)
  <2>1. ResetIds \subseteq Fid
    BY MessageAssumption DEF Fid
  <2> QED BY <2>1 DEF Next, Pcreate, PcreateNoMemory, PsendBlock, PsendWrite, PreceiveBlock,
                      Preceive, Wait, Resume, Returned, Chprio, Repriorised, Tick, Preempted,
                      sched
<1> QED BY <1>2, <1>3, <1>4, <1>5, <1>6, <1>7, <1>9, <1>10, <1>11

-----------------------------------------------------------------------------
(* The values of the variables. *)

\* The buffer of a queue.
BufferOK(q) ==
  /\ size[q] \in Sizes \cup {0}
  /\ messages[q] \in [0..(size[q] - 1) -> Msg \cup {0}]
  /\ alive[q] => /\ rindex[q] \in 0..(size[q] - 1) /\ windex[q] \in 0..(size[q] - 1)
                 /\ nbMessages[q] \in 0..size[q]

\* The fields of the processes.
FieldsOK ==
  /\ message \in [Proc -> Msg \cup {0}]
  /\ received \in [Proc -> Msg \cup {0}]
  /\ call \in [Proc -> {"none", "send", "receive", "discard"}]

\* Any buffer.
Buffers == UNION {[0..(n - 1) -> Msg \cup {0}] : n \in Nat}

Ranges ==
  /\ messages \in [Fid -> Buffers] /\ rindex \in [Fid -> Int] /\ windex \in [Fid -> Int]
  /\ \A q \in Fid : BufferOK(q)
  /\ FieldsOK

\* The empty tuple is the buffer of no place.
LEMMA NoBuffer == <<>> \in [0..(0 - 1) -> Msg \cup {0}]
OBVIOUS

\* A buffer of any capacity.
LEMMA AnyBuffer ==
  ASSUME NEW n \in Sizes \cup {0}, NEW f \in [0..(n - 1) -> Msg \cup {0}]
  PROVE  f \in Buffers
<1>1. n \in Nat
  BY MessageAssumption
<1> QED BY <1>1 DEF Buffers

\* At first.
LEMMA InitRanges == Init => Ranges
<1> SUFFICES ASSUME Init PROVE Ranges
  OBVIOUS
<1>1. \A q \in Fid : messages[q] = <<>> /\ size[q] = 0 /\ ~ alive[q]
  BY DEF Init
<1>2. \A q \in Fid : messages[q] \in [0..(size[q] - 1) -> Msg \cup {0}]
  BY <1>1, NoBuffer
<1>3. \A q \in Fid : BufferOK(q)
  BY <1>1, <1>2 DEF BufferOK
<1>4. /\ message = [p \in Proc |-> 0] /\ received = [p \in Proc |-> 0]
      /\ call = [p \in Proc |-> "none"]
  BY DEF Init
<1>5. FieldsOK
  BY <1>4 DEF FieldsOK
<1>6. messages \in [Fid -> Buffers] /\ rindex \in [Fid -> Int] /\ windex \in [Fid -> Int]
  <2> DEFINE e == <<>>
  <2>1. e \in Buffers
    BY NoBuffer, AnyBuffer
  <2>2. messages = [q \in Fid |-> e]
    BY DEF Init
  <2> HIDE DEF e
  <2>3. rindex = [q \in Fid |-> 0] /\ windex = [q \in Fid |-> 0]
    BY DEF Init
  <2> QED BY <2>1, <2>2, <2>3
<1> QED BY <1>3, <1>5, <1>6 DEF Ranges

\* A step on the buffer of one queue.
LEMMA OneBuffer ==
  ASSUME WInv, Ranges, FieldsOK', NEW q \in Fid,
         NEW a, NEW f, NEW n, NEW i \in Int, NEW j \in Int, NEW m,
         alive' = [alive EXCEPT ![q] = a], messages' = [messages EXCEPT ![q] = f],
         size' = [size EXCEPT ![q] = n], rindex' = [rindex EXCEPT ![q] = i],
         windex' = [windex EXCEPT ![q] = j], nbMessages' = [nbMessages EXCEPT ![q] = m],
         n \in Sizes \cup {0}, f \in [0..(n - 1) -> Msg \cup {0}],
         a => i \in 0..(n - 1) /\ j \in 0..(n - 1) /\ m \in 0..n
  PROVE  Ranges'
<1>1. /\ rindex' \in [Fid -> Int] /\ windex' \in [Fid -> Int]
      /\ \A r \in Fid : /\ alive'[r] = IF r = q THEN a ELSE alive[r]
                        /\ messages'[r] = IF r = q THEN f ELSE messages[r]
                        /\ size'[r] = IF r = q THEN n ELSE size[r]
                        /\ rindex'[r] = IF r = q THEN i ELSE rindex[r]
                        /\ windex'[r] = IF r = q THEN j ELSE windex[r]
                        /\ nbMessages'[r] = IF r = q THEN m ELSE nbMessages[r]
  BY DEF WInv, WaitTypes, Ranges
<1>2. ASSUME NEW r \in Fid, r # q PROVE BufferOK(r)'
  <2>1. BufferOK(r)
    BY DEF Ranges
  <2> QED BY <1>1, <1>2, <2>1 DEF BufferOK
<1>3. BufferOK(q)'
  BY <1>1 DEF BufferOK
<1>4. \A r \in Fid : BufferOK(r)'
  BY <1>2, <1>3
<1>5. messages' \in [Fid -> Buffers]
  BY AnyBuffer DEF Ranges
<1> QED BY <1>1, <1>4, <1>5 DEF Ranges

\* A step on no buffer.
LEMMA NoBufferStep ==
  ASSUME Ranges, FieldsOK', UNCHANGED <<alive, buffer>>
  PROVE  Ranges'
BY DEF Ranges, BufferOK, buffer

\* What the buffer of a queue that is alive holds, and the places that
\* write_message and preceive go on to.
LEMMA LiveBuffer ==
  ASSUME Ranges, NEW q \in Fid, alive[q]
  PROVE  /\ size[q] \in Sizes /\ size[q] \in Nat \ {0}
         /\ messages[q] \in [0..(size[q] - 1) -> Msg \cup {0}]
         /\ rindex[q] \in 0..(size[q] - 1) /\ windex[q] \in 0..(size[q] - 1)
         /\ messages[q][rindex[q]] \in Msg \cup {0}
         /\ (rindex[q] + 1) % size[q] \in 0..(size[q] - 1)
         /\ (windex[q] + 1) % size[q] \in 0..(size[q] - 1)
         /\ \A v \in Msg \cup {0} :
              [messages[q] EXCEPT ![windex[q]] = v] \in [0..(size[q] - 1) -> Msg \cup {0}]
         /\ nbMessages[q] \in 0..size[q]
<1>1. /\ size[q] \in Sizes \cup {0}
      /\ messages[q] \in [0..(size[q] - 1) -> Msg \cup {0}]
      /\ rindex[q] \in 0..(size[q] - 1) /\ windex[q] \in 0..(size[q] - 1)
      /\ nbMessages[q] \in 0..size[q]
  BY DEF Ranges, BufferOK
<1>2. size[q] \in Sizes /\ size[q] \in Nat \ {0}
  <2>1. ~ (rindex[q] \in 0..(0 - 1))
    OBVIOUS
  <2>2. size[q] # 0
    BY <1>1, <2>1
  <2> QED BY <1>1, <2>2, MessageAssumption
<1>3. \A n \in Nat \ {0} : \A i \in 0..(n - 1) : (i + 1) % n \in 0..(n - 1)
  OBVIOUS
<1>4. /\ (rindex[q] + 1) % size[q] \in 0..(size[q] - 1)
      /\ (windex[q] + 1) % size[q] \in 0..(size[q] - 1)
  BY <1>1, <1>2, <1>3
<1>5. \A v \in Msg \cup {0} :
        [messages[q] EXCEPT ![windex[q]] = v] \in [0..(size[q] - 1) -> Msg \cup {0}]
  BY <1>1
<1>6. messages[q][rindex[q]] \in Msg \cup {0}
  BY <1>1
<1> QED BY <1>1, <1>2, <1>4, <1>5, <1>6

\* preset changes the number of messages alone.
LEMMA CountStep ==
  ASSUME WInv, Ranges, FieldsOK', NEW q \in Fid, NEW m, m \in 0..size[q],
         nbMessages' = [nbMessages EXCEPT ![q] = m],
         UNCHANGED <<alive, messages, size, rindex, windex>>
  PROVE  Ranges'
<1>1. \A r \in Fid : nbMessages'[r] = IF r = q THEN m ELSE nbMessages[r]
  BY DEF WInv, WaitTypes
<1>2. \A r \in Fid : BufferOK(r)'
  BY <1>1 DEF Ranges, BufferOK
<1> QED BY <1>2 DEF Ranges

\* pcreate takes a queue that is there.
LEMMA NewFidFree ==
  ASSUME TInv, NEW n, Pcreate(n)
  PROVE  NewFid \in Fid
<1>1. CASE list # <<>>
  BY <1>1, HeadTail DEF NewFid, TInv, QueuesAccounted
<1>2. CASE list = <<>>
  BY <1>2, MessageAssumption DEF Pcreate, TInv, NewFid, Fid
<1> QED BY <1>1, <1>2

\* The reading of the buffer.
LEMMA ReadRanges ==
  ASSUME Ranges, NEW q \in Fid, alive[q], NEW ptr, Read(q, ptr)
  PROVE  /\ received' \in [Proc -> Msg \cup {0}]
         /\ \E i \in 0..(size[q] - 1) : rindex' = [rindex EXCEPT ![q] = i]
<1> DEFINE v == messages[q][rindex[q]]
           i == (rindex[q] + 1) % size[q]
<1>1. /\ received' = IF ptr THEN [received EXCEPT ![cur] = v] ELSE received
      /\ rindex' = IF ptr THEN [rindex EXCEPT ![q] = i] ELSE rindex
  BY DEF Read, Ranges
<1>2. v \in Msg \cup {0} /\ i \in 0..(size[q] - 1) /\ rindex[q] \in 0..(size[q] - 1)
  BY LiveBuffer
<1> HIDE DEF v, i
<1>3. received' \in [Proc -> Msg \cup {0}]
  BY <1>1, <1>2 DEF Ranges, FieldsOK
<1>4. rindex = [rindex EXCEPT ![q] = rindex[q]]
  BY DEF Ranges
<1>5. \E k \in 0..(size[q] - 1) : rindex' = [rindex EXCEPT ![q] = k]
  BY <1>1, <1>2, <1>4
<1> QED BY <1>3, <1>5

\* Every step keeps the ranges.
LEMMA NextRanges ==
  ASSUME WInv, TInv, Ranges, [Next]_vars
  PROVE  Ranges'
<1> DEFINE V == Msg \cup {0}
           Calls == {"none", "send", "receive", "discard"}
<1>1. /\ message \in [Proc -> V] /\ received \in [Proc -> V] /\ call \in [Proc -> Calls]
      /\ DOMAIN messages = Fid /\ DOMAIN rindex = Fid /\ DOMAIN windex = Fid
      /\ DOMAIN size = Fid /\ DOMAIN alive = Fid /\ DOMAIN nbMessages = Fid
  BY DEF Ranges, FieldsOK, WInv, WaitTypes
<1>2. ASSUME NEW c \in Calls, NEW p, call' = [call EXCEPT ![p] = c],
             message' \in [Proc -> V], received' \in [Proc -> V]
      PROVE  FieldsOK'
  BY <1>1, <1>2 DEF FieldsOK
<1>3. ASSUME UNCHANGED mine PROVE FieldsOK'
  BY <1>1, <1>3 DEF FieldsOK, mine
<1>4. ASSUME NEW n \in Sizes, Pcreate(n) PROVE Ranges'
  <2> DEFINE q == NewFid
             f == [i \in 0..(n - 1) |-> 0]
             z == 0
  <2>1. /\ alive' = [alive EXCEPT ![q] = TRUE] /\ messages' = [messages EXCEPT ![q] = f]
        /\ size' = [size EXCEPT ![q] = n] /\ rindex' = [rindex EXCEPT ![q] = z]
        /\ windex' = [windex EXCEPT ![q] = z] /\ nbMessages' = [nbMessages EXCEPT ![q] = z]
        /\ UNCHANGED mine
    BY <1>4 DEF Pcreate, Opened
  <2>2. n \in Nat \ {0} /\ f \in [0..(n - 1) -> V]
    BY MessageAssumption
  <2>3. z \in 0..(n - 1) /\ z \in 0..n /\ n \in Sizes \cup {0}
    BY <2>2
  <2>4. FieldsOK'
    BY <2>1, <1>3
  <2>5. q \in Fid /\ z \in Int
    BY <1>4, NewFidFree
  <2> HIDE DEF q, f, z
  <2> QED BY <2>1, <2>2, <2>3, <2>4, <2>5, OneBuffer
<1>5. ASSUME NEW q \in Fid, Preset(q) PROVE Ranges'
  <2> DEFINE z == 0
  <2>1. /\ UNCHANGED <<alive, messages, size, rindex, windex, message, received, call>>
        /\ nbMessages' = [nbMessages EXCEPT ![q] = z] /\ alive[q]
    BY <1>5 DEF Preset, Expel, table
  <2>2. FieldsOK'
    BY <2>1 DEF Ranges, FieldsOK
  <2>3. \A n \in Nat : z \in 0..n
    OBVIOUS
  <2>4. z \in 0..size[q]
    BY <2>1, <2>3, LiveBuffer
  <2> HIDE DEF z
  <2> QED BY <2>1, <2>2, <2>4, CountStep
<1>6. ASSUME NEW q \in Fid, Pdelete(q) PROVE Ranges'
  <2> DEFINE z == 0
             f == <<>>
             i == rindex[q]
             j == windex[q]
  <2>1. /\ alive' = [alive EXCEPT ![q] = FALSE] /\ messages' = [messages EXCEPT ![q] = f]
        /\ size' = [size EXCEPT ![q] = z] /\ nbMessages' = [nbMessages EXCEPT ![q] = z]
        /\ UNCHANGED <<rindex, windex, message, received, call>>
    BY <1>6 DEF Pdelete, Expel
  <2>2. FieldsOK'
    BY <2>1 DEF Ranges, FieldsOK
  <2>3. f \in [0..(z - 1) -> V] /\ z \in Sizes \cup {0}
    BY NoBuffer
  <2> HIDE DEF z, f
  <2>4. /\ rindex' = [rindex EXCEPT ![q] = i] /\ windex' = [windex EXCEPT ![q] = j]
        /\ i \in Int /\ j \in Int
    BY <2>1 DEF Ranges
  <2> HIDE DEF i, j
  <2> QED BY <2>1, <2>2, <2>3, <2>4, OneBuffer
<1>7. ASSUME NEW q \in Fid, NEW m \in Msg, PsendHand(q, m) PROVE Ranges'
  <2>1. /\ UNCHANGED <<alive, buffer, received>> /\ call' = [call EXCEPT ![cur] = "send"]
        /\ message' = [message EXCEPT ![QueueTop(readers[q])] = m]
    BY <1>7 DEF PsendHand, Serve, table
  <2>2. message' \in [Proc -> V]
    BY <1>1, <2>1
  <2>3. FieldsOK'
    BY <1>1, <1>2, <2>1, <2>2
  <2> QED BY <2>1, <2>3, NoBufferStep
<1>8. ASSUME NEW q \in Fid, NEW m \in Msg, PsendBlock(q, m) PROVE Ranges'
  <2>1. /\ UNCHANGED <<alive, buffer, received>> /\ call' = [call EXCEPT ![cur] = "send"]
        /\ message' = [message EXCEPT ![cur] = m]
    BY <1>8 DEF PsendBlock, Wait, table
  <2>2. message' \in [Proc -> V]
    BY <1>1, <2>1
  <2>3. FieldsOK'
    BY <1>1, <1>2, <2>1, <2>2
  <2> QED BY <2>1, <2>3, NoBufferStep
<1>9. ASSUME NEW q \in Fid, NEW m \in Msg, PsendWrite(q, m) PROVE Ranges'
  <2> DEFINE f == [messages[q] EXCEPT ![windex[q]] = m]
             j == (windex[q] + 1) % size[q]
             k == nbMessages[q] + 1
             i == rindex[q]
             n == size[q]
  <2>1. /\ alive[q] /\ nbMessages[q] # size[q] /\ UNCHANGED <<alive, size, rindex, mine>>
        /\ messages' = [messages EXCEPT ![q] = f] /\ windex' = [windex EXCEPT ![q] = j]
        /\ nbMessages' = [nbMessages EXCEPT ![q] = k]
    BY <1>1, <1>9 DEF PsendWrite, Write, table
  <2>2. FieldsOK'
    BY <2>1, <1>3
  <2>3. /\ n \in Sizes \cup {0} /\ f \in [0..(n - 1) -> V]
        /\ i \in 0..(n - 1) /\ j \in 0..(n - 1) /\ i \in Int /\ j \in Int
    BY <2>1, LiveBuffer
  <2>4. k \in 0..n
    <3>1. n \in Nat /\ nbMessages[q] \in 0..n /\ nbMessages[q] # n
      BY <2>1, LiveBuffer
    <3> QED BY <3>1
  <2>5. size' = [size EXCEPT ![q] = n] /\ rindex' = [rindex EXCEPT ![q] = i]
        /\ alive' = [alive EXCEPT ![q] = TRUE]
    BY <2>1 DEF WInv, WaitTypes, Ranges
  <2> HIDE DEF f, j, k, i, n
  <2> QED BY <2>1, <2>2, <2>3, <2>4, <2>5, OneBuffer
<1>10. ASSUME NEW q \in Fid, NEW ptr \in Receivers, PreceiveBlock(q, ptr) PROVE Ranges'
  <2>1. /\ UNCHANGED <<alive, buffer, received, message>>
        /\ \E c \in Calls : call' = [call EXCEPT ![cur] = c]
    BY <1>10 DEF PreceiveBlock, Wait, table
  <2>2. FieldsOK'
    BY <1>1, <1>2, <2>1
  <2> QED BY <2>1, <2>2, NoBufferStep
<1>11. ASSUME NEW q \in Fid, NEW ptr \in Receivers, Preceive(q, ptr) PROVE Ranges'
  <2> DEFINE f == messages[q]
             j == windex[q]
             k == nbMessages[q] - 1
             n == size[q]
  <2>1. /\ alive[q] /\ nbMessages[q] # 0 /\ UNCHANGED <<alive, messages, size, windex, message, call>>
        /\ Read(q, ptr) /\ nbMessages' = [nbMessages EXCEPT ![q] = k]
    BY <1>1, <1>11 DEF Preceive, table
  <2>2. received' \in [Proc -> V] /\ \E i \in Int : i \in 0..(n - 1) /\ rindex' = [rindex EXCEPT ![q] = i]
    BY <2>1, ReadRanges
  <2>3. FieldsOK'
    BY <1>1, <2>1, <2>2 DEF FieldsOK
  <2>4. /\ n \in Sizes \cup {0} /\ f \in [0..(n - 1) -> V] /\ j \in 0..(n - 1)
        /\ j \in Int
    BY <2>1, LiveBuffer
  <2>5. k \in 0..n
    <3>1. n \in Nat /\ nbMessages[q] \in 0..n /\ nbMessages[q] # 0
      BY <2>1, LiveBuffer
    <3> QED BY <3>1
  <2>6. size' = [size EXCEPT ![q] = n] /\ windex' = [windex EXCEPT ![q] = j]
        /\ alive' = [alive EXCEPT ![q] = TRUE] /\ messages' = [messages EXCEPT ![q] = f]
        /\ nbMessages' = [nbMessages EXCEPT ![q] = k]
    BY <2>1 DEF WInv, WaitTypes, Ranges
  <2> HIDE DEF f, j, k, n
  <2>7. PICK i \in Int : i \in 0..(n - 1) /\ rindex' = [rindex EXCEPT ![q] = i]
    BY <2>2
  <2> QED BY <2>3, <2>4, <2>5, <2>6, <2>7, OneBuffer
<1>12. ASSUME NEW q \in Fid, NEW ptr \in Receivers, PreceiveLetIn(q, ptr) PROVE Ranges'
  <2> DEFINE v == message[QueueTop(writers[q])]
             f == [messages[q] EXCEPT ![windex[q]] = v]
             j == (windex[q] + 1) % size[q]
             k == (nbMessages[q] - 1) + 1
             n == size[q]
  <2>1. /\ alive[q] /\ nbMessages[q] # 0 /\ nbWriters[q] # 0
        /\ UNCHANGED <<alive, size, message>>
        /\ call' = [call EXCEPT ![cur] = "send"]
        /\ messages' = [messages EXCEPT ![q] = f] /\ windex' = [windex EXCEPT ![q] = j]
        /\ Read(q, ptr) /\ nbMessages' = [nbMessages EXCEPT ![q] = k]
    BY <1>1, <1>12 DEF PreceiveLetIn, LetIn, LetsIn, Write, Serve, table
  <2>2. received' \in [Proc -> V] /\ \E i \in Int : i \in 0..(n - 1) /\ rindex' = [rindex EXCEPT ![q] = i]
    BY <2>1, ReadRanges
  <2>3. FieldsOK'
    BY <1>1, <1>2, <2>1, <2>2
  <2>4. v \in V
    BY <1>1, <2>1, TopWaits
  <2> HIDE DEF v
  <2>5. /\ n \in Sizes \cup {0} /\ f \in [0..(n - 1) -> V] /\ j \in 0..(n - 1)
        /\ j \in Int
    BY <2>1, <2>4, LiveBuffer
  <2>6. k \in 0..n
    <3>1. n \in Nat /\ nbMessages[q] \in 0..n
      BY <2>1, LiveBuffer
    <3> QED BY <3>1
  <2>7. size' = [size EXCEPT ![q] = n] /\ alive' = [alive EXCEPT ![q] = TRUE]
    BY <2>1 DEF WInv, WaitTypes, Ranges
  <2> HIDE DEF f, j, k, n
  <2> QED BY <2>1, <2>2, <2>3, <2>5, <2>6, <2>7, OneBuffer
<1>13. ASSUME Resume PROVE Ranges'
  <2>1. /\ received' = IF call[cur] = "receive" THEN [received EXCEPT ![cur] = message[cur]]
                                                ELSE received
        /\ call' = [call EXCEPT ![cur] = "none"] /\ UNCHANGED <<alive, buffer, message>>
    BY <1>13 DEF Resume, table
  <2>2. received' \in [Proc -> V]
    <3>1. CASE cur \in Proc
      BY <1>1, <2>1, <3>1
    <3>2. CASE cur \notin Proc
      BY <1>1, <2>1, <3>2
    <3> QED BY <3>1, <3>2
  <2>3. FieldsOK'
    BY <1>1, <1>2, <2>1, <2>2
  <2> QED BY <2>1, <2>3, NoBufferStep
<1>14. ASSUME NEW p \in Proc, Kill(p) \/ \E n \in Prio : Start(p, n) PROVE Ranges'
  <2>1. UNCHANGED <<alive, buffer>>
    BY <1>14 DEF Kill, Start, table
  <2>2. CASE Kill(p)
    <3>1. call' = [call EXCEPT ![p] = "none"] /\ UNCHANGED <<message, received>>
      BY <2>2 DEF Kill
    <3>2. FieldsOK'
      BY <1>1, <1>2, <3>1
    <3> QED BY <2>1, <3>2, NoBufferStep
  <2>3. CASE \E n \in Prio : Start(p, n)
    <3>1. /\ message' = [message EXCEPT ![p] = 0] /\ received' = [received EXCEPT ![p] = 0]
          /\ UNCHANGED call
      BY <2>3 DEF Start
    <3>2. FieldsOK'
      BY <1>1, <3>1 DEF FieldsOK
    <3> QED BY <2>1, <3>2, NoBufferStep
  <2> QED BY <1>14, <2>2, <2>3
<1>15. ASSUME \/ PcreateNoMemory \/ Tick \/ Ordonnance \/ UNCHANGED vars
              \/ \E p \in Proc, n \in Prio : Chprio(p, n)
       PROVE  Ranges'
  <2>1. UNCHANGED <<alive, buffer, mine>>
    BY <1>15 DEF PcreateNoMemory, Tick, Ordonnance, vars, Chprio, table
  <2> QED BY <2>1, <1>3, NoBufferStep
<1>16. ResetIds \subseteq Fid
  BY MessageAssumption DEF Fid
<1> QED BY <1>4, <1>5, <1>6, <1>7, <1>8, <1>9, <1>10, <1>11, <1>12, <1>13, <1>14, <1>15, <1>16
        DEF Next

-----------------------------------------------------------------------------
(* The theorems. *)

\* The invariants hold together.
LEMMA Invariant == Spec => [](WInv /\ TInv /\ EInv /\ ListsSorted /\ Ranges)
<1>1. Init => WInv /\ TInv /\ EInv /\ ListsSorted /\ Ranges
  <2>1. Init => ListsSorted
    BY DEF Init, ListsSorted, Sorted
  <2> QED BY <2>1, InitWInv, InitTInv, InitEInv, InitRanges
<1>2. (WInv /\ TInv /\ EInv /\ ListsSorted /\ Ranges) /\ [Next]_vars
        => (WInv /\ TInv /\ EInv /\ ListsSorted /\ Ranges)'
  BY NextWInv, NextTInv, NextEInv, NextListsSorted, NextRanges
<1> QED BY <1>1, <1>2, PTL DEF Spec

\* nb_readers and nb_writers count the processes of the lists, so that
\* pop_reader and pop_writer always find one.
THEOREM CountersHold == Spec => []WaitersCounted
<1>1. WInv => WaitersCounted
  BY DEF WInv
<1> QED BY <1>1, Invariant, PTL

\* Nobody waits in vain: for a message while there is one, or for room while
\* there is some.
THEOREM NobodyWaitsInVain == Spec => []NoWaitInVain
<1>1. WInv => NoWaitInVain
  BY DEF WInv
<1> QED BY <1>1, Invariant, PTL

\* A process in WAITMSG is chained once, where kill and chprio look for it.
THEOREM WaitersHold == Spec => []WaitersChained
<1>1. WInv => WaitersChained
  BY Chained DEF WInv
<1> QED BY <1>1, Invariant, PTL

\* has_msg_error belongs to the call that is ending, and never to a later one.
THEOREM ErrorsHold == Spec => []ErrorIsCurrent
<1>1. EInv => ErrorIsCurrent
  BY DEF EInv
<1> QED BY <1>1, Invariant, PTL

\* No queue is lost to pcreate, or listed twice.
THEOREM QueuesHold == Spec => []QueuesAccounted
<1>1. TInv => QueuesAccounted
  BY DEF TInv
<1> QED BY <1>1, Invariant, PTL

\* The variables of messages.c keep their ranges: no index leaves the buffer,
\* and no buffer holds more messages than fit, or fewer than none.
THEOREM TypesHold == Spec => []TypeOK
<1>1. WInv /\ EInv /\ Ranges => TypeOK
  <2> SUFFICES ASSUME WInv, EInv, Ranges PROVE TypeOK
    OBVIOUS
  <2>1. ASSUME NEW q \in Fid
        PROVE  /\ size[q] \in Sizes \cup {0}
               /\ messages[q] \in [0..(size[q] - 1) -> Msg \cup {0}]
               /\ Elems(readers[q]) \cup Elems(writers[q]) \subseteq Proc
               /\ alive[q] => /\ {rindex[q], windex[q]} \subseteq 0..(size[q] - 1)
                              /\ nbMessages[q] \in 0..size[q]
    <3>1. Elems(readers[q]) \subseteq Proc /\ Elems(writers[q]) \subseteq Proc
      BY ElemsEmpty DEF WInv, WaitTypes, ListsMatch
    <3>2. BufferOK(q)
      BY DEF Ranges
    <3> QED BY <3>1, <3>2 DEF BufferOK
  <2> QED BY <2>1 DEF TypeOK, WInv, WaitTypes, EInv, Ranges, FieldsOK
<1> QED BY <1>1, Invariant, PTL

\* psend and preceive never pass over a waiter for one of lower priority,
\* whatever chprio did to the waiters meanwhile.
THEOREM ServedFirstHolds == Spec => ServedFirst
<1>1. WInv /\ ListsSorted /\ [Next]_vars => [Served1st]_vars
  BY NextServed1st
<1>2. [Served1st]_vars =>
        [\A p, r \in Proc :
           Served(p) /\ blockedQueue[r] = blockedQueue[p] => prio[r] <= prio[p]]_vars
  BY DEF Served1st
<1> QED BY <1>1, <1>2, Invariant, PTL DEF Spec, ServedFirst
-----------------------------------------------------------------------------
(* The buffer as a sequence, and the two indices.                          *)

\* The i-th place from r on in a buffer of n places; the k messages of the
\* buffer f that begin at r.
Nth(r, i, n) == (r + i - 1) % n
Ring(f, r, k, n) == [i \in 1..k |-> f[Nth(r, i, n)]]

\* The places of a buffer.
LEMMA Modulo ==
  ASSUME NEW n \in Nat \ {0}, NEW x \in 0..(2 * n - 1)
  PROVE  x % n = (IF x < n THEN x ELSE x - n) /\ x % n \in 0..(n - 1)
<1>1. \A u \in Nat : u < n => u % n = u /\ (u + n) % n = u
  BY Z3
<1>2. CASE x < n
  BY <1>1, <1>2
<1>3. CASE ~ (x < n)
  <2>1. x - n \in Nat /\ x - n < n /\ (x - n) + n = x
    BY <1>3
  <2>2. x % n = x - n
    BY <1>1, <2>1
  <2> QED BY <1>3, <2>1, <2>2
<1> QED BY <1>2, <1>3

\* The place without the remainder.
LEMMA NthAt ==
  ASSUME NEW n \in Nat \ {0}, NEW r \in 0..(n - 1), NEW i \in 1..(n + 1)
  PROVE  /\ Nth(r, i, n) = IF r + i <= n THEN r + i - 1 ELSE r + i - 1 - n
         /\ Nth(r, i, n) \in 0..(n - 1)
<1> DEFINE x == r + i - 1
<1>1. x \in 0..(2 * n - 1) /\ x = r + i - 1
  OBVIOUS
<1>2. Nth(r, i, n) = x % n
  BY DEF Nth
<1> HIDE DEF x
<1>3. x % n = (IF x < n THEN x ELSE x - n) /\ x % n \in 0..(n - 1)
  BY <1>1, Modulo
<1> QED BY <1>1, <1>2, <1>3

\* The k places from r on are in the buffer, and the next one is another.
LEMMA NthIn ==
  ASSUME NEW n \in Nat \ {0}, NEW r \in 0..(n - 1), NEW k \in 0..n, NEW i \in 1..k
  PROVE  /\ Nth(r, i, n) \in 0..(n - 1)
         /\ k < n => Nth(r, i, n) # Nth(r, k + 1, n)
<1> DEFINE j == k + 1
<1>1. j \in 1..(n + 1) /\ i \in 1..(n + 1) /\ j = k + 1
  OBVIOUS
<1> HIDE DEF j
<1>2. /\ Nth(r, i, n) = IF r + i <= n THEN r + i - 1 ELSE r + i - 1 - n
      /\ Nth(r, i, n) \in 0..(n - 1)
  BY <1>1, NthAt
<1>3. Nth(r, j, n) = IF r + j <= n THEN r + j - 1 ELSE r + j - 1 - n
  BY <1>1, NthAt
<1>4. k < n => Nth(r, i, n) # Nth(r, j, n)
  BY <1>1, <1>2, <1>3
<1> QED BY <1>2, <1>4 DEF j

\* The places after one step.
LEMMA NthStep ==
  ASSUME NEW n \in Nat \ {0}, NEW r \in 0..(n - 1), NEW k \in 0..n,
         NEW b, b = Nth(r, 2, n), NEW i \in 1..k
  PROVE  Nth(b, i, n) = Nth(r, i + 1, n)
<1> DEFINE j == i + 1
           e == 2
<1>1. /\ j \in 1..(n + 1) /\ i \in 1..(n + 1) /\ j = i + 1
      /\ e \in 1..(n + 1) /\ e = 2 /\ b = Nth(r, e, n)
  OBVIOUS
<1> HIDE DEF j, e
<1>2. b = (IF r + e <= n THEN r + e - 1 ELSE r + e - 1 - n) /\ b \in 0..(n - 1)
  BY <1>1, NthAt
<1>3. Nth(b, i, n) = IF b + i <= n THEN b + i - 1 ELSE b + i - 1 - n
  BY <1>1, <1>2, NthAt
<1>4. Nth(r, j, n) = IF r + j <= n THEN r + j - 1 ELSE r + j - 1 - n
  BY <1>1, NthAt
<1>5. Nth(b, i, n) = Nth(r, j, n)
  BY <1>1, <1>2, <1>3, <1>4
<1> QED BY <1>5 DEF j

\* The place of writing after a write, a read, and both.
LEMMA NthMoves ==
  ASSUME NEW n \in Nat \ {0}, NEW r \in 0..(n - 1), NEW k \in 0..n,
         NEW w, w = Nth(r, k + 1, n), NEW b, b = Nth(r, 2, n)
  PROVE  /\ w \in 0..(n - 1) /\ b \in 0..(n - 1) /\ Nth(r, 1, n) = r
         /\ k < n => Nth(w, 2, n) = Nth(r, k + 2, n)
         /\ k > 0 => w = Nth(b, k, n)
         /\ k = n => Nth(w, 2, n) = Nth(b, k + 1, n)
<1> DEFINE j == k + 1
           e == 2
           h == k + 2
           o == 1
<1>1. /\ j \in 1..(n + 1) /\ j = k + 1 /\ w = Nth(r, j, n)
      /\ e \in 1..(n + 1) /\ e = 2 /\ b = Nth(r, e, n)
      /\ h = k + 2 /\ (k < n => h \in 1..(n + 1))
      /\ o \in 1..(n + 1) /\ o = 1 /\ (k > 0 => k \in 1..(n + 1))
  OBVIOUS
<1> HIDE DEF j, e, h, o
<1>2. b = (IF r + e <= n THEN r + e - 1 ELSE r + e - 1 - n) /\ b \in 0..(n - 1)
  BY <1>1, NthAt
<1>3. w = (IF r + j <= n THEN r + j - 1 ELSE r + j - 1 - n) /\ w \in 0..(n - 1)
  BY <1>1, NthAt
<1>4. Nth(r, o, n) = IF r + o <= n THEN r + o - 1 ELSE r + o - 1 - n
  BY <1>1, NthAt
<1>5. Nth(w, e, n) = IF w + e <= n THEN w + e - 1 ELSE w + e - 1 - n
  BY <1>1, <1>3, NthAt
<1>6. k < n => Nth(r, h, n) = IF r + h <= n THEN r + h - 1 ELSE r + h - 1 - n
  BY <1>1, NthAt
<1>7. k > 0 => Nth(b, k, n) = IF b + k <= n THEN b + k - 1 ELSE b + k - 1 - n
  BY <1>1, <1>2, NthAt
<1>8. Nth(b, j, n) = IF b + j <= n THEN b + j - 1 ELSE b + j - 1 - n
  BY <1>1, <1>2, NthAt
<1>9. Nth(r, o, n) = r
  BY <1>1, <1>4
<1>10. k < n => Nth(w, e, n) = Nth(r, h, n)
  BY <1>1, <1>3, <1>5, <1>6
<1>11. k > 0 => w = Nth(b, k, n)
  BY <1>1, <1>2, <1>3, <1>7
<1>12. k = n => Nth(w, e, n) = Nth(b, j, n)
  BY <1>1, <1>2, <1>3, <1>5, <1>8
<1> QED BY <1>2, <1>3, <1>9, <1>10, <1>11, <1>12 DEF j, e, h, o

\* A buffer f of n places, with k messages in it from r on.
Buf(V, f, r, k, n) ==
  n \in Nat \ {0} /\ r \in 0..(n - 1) /\ k \in 0..n /\ f \in [0..(n - 1) -> V]

\* A buffer is a sequence of k messages.
LEMMA RingSeq ==
  ASSUME NEW V, NEW f, NEW r, NEW k, NEW n, Buf(V, f, r, k, n)
  PROVE  Ring(f, r, k, n) \in Seq(V) /\ Len(Ring(f, r, k, n)) = k
<1>0. /\ n \in Nat \ {0} /\ r \in 0..(n - 1) /\ k \in 0..n
      /\ f \in [0..(n - 1) -> V]
  BY DEF Buf
<1>1. \A i \in 1..k : f[Nth(r, i, n)] \in V
  <2>1. ASSUME NEW i \in 1..k PROVE f[Nth(r, i, n)] \in V
    <3>1. Nth(r, i, n) \in 0..(n - 1)
      BY <1>0, NthIn
    <3> QED BY <1>0, <3>1
  <2> QED BY <2>1
<1>2. k \in Nat
  BY <1>0
<1> QED BY <1>1, <1>2 DEF Ring

\* The buffer after a write.
Stored(f, w, m) == [f EXCEPT ![w] = m]

\* A write puts one message behind the others.
LEMMA RingWrite ==
  ASSUME NEW V, NEW f, NEW r, NEW k, NEW n, Buf(V, f, r, k, n), NEW m \in V, k < n,
         NEW j, j = k + 1, NEW w, w = Nth(r, j, n), NEW g, g = Stored(f, w, m)
  PROVE  Ring(g, r, j, n) = Append(Ring(f, r, k, n), m)
<1> DEFINE s == Ring(f, r, k, n)
           t == Ring(g, r, j, n)
           u == Append(s, m)
           b == Nth(r, 2, n)
<1>0. /\ n \in Nat \ {0} /\ r \in 0..(n - 1) /\ k \in 0..n
      /\ f \in [0..(n - 1) -> V]
  BY DEF Buf
<1>1. b = Nth(r, 2, n)
  OBVIOUS
<1> HIDE DEF b
<1>2. w \in 0..(n - 1) /\ Nth(r, k + 1, n) = w
  BY <1>0, <1>1, NthMoves
<1>3. g \in [0..(n - 1) -> V] /\ g[w] = m /\ \A x \in 0..(n - 1) : x # w => g[x] = f[x]
  BY <1>0, <1>2 DEF Stored
<1>4. Buf(V, g, r, j, n)
  BY <1>0, <1>3 DEF Buf
<1>5. t \in Seq(V) /\ Len(t) = j
  BY <1>4, RingSeq
<1>6. s \in Seq(V) /\ Len(s) = k
  BY RingSeq
<1>7. ASSUME NEW i \in 1..j PROVE t[i] = g[Nth(r, i, n)]
  BY DEF Ring
<1>8. ASSUME NEW i \in 1..k PROVE s[i] = f[Nth(r, i, n)]
  BY DEF Ring
<1> HIDE DEF s, t
<1>9. u \in Seq(V) /\ Len(u) = k + 1 /\ u[k + 1] = m /\ \A i \in 1..k : u[i] = s[i]
  BY <1>6, AppendProperties
<1> HIDE DEF u
<1>10. ASSUME NEW i \in 1..j PROVE t[i] = u[i]
  <2>1. CASE i = j
    <3>1. t[i] = g[w]
      BY <1>2, <1>7, <2>1
    <3>2. u[i] = m
      BY <1>9, <2>1
    <3> QED BY <1>3, <3>1, <3>2
  <2>2. CASE i # j
    <3>1. i \in 1..k
      BY <1>0, <2>2
    <3> DEFINE x == Nth(r, i, n)
    <3>2. x \in 0..(n - 1) /\ x # w
      BY <1>0, <1>2, <3>1, NthIn
    <3>3. t[i] = g[x] /\ s[i] = f[x]
      BY <1>7, <1>8, <3>1
    <3> HIDE DEF x
    <3> QED BY <1>3, <1>9, <3>1, <3>2, <3>3
  <2> QED BY <2>1, <2>2
<1>11. t = u
  BY <1>5, <1>9, <1>10, SeqEqual
<1> QED BY <1>11 DEF s, t, u

\* A read takes the first message.
LEMMA RingRead ==
  ASSUME NEW V, NEW f, NEW r, NEW k, NEW n, Buf(V, f, r, k, n), k > 0,
         NEW b, b = Nth(r, 2, n), NEW j, j = k - 1
  PROVE  /\ Ring(f, r, k, n) # <<>> /\ Head(Ring(f, r, k, n)) = f[r]
         /\ Ring(f, b, j, n) = Tail(Ring(f, r, k, n))
<1> DEFINE s == Ring(f, r, k, n)
           t == Ring(f, b, j, n)
           u == Tail(s)
           w == Nth(r, k + 1, n)
<1>0. /\ n \in Nat \ {0} /\ r \in 0..(n - 1) /\ k \in 0..n
      /\ f \in [0..(n - 1) -> V]
  BY DEF Buf
<1>1. w = Nth(r, k + 1, n)
  OBVIOUS
<1> HIDE DEF w
<1>2. b \in 0..(n - 1) /\ Nth(r, 1, n) = r
  BY <1>0, <1>1, NthMoves
<1>3. \A i \in 1..j : i \in 1..(k - 1) /\ i + 1 \in 1..k /\ i \in 1..k
  BY <1>0
<1>12. Buf(V, f, b, j, n)
  BY <1>0, <1>2 DEF Buf
<1>4. t \in Seq(V) /\ Len(t) = j
  BY <1>12, RingSeq
<1>5. s \in Seq(V) /\ Len(s) = k
  BY RingSeq
<1>6. ASSUME NEW i \in 1..j PROVE t[i] = f[Nth(b, i, n)]
  BY DEF Ring
<1>7. ASSUME NEW i \in 1..k PROVE s[i] = f[Nth(r, i, n)]
  BY DEF Ring
<1> HIDE DEF s, t
<1>8. s # <<>> /\ Head(s) = f[r]
  <2>1. s # <<>>
    BY <1>5, EmptySeq
  <2>2. s[1] = f[Nth(r, 1, n)]
    BY <1>0, <1>7
  <2> QED BY <1>2, <1>5, <2>1, <2>2
<1>9. u \in Seq(V) /\ Len(u) = k - 1 /\ \A i \in 1..(k - 1) : u[i] = s[i + 1]
  BY <1>5, <1>8, HeadTailProperties
<1> HIDE DEF u
<1>10. ASSUME NEW i \in 1..j PROVE t[i] = u[i]
  <2> DEFINE y == i + 1
  <2>1. y \in 1..k /\ u[i] = s[y]
    BY <1>3, <1>9
  <2>2. i \in 1..k
    BY <1>3
  <2>3. Nth(b, i, n) = Nth(r, y, n)
    BY <1>0, <2>2, NthStep
  <2> HIDE DEF y
  <2>4. s[y] = f[Nth(r, y, n)]
    BY <1>7, <2>1
  <2> QED BY <1>6, <2>1, <2>3, <2>4
<1>11. t = u
  BY <1>4, <1>9, <1>10, SeqEqual
<1> QED BY <1>8, <1>11 DEF s, t, u

\* A read and a write.
LEMMA RingReadWrite ==
  ASSUME NEW V, NEW f, NEW r, NEW n, Buf(V, f, r, n, n), NEW m \in V,
         NEW w, w = Nth(r, n + 1, n), NEW b, b = Nth(r, 2, n),
         NEW g, g = Stored(f, w, m)
  PROVE  /\ Ring(f, r, n, n) # <<>> /\ Head(Ring(f, r, n, n)) = f[r]
         /\ Ring(g, b, n, n) = Append(Tail(Ring(f, r, n, n)), m)
<1> DEFINE k == n
           j == n - 1
<1>0. /\ n \in Nat \ {0} /\ r \in 0..(n - 1) /\ k \in 0..n
      /\ f \in [0..(n - 1) -> V]
  BY DEF Buf
<1>1. k > 0 /\ j < n /\ n = j + 1 /\ j = n - 1 /\ w = Nth(r, k + 1, n)
  BY <1>0
<1>2. b \in 0..(n - 1) /\ w = Nth(b, k, n)
  <2>1. w = Nth(r, k + 1, n) /\ k \in 0..n /\ k > 0
    BY <1>0, <1>1
  <2> HIDE DEF k
  <2> QED BY <1>0, <2>1, NthMoves
<1>3. Buf(V, f, b, j, n)
  BY <1>0, <1>2 DEF Buf
<1>5. /\ Ring(f, r, n, n) # <<>> /\ Head(Ring(f, r, n, n)) = f[r]
      /\ Ring(f, b, j, n) = Tail(Ring(f, r, n, n))
  <2>1. j = n - 1 /\ n > 0
    BY <1>0
  <2> HIDE DEF j
  <2> QED BY <2>1, RingRead
<1>6. Ring(g, b, n, n) = Append(Ring(f, b, j, n), m)
  <2>1. k = j + 1
    BY <1>0
  <2>2. j < n
    BY <1>0
  <2>3. w = Nth(b, k, n)
    BY <1>2
  <2> HIDE DEF j, k
  <2>4. Ring(g, b, k, n) = Append(Ring(f, b, j, n), m)
    BY <1>3, <2>1, <2>2, <2>3, RingWrite
  <2> QED BY <2>4 DEF k
<1> QED BY <1>5, <1>6

-----------------------------------------------------------------------------
(* The processes inside a call. *)

InCall(p) ==
  /\ state[p] = "ENDED" => p \notin stopped
  /\ p \in stopped => call[p] \in {"send", "receive"}
  /\ p \in stopped /\ call[p] = "receive" /\ state[p] # "WAITMSG" /\ ~ hasMsgError[p]
       => message[p] \in Msg
  /\ \A q \in Fid : /\ blockedQueue[p] = <<q, "readers">> => call[p] = "receive"
                    /\ blockedQueue[p] = <<q, "writers">> => call[p] = "send" /\ message[p] \in Msg

\* A dead queue is empty.
DeadEmpty == \A q \in Fid : ~ alive[q] => size[q] = 0 /\ nbMessages[q] = 0

CallInv ==
  /\ stopped \subseteq Proc
  /\ pc = "resumed" => cur \in stopped
  /\ \A p \in Proc : InCall(p)
  /\ DeadEmpty

\* What serving a process changes.
LEMMA ServeEffects ==
  ASSUME WInv, EInv, Ranges, User, NEW p \in Proc, blockedQueue[p] # <<>>,
         NEW c, Serve(p, c)
  PROVE  /\ cur \in Proc /\ p # cur /\ blockedQueue[cur] = <<>>
         /\ cur \notin stopped /\ p \in stopped
         /\ ~ hasMsgError[p] /\ ~ hasMsgError[cur]
         /\ state[p] = "WAITMSG" /\ state[cur] = "CHOSEN"
         /\ stopped' = stopped \cup {cur} /\ pc' = "ordonnance"
         /\ \A r \in Proc : state'[r] = IF r = p THEN "ACTIVABLE" ELSE state[r]
         /\ \A r \in Proc : blockedQueue'[r] = IF r = p THEN <<>> ELSE blockedQueue[r]
         /\ \A r \in Proc : call'[r] = IF r = cur THEN c ELSE call[r]
<1>1. cur \in Proc /\ blockedQueue[cur] = <<>> /\ state[cur] = "CHOSEN"
  BY RunningWaits
<1>2. state[p] = "WAITMSG"
  BY DEF WInv, ListsMatch
<1>3. cur \notin stopped /\ p \in stopped /\ ~ hasMsgError[p] /\ ~ hasMsgError[cur]
  BY <1>1, <1>2 DEF EInv, ErrorIsCurrent, User
<1>4. stopped' = stopped \cup {cur} /\ pc' = "ordonnance"
  BY DEF Serve
<1>5. \A r \in Proc : state'[r] = IF r = p THEN "ACTIVABLE" ELSE state[r]
  BY PidFacts DEF Serve, WInv, SchedInv
<1>6. \A r \in Proc : blockedQueue'[r] = IF r = p THEN <<>> ELSE blockedQueue[r]
  BY ServeStates
<1>7. \A r \in Proc : call'[r] = IF r = cur THEN c ELSE call[r]
  BY DEF Serve, Ranges, FieldsOK
<1> QED BY <1>1, <1>2, <1>3, <1>4, <1>5, <1>6, <1>7

\* What waiting changes.
LEMMA WaitEffects ==
  ASSUME WInv, EInv, Ranges, User, NEW q \in Fid, NEW side \in {"readers", "writers"},
         NEW c, Wait(q, side, c)
  PROVE  /\ cur \in Proc /\ blockedQueue[cur] = <<>> /\ cur \notin stopped
         /\ state[cur] = "CHOSEN"
         /\ stopped' = stopped \cup {cur} /\ pc' = "ordonnance"
         /\ \A r \in Proc : state'[r] = IF r = cur THEN "WAITMSG" ELSE state[r]
         /\ \A r \in Proc : blockedQueue'[r] = IF r = cur THEN <<q, side>> ELSE blockedQueue[r]
         /\ \A r \in Proc : call'[r] = IF r = cur THEN c ELSE call[r]
<1>1. cur \in Proc /\ blockedQueue[cur] = <<>> /\ state[cur] = "CHOSEN"
  BY RunningWaits
<1>2. cur \notin stopped /\ stopped' = stopped \cup {cur} /\ pc' = "ordonnance"
  BY DEF EInv, User, Wait, Block
<1>3. \A r \in Proc : state'[r] = IF r = cur THEN "WAITMSG" ELSE state[r]
  BY WaitStates, PidFacts
<1>4. \A r \in Proc : blockedQueue'[r] = IF r = cur THEN <<q, side>> ELSE blockedQueue[r]
  BY WaitStates
<1>5. \A r \in Proc : call'[r] = IF r = cur THEN c ELSE call[r]
  BY DEF Wait, Ranges, FieldsOK
<1> QED BY <1>1, <1>2, <1>3, <1>4, <1>5

\* What preset and pdelete change.
LEMMA ExpelEffects ==
  ASSUME WInv, EInv, NEW q \in Fid, Expel(q), NEW X, X = Elems(Expelled(q))
  PROVE  /\ X \subseteq Proc
         /\ \A r \in Proc : r \in X <=>
              (blockedQueue[r] = <<q, "readers">> \/ blockedQueue[r] = <<q, "writers">>)
         /\ \A r \in X : state[r] = "WAITMSG" /\ r \in stopped
         /\ \A r \in Proc : state'[r] = IF r \in X THEN "ACTIVABLE" ELSE state[r]
         /\ \A r \in Proc : blockedQueue'[r] = IF r \in X THEN <<>> ELSE blockedQueue[r]
         /\ \A r \in Proc : hasMsgError'[r] <=> r \in X \/ hasMsgError[r]
         /\ UNCHANGED <<stopped, message, received, call, rindex, windex>>
         /\ pc' = "ordonnance" /\ nbMessages' = [nbMessages EXCEPT ![q] = 0]
<1>1. /\ X \subseteq Proc
      /\ \A r \in Proc : r \in X <=>
           (blockedQueue[r] = <<q, "readers">> \/ blockedQueue[r] = <<q, "writers">>)
      /\ \A r \in X : state[r] = "WAITMSG"
  BY ExpelledElems, PidFacts
<1>2. \A r \in X : r \in stopped
  BY <1>1 DEF EInv
<1>3. /\ hasMsgError' = [r \in Proc |-> r \in X \/ hasMsgError[r]]
      /\ blockedQueue' = [r \in Proc |-> IF r \in X THEN <<>> ELSE blockedQueue[r]]
      /\ state' = [r \in Pid |-> IF r \in X THEN "ACTIVABLE" ELSE state[r]]
      /\ UNCHANGED <<stopped, message, received, call, rindex, windex>>
      /\ pc' = "ordonnance" /\ nbMessages' = [nbMessages EXCEPT ![q] = 0]
  BY DEF Expel, Wake
<1>4. \A r \in Proc : state'[r] = IF r \in X THEN "ACTIVABLE" ELSE state[r]
  BY <1>3, PidFacts
<1>5. \A r \in Proc : blockedQueue'[r] = IF r \in X THEN <<>> ELSE blockedQueue[r]
  BY <1>3
<1>6. \A r \in Proc : hasMsgError'[r] <=> r \in X \/ hasMsgError[r]
  BY <1>3
<1> QED BY <1>1, <1>2, <1>3, <1>4, <1>5, <1>6

\* A dead queue stays empty.
LEMMA DeadStep ==
  ASSUME WInv, DeadEmpty, NEW q \in Fid, NEW a \in BOOLEAN, NEW n, NEW m,
         alive' = [alive EXCEPT ![q] = a], size' = [size EXCEPT ![q] = n],
         nbMessages' = [nbMessages EXCEPT ![q] = m], ~ a => n = 0 /\ m = 0
  PROVE  DeadEmpty'
<1>1. \A r \in Fid : /\ alive'[r] = IF r = q THEN a ELSE alive[r]
                     /\ size'[r] = IF r = q THEN n ELSE size[r]
                     /\ nbMessages'[r] = IF r = q THEN m ELSE nbMessages[r]
  BY DEF WInv, WaitTypes
<1> QED BY <1>1 DEF DeadEmpty

\* A step that changes nothing a process in a call depends on, for any but p.
LEMMA InCallKept ==
  ASSUME NEW p \in Proc, InCall(p), state'[p] = state[p], p \in stopped' <=> p \in stopped,
         call'[p] = call[p], hasMsgError'[p] = hasMsgError[p], message'[p] = message[p],
         blockedQueue'[p] = blockedQueue[p]
  PROVE  InCall(p)'
BY DEF InCall

\* psend hands its message over.
LEMMA HandCallInv ==
  ASSUME WInv, EInv, Ranges, CallInv, NEW q \in Fid, NEW m \in Msg, PsendHand(q, m)
  PROVE  CallInv'
<1> DEFINE p == QueueTop(readers[q])
<1>1. /\ User /\ nbReaders[q] # 0 /\ Serve(p, "send") /\ message' = [message EXCEPT ![p] = m]
      /\ UNCHANGED <<alive, size, nbMessages, hasMsgError>>
  BY DEF PsendHand, HasReader, buffer, table
<1>2. p \in Proc /\ blockedQueue[p] = <<q, "readers">>
  BY <1>1, TopWaits
<1> HIDE DEF p
<1>3. blockedQueue[p] # <<>>
  BY <1>2, Pairs
<1>4. /\ cur \in Proc /\ p # cur /\ blockedQueue[cur] = <<>> /\ cur \notin stopped
      /\ state[p] = "WAITMSG" /\ state[cur] = "CHOSEN"
      /\ stopped' = stopped \cup {cur} /\ pc' = "ordonnance"
      /\ \A r \in Proc : state'[r] = IF r = p THEN "ACTIVABLE" ELSE state[r]
      /\ \A r \in Proc : blockedQueue'[r] = IF r = p THEN <<>> ELSE blockedQueue[r]
      /\ \A r \in Proc : call'[r] = IF r = cur THEN "send" ELSE call[r]
  BY <1>1, <1>2, <1>3, ServeEffects
<1>5. \A r \in Proc : message'[r] = IF r = p THEN m ELSE message[r]
  BY <1>1 DEF Ranges, FieldsOK
<1>6. ASSUME NEW r \in Proc PROVE InCall(r)'
  <2>1. InCall(r)
    BY DEF CallInv
  <2>2. CASE r = p
    <3>1. state'[r] = "ACTIVABLE" /\ call'[r] = call[r] /\ message'[r] = m
          /\ blockedQueue'[r] = <<>> /\ (r \in stopped' <=> r \in stopped)
      BY <1>2, <1>4, <1>5, <2>2
    <3> QED BY <2>1, <3>1, Pairs DEF InCall
  <2>3. CASE r = cur
    <3>1. state'[r] = "CHOSEN" /\ call'[r] = "send" /\ blockedQueue'[r] = <<>>
      BY <1>4, <2>3
    <3> QED BY <3>1, Pairs DEF InCall
  <2>4. CASE r # p /\ r # cur
    <3>1. /\ state'[r] = state[r] /\ call'[r] = call[r] /\ message'[r] = message[r]
          /\ blockedQueue'[r] = blockedQueue[r] /\ (r \in stopped' <=> r \in stopped)
          /\ hasMsgError'[r] = hasMsgError[r]
      BY <1>1, <1>4, <1>5, <2>4
    <3> QED BY <2>1, <3>1, InCallKept
  <2> QED BY <2>2, <2>3, <2>4
<1>7. DeadEmpty'
  BY <1>1 DEF CallInv, DeadEmpty
<1> QED BY <1>4, <1>6, <1>7 DEF CallInv

\* psend and preceive wait.
LEMMA WaitCallInv ==
  ASSUME WInv, EInv, Ranges, CallInv, User, NEW q \in Fid,
         NEW side \in {"readers", "writers"}, NEW c, Wait(q, side, c),
         UNCHANGED <<alive, size, nbMessages, hasMsgError>>,
         \A r \in Proc : r # cur => message'[r] = message[r],
         \/ side = "readers" /\ c = "receive"
         \/ side = "writers" /\ c = "send" /\ message'[cur] \in Msg
  PROVE  CallInv'
<1>1. /\ cur \in Proc /\ blockedQueue[cur] = <<>> /\ cur \notin stopped
      /\ stopped' = stopped \cup {cur} /\ pc' = "ordonnance"
      /\ \A r \in Proc : state'[r] = IF r = cur THEN "WAITMSG" ELSE state[r]
      /\ \A r \in Proc : blockedQueue'[r] = IF r = cur THEN <<q, side>> ELSE blockedQueue[r]
      /\ \A r \in Proc : call'[r] = IF r = cur THEN c ELSE call[r]
  BY WaitEffects
<1>2. ASSUME NEW r \in Proc PROVE InCall(r)'
  <2>1. CASE r = cur
    <3>1. state'[r] = "WAITMSG" /\ blockedQueue'[r] = <<q, side>> /\ call'[r] = c
          /\ message'[r] = message'[cur]
      BY <1>1, <2>1
    <3>2. CASE side = "readers" /\ c = "receive"
      BY <3>1, <3>2, Pairs DEF InCall
    <3>3. CASE side = "writers" /\ c = "send" /\ message'[cur] \in Msg
      BY <3>1, <3>3, Pairs DEF InCall
    <3> QED BY <3>2, <3>3
  <2>2. CASE r # cur
    <3>1. /\ state'[r] = state[r] /\ call'[r] = call[r] /\ message'[r] = message[r]
          /\ blockedQueue'[r] = blockedQueue[r] /\ (r \in stopped' <=> r \in stopped)
          /\ hasMsgError'[r] = hasMsgError[r] /\ InCall(r)
      BY <1>1, <2>2 DEF CallInv
    <3> QED BY <3>1, InCallKept
  <2> QED BY <2>1, <2>2
<1>3. DeadEmpty'
  BY DEF CallInv, DeadEmpty
<1> QED BY <1>1, <1>2, <1>3 DEF CallInv

\* preceive lets a sender in.
LEMMA LetInCallInv ==
  ASSUME WInv, EInv, Ranges, CallInv, NEW q \in Fid, NEW ptr, PreceiveLetIn(q, ptr)
  PROVE  CallInv'
<1> DEFINE p == QueueTop(writers[q])
<1>1. /\ User /\ alive[q] /\ nbWriters[q] # 0 /\ Serve(p, "send") /\ UNCHANGED message
      /\ UNCHANGED <<alive, size, hasMsgError>>
      /\ \E k : nbMessages' = [nbMessages EXCEPT ![q] = k]
  BY DEF PreceiveLetIn, LetsIn, LetIn, Write, table
<1>2. p \in Proc /\ blockedQueue[p] = <<q, "writers">>
  BY <1>1, TopWaits
<1> HIDE DEF p
<1>3. blockedQueue[p] # <<>>
  BY <1>2, Pairs
<1>4. /\ cur \in Proc /\ p # cur /\ blockedQueue[cur] = <<>> /\ cur \notin stopped
      /\ state[p] = "WAITMSG" /\ state[cur] = "CHOSEN"
      /\ stopped' = stopped \cup {cur} /\ pc' = "ordonnance"
      /\ \A r \in Proc : state'[r] = IF r = p THEN "ACTIVABLE" ELSE state[r]
      /\ \A r \in Proc : blockedQueue'[r] = IF r = p THEN <<>> ELSE blockedQueue[r]
      /\ \A r \in Proc : call'[r] = IF r = cur THEN "send" ELSE call[r]
  BY <1>1, <1>2, <1>3, ServeEffects
<1>5. ASSUME NEW r \in Proc PROVE InCall(r)'
  <2>1. InCall(r)
    BY DEF CallInv
  <2>2. CASE r = p
    <3>1. state'[r] = "ACTIVABLE" /\ call'[r] = "send" /\ blockedQueue'[r] = <<>>
      BY <1>2, <1>4, <2>1, <2>2 DEF InCall
    <3> QED BY <3>1, Pairs DEF InCall
  <2>3. CASE r = cur
    <3>1. state'[r] = "CHOSEN" /\ call'[r] = "send" /\ blockedQueue'[r] = <<>>
      BY <1>4, <2>3
    <3> QED BY <3>1, Pairs DEF InCall
  <2>4. CASE r # p /\ r # cur
    <3>1. /\ state'[r] = state[r] /\ call'[r] = call[r] /\ message'[r] = message[r]
          /\ blockedQueue'[r] = blockedQueue[r] /\ (r \in stopped' <=> r \in stopped)
          /\ hasMsgError'[r] = hasMsgError[r]
      BY <1>1, <1>4, <2>4
    <3> QED BY <2>1, <3>1, InCallKept
  <2> QED BY <2>2, <2>3, <2>4
<1>6. DeadEmpty'
  <2>1. \A r \in Fid : r # q => nbMessages'[r] = nbMessages[r]
    BY <1>1 DEF WInv, WaitTypes
  <2> QED BY <1>1, <2>1 DEF CallInv, DeadEmpty
<1> QED BY <1>4, <1>5, <1>6 DEF CallInv

\* preset and pdelete.
LEMMA ExpelCallInv ==
  ASSUME WInv, EInv, CallInv, NEW q \in Fid, Expel(q),
         \/ UNCHANGED <<alive, size>> /\ alive[q]
         \/ alive' = [alive EXCEPT ![q] = FALSE] /\ size' = [size EXCEPT ![q] = 0]
  PROVE  CallInv'
<1> DEFINE X == Elems(Expelled(q))
<1>1. X = Elems(Expelled(q))
  OBVIOUS
<1> HIDE DEF X
<1>2. /\ X \subseteq Proc
      /\ \A r \in X : state[r] = "WAITMSG" /\ r \in stopped
      /\ \A r \in Proc : state'[r] = IF r \in X THEN "ACTIVABLE" ELSE state[r]
      /\ \A r \in Proc : blockedQueue'[r] = IF r \in X THEN <<>> ELSE blockedQueue[r]
      /\ \A r \in Proc : hasMsgError'[r] <=> r \in X \/ hasMsgError[r]
      /\ UNCHANGED <<stopped, message, received, call, rindex, windex>>
      /\ pc' = "ordonnance" /\ nbMessages' = [nbMessages EXCEPT ![q] = 0]
  BY <1>1, ExpelEffects
<1>3. ASSUME NEW r \in Proc PROVE InCall(r)'
  <2>1. InCall(r)
    BY DEF CallInv
  <2>2. CASE r \in X
    <3>1. /\ state'[r] = "ACTIVABLE" /\ blockedQueue'[r] = <<>> /\ hasMsgError'[r]
          /\ call'[r] = call[r] /\ r \in stopped
      BY <1>2, <2>2
    <3> QED BY <2>1, <3>1, Pairs DEF InCall
  <2>3. CASE r \notin X
    <3>1. /\ state'[r] = state[r] /\ call'[r] = call[r] /\ message'[r] = message[r]
          /\ blockedQueue'[r] = blockedQueue[r] /\ (r \in stopped' <=> r \in stopped)
          /\ hasMsgError'[r] <=> hasMsgError[r]
      BY <1>2, <2>3
    <3> QED BY <2>1, <3>1 DEF InCall
  <2> QED BY <2>2, <2>3
<1>4. DeadEmpty'
  <2> DEFINE z == 0
             f == FALSE
  <2>1. nbMessages' = [nbMessages EXCEPT ![q] = z] /\ z = 0 /\ f \in BOOLEAN
    BY <1>2
  <2>2. CASE UNCHANGED <<alive, size>> /\ alive[q]
    <3>1. \A r \in Fid : nbMessages'[r] = IF r = q THEN z ELSE nbMessages[r]
      BY <2>1 DEF WInv, WaitTypes
    <3> QED BY <2>1, <2>2, <3>1 DEF CallInv, DeadEmpty
  <2>3. CASE alive' = [alive EXCEPT ![q] = FALSE] /\ size' = [size EXCEPT ![q] = 0]
    <3>1. alive' = [alive EXCEPT ![q] = f] /\ size' = [size EXCEPT ![q] = z]
      BY <2>3
    <3> HIDE DEF f, z
    <3> QED BY <2>1, <3>1, DeadStep DEF CallInv
  <2> QED BY <2>2, <2>3
<1> QED BY <1>2, <1>3, <1>4 DEF CallInv

\* Every step keeps this, when preceive always has a pointer.
LEMMA NextCallInv ==
  ASSUME WInv, TInv, EInv, Ranges, CallInv, Receivers \subseteq {TRUE}, [Next]_vars
  PROVE  CallInv'
<1>1. ASSUME NEW n \in Sizes, Pcreate(n) PROVE CallInv'
  <2> DEFINE q == NewFid
             t == TRUE
             z == 0
  <2>1. /\ alive' = [alive EXCEPT ![q] = t] /\ size' = [size EXCEPT ![q] = n]
        /\ nbMessages' = [nbMessages EXCEPT ![q] = z] /\ t \in BOOLEAN /\ t
        /\ UNCHANGED <<state, stopped, pc, cur, blockedQueue, message, hasMsgError, call>>
    BY <1>1 DEF Pcreate, Opened, sched, mine
  <2>2. q \in Fid
    BY <1>1, NewFidFree
  <2> HIDE DEF q, t, z
  <2>3. DeadEmpty'
    BY <2>1, <2>2, DeadStep DEF CallInv
  <2> QED BY <2>1, <2>3 DEF CallInv, InCall
<1>2. ASSUME NEW q \in Fid, Preset(q) \/ Pdelete(q) PROVE CallInv'
  <2>1. Expel(q) /\ \/ UNCHANGED <<alive, size>> /\ alive[q]
                    \/ alive' = [alive EXCEPT ![q] = FALSE] /\ size' = [size EXCEPT ![q] = 0]
    BY <1>2 DEF Preset, Pdelete, table
  <2> QED BY <2>1, ExpelCallInv
<1>3. ASSUME NEW q \in Fid, NEW m \in Msg, PsendHand(q, m) PROVE CallInv'
  BY <1>3, HandCallInv
<1>4. ASSUME NEW q \in Fid, NEW m \in Msg, PsendBlock(q, m) PROVE CallInv'
  <2> DEFINE side == "writers"
             c == "send"
  <2>1. /\ User /\ Wait(q, side, c) /\ UNCHANGED <<alive, size, nbMessages, hasMsgError>>
        /\ message' = [message EXCEPT ![cur] = m]
    BY <1>4 DEF PsendBlock, buffer, table
  <2>2. \A r \in Proc : message'[r] = IF r = cur THEN m ELSE message[r]
    BY <2>1 DEF Ranges, FieldsOK
  <2>3. cur \in Proc
    BY <2>1, RunningWaits
  <2>4. /\ side \in {"readers", "writers"} /\ side = "writers" /\ c = "send"
        /\ message'[cur] \in Msg /\ \A r \in Proc : r # cur => message'[r] = message[r]
    BY <2>2, <2>3
  <2> HIDE DEF side, c
  <2> QED BY <2>1, <2>4, WaitCallInv
<1>5. ASSUME NEW q \in Fid, NEW m \in Msg, PsendWrite(q, m) PROVE CallInv'
  <2>1. /\ alive[q] /\ UNCHANGED <<alive, size, sched, blockedQueue, mine>>
        /\ \E k : nbMessages' = [nbMessages EXCEPT ![q] = k]
    BY <1>5 DEF PsendWrite, Write, waits, table
  <2>2. \A r \in Fid : r # q => nbMessages'[r] = nbMessages[r]
    BY <2>1 DEF WInv, WaitTypes
  <2> QED BY <2>1, <2>2 DEF CallInv, InCall, DeadEmpty, sched, mine
<1>6. ASSUME NEW q \in Fid, NEW ptr \in Receivers, PreceiveBlock(q, ptr) PROVE CallInv'
  <2> DEFINE side == "readers"
             c == "receive"
  <2>1. /\ User /\ Wait(q, side, c)
        /\ UNCHANGED <<alive, size, nbMessages, hasMsgError, message>>
    <3>1. ptr
      OBVIOUS
    <3> QED BY <1>6, <3>1 DEF PreceiveBlock, buffer, table
  <2>2. /\ side \in {"readers", "writers"} /\ side = "readers" /\ c = "receive"
        /\ \A r \in Proc : r # cur => message'[r] = message[r]
    BY <2>1
  <2> HIDE DEF side, c
  <2> QED BY <2>1, <2>2, WaitCallInv
<1>7. ASSUME NEW q \in Fid, NEW ptr \in Receivers, Preceive(q, ptr) PROVE CallInv'
  <2>1. /\ alive[q] /\ UNCHANGED <<alive, size, sched, blockedQueue, message, hasMsgError, call>>
        /\ \E k : nbMessages' = [nbMessages EXCEPT ![q] = k]
    BY <1>7 DEF Preceive, waits, table
  <2>2. \A r \in Fid : r # q => nbMessages'[r] = nbMessages[r]
    BY <2>1 DEF WInv, WaitTypes
  <2> QED BY <2>1, <2>2 DEF CallInv, InCall, DeadEmpty, sched
<1>8. ASSUME NEW q \in Fid, NEW ptr \in Receivers, PreceiveLetIn(q, ptr) PROVE CallInv'
  BY <1>8, LetInCallInv
<1>9. ASSUME Resume PROVE CallInv'
  <2>1. /\ stopped' = stopped \ {cur} /\ pc' = "user"
        /\ UNCHANGED <<state, cur, alive, size, nbMessages, blockedQueue, message>>
        /\ hasMsgError' = [hasMsgError EXCEPT ![cur] = FALSE]
        /\ call' = [call EXCEPT ![cur] = "none"] /\ pc = "resumed"
    BY <1>9 DEF Resume, Returned, CheckErrors, buffer, waits, table
  <2>2. state[cur] = "CHOSEN" /\ cur \in Proc
    BY <2>1 DEF WInv, SchedInv, CallInv
  <2>3. blockedQueue[cur] = <<>>
    BY <2>2 DEF WInv, ListsMatch
  <2>4. ASSUME NEW r \in Proc PROVE InCall(r)'
    <3>1. InCall(r)
      BY DEF CallInv
    <3>2. CASE r = cur
      <4>1. r \notin stopped' /\ blockedQueue'[r] = <<>>
        BY <2>1, <2>3, <3>2
      <4> QED BY <4>1, Pairs DEF InCall
    <3>3. CASE r # cur
      <4>1. call'[r] = call[r] /\ hasMsgError'[r] = hasMsgError[r]
        BY <2>1, <2>2, <3>3 DEF Ranges, FieldsOK, EInv
      <4> QED BY <2>1, <3>1, <3>3, <4>1 DEF InCall
    <3> QED BY <3>2, <3>3
  <2> QED BY <2>1, <2>4 DEF CallInv, DeadEmpty
<1>10. ASSUME NEW p \in Proc, Kill(p) PROVE CallInv'
  <2>1. /\ stopped' = stopped \ {p} /\ pc' \in {"user", "ordonnance"}
        /\ \A r \in Proc : state'[r] = IF r = p THEN "ENDED" ELSE state[r]
        /\ UNCHANGED <<alive, size, nbMessages, message, hasMsgError>>
        /\ \A r \in Proc : call'[r] = IF r = p THEN "none" ELSE call[r]
        /\ \A r \in Proc : blockedQueue'[r] = IF r = p THEN <<>> ELSE blockedQueue[r]
    BY <1>10, PidFacts DEF Kill, Ended, buffer, table, WInv, SchedInv, WaitTypes, Ranges, FieldsOK
  <2>2. ASSUME NEW r \in Proc PROVE InCall(r)'
    <3>1. InCall(r)
      BY DEF CallInv
    <3>2. CASE r = p
      <4>1. r \notin stopped' /\ blockedQueue'[r] = <<>>
        BY <2>1, <3>2
      <4> QED BY <4>1, Pairs DEF InCall
    <3>3. CASE r # p
      BY <2>1, <3>1, <3>3 DEF InCall
    <3> QED BY <3>2, <3>3
  <2> QED BY <2>1, <2>2 DEF CallInv, DeadEmpty
<1>11. ASSUME NEW p \in Proc, NEW n \in Prio, Start(p, n) PROVE CallInv'
  <2>1. /\ UNCHANGED <<stopped, alive, size, nbMessages, call, blockedQueue>>
        /\ pc' \in {"user", "ordonnance"} /\ state[p] = "ENDED"
        /\ \A r \in Proc : state'[r] = IF r = p THEN "ACTIVABLE" ELSE state[r]
        /\ \A r \in Proc : r # p => message'[r] = message[r] /\ hasMsgError'[r] = hasMsgError[r]
    BY <1>11, PidFacts DEF Start, Started, buffer, waits, table, WInv, SchedInv, Ranges, FieldsOK, EInv
  <2>2. p \notin stopped /\ blockedQueue[p] = <<>>
    BY <2>1 DEF CallInv, InCall, WInv, ListsMatch
  <2>3. ASSUME NEW r \in Proc PROVE InCall(r)'
    <3>1. InCall(r)
      BY DEF CallInv
    <3>2. CASE r = p
      <4>1. r \notin stopped' /\ blockedQueue'[r] = <<>>
        BY <2>1, <2>2, <3>2
      <4> QED BY <4>1, Pairs DEF InCall
    <3>3. CASE r # p
      BY <2>1, <3>1, <3>3 DEF InCall
    <3> QED BY <3>2, <3>3
  <2> QED BY <2>1, <2>3 DEF CallInv, DeadEmpty
<1>12. ASSUME \/ PcreateNoMemory \/ Tick \/ UNCHANGED vars
              \/ \E p \in Proc, n \in Prio : Chprio(p, n)
       PROVE  CallInv'
  <2>1. /\ UNCHANGED <<state, stopped, cur, alive, size, nbMessages, blockedQueue,
                       message, hasMsgError, call>>
        /\ UNCHANGED pc \/ pc' \in {"user", "ordonnance"}
    BY <1>12 DEF PcreateNoMemory, Tick, Preempted, Chprio, Repriorised, vars,
                 sched, buffer, waits, table, mine
  <2> QED BY <2>1 DEF CallInv, InCall, DeadEmpty
<1>13. ASSUME Ordonnance PROVE CallInv'
  <2>1. /\ \A p \in Pid : state[p] \notin {"CHOSEN", "ACTIVABLE"} => state'[p] = state[p]
        /\ \A p \in Pid : state[p] \in {"CHOSEN", "ACTIVABLE"} =>
                            state'[p] \in {"CHOSEN", "ACTIVABLE"}
    BY <1>13, ElectedSched DEF WInv, Ordonnance
  <2>2. /\ pc' = IF cur' \in stopped THEN "resumed" ELSE "user"
        /\ UNCHANGED <<stopped, alive, size, nbMessages, blockedQueue, message,
                       hasMsgError, call>>
    BY <1>13 DEF Ordonnance, Elected, buffer, waits, table, mine
  <2>3. \A p \in Proc : /\ state'[p] = "WAITMSG" <=> state[p] = "WAITMSG"
                        /\ state'[p] = "ENDED" <=> state[p] = "ENDED"
    BY <2>1, PidFacts
  <2>4. ASSUME NEW r \in Proc PROVE InCall(r)'
    <3>1. InCall(r)
      BY DEF CallInv
    <3> QED BY <2>2, <2>3, <3>1 DEF InCall
  <2> QED BY <2>2, <2>4 DEF CallInv, DeadEmpty
<1>14. ResetIds \subseteq Fid
  BY MessageAssumption DEF Fid
<1> QED BY <1>1, <1>2, <1>3, <1>4, <1>5, <1>6, <1>7, <1>8, <1>9, <1>10, <1>11, <1>12, <1>13, <1>14
        DEF Next

-----------------------------------------------------------------------------
(* The indices and the number of messages.                                 *)

Agree(q) == alive[q] => windex[q] = Nth(rindex[q], nbMessages[q] + 1, size[q])
Indices == \A q \in Fid : Agree(q)

\* This is IndicesAgree.
LEMMA AgreeIs == WInv /\ Ranges => (Indices <=> IndicesAgree)
<1> SUFFICES ASSUME WInv, Ranges PROVE Indices <=> IndicesAgree
  OBVIOUS
<1>1. ASSUME NEW q \in Fid
      PROVE  Nth(rindex[q], nbMessages[q] + 1, size[q]) = (rindex[q] + nbMessages[q]) % size[q]
  <2>1. rindex[q] \in Int /\ nbMessages[q] \in Int
    BY DEF WInv, WaitTypes, Ranges
  <2>2. rindex[q] + (nbMessages[q] + 1) - 1 = rindex[q] + nbMessages[q]
    BY <2>1
  <2> QED BY <2>2 DEF Nth
<1> QED BY <1>1 DEF Indices, Agree, IndicesAgree

\* A step on one queue.
LEMMA AgreeStep ==
  ASSUME WInv, Ranges, Indices, NEW q \in Fid, Agree(q)',
         \A r \in Fid : r # q => /\ alive'[r] = alive[r] /\ windex'[r] = windex[r]
                                 /\ rindex'[r] = rindex[r] /\ size'[r] = size[r]
                                 /\ nbMessages'[r] = nbMessages[r]
  PROVE  Indices'
<1>1. ASSUME NEW r \in Fid, r # q PROVE Agree(r)'
  BY <1>1 DEF Indices, Agree
<1> QED BY <1>1 DEF Indices

\* write_message, behind what nb_messages tells.
LEMMA WriteAgrees ==
  ASSUME WInv, Ranges, Indices, NEW q \in Fid, NEW m, alive[q], nbMessages[q] < size[q],
         Write(q, m, nbMessages[q]), UNCHANGED <<alive, rindex, size>>
  PROVE  Indices'
<1> DEFINE n == size[q]
           r == rindex[q]
           k == nbMessages[q]
           w == windex[q]
           b == Nth(r, 2, n)
<1>1. n \in Nat \ {0} /\ r \in 0..(n - 1) /\ k \in 0..n /\ w \in 0..(n - 1) /\ k < n
  BY LiveBuffer
<1>2. w = Nth(r, k + 1, n) /\ b = Nth(r, 2, n)
  BY DEF Indices, Agree
<1>3. /\ \A x \in Fid : windex'[x] = IF x = q THEN (w + 1) % n ELSE windex[x]
      /\ \A x \in Fid : nbMessages'[x] = IF x = q THEN k + 1 ELSE nbMessages[x]
  BY DEF Write, WInv, WaitTypes, Ranges
<1>7. rindex'[q] = r /\ size'[q] = n
  OBVIOUS
<1> HIDE DEF n, r, k, w, b
<1>4. Nth(w, 2, n) = Nth(r, k + 2, n)
  BY <1>1, <1>2, NthMoves
<1>5. Nth(w, 2, n) = (w + 1) % n
  <2>1. w + 2 - 1 = w + 1
    BY <1>1
  <2> QED BY <2>1 DEF Nth
<1>6. k + 1 + 1 = k + 2
  BY <1>1
<1>8. Agree(q)'
  BY <1>3, <1>4, <1>5, <1>6, <1>7 DEF Agree
<1> QED BY <1>3, <1>8, AgreeStep

\* preceive with a pointer.
LEMMA ReadAgrees ==
  ASSUME WInv, Ranges, Indices, NEW q \in Fid, alive[q], nbMessages[q] # 0,
         Read(q, TRUE), nbMessages' = [nbMessages EXCEPT ![q] = @ - 1],
         UNCHANGED <<alive, windex, size>>
  PROVE  Indices'
<1> DEFINE n == size[q]
           r == rindex[q]
           k == nbMessages[q]
           w == windex[q]
           b == Nth(r, 2, n)
<1>1. n \in Nat \ {0} /\ r \in 0..(n - 1) /\ k \in 0..n /\ w \in 0..(n - 1) /\ k > 0
  BY LiveBuffer
<1>2. w = Nth(r, k + 1, n) /\ b = Nth(r, 2, n)
  BY DEF Indices, Agree
<1>3. /\ \A x \in Fid : rindex'[x] = IF x = q THEN (r + 1) % n ELSE rindex[x]
      /\ \A x \in Fid : nbMessages'[x] = IF x = q THEN k - 1 ELSE nbMessages[x]
  BY DEF Read, WInv, WaitTypes, Ranges
<1>7. windex'[q] = w /\ size'[q] = n
  OBVIOUS
<1> HIDE DEF n, r, k, w
<1>5. b = (r + 1) % n
  <2>1. r + 2 - 1 = r + 1
    BY <1>1
  <2> QED BY <2>1 DEF Nth, b
<1> HIDE DEF b
<1>4. w = Nth(b, k, n)
  BY <1>1, <1>2, NthMoves
<1>6. k - 1 + 1 = k
  BY <1>1
<1>8. Agree(q)'
  BY <1>3, <1>4, <1>5, <1>6, <1>7 DEF Agree
<1> QED BY <1>3, <1>8, AgreeStep

\* preceive of a full buffer, which a sender writes on.
LEMMA LetInAgrees ==
  ASSUME WInv, Ranges, Indices, NEW q \in Fid, PreceiveLetIn(q, TRUE)
  PROVE  Indices'
<1> DEFINE n == size[q]
           r == rindex[q]
           k == nbMessages[q]
           w == windex[q]
           b == Nth(r, 2, n)
<1>0. /\ alive[q] /\ k = n /\ UNCHANGED <<alive, size>> /\ Read(q, TRUE)
      /\ windex' = [windex EXCEPT ![q] = (@ + 1) % size[q]]
      /\ nbMessages' = [nbMessages EXCEPT ![q] = (nbMessages[q] - 1) + 1]
  BY DEF PreceiveLetIn, LetsIn, Write, table
<1>1. n \in Nat \ {0} /\ r \in 0..(n - 1) /\ k \in 0..n /\ w \in 0..(n - 1) /\ k > 0
  BY <1>0, LiveBuffer
<1>2. w = Nth(r, k + 1, n) /\ b = Nth(r, 2, n)
  BY <1>0 DEF Indices, Agree
<1>3. /\ \A x \in Fid : rindex'[x] = IF x = q THEN (r + 1) % n ELSE rindex[x]
      /\ \A x \in Fid : windex'[x] = IF x = q THEN (w + 1) % n ELSE windex[x]
      /\ \A x \in Fid : nbMessages'[x] = IF x = q THEN (k - 1) + 1 ELSE nbMessages[x]
  BY <1>0 DEF Read, WInv, WaitTypes, Ranges
<1>7. size'[q] = n
  BY <1>0
<1> HIDE DEF n, r, k, w
<1>5. b = (r + 1) % n
  <2>1. r + 2 - 1 = r + 1
    BY <1>1
  <2> QED BY <2>1 DEF Nth, b
<1>9. Nth(w, 2, n) = (w + 1) % n
  <2>1. w + 2 - 1 = w + 1
    BY <1>1
  <2> QED BY <2>1 DEF Nth
<1> HIDE DEF b
<1>4. Nth(w, 2, n) = Nth(b, k + 1, n)
  <2>1. k = n
    BY <1>0 DEF k, n
  <2> QED BY <1>1, <1>2, <2>1, NthMoves
<1>6. (k - 1) + 1 = k
  BY <1>1
<1>8. Agree(q)'
  BY <1>3, <1>4, <1>5, <1>6, <1>7, <1>9 DEF Agree
<1> QED BY <1>0, <1>3, <1>8, AgreeStep

\* Every step keeps this, without preset and null pointers.
LEMMA NextIndices ==
  ASSUME WInv, TInv, Ranges, Indices, ResetIds = {}, Receivers \subseteq {TRUE}, [Next]_vars
  PROVE  Indices'
<1>1. ASSUME NEW n \in Sizes, Pcreate(n) PROVE Indices'
  <2>2. PICK q \in Fid : q = NewFid
    BY <1>1, NewFidFree
  <2> DEFINE z == 0
             t == TRUE
  <2>1. /\ alive' = [alive EXCEPT ![q] = t] /\ size' = [size EXCEPT ![q] = n]
        /\ nbMessages' = [nbMessages EXCEPT ![q] = z]
        /\ rindex' = [rindex EXCEPT ![q] = z] /\ windex' = [windex EXCEPT ![q] = z]
    BY <1>1, <2>2 DEF Pcreate, Opened
  <2>3. z = 0
    OBVIOUS
  <2> HIDE DEF t, z
  <2>4. \A r \in Fid : /\ alive'[r] = IF r = q THEN t ELSE alive[r]
                       /\ size'[r] = IF r = q THEN n ELSE size[r]
                       /\ nbMessages'[r] = IF r = q THEN z ELSE nbMessages[r]
                       /\ rindex'[r] = IF r = q THEN z ELSE rindex[r]
                       /\ windex'[r] = IF r = q THEN z ELSE windex[r]
    BY <2>1, <2>2 DEF WInv, WaitTypes, Ranges
  <2>5. Nth(z, z + 1, n) = z
    <3>1. n \in Nat \ {0} /\ z \in 0..(n - 1) /\ z \in 0..n
      BY <2>3, MessageAssumption
    <3> DEFINE w == Nth(z, z + 1, n)
               b == Nth(z, 2, n)
    <3>2. w = Nth(z, z + 1, n) /\ b = Nth(z, 2, n)
      OBVIOUS
    <3>4. Nth(z, z + 1, n) = Nth(z, 1, n)
      BY <2>3
    <3> HIDE DEF w, b
    <3>3. Nth(z, 1, n) = z
      BY <3>1, <3>2, NthMoves
    <3> QED BY <3>3, <3>4
  <2>6. Agree(q)'
    BY <2>2, <2>4, <2>5 DEF Agree
  <2> QED BY <2>2, <2>4, <2>6, AgreeStep
<1>2. ASSUME NEW q \in Fid, Pdelete(q) PROVE Indices'
  <2>1. /\ alive' = [alive EXCEPT ![q] = FALSE] /\ size' = [size EXCEPT ![q] = 0]
        /\ nbMessages' = [nbMessages EXCEPT ![q] = 0] /\ UNCHANGED <<rindex, windex>>
    BY <1>2 DEF Pdelete, Expel
  <2>2. ~ alive'[q]
    BY <2>1 DEF WInv, WaitTypes
  <2>3. Agree(q)'
    BY <2>2 DEF Agree
  <2> QED BY <2>1, <2>3, AgreeStep DEF WInv, WaitTypes
<1>3. ASSUME NEW q \in Fid, NEW m \in Msg, PsendWrite(q, m) PROVE Indices'
  <2>1. /\ alive[q] /\ nbMessages[q] # size[q] /\ Write(q, m, nbMessages[q])
        /\ UNCHANGED <<alive, rindex, size>>
    BY <1>3 DEF PsendWrite, table
  <2>2. nbMessages[q] < size[q]
    BY <2>1, LiveBuffer
  <2> QED BY <2>1, <2>2, WriteAgrees
<1>4. ASSUME NEW q \in Fid, NEW ptr \in Receivers, Preceive(q, ptr) PROVE Indices'
  <2>1. /\ alive[q] /\ nbMessages[q] # 0 /\ Read(q, TRUE)
        /\ nbMessages' = [nbMessages EXCEPT ![q] = @ - 1]
        /\ UNCHANGED <<alive, windex, size>>
    BY <1>4 DEF Preceive, Read, table
  <2> QED BY <2>1, ReadAgrees
<1>5. ASSUME NEW q \in Fid, NEW ptr \in Receivers, PreceiveLetIn(q, ptr) PROVE Indices'
  <2>1. PreceiveLetIn(q, TRUE)
    BY <1>5 DEF PreceiveLetIn, Read
  <2> QED BY <2>1, LetInAgrees
<1>6. ASSUME \/ PcreateNoMemory \/ Tick \/ Ordonnance \/ Resume \/ UNCHANGED vars
             \/ \E q \in Fid, m \in Msg : PsendHand(q, m) \/ PsendBlock(q, m)
             \/ \E q \in Fid, ptr \in Receivers : PreceiveBlock(q, ptr)
             \/ \E p \in Proc : Kill(p)
             \/ \E p \in Proc, n \in Prio : Start(p, n) \/ Chprio(p, n)
      PROVE  Indices'
  <2>1. UNCHANGED <<alive, rindex, windex, size, nbMessages>>
    BY <1>6 DEF PcreateNoMemory, Tick, Ordonnance, Resume, vars, PsendHand, PsendBlock,
                PreceiveBlock, Kill, Start, Chprio, buffer, table
  <2> QED BY <2>1 DEF Indices, Agree
<1> QED BY <1>1, <1>2, <1>3, <1>4, <1>5, <1>6 DEF Next

\* Without preset, and when every preceive has a pointer, the indices of a
\* queue and its number of messages agree, whoever sends, receives, waits,
\* is killed or is woken by pdelete.
THEOREM IndicesHold == ResetIds = {} /\ Receivers \subseteq {TRUE} /\ Spec => []IndicesAgree
<1> SUFFICES ASSUME ResetIds = {}, Receivers \subseteq {TRUE} PROVE Spec => []IndicesAgree
  OBVIOUS
<1>1. Init => Indices
  BY DEF Init, Indices, Agree
<1>2. WInv /\ TInv /\ Ranges /\ Indices /\ [Next]_vars => Indices'
  BY NextIndices
<1>3. WInv /\ Ranges /\ Indices => IndicesAgree
  BY AgreeIs
<1> QED BY <1>1, <1>2, <1>3, Invariant, PTL DEF Spec

-----------------------------------------------------------------------------
(* The queues as module MessageContract sees them.                         *)

Content == [q \in Fid |-> Ring(messages[q], rindex[q], nbMessages[q], size[q])]

\* What a process waits for, from its blocked_queue and its message.
WantOf(b, m) == IF b = <<>> THEN <<>>
                ELSE IF b[2] = "readers" THEN <<"get", b[1]>> ELSE <<"put", b[1], m>>
Wants == [p \in Proc |-> WantOf(blockedQueue[p], message[p])]
Replies == [p \in Proc |-> IF p \notin stopped \/ state[p] = "WAITMSG" THEN <<>>
                           ELSE IF hasMsgError[p] THEN <<"error">>
                           ELSE IF call[p] = "receive" THEN <<"given", message[p]>>
                           ELSE <<"done">>]

\* The wishes and the answers are told apart.
LEMMA Told ==
  /\ \A q : Contract!Get(q) # Contract!Nothing /\ Contract!Get(q)[2] = q
  /\ \A q, m : Contract!Put(q, m) # Contract!Nothing /\ Contract!Put(q, m)[2] = q
  /\ \A q, r, m : Contract!Get(q) # Contract!Put(r, m)
  /\ \A q, r : Contract!Get(q) = Contract!Get(r) => q = r
  /\ \A q, r, m, k : Contract!Put(q, m) = Contract!Put(r, k) => q = r /\ m = k
  /\ Contract!Done # Contract!Nothing /\ Contract!Error # Contract!Nothing
  /\ \A m : Contract!Given(m) # Contract!Nothing
<1>1. \A q : Contract!Get(q) # Contract!Nothing /\ Contract!Get(q)[2] = q
  BY DEF Contract!Get, Contract!Nothing
<1>2. \A q, m : Contract!Put(q, m) # Contract!Nothing /\ Contract!Put(q, m)[2] = q
  BY DEF Contract!Put, Contract!Nothing
<1>3. \A q, r, m : Contract!Get(q) # Contract!Put(r, m)
  BY DEF Contract!Get, Contract!Put
<1>4. \A q, r : Contract!Get(q) = Contract!Get(r) => q = r
  BY DEF Contract!Get
<1>5. \A q, r, m, k : Contract!Put(q, m) = Contract!Put(r, k) => q = r /\ m = k
  BY DEF Contract!Put
<1>6. Contract!Done # Contract!Nothing /\ Contract!Error # Contract!Nothing
  BY DEF Contract!Done, Contract!Error, Contract!Nothing
<1>7. \A m : Contract!Given(m) # Contract!Nothing
  BY DEF Contract!Given, Contract!Nothing
<1> QED BY <1>1, <1>2, <1>3, <1>4, <1>5, <1>6, <1>7

\* What a process waits for.
LEMMA WantOfIs ==
  ASSUME NEW m
  PROVE  /\ WantOf(<<>>, m) = Contract!Nothing
         /\ \A q \in Fid : WantOf(<<q, "readers">>, m) = Contract!Get(q)
         /\ \A q \in Fid : WantOf(<<q, "writers">>, m) = Contract!Put(q, m)
<1>1. WantOf(<<>>, m) = Contract!Nothing
  BY DEF WantOf, Contract!Nothing
<1>2. \A q \in Fid : <<q, "readers">> # <<>> /\ <<q, "writers">> # <<>>
  BY Pairs
<1>3. \A q \in Fid : WantOf(<<q, "readers">>, m) = Contract!Get(q)
  BY <1>2 DEF WantOf, Contract!Get
<1>4. \A q \in Fid : WantOf(<<q, "writers">>, m) = Contract!Put(q, m)
  BY <1>2 DEF WantOf, Contract!Put
<1> QED BY <1>1, <1>3, <1>4

\* Whoever waits for a queue, and nobody else, is in the list of its side.
LEMMA WantsAre ==
  ASSUME WInv, NEW p \in Proc
  PROVE  /\ blockedQueue[p] = <<>> <=> Wants[p] = Contract!Nothing
         /\ \A q \in Fid : Wants[p] = Contract!Get(q) <=> blockedQueue[p] = <<q, "readers">>
         /\ \A q \in Fid : blockedQueue[p] = <<q, "writers">> => Wants[p] = Contract!Put(q, message[p])
         /\ \A q \in Fid : \A m : Wants[p] = Contract!Put(q, m) => blockedQueue[p] = <<q, "writers">>
         /\ \A q \in Fid : (Wants[p] # Contract!Nothing /\ Wants[p][2] = q)
              <=> (blockedQueue[p] = <<q, "readers">> \/ blockedQueue[p] = <<q, "writers">>)
<1> DEFINE b == blockedQueue[p]
           m == message[p]
           v == Wants[p]
<1>1. v = WantOf(b, m)
  BY DEF Wants
<1>2. b = <<>> \/ \E q \in Fid : b = <<q, "readers">> \/ b = <<q, "writers">>
  BY Pairs DEF WInv, WaitTypes
<1> HIDE DEF b, m, v
<1>3. CASE b = <<>>
  <2>1. v = Contract!Nothing
    BY <1>1, <1>3, WantOfIs
  <2> QED BY <1>3, <2>1, Told, Pairs DEF b, m, v
<1>4. ASSUME NEW q \in Fid, b = <<q, "readers">>
      PROVE  /\ b = <<>> <=> v = Contract!Nothing
             /\ \A r \in Fid : v = Contract!Get(r) <=> b = <<r, "readers">>
             /\ \A r \in Fid : b = <<r, "writers">> => v = Contract!Put(r, m)
             /\ \A r \in Fid : \A k : v = Contract!Put(r, k) => b = <<r, "writers">>
             /\ \A r \in Fid : (v # Contract!Nothing /\ v[2] = r)
                  <=> (b = <<r, "readers">> \/ b = <<r, "writers">>)
  <2>1. v = Contract!Get(q)
    BY <1>1, <1>4, WantOfIs
  <2> QED BY <1>4, <2>1, Told, Pairs
<1>5. ASSUME NEW q \in Fid, b = <<q, "writers">>
      PROVE  /\ b = <<>> <=> v = Contract!Nothing
             /\ \A r \in Fid : v = Contract!Get(r) <=> b = <<r, "readers">>
             /\ \A r \in Fid : b = <<r, "writers">> => v = Contract!Put(r, m)
             /\ \A r \in Fid : \A k : v = Contract!Put(r, k) => b = <<r, "writers">>
             /\ \A r \in Fid : (v # Contract!Nothing /\ v[2] = r)
                  <=> (b = <<r, "readers">> \/ b = <<r, "writers">>)
  <2>1. v = Contract!Put(q, m)
    BY <1>1, <1>5, WantOfIs
  <2> QED BY <1>5, <2>1, Told, Pairs
<1> QED BY <1>2, <1>3, <1>4, <1>5 DEF b, m, v

\* A process whose wait and message stay waits for the same.
LEMMA SameWant ==
  ASSUME NEW p \in Proc, blockedQueue'[p] = blockedQueue[p],
         blockedQueue[p] = <<>> \/ message'[p] = message[p]
  PROVE  Wants'[p] = Wants[p]
<1>1. CASE blockedQueue[p] = <<>>
  <2>1. Wants[p] = WantOf(<<>>, message[p]) /\ Wants'[p] = WantOf(<<>>, message'[p])
    BY <1>1 DEF Wants
  <2> QED BY <2>1, WantOfIs
<1>2. CASE message'[p] = message[p]
  BY <1>2 DEF Wants
<1> QED BY <1>1, <1>2

\* An empty buffer is the empty sequence.
LEMMA RingEmpty == \A f, r, n : Ring(f, r, 0, n) = <<>>
<1> SUFFICES ASSUME NEW f, NEW r, NEW n PROVE Ring(f, r, 0, n) = <<>>
  OBVIOUS
<1>1. 1..0 = {}
  OBVIOUS
<1>2. Ring(f, r, 0, n) \in Seq({}) /\ Len(Ring(f, r, 0, n)) = 0
  BY <1>1 DEF Ring
<1> QED BY <1>2, EmptySeq

\* A step on the buffer of one queue.
LEMMA ContentStep ==
  ASSUME NEW q \in Fid, NEW s,
         Ring(messages'[q], rindex'[q], nbMessages'[q], size'[q]) = s,
         \A r \in Fid : r # q => /\ messages'[r] = messages[r] /\ rindex'[r] = rindex[r]
                                 /\ nbMessages'[r] = nbMessages[r] /\ size'[r] = size[r]
  PROVE  Content' = [Content EXCEPT ![q] = s]
BY DEF Content

(* The steps of the contract. *)

\* Nothing that the contract speaks of happens.
LEMMA IdleStep ==
  ASSUME size' = size, Content' = Content, Wants' = Wants, Replies' = Replies,
         received' = received
  PROVE  UNCHANGED Contract!cvars
BY DEF Contract!cvars, Content, Ring, Nth, Wants, WantOf, Replies

\* A queue is opened.
LEMMA OpenStep ==
  ASSUME NEW q \in Fid, NEW n \in Sizes, size[q] = 0, size' = [size EXCEPT ![q] = n],
         Content' = Content, Wants' = Wants, Replies' = Replies, received' = received
  PROVE  Contract!CNext
<1>1. Contract!Open(q, n)
  BY DEF Contract!Open, Content, Ring, Nth, Wants, WantOf, Replies
<1> QED BY <1>1 DEF Contract!CNext

\* It is emptied, and kept or closed, and who waits is told.
LEMMA EmptyStep ==
  ASSUME NEW q \in Fid, size[q] > 0,
         \/ size' = size
         \/ size' = [size EXCEPT ![q] = 0],
         Content' = [Content EXCEPT ![q] = <<>>],
         NEW P, P = {p \in Proc : Wants[p] # Contract!Nothing /\ Wants[p][2] = q},
         Wants' = [p \in Proc |-> IF p \in P THEN Contract!Nothing ELSE Wants[p]],
         Replies' = [p \in Proc |-> IF p \in P THEN Contract!Error ELSE Replies[p]],
         received' = received, size \in [Fid -> Nat]
  PROVE  Contract!CNext
<1>1. size' = [size EXCEPT ![q] = @] => Contract!Empty(q, TRUE)
  BY DEF Contract!Empty, Contract!Nothing, Content, Ring, Nth, Wants, WantOf, Replies
<1>2. size' = [size EXCEPT ![q] = 0] => Contract!Empty(q, FALSE)
  BY DEF Contract!Empty, Contract!Nothing, Content, Ring, Nth, Wants, WantOf, Replies
<1>3. size' = size => size' = [size EXCEPT ![q] = @]
  OBVIOUS
<1> QED BY <1>1, <1>2, <1>3 DEF Contract!CNext

\* A message is accepted.
LEMMA SendStep ==
  ASSUME NEW q \in Fid, NEW m \in Msg, size[q] > 0, Len(Content[q]) < size[q],
         \A r \in Proc : Wants[r] # Contract!Get(q),
         Content' = [Content EXCEPT ![q] = Append(Content[q], m)],
         size' = size, Wants' = Wants, Replies' = Replies, received' = received
  PROVE  Contract!CNext
<1>1. Contract!Send(q, m)
  BY DEF Contract!Send, Content, Ring, Nth, Wants, WantOf, Replies
<1> QED BY <1>1 DEF Contract!CNext

\* A message is given to a client that waits for one.
LEMMA SendToStep ==
  ASSUME NEW p \in Proc, NEW q \in Fid, NEW m \in Msg, NEW r \in Proc,
         Wants[p] = Contract!Nothing, Replies[p] = Contract!Nothing,
         Wants[r] = Contract!Get(q),
         Wants' = [Wants EXCEPT ![r] = Contract!Nothing],
         Replies' = [Replies EXCEPT ![r] = Contract!Given(m), ![p] = Contract!Done],
         size' = size, Content' = Content, received' = received
  PROVE  Contract!CNext
<1>1. Contract!SendTo(p, q, m, r)
  BY DEF Contract!SendTo, Contract!Idle, Content, Ring, Nth, Wants, WantOf, Replies
<1> QED BY <1>1 DEF Contract!CNext

\* A client waits for a message.
LEMMA AwaitGetStep ==
  ASSUME NEW p \in Proc, NEW q \in Fid,
         Wants[p] = Contract!Nothing, Replies[p] = Contract!Nothing,
         size[q] > 0, Content[q] = <<>>,
         Wants' = [Wants EXCEPT ![p] = Contract!Get(q)],
         size' = size, Content' = Content, Replies' = Replies, received' = received
  PROVE  Contract!CNext
<1>1. Contract!Await(p, Contract!Get(q))
  BY DEF Contract!Await, Contract!Idle, Content, Ring, Nth, Wants, WantOf, Replies
<1> QED BY <1>1 DEF Contract!CNext

\* A client waits for room.
LEMMA AwaitPutStep ==
  ASSUME NEW p \in Proc, NEW q \in Fid, NEW m \in Msg,
         Wants[p] = Contract!Nothing, Replies[p] = Contract!Nothing,
         size[q] > 0, Len(Content[q]) = size[q],
         Wants' = [Wants EXCEPT ![p] = Contract!Put(q, m)],
         size' = size, Content' = Content, Replies' = Replies, received' = received
  PROVE  Contract!CNext
<1>1. Contract!Await(p, Contract!Put(q, m))
  BY DEF Contract!Await, Contract!Idle, Content, Ring, Nth, Wants, WantOf, Replies
<1> QED BY <1>1 DEF Contract!CNext

\* The oldest message is received.
LEMMA ReceiveStep ==
  ASSUME NEW p \in Proc, NEW q \in Fid,
         Wants[p] = Contract!Nothing, Replies[p] = Contract!Nothing,
         Content[q] # <<>>, \A s \in Proc, m \in Msg : Wants[s] # Contract!Put(q, m),
         received' = [received EXCEPT ![p] = Head(Content[q])],
         Content' = [Content EXCEPT ![q] = Tail(Content[q])],
         size' = size, Wants' = Wants, Replies' = Replies
  PROVE  Contract!CNext
<1>1. Contract!Receive(p, q)
  BY DEF Contract!Receive, Contract!Idle, Content, Ring, Nth, Wants, WantOf, Replies
<1> QED BY <1>1 DEF Contract!CNext

\* The oldest message is received, and a sender that waits is let in.
LEMMA ReceiveAndAdmitStep ==
  ASSUME NEW p \in Proc, NEW q \in Fid, NEW s \in Proc, NEW m \in Msg,
         Wants[p] = Contract!Nothing, Replies[p] = Contract!Nothing,
         Content[q] # <<>>, Wants[s] = Contract!Put(q, m),
         received' = [received EXCEPT ![p] = Head(Content[q])],
         Content' = [Content EXCEPT ![q] = Append(Tail(Content[q]), m)],
         Wants' = [Wants EXCEPT ![s] = Contract!Nothing],
         Replies' = [Replies EXCEPT ![s] = Contract!Done, ![p] = Contract!Done],
         size' = size
  PROVE  Contract!CNext
<1>1. Contract!ReceiveAndAdmit(p, q, s, m)
  BY DEF Contract!ReceiveAndAdmit, Contract!Idle, Content, Ring, Nth, Wants, WantOf, Replies
<1> QED BY <1>1 DEF Contract!CNext

\* A call returns.
LEMMA ReturnStep ==
  ASSUME NEW p \in Proc, Replies[p] # Contract!Nothing,
         \/ Replies[p] = Contract!Done /\ received' = received
         \/ \E m \in Msg : /\ Replies[p] = Contract!Given(m)
                           /\ received' = [received EXCEPT ![p] = m]
         \/ \E m \in Msg \cup {0, received[p]} :
              Replies[p] = Contract!Error /\ received' = [received EXCEPT ![p] = m],
         Replies' = [Replies EXCEPT ![p] = Contract!Nothing],
         size' = size, Content' = Content, Wants' = Wants
  PROVE  Contract!CNext
<1>1. Contract!Return(p)
  BY DEF Contract!Return, Content, Ring, Nth, Wants, WantOf, Replies
<1> QED BY <1>1 DEF Contract!CNext

\* A client is ended.
LEMMA EndStep ==
  ASSUME NEW p \in Proc, Wants' = [Wants EXCEPT ![p] = Contract!Nothing],
         Replies' = [Replies EXCEPT ![p] = Contract!Nothing],
         size' = size, Content' = Content, received' = received
  PROVE  Contract!CNext
<1>1. Contract!End(p)
  BY DEF Contract!End, Content, Ring, Nth, Wants, WantOf, Replies
<1> QED BY <1>1 DEF Contract!CNext

\* A new one begins.
LEMMA BeginStep ==
  ASSUME NEW p \in Proc, received' = [received EXCEPT ![p] = 0],
         size' = size, Content' = Content, Wants' = Wants, Replies' = Replies
  PROVE  Contract!CNext
<1>1. Contract!Begin(p)
  BY DEF Contract!Begin, Content, Ring, Nth, Wants, WantOf, Replies
<1> QED BY <1>1 DEF Contract!CNext

(* How the wishes, the answers and the contents follow the variables. *)

\* The wish of one process changes.
LEMMA WantsSet ==
  ASSUME NEW p \in Proc, NEW v, \A r \in Proc : Wants'[r] = IF r = p THEN v ELSE Wants[r]
  PROVE  Wants' = [Wants EXCEPT ![p] = v]
BY DEF Wants

\* The answer to one process changes.
LEMMA RepliesSet ==
  ASSUME NEW p \in Proc, NEW v, \A r \in Proc : Replies'[r] = IF r = p THEN v ELSE Replies[r]
  PROVE  Replies' = [Replies EXCEPT ![p] = v]
BY DEF Replies

\* The answers are a function of the processes.
LEMMA RepliesFun ==
  /\ Replies = [r \in Proc |-> Replies[r]]
  /\ Replies' = [r \in Proc |-> Replies'[r]]
BY DEF Replies

\* No wish changes.
LEMMA WantsKept ==
  ASSUME \A r \in Proc : Wants'[r] = Wants[r]
  PROVE  Wants' = Wants
BY DEF Wants

\* No answer changes.
LEMMA RepliesKept ==
  ASSUME \A r \in Proc : Replies'[r] = Replies[r]
  PROVE  Replies' = Replies
BY DEF Replies

\* Who waits for nothing.
LEMMA NoWant ==
  ASSUME NEW p \in Proc, blockedQueue'[p] = <<>>
  PROVE  Wants'[p] = Contract!Nothing
<1>1. Wants'[p] = WantOf(<<>>, message'[p])
  BY DEF Wants
<1> QED BY <1>1, WantOfIs

\* Who has no answer, before and after a step.
LEMMA NoReply ==
  ASSUME NEW p \in Proc
  PROVE  /\ p \notin stopped \/ state[p] = "WAITMSG" => Replies[p] = Contract!Nothing
         /\ p \notin stopped' \/ state'[p] = "WAITMSG" => Replies'[p] = Contract!Nothing
BY DEF Replies, Contract!Nothing

\* What a process inside a call will be told.
LEMMA ReplyIs ==
  ASSUME NEW p \in Proc, p \in stopped', state'[p] # "WAITMSG"
  PROVE  /\ hasMsgError'[p] => Replies'[p] = Contract!Error
         /\ ~ hasMsgError'[p] /\ call'[p] = "receive" => Replies'[p] = Contract!Given(message'[p])
         /\ ~ hasMsgError'[p] /\ call'[p] = "send" => Replies'[p] = Contract!Done
BY DEF Replies, Contract!Error, Contract!Given, Contract!Done

\* And before the step.
LEMMA ReplyWas ==
  ASSUME NEW p \in Proc, p \in stopped, state[p] # "WAITMSG"
  PROVE  /\ hasMsgError[p] => Replies[p] = Contract!Error
         /\ ~ hasMsgError[p] /\ call[p] = "receive" => Replies[p] = Contract!Given(message[p])
         /\ ~ hasMsgError[p] /\ call[p] = "send" => Replies[p] = Contract!Done
BY DEF Replies, Contract!Error, Contract!Given, Contract!Done

\* A process that a step does not concern.
LEMMA SameReply ==
  ASSUME NEW p \in Proc, p \in stopped' <=> p \in stopped,
         state'[p] = "WAITMSG" <=> state[p] = "WAITMSG",
         \/ p \notin stopped
         \/ /\ hasMsgError'[p] = hasMsgError[p] /\ call'[p] = call[p]
            /\ message'[p] = message[p]
  PROVE  Replies'[p] = Replies[p]
BY DEF Replies

\* The process that makes a call is idle.
LEMMA CallerIdle ==
  ASSUME WInv, EInv, User
  PROVE  /\ cur \in Proc /\ Wants[cur] = Contract!Nothing /\ Replies[cur] = Contract!Nothing
         /\ cur \notin stopped
<1>1. cur \in Proc /\ blockedQueue[cur] = <<>>
  BY RunningWaits
<1>2. cur \notin stopped
  BY DEF User, EInv
<1> QED BY <1>1, <1>2, WantsAre, NoReply

\* The content of a queue that is alive.
LEMMA LiveContent ==
  ASSUME Ranges, NEW q \in Fid, alive[q]
  PROVE  /\ Buf(Msg \cup {0}, messages[q], rindex[q], nbMessages[q], size[q])
         /\ Content[q] = Ring(messages[q], rindex[q], nbMessages[q], size[q])
         /\ Content[q] \in Seq(Msg \cup {0}) /\ Len(Content[q]) = nbMessages[q]
         /\ size[q] \in Nat /\ size[q] > 0 /\ nbMessages[q] \in 0..size[q]
         /\ windex[q] \in 0..(size[q] - 1)
<1>1. /\ Buf(Msg \cup {0}, messages[q], rindex[q], nbMessages[q], size[q])
      /\ size[q] \in Nat /\ size[q] > 0 /\ nbMessages[q] \in 0..size[q]
      /\ windex[q] \in 0..(size[q] - 1)
  BY LiveBuffer DEF Buf
<1>2. Content[q] = Ring(messages[q], rindex[q], nbMessages[q], size[q])
  BY DEF Content
<1>3. Content[q] \in Seq(Msg \cup {0}) /\ Len(Content[q]) = nbMessages[q]
  BY <1>1, <1>2, RingSeq
<1> QED BY <1>1, <1>2, <1>3

\* A step that leaves the buffers alone.
LEMMA ContentKept ==
  ASSUME UNCHANGED <<messages, rindex, nbMessages, size>>
  PROVE  Content' = Content
BY DEF Content

(* Which step of the contract each operation takes. *)

\* psend hands its message to the receiver it wakes.
LEMMA HandSendsTo ==
  ASSUME WInv, EInv, Ranges, CallInv, NEW q \in Fid, NEW m \in Msg, PsendHand(q, m)
  PROVE  Contract!CNext
<1>1. PICK p \in Proc : p = QueueTop(readers[q]) /\ blockedQueue[p] = <<q, "readers">>
  <2>1. nbReaders[q] # 0
    BY DEF PsendHand, HasReader
  <2> QED BY <2>1, TopWaits
<1>2. /\ User /\ Serve(p, "send") /\ message' = [message EXCEPT ![p] = m]
      /\ UNCHANGED <<buffer, hasMsgError, received>>
  BY <1>1 DEF PsendHand
<1>3. blockedQueue[p] # <<>>
  BY <1>1, Pairs
<1>4. /\ cur \in Proc /\ p # cur /\ blockedQueue[cur] = <<>>
      /\ cur \notin stopped /\ p \in stopped
      /\ ~ hasMsgError[p] /\ ~ hasMsgError[cur]
      /\ state[p] = "WAITMSG" /\ state[cur] = "CHOSEN"
      /\ stopped' = stopped \cup {cur}
      /\ \A r \in Proc : state'[r] = IF r = p THEN "ACTIVABLE" ELSE state[r]
      /\ \A r \in Proc : blockedQueue'[r] = IF r = p THEN <<>> ELSE blockedQueue[r]
      /\ \A r \in Proc : call'[r] = IF r = cur THEN "send" ELSE call[r]
  BY <1>2, <1>3, ServeEffects
<1>5. \A r \in Proc : message'[r] = IF r = p THEN m ELSE message[r]
  BY <1>2 DEF Ranges, FieldsOK
<1>6. Wants[cur] = Contract!Nothing /\ Replies[cur] = Contract!Nothing
  BY <1>2, CallerIdle
<1>7. Wants[p] = Contract!Get(q)
  BY <1>1, WantsAre
<1>8. \A r \in Proc : Wants'[r] = IF r = p THEN Contract!Nothing ELSE Wants[r]
  <2>1. Wants'[p] = Contract!Nothing
    BY <1>4, NoWant
  <2>2. ASSUME NEW r \in Proc, r # p PROVE Wants'[r] = Wants[r]
    BY <1>4, <1>5, <2>2, SameWant
  <2> QED BY <2>1, <2>2
<1>9. Replies'[p] = Contract!Given(m)
  <2>1. p \in stopped' /\ state'[p] # "WAITMSG" /\ ~ hasMsgError'[p] /\ message'[p] = m
    BY <1>2, <1>4, <1>5
  <2>2. call'[p] = "receive"
    BY <1>1, <1>4 DEF CallInv, InCall
  <2> QED BY <2>1, <2>2, ReplyIs
<1>10. Replies'[cur] = Contract!Done
  <2>1. /\ cur \in stopped' /\ state'[cur] # "WAITMSG" /\ ~ hasMsgError'[cur]
        /\ call'[cur] = "send"
    BY <1>2, <1>4
  <2> QED BY <1>4, <2>1, ReplyIs
<1>11. ASSUME NEW r \in Proc, r # p, r # cur PROVE Replies'[r] = Replies[r]
  <2>1. /\ (r \in stopped' <=> r \in stopped) /\ state'[r] = state[r]
        /\ hasMsgError'[r] = hasMsgError[r] /\ call'[r] = call[r] /\ message'[r] = message[r]
    BY <1>2, <1>4, <1>5, <1>11
  <2> QED BY <2>1, SameReply
<1>12. Wants' = [Wants EXCEPT ![p] = Contract!Nothing]
  BY <1>8, WantsSet
<1>13. Replies' = [Replies EXCEPT ![p] = Contract!Given(m), ![cur] = Contract!Done]
  <2> DEFINE v == Contract!Given(m)
             u == Contract!Done
             c == cur
  <2>1. c \in Proc /\ \A r \in Proc : Replies'[r] = IF r = c THEN u
                                   ELSE IF r = p THEN v ELSE Replies[r]
    BY <1>4, <1>9, <1>10, <1>11
  <2> HIDE DEF u, v, c
  <2>2. Replies' = [Replies EXCEPT ![p] = v, ![c] = u]
    BY <2>1, RepliesFun
  <2> QED BY <2>2 DEF u, v, c
<1>14. size' = size /\ Content' = Content /\ received' = received
  BY <1>2, ContentKept DEF buffer
<1> QED BY <1>4, <1>6, <1>7, <1>12, <1>13, <1>14, SendToStep

\* A process begins to wait: its wish is known, and nobody's answer changes.
LEMMA WaitTells ==
  ASSUME WInv, EInv, Ranges, User, NEW q \in Fid, NEW side \in {"readers", "writers"},
         NEW c, Wait(q, side, c),
         NEW m, m = message'[cur], NEW b, b = <<q, side>>, NEW v, v = WantOf(b, m),
         \A r \in Proc : r # cur => message'[r] = message[r], hasMsgError' = hasMsgError
  PROVE  /\ cur \in Proc /\ Wants[cur] = Contract!Nothing /\ Replies[cur] = Contract!Nothing
         /\ Wants' = [Wants EXCEPT ![cur] = v] /\ Replies' = Replies
<1>1. /\ cur \in Proc /\ blockedQueue[cur] = <<>> /\ cur \notin stopped
      /\ stopped' = stopped \cup {cur}
      /\ \A r \in Proc : state'[r] = IF r = cur THEN "WAITMSG" ELSE state[r]
      /\ \A r \in Proc : blockedQueue'[r] = IF r = cur THEN <<q, side>> ELSE blockedQueue[r]
      /\ \A r \in Proc : call'[r] = IF r = cur THEN c ELSE call[r]
  BY WaitEffects
<1>2. Wants[cur] = Contract!Nothing /\ Replies[cur] = Contract!Nothing
  BY CallerIdle
<1>3. Wants'[cur] = v
  BY <1>1 DEF Wants
<1>4. ASSUME NEW r \in Proc, r # cur PROVE Wants'[r] = Wants[r] /\ Replies'[r] = Replies[r]
  <2>1. /\ (r \in stopped' <=> r \in stopped) /\ state'[r] = state[r]
        /\ hasMsgError'[r] = hasMsgError[r] /\ call'[r] = call[r] /\ message'[r] = message[r]
        /\ blockedQueue'[r] = blockedQueue[r]
    BY <1>1, <1>4
  <2> QED BY <2>1, SameReply, SameWant
<1>5. Replies'[cur] = Contract!Nothing
  BY <1>1, NoReply
<1>6. Wants' = [Wants EXCEPT ![cur] = v]
  BY <1>1, <1>3, <1>4, WantsSet
<1>7. \A r \in Proc : Replies'[r] = Replies[r]
  BY <1>2, <1>4, <1>5
<1> QED BY <1>1, <1>2, <1>6, <1>7, RepliesKept

\* psend waits for room.
LEMMA SendAwaits ==
  ASSUME WInv, EInv, Ranges, NEW q \in Fid, NEW m \in Msg, PsendBlock(q, m)
  PROVE  Contract!CNext
<1> DEFINE side == "writers"
           c == "send"
           b == <<q, side>>
           x == message'[cur]
           v == Contract!Put(q, m)
<1>1. /\ User /\ alive[q] /\ nbMessages[q] = size[q] /\ Wait(q, side, c)
      /\ message' = [message EXCEPT ![cur] = m]
      /\ hasMsgError' = hasMsgError /\ UNCHANGED <<buffer, received>>
  BY DEF PsendBlock
<1>2. cur \in Proc
  BY <1>1, RunningWaits
<1>3. \A r \in Proc : message'[r] = IF r = cur THEN m ELSE message[r]
  BY <1>1 DEF Ranges, FieldsOK
<1>4. v = WantOf(b, x) /\ b = <<q, side>> /\ x = message'[cur]
  BY <1>2, <1>3, WantOfIs
<1>5. side \in {"readers", "writers"} /\ \A r \in Proc : r # cur => message'[r] = message[r]
  BY <1>3
<1> HIDE DEF side, c, v, b, x
<1>6. /\ Wants[cur] = Contract!Nothing /\ Replies[cur] = Contract!Nothing
      /\ Wants' = [Wants EXCEPT ![cur] = v] /\ Replies' = Replies
  BY <1>1, <1>4, <1>5, WaitTells
<1>7. Wants' = [Wants EXCEPT ![cur] = Contract!Put(q, m)]
  BY <1>6 DEF v
<1>8. size[q] > 0 /\ Len(Content[q]) = size[q]
  BY <1>1, LiveContent
<1>9. size' = size /\ Content' = Content /\ received' = received
  BY <1>1, ContentKept DEF buffer
<1> QED BY <1>2, <1>6, <1>7, <1>8, <1>9, AwaitPutStep

\* preceive waits for a message.
LEMMA ReceiveAwaits ==
  ASSUME WInv, EInv, Ranges, NEW q \in Fid, NEW ptr, PreceiveBlock(q, ptr)
  PROVE  Contract!CNext
<1> DEFINE side == "readers"
           c == IF ptr THEN "receive" ELSE "discard"
           b == <<q, side>>
           x == message'[cur]
           v == Contract!Get(q)
<1>1. /\ User /\ alive[q] /\ nbMessages[q] = 0 /\ Wait(q, side, c)
      /\ message' = message
      /\ hasMsgError' = hasMsgError /\ UNCHANGED <<buffer, received>>
  BY DEF PreceiveBlock
<1>2. cur \in Proc
  BY <1>1, RunningWaits
<1>4. v = WantOf(b, x) /\ b = <<q, side>> /\ x = message'[cur]
  BY WantOfIs
<1>5. side \in {"readers", "writers"} /\ \A r \in Proc : r # cur => message'[r] = message[r]
  BY <1>1
<1> HIDE DEF side, c, v, b, x
<1>6. /\ Wants[cur] = Contract!Nothing /\ Replies[cur] = Contract!Nothing
      /\ Wants' = [Wants EXCEPT ![cur] = v] /\ Replies' = Replies
  BY <1>1, <1>4, <1>5, WaitTells
<1>7. Wants' = [Wants EXCEPT ![cur] = Contract!Get(q)]
  BY <1>6 DEF v
<1>8. size[q] > 0
  BY <1>1, LiveContent
<1>10. Content[q] = <<>>
  BY <1>1, RingEmpty DEF Content
<1>9. size' = size /\ Content' = Content /\ received' = received
  BY <1>1, ContentKept DEF buffer
<1> QED BY <1>2, <1>6, <1>7, <1>8, <1>9, <1>10, AwaitGetStep

\* A step that no process waits or returns in.
LEMMA ClientsKept ==
  ASSUME UNCHANGED <<stopped, state, blockedQueue, message, hasMsgError, call>>
  PROVE  Wants' = Wants /\ Replies' = Replies
BY DEF Wants, Replies

\* psend writes behind the last message.
LEMMA WriteSends ==
  ASSUME WInv, Ranges, Indices, NEW q \in Fid, NEW m \in Msg, PsendWrite(q, m)
  PROVE  Contract!CNext
<1> DEFINE n == size[q]
           r == rindex[q]
           k == nbMessages[q]
           w == windex[q]
           f == messages[q]
           g == Stored(f, w, m)
           j == k + 1
           V == Msg \cup {0}
<1>1. /\ alive[q] /\ nbMessages[q] # size[q] /\ ~ HasReader(q)
      /\ messages' = [messages EXCEPT ![q][windex[q]] = m]
      /\ nbMessages' = [nbMessages EXCEPT ![q] = nbMessages[q] + 1]
      /\ UNCHANGED <<sched, size, rindex, waits, mine>>
  BY DEF PsendWrite, Write
<1>2. /\ Buf(V, f, r, k, n) /\ Len(Content[q]) = k /\ Content[q] = Ring(f, r, k, n)
      /\ n > 0 /\ n \in Nat /\ k \in 0..n
  BY <1>1, LiveContent
<1>3. k < n
  BY <1>1, <1>2
<1>4. w = Nth(r, j, n)
  BY <1>1 DEF Indices, Agree
<1>5. /\ rindex'[q] = r /\ size'[q] = n
      /\ \A x \in Fid : messages'[x] = IF x = q THEN g ELSE messages[x]
      /\ \A x \in Fid : nbMessages'[x] = IF x = q THEN j ELSE nbMessages[x]
      /\ \A x \in Fid : rindex'[x] = rindex[x] /\ size'[x] = size[x]
  BY <1>1 DEF Stored, WInv, WaitTypes, Ranges
<1>6. g = Stored(f, w, m) /\ j = k + 1 /\ m \in V
  OBVIOUS
<1> HIDE DEF n, r, k, w, f, g, j, V
<1>7. Ring(g, r, j, n) = Append(Ring(f, r, k, n), m)
  BY <1>2, <1>3, <1>4, <1>6, RingWrite
<1>8. Ring(messages'[q], rindex'[q], nbMessages'[q], size'[q]) = Append(Content[q], m)
  BY <1>2, <1>5, <1>7
<1>9. Content' = [Content EXCEPT ![q] = Append(Content[q], m)]
  BY <1>5, <1>8, ContentStep
<1>10. \A x \in Proc : Wants[x] # Contract!Get(q)
  <2>1. readers[q] = <<>>
    <3>1. /\ nbReaders[q] = Len(readers[q]) /\ (readers[q] # <<>> => nbMessages[q] = 0)
          /\ readers[q] \in Seq(Pid)
      BY DEF WInv, WaitersCounted, NoWaitInVain, WaitTypes
    <3>2. nbReaders[q] # 0 => nbMessages[q] # 0
      BY <1>1 DEF HasReader
    <3> QED BY <3>1, <3>2, EmptySeq
  <2>2. ASSUME NEW x \in Proc, Wants[x] = Contract!Get(q) PROVE FALSE
    <3>1. blockedQueue[x] = <<q, "readers">>
      BY <2>2, WantsAre
    <3>2. x \in Elems(readers[q]) /\ readers[q] \in Seq(Pid)
      BY <3>1, PidFacts DEF WInv, ListsMatch, WaitTypes
    <3> QED BY <2>1, <3>2, ElemsEmpty
  <2> QED BY <2>2
<1>11. Wants' = Wants /\ Replies' = Replies
  BY <1>1, ClientsKept DEF sched, waits, mine
<1>12. size[q] > 0 /\ Len(Content[q]) < size[q]
  BY <1>2, <1>3 DEF n
<1>13. size' = size /\ received' = received
  BY <1>1 DEF mine
<1> QED BY <1>9, <1>10, <1>11, <1>12, <1>13, SendStep

\* preceive takes the first message, where no sender waits.
LEMMA ReadReceives ==
  ASSUME WInv, EInv, Ranges, NEW q \in Fid, Preceive(q, TRUE)
  PROVE  Contract!CNext
<1> DEFINE n == size[q]
           r == rindex[q]
           k == nbMessages[q]
           f == messages[q]
           b == Nth(r, 2, n)
           j == k - 1
           V == Msg \cup {0}
<1>1. /\ User /\ alive[q] /\ nbMessages[q] # 0 /\ ~ LetsIn(q)
      /\ received' = [received EXCEPT ![cur] = f[r]]
      /\ rindex' = [rindex EXCEPT ![q] = (r + 1) % n]
      /\ nbMessages' = [nbMessages EXCEPT ![q] = k - 1]
      /\ UNCHANGED <<sched, messages, size, waits, message, hasMsgError, call>>
  BY DEF Preceive, Read
<1>2. /\ Buf(V, f, r, k, n) /\ Content[q] = Ring(f, r, k, n) /\ k > 0
  <2>1. Buf(V, f, r, k, n) /\ Content[q] = Ring(f, r, k, n)
    BY <1>1, LiveContent
  <2>2. k \in 0..n /\ n \in Nat /\ k # 0
    BY <1>1, LiveContent
  <2> QED BY <2>1, <2>2
<1>3. (r + 1) % n = b
  <2>1. r + 2 - 1 = r + 1
    BY DEF Ranges
  <2> QED BY <2>1 DEF Nth
<1>4. b = Nth(r, 2, n) /\ j = k - 1
  OBVIOUS
<1>5. /\ messages'[q] = f /\ size'[q] = n
      /\ \A x \in Fid : messages'[x] = messages[x] /\ size'[x] = size[x]
      /\ \A x \in Fid : rindex'[x] = IF x = q THEN b ELSE rindex[x]
      /\ \A x \in Fid : nbMessages'[x] = IF x = q THEN j ELSE nbMessages[x]
  BY <1>1, <1>3 DEF WInv, WaitTypes, Ranges
<1>6. received' = [received EXCEPT ![cur] = f[r]]
  BY <1>1
<1> HIDE DEF n, r, k, f, b, j, V
<1>7. /\ Ring(f, r, k, n) # <<>> /\ Head(Ring(f, r, k, n)) = f[r]
      /\ Ring(f, b, j, n) = Tail(Ring(f, r, k, n))
  BY <1>2, <1>4, RingRead
<1>8. Ring(messages'[q], rindex'[q], nbMessages'[q], size'[q]) = Tail(Content[q])
  BY <1>2, <1>5, <1>7
<1>9. Content' = [Content EXCEPT ![q] = Tail(Content[q])]
  BY <1>5, <1>8, ContentStep
<1>10. Content[q] # <<>> /\ received' = [received EXCEPT ![cur] = Head(Content[q])]
  BY <1>2, <1>6, <1>7
<1>11. \A x \in Proc, m \in Msg : Wants[x] # Contract!Put(q, m)
  <2>1. writers[q] = <<>>
    <3>1. /\ nbWriters[q] = Len(writers[q]) /\ (writers[q] # <<>> => nbMessages[q] = size[q])
          /\ writers[q] \in Seq(Pid)
      BY DEF WInv, WaitersCounted, NoWaitInVain, WaitTypes
    <3> QED BY <1>1, <3>1, EmptySeq DEF LetsIn
  <2>2. ASSUME NEW x \in Proc, NEW m \in Msg, Wants[x] = Contract!Put(q, m) PROVE FALSE
    <3>1. blockedQueue[x] = <<q, "writers">>
      BY <2>2, WantsAre
    <3>2. x \in Elems(writers[q]) /\ writers[q] \in Seq(Pid)
      BY <3>1, PidFacts DEF WInv, ListsMatch, WaitTypes
    <3> QED BY <2>1, <3>2, ElemsEmpty
  <2> QED BY <2>2
<1>12. Wants' = Wants /\ Replies' = Replies
  BY <1>1, ClientsKept DEF sched, waits
<1>13. size' = size
  BY <1>1
<1>14. cur \in Proc /\ Wants[cur] = Contract!Nothing /\ Replies[cur] = Contract!Nothing
  BY <1>1, CallerIdle
<1> QED BY <1>9, <1>10, <1>11, <1>12, <1>13, <1>14, ReceiveStep

\* preceive takes the first message, and a sender that waits writes its own.
LEMMA LetInAdmits ==
  ASSUME WInv, EInv, Ranges, CallInv, Indices, NEW q \in Fid, PreceiveLetIn(q, TRUE)
  PROVE  Contract!CNext
<1>1. PICK p \in Proc : p = QueueTop(writers[q]) /\ blockedQueue[p] = <<q, "writers">>
  <2>1. nbWriters[q] # 0
    BY DEF PreceiveLetIn, LetsIn
  <2> QED BY <2>1, TopWaits
<1> DEFINE n == size[q]
           r == rindex[q]
           w == windex[q]
           f == messages[q]
           m == message[p]
           g == Stored(f, w, m)
           b == Nth(r, 2, n)
           V == Msg \cup {0}
<1>2. /\ User /\ alive[q] /\ nbMessages[q] = n /\ Serve(p, "send")
      /\ received' = [received EXCEPT ![cur] = f[r]]
      /\ rindex' = [rindex EXCEPT ![q] = (r + 1) % n]
      /\ messages' = [messages EXCEPT ![q][windex[q]] = m]
      /\ nbMessages' = [nbMessages EXCEPT ![q] = (nbMessages[q] - 1) + 1]
      /\ UNCHANGED <<size, message, hasMsgError>>
  BY <1>1 DEF PreceiveLetIn, LetsIn, LetIn, Read, Write
<1>3. /\ Buf(V, f, r, n, n) /\ Content[q] = Ring(f, r, n, n) /\ n \in Nat
  BY <1>2, LiveContent
<1>4. (r + 1) % n = b
  <2>1. r + 2 - 1 = r + 1
    BY DEF Ranges
  <2> QED BY <2>1 DEF Nth
<1>5. w = Nth(r, n + 1, n)
  BY <1>2 DEF Indices, Agree
<1>6. m \in Msg
  BY <1>1 DEF CallInv, InCall
<1>7. /\ size'[q] = n
      /\ \A x \in Fid : messages'[x] = IF x = q THEN g ELSE messages[x]
      /\ \A x \in Fid : rindex'[x] = IF x = q THEN b ELSE rindex[x]
      /\ \A x \in Fid : nbMessages'[x] = nbMessages[x] /\ size'[x] = size[x]
      /\ nbMessages'[q] = n
  <2>1. (nbMessages[q] - 1) + 1 = nbMessages[q]
    BY <1>2, <1>3
  <2> QED BY <1>2, <1>4, <2>1 DEF Stored, WInv, WaitTypes, Ranges
<1>8. g = Stored(f, w, m) /\ b = Nth(r, 2, n) /\ m \in V
  BY <1>6
<1>9. received' = [received EXCEPT ![cur] = f[r]]
  BY <1>2
<1>10. message'[p] = m /\ Wants[p] = Contract!Put(q, m)
  BY <1>1, <1>2, WantsAre
<1> HIDE DEF n, r, w, f, g, b, V, m
<1>11. /\ Ring(f, r, n, n) # <<>> /\ Head(Ring(f, r, n, n)) = f[r]
       /\ Ring(g, b, n, n) = Append(Tail(Ring(f, r, n, n)), m)
  BY <1>3, <1>5, <1>8, RingReadWrite
<1>12. Ring(messages'[q], rindex'[q], nbMessages'[q], size'[q]) = Append(Tail(Content[q]), m)
  BY <1>3, <1>7, <1>11
<1>13. Content' = [Content EXCEPT ![q] = Append(Tail(Content[q]), m)]
  BY <1>7, <1>12, ContentStep
<1>14. Content[q] # <<>> /\ received' = [received EXCEPT ![cur] = Head(Content[q])]
  BY <1>3, <1>9, <1>11
<1>15. blockedQueue[p] # <<>>
  BY <1>1, Pairs
<1>16. /\ cur \in Proc /\ p # cur /\ blockedQueue[cur] = <<>>
       /\ cur \notin stopped /\ p \in stopped
       /\ ~ hasMsgError[p] /\ ~ hasMsgError[cur]
       /\ state[p] = "WAITMSG" /\ state[cur] = "CHOSEN"
       /\ stopped' = stopped \cup {cur}
       /\ \A x \in Proc : state'[x] = IF x = p THEN "ACTIVABLE" ELSE state[x]
       /\ \A x \in Proc : blockedQueue'[x] = IF x = p THEN <<>> ELSE blockedQueue[x]
       /\ \A x \in Proc : call'[x] = IF x = cur THEN "send" ELSE call[x]
  BY <1>2, <1>15, ServeEffects
<1>17. Wants[cur] = Contract!Nothing /\ Replies[cur] = Contract!Nothing
  BY <1>2, CallerIdle
<1>18. Wants' = [Wants EXCEPT ![p] = Contract!Nothing]
  <2>1. Wants'[p] = Contract!Nothing
    BY <1>16, NoWant
  <2>2. ASSUME NEW x \in Proc, x # p PROVE Wants'[x] = Wants[x]
    BY <1>2, <1>16, <2>2, SameWant
  <2>3. \A x \in Proc : Wants'[x] = IF x = p THEN Contract!Nothing ELSE Wants[x]
    BY <2>1, <2>2
  <2> QED BY <2>3, WantsSet
<1>19. Replies'[p] = Contract!Done
  <2>1. p \in stopped' /\ state'[p] # "WAITMSG" /\ ~ hasMsgError'[p]
    BY <1>2, <1>16
  <2>2. call'[p] = "send"
    BY <1>1, <1>16 DEF CallInv, InCall
  <2> QED BY <2>1, <2>2, ReplyIs
<1>20. Replies'[cur] = Contract!Done
  <2>1. /\ cur \in stopped' /\ state'[cur] # "WAITMSG" /\ ~ hasMsgError'[cur]
        /\ call'[cur] = "send"
    BY <1>2, <1>16
  <2> QED BY <1>16, <2>1, ReplyIs
<1>21. ASSUME NEW x \in Proc, x # p, x # cur PROVE Replies'[x] = Replies[x]
  <2>1. /\ (x \in stopped' <=> x \in stopped) /\ state'[x] = state[x]
        /\ hasMsgError'[x] = hasMsgError[x] /\ call'[x] = call[x] /\ message'[x] = message[x]
    BY <1>2, <1>16, <1>21
  <2> QED BY <2>1, SameReply
<1>22. Replies' = [Replies EXCEPT ![p] = Contract!Done, ![cur] = Contract!Done]
  <2> DEFINE u == Contract!Done
             c == cur
  <2>1. c \in Proc /\ \A x \in Proc : Replies'[x] = IF x = c THEN u
                                   ELSE IF x = p THEN u ELSE Replies[x]
    BY <1>16, <1>19, <1>20, <1>21
  <2> HIDE DEF u, c
  <2>2. Replies' = [Replies EXCEPT ![p] = u, ![c] = u]
    BY <2>1, RepliesFun
  <2> QED BY <2>2 DEF u, c
<1>23. size' = size /\ m \in Msg
  BY <1>2, <1>6
<1> QED BY <1>10, <1>13, <1>14, <1>16, <1>17, <1>18, <1>22, <1>23, ReceiveAndAdmitStep

\* pcreate opens a queue that did not exist.
LEMMA PcreateOpens ==
  ASSUME WInv, TInv, Ranges, CallInv, NEW n \in Sizes, Pcreate(n)
  PROVE  Contract!CNext
<1>1. PICK q \in Fid : q = NewFid
  BY NewFidFree
<1>2. ~ alive[q]
  <2>1. CASE list # <<>>
    <3>1. q \in Elems(list)
      BY <1>1, <2>1, HeadTail DEF NewFid, TInv, QueuesAccounted
    <3> QED BY <3>1 DEF TInv, QueuesAccounted
  <2>2. CASE list = <<>>
    BY <1>1, <2>2 DEF NewFid, TInv
  <2> QED BY <2>1, <2>2
<1>3. size[q] = 0 /\ nbMessages[q] = 0
  BY <1>2 DEF CallInv, DeadEmpty
<1>4. /\ size' = [size EXCEPT ![q] = n]
      /\ messages' = [messages EXCEPT ![q] = [i \in 0..(n - 1) |-> 0]]
      /\ rindex' = [rindex EXCEPT ![q] = 0] /\ nbMessages' = [nbMessages EXCEPT ![q] = 0]
      /\ UNCHANGED <<sched, blockedQueue, mine>>
  BY <1>1 DEF Pcreate, Opened
<1>5. /\ nbMessages'[q] = 0
      /\ \A r \in Fid : r # q => /\ messages'[r] = messages[r] /\ rindex'[r] = rindex[r]
                                 /\ nbMessages'[r] = nbMessages[r] /\ size'[r] = size[r]
  BY <1>4 DEF WInv, WaitTypes, Ranges
<1>6. Ring(messages'[q], rindex'[q], nbMessages'[q], size'[q]) = <<>>
  BY <1>5, RingEmpty
<1>7. Content[q] = <<>>
  BY <1>3, RingEmpty DEF Content
<1>8. Content' = Content
  <2> DEFINE e == <<>>
  <2>1. Ring(messages'[q], rindex'[q], nbMessages'[q], size'[q]) = e /\ Content[q] = e
    BY <1>6, <1>7
  <2> HIDE DEF e
  <2>2. Content' = [Content EXCEPT ![q] = e]
    BY <1>5, <2>1, ContentStep
  <2> QED BY <2>1, <2>2 DEF Content
<1>9. Wants' = Wants /\ Replies' = Replies /\ received' = received
  BY <1>4, ClientsKept DEF sched, mine
<1> QED BY <1>3, <1>4, <1>8, <1>9, OpenStep

\* preset and pdelete empty the queue, and who waits is told.
LEMMA ExpelEmpties ==
  ASSUME WInv, EInv, Ranges, NEW q \in Fid, Preset(q) \/ Pdelete(q)
  PROVE  Contract!CNext
<1> DEFINE X == Elems(Expelled(q))
           P == {p \in Proc : Wants[p] # Contract!Nothing /\ Wants[p][2] = q}
<1>1. /\ Expel(q) /\ alive[q]
      /\ \/ UNCHANGED <<messages, size>>
         \/ messages' = [messages EXCEPT ![q] = <<>>] /\ size' = [size EXCEPT ![q] = 0]
  BY DEF Preset, Pdelete
<1>2. X = Elems(Expelled(q)) /\ P = {p \in Proc : Wants[p] # Contract!Nothing /\ Wants[p][2] = q}
  OBVIOUS
<1> HIDE DEF X
<1>3. /\ X \subseteq Proc
      /\ \A r \in Proc : r \in X <=>
           (blockedQueue[r] = <<q, "readers">> \/ blockedQueue[r] = <<q, "writers">>)
      /\ \A r \in X : state[r] = "WAITMSG" /\ r \in stopped
      /\ \A r \in Proc : state'[r] = IF r \in X THEN "ACTIVABLE" ELSE state[r]
      /\ \A r \in Proc : blockedQueue'[r] = IF r \in X THEN <<>> ELSE blockedQueue[r]
      /\ \A r \in Proc : hasMsgError'[r] <=> r \in X \/ hasMsgError[r]
      /\ UNCHANGED <<stopped, message, received, call, rindex, windex>>
      /\ nbMessages' = [nbMessages EXCEPT ![q] = 0]
  BY <1>1, <1>2, ExpelEffects
<1>4. P = X
  <2>1. \A r \in Proc : r \in P <=> r \in X
    BY <1>3, WantsAre
  <2> QED BY <1>3, <2>1
<1> HIDE DEF P
<1>5. Wants' = [p \in Proc |-> IF p \in P THEN Contract!Nothing ELSE Wants[p]]
  <2>1. ASSUME NEW p \in Proc
        PROVE  Wants'[p] = IF p \in P THEN Contract!Nothing ELSE Wants[p]
    <3>1. CASE p \in X
      BY <1>3, <1>4, <3>1, NoWant
    <3>2. CASE p \notin X
      BY <1>3, <1>4, <3>2, SameWant
    <3> QED BY <3>1, <3>2
  <2>2. Wants' = [p \in Proc |-> Wants'[p]]
    BY DEF Wants
  <2> QED BY <2>1, <2>2
<1>6. Replies' = [p \in Proc |-> IF p \in P THEN Contract!Error ELSE Replies[p]]
  <2>1. ASSUME NEW p \in Proc
        PROVE  Replies'[p] = IF p \in P THEN Contract!Error ELSE Replies[p]
    <3>1. CASE p \in X
      <4>1. p \in stopped' /\ state'[p] # "WAITMSG" /\ hasMsgError'[p]
        BY <1>3, <3>1
      <4> QED BY <1>4, <3>1, <4>1, ReplyIs
    <3>2. CASE p \notin X
      <4>1. hasMsgError'[p] <=> hasMsgError[p]
        BY <1>3, <3>2
      <4> QED BY <1>3, <1>4, <3>2, <4>1 DEF Replies
    <3> QED BY <3>1, <3>2
  <2> QED BY <2>1, RepliesFun
<1>7. Content' = [Content EXCEPT ![q] = <<>>]
  <2> DEFINE e == <<>>
  <2>1. /\ nbMessages'[q] = 0
        /\ \A r \in Fid : r # q => /\ messages'[r] = messages[r] /\ rindex'[r] = rindex[r]
                                   /\ nbMessages'[r] = nbMessages[r] /\ size'[r] = size[r]
    BY <1>1, <1>3 DEF WInv, WaitTypes, Ranges
  <2>2. Ring(messages'[q], rindex'[q], nbMessages'[q], size'[q]) = e
    BY <2>1, RingEmpty
  <2> HIDE DEF e
  <2>3. Content' = [Content EXCEPT ![q] = e]
    BY <2>1, <2>2, ContentStep
  <2> QED BY <2>3 DEF e
<1>8. size[q] > 0
  BY <1>1, LiveContent
<1>9. size' = size \/ size' = [size EXCEPT ![q] = 0]
  BY <1>1
<1>10. received' = received /\ size \in [Fid -> Nat]
  BY <1>3 DEF WInv, WaitTypes
<1> QED BY <1>2, <1>5, <1>6, <1>7, <1>8, <1>9, <1>10, EmptyStep

\* A call returns with its message, or its error.
LEMMA ResumeReturns ==
  ASSUME WInv, EInv, Ranges, CallInv, Resume
  PROVE  Contract!CNext
<1>1. /\ pc = "resumed" /\ stopped' = stopped \ {cur}
      /\ received' = IF call[cur] = "receive" THEN [received EXCEPT ![cur] = message[cur]]
                                              ELSE received
      /\ hasMsgError' = [hasMsgError EXCEPT ![cur] = FALSE]
      /\ call' = [call EXCEPT ![cur] = "none"]
      /\ UNCHANGED <<state, buffer, blockedQueue, message>>
  BY DEF Resume, Returned, CheckErrors, waits
<1>2. /\ cur \in Proc /\ cur \in stopped /\ state[cur] = "CHOSEN"
      /\ call[cur] \in {"send", "receive"} /\ hasMsgError[cur] \in BOOLEAN
      /\ (call[cur] = "receive" /\ ~ hasMsgError[cur] => message[cur] \in Msg)
      /\ message[cur] \in Msg \cup {0}
  BY <1>1 DEF CallInv, InCall, WInv, SchedInv, EInv, Ranges, FieldsOK
<1>3. /\ hasMsgError[cur] => Replies[cur] = Contract!Error
      /\ ~ hasMsgError[cur] /\ call[cur] = "receive" => Replies[cur] = Contract!Given(message[cur])
      /\ ~ hasMsgError[cur] /\ call[cur] = "send" => Replies[cur] = Contract!Done
  BY <1>2, ReplyWas
<1>4. Replies[cur] # Contract!Nothing
  BY <1>2, <1>3, Told
<1>5. \/ Replies[cur] = Contract!Done /\ received' = received
      \/ \E m \in Msg : /\ Replies[cur] = Contract!Given(m)
                        /\ received' = [received EXCEPT ![cur] = m]
      \/ \E m \in Msg \cup {0, received[cur]} :
           Replies[cur] = Contract!Error /\ received' = [received EXCEPT ![cur] = m]
  <2>1. CASE hasMsgError[cur] /\ call[cur] = "receive"
    <3>1. message[cur] \in Msg \cup {0, received[cur]}
      BY <1>2
    <3> QED BY <1>1, <1>3, <2>1, <3>1
  <2>2. CASE hasMsgError[cur] /\ call[cur] = "send"
    <3>1. received' = [received EXCEPT ![cur] = received[cur]]
      BY <1>1, <2>2 DEF Ranges, FieldsOK
    <3> QED BY <1>3, <2>2, <3>1
  <2>3. CASE ~ hasMsgError[cur] /\ call[cur] = "receive"
    BY <1>1, <1>2, <1>3, <2>3
  <2>4. CASE ~ hasMsgError[cur] /\ call[cur] = "send"
    BY <1>1, <1>3, <2>4
  <2> QED BY <1>2, <2>1, <2>2, <2>3, <2>4
<1>6. Replies' = [Replies EXCEPT ![cur] = Contract!Nothing]
  <2>1. Replies'[cur] = Contract!Nothing
    BY <1>1, <1>2, NoReply
  <2>2. ASSUME NEW r \in Proc, r # cur PROVE Replies'[r] = Replies[r]
    <3>1. /\ (r \in stopped' <=> r \in stopped) /\ state'[r] = state[r]
          /\ hasMsgError'[r] = hasMsgError[r] /\ call'[r] = call[r] /\ message'[r] = message[r]
      BY <1>1, <2>2 DEF EInv, Ranges, FieldsOK
    <3> QED BY <3>1, SameReply
  <2>3. \A r \in Proc : Replies'[r] = IF r = cur THEN Contract!Nothing ELSE Replies[r]
    BY <2>1, <2>2
  <2> QED BY <1>2, <2>3, RepliesSet
<1>7. Wants' = Wants
  BY <1>1 DEF Wants
<1>8. size' = size /\ Content' = Content
  BY <1>1, ContentKept DEF buffer
<1> QED BY <1>2, <1>4, <1>5, <1>6, <1>7, <1>8, ReturnStep

\* kill ends a client, whatever it waits for.
LEMMA KillEnds ==
  ASSUME WInv, Ranges, NEW p \in Proc, Kill(p)
  PROVE  Contract!CNext
<1>1. /\ stopped' = stopped \ {p}
      /\ \A r \in Proc : state'[r] = IF r = p THEN "ENDED" ELSE state[r]
      /\ UNCHANGED <<buffer, message, hasMsgError, received>>
      /\ \A r \in Proc : call'[r] = IF r = p THEN "none" ELSE call[r]
      /\ \A r \in Proc : blockedQueue'[r] = IF r = p THEN <<>> ELSE blockedQueue[r]
  BY PidFacts DEF Kill, Ended, WInv, SchedInv, WaitTypes, Ranges, FieldsOK
<1>2. Wants'[p] = Contract!Nothing /\ Replies'[p] = Contract!Nothing
  BY <1>1, NoWant, NoReply
<1>3. ASSUME NEW r \in Proc, r # p PROVE Wants'[r] = Wants[r] /\ Replies'[r] = Replies[r]
  <2>1. /\ (r \in stopped' <=> r \in stopped) /\ state'[r] = state[r]
        /\ hasMsgError'[r] = hasMsgError[r] /\ call'[r] = call[r] /\ message'[r] = message[r]
        /\ blockedQueue'[r] = blockedQueue[r]
    BY <1>1, <1>3
  <2> QED BY <2>1, SameWant, SameReply
<1>4. Wants' = [Wants EXCEPT ![p] = Contract!Nothing]
  <2>1. \A r \in Proc : Wants'[r] = IF r = p THEN Contract!Nothing ELSE Wants[r]
    BY <1>2, <1>3
  <2> QED BY <2>1, WantsSet
<1>5. Replies' = [Replies EXCEPT ![p] = Contract!Nothing]
  <2>1. \A r \in Proc : Replies'[r] = IF r = p THEN Contract!Nothing ELSE Replies[r]
    BY <1>2, <1>3
  <2> QED BY <2>1, RepliesSet
<1>6. size' = size /\ Content' = Content /\ received' = received
  BY <1>1, ContentKept DEF buffer
<1> QED BY <1>4, <1>5, <1>6, EndStep

\* start begins a client.
LEMMA StartBegins ==
  ASSUME WInv, EInv, Ranges, CallInv, NEW p \in Proc, NEW n \in Prio, Start(p, n)
  PROVE  Contract!CNext
<1>1. /\ UNCHANGED <<stopped, buffer, call, blockedQueue>> /\ state[p] = "ENDED"
      /\ \A r \in Proc : state'[r] = IF r = p THEN "ACTIVABLE" ELSE state[r]
      /\ \A r \in Proc : r # p => message'[r] = message[r] /\ hasMsgError'[r] = hasMsgError[r]
      /\ received' = [received EXCEPT ![p] = 0]
  BY PidFacts DEF Start, Started, waits, WInv, SchedInv, Ranges, FieldsOK, EInv
<1>2. p \notin stopped /\ blockedQueue[p] = <<>>
  BY <1>1 DEF CallInv, InCall, WInv, ListsMatch
<1>3. Wants'[p] = Wants[p] /\ Replies'[p] = Replies[p]
  <2>1. Wants[p] = Contract!Nothing /\ Replies[p] = Contract!Nothing
    BY <1>2, WantsAre, NoReply
  <2>2. Wants'[p] = Contract!Nothing /\ Replies'[p] = Contract!Nothing
    BY <1>1, <1>2, NoWant, NoReply
  <2> QED BY <2>1, <2>2
<1>4. ASSUME NEW r \in Proc, r # p PROVE Wants'[r] = Wants[r] /\ Replies'[r] = Replies[r]
  <2>1. /\ (r \in stopped' <=> r \in stopped) /\ state'[r] = state[r]
        /\ hasMsgError'[r] = hasMsgError[r] /\ call'[r] = call[r] /\ message'[r] = message[r]
        /\ blockedQueue'[r] = blockedQueue[r]
    BY <1>1, <1>4
  <2> QED BY <2>1, SameWant, SameReply
<1>5. Wants' = Wants /\ Replies' = Replies
  BY <1>3, <1>4, WantsKept, RepliesKept
<1>6. size' = size /\ Content' = Content
  BY <1>1, ContentKept DEF buffer
<1> QED BY <1>1, <1>5, <1>6, BeginStep

\* The other operations leave the contract alone.
LEMMA OthersIdle ==
  ASSUME WInv,
         \/ PcreateNoMemory \/ Tick \/ Ordonnance \/ UNCHANGED vars
         \/ \E p \in Proc, n \in Prio : Chprio(p, n)
  PROVE  UNCHANGED Contract!cvars
<1>1. UNCHANGED <<stopped, buffer, blockedQueue, mine>>
  BY DEF PcreateNoMemory, Tick, Preempted, Ordonnance, Elected, vars, Chprio, Repriorised,
         sched, waits
<1>2. \A p \in Proc : state'[p] = "WAITMSG" <=> state[p] = "WAITMSG"
  <2>1. CASE Ordonnance
    <3>1. /\ \A p \in Pid : state[p] \notin {"CHOSEN", "ACTIVABLE"} => state'[p] = state[p]
          /\ \A p \in Pid : state[p] \in {"CHOSEN", "ACTIVABLE"} =>
                              state'[p] \in {"CHOSEN", "ACTIVABLE"}
      BY <2>1, ElectedSched DEF WInv, Ordonnance
    <3> QED BY <3>1, PidFacts
  <2>2. CASE UNCHANGED state
    BY <2>2
  <2> QED BY <2>1, <2>2 DEF PcreateNoMemory, Tick, Preempted, vars, Chprio, Repriorised, sched
<1>3. ASSUME NEW r \in Proc PROVE Wants'[r] = Wants[r] /\ Replies'[r] = Replies[r]
  <2>1. /\ (r \in stopped' <=> r \in stopped) /\ (state'[r] = "WAITMSG" <=> state[r] = "WAITMSG")
        /\ hasMsgError'[r] = hasMsgError[r] /\ call'[r] = call[r] /\ message'[r] = message[r]
        /\ blockedQueue'[r] = blockedQueue[r]
    BY <1>1, <1>2 DEF mine
  <2> QED BY <2>1, SameWant, SameReply
<1>4. Wants' = Wants /\ Replies' = Replies
  BY <1>3, WantsKept, RepliesKept
<1>5. size' = size /\ Content' = Content /\ received' = received
  BY <1>1, ContentKept DEF buffer, mine
<1> QED BY <1>4, <1>5, IdleStep

\* Every step is a step of the contract, or none.
LEMMA NextContract ==
  ASSUME WInv, TInv, EInv, Ranges, CallInv, Indices, Receivers \subseteq {TRUE}, [Next]_vars
  PROVE  Contract!CNext \/ UNCHANGED Contract!cvars
<1>1. ASSUME NEW n \in Sizes, Pcreate(n) PROVE Contract!CNext
  BY <1>1, PcreateOpens
<1>2. ASSUME NEW q \in Fid, Preset(q) \/ Pdelete(q) PROVE Contract!CNext
  BY <1>2, ExpelEmpties
<1>3. ASSUME NEW q \in Fid, NEW m \in Msg, PsendHand(q, m) PROVE Contract!CNext
  BY <1>3, HandSendsTo
<1>4. ASSUME NEW q \in Fid, NEW m \in Msg, PsendBlock(q, m) PROVE Contract!CNext
  BY <1>4, SendAwaits
<1>5. ASSUME NEW q \in Fid, NEW m \in Msg, PsendWrite(q, m) PROVE Contract!CNext
  BY <1>5, WriteSends
<1>6. ASSUME NEW q \in Fid, NEW ptr \in Receivers, PreceiveBlock(q, ptr) PROVE Contract!CNext
  BY <1>6, ReceiveAwaits
<1>7. ASSUME NEW q \in Fid, NEW ptr \in Receivers, Preceive(q, ptr) PROVE Contract!CNext
  <2>1. Preceive(q, TRUE)
    BY <1>7 DEF Preceive, Read
  <2> QED BY <2>1, ReadReceives
<1>8. ASSUME NEW q \in Fid, NEW ptr \in Receivers, PreceiveLetIn(q, ptr) PROVE Contract!CNext
  <2>1. PreceiveLetIn(q, TRUE)
    BY <1>8 DEF PreceiveLetIn, Read
  <2> QED BY <2>1, LetInAdmits
<1>9. ASSUME Resume PROVE Contract!CNext
  BY <1>9, ResumeReturns
<1>10. ASSUME NEW p \in Proc, Kill(p) PROVE Contract!CNext
  BY <1>10, KillEnds
<1>11. ASSUME NEW p \in Proc, NEW n \in Prio, Start(p, n) PROVE Contract!CNext
  BY <1>11, StartBegins
<1>12. ASSUME \/ PcreateNoMemory \/ Tick \/ Ordonnance \/ UNCHANGED vars
              \/ \E p \in Proc, n \in Prio : Chprio(p, n)
       PROVE  UNCHANGED Contract!cvars
  BY <1>12, OthersIdle
<1>13. ResetIds \subseteq Fid
  BY MessageAssumption DEF Fid
<1> QED BY <1>1, <1>2, <1>3, <1>4, <1>5, <1>6, <1>7, <1>8, <1>9, <1>10, <1>11, <1>12, <1>13
        DEF Next

\* While the indices of the queues and their numbers of messages agree, and
\* when every preceive has a pointer, the queues keep the promises of module
\* MessageContract, with preset too: no message is lost, made, given twice or
\* out of order, and every call is answered once, whatever kill, chprio and
\* the scheduler do.
THEOREM PromiseWhileIndicesAgree ==
  Receivers \subseteq {TRUE} /\ Spec /\ []IndicesAgree => MessagePromise
<1> SUFFICES ASSUME Receivers \subseteq {TRUE}
             PROVE  Spec /\ []IndicesAgree => MessagePromise
  OBVIOUS
<1>1. Init => CallInv
  <2> SUFFICES ASSUME Init PROVE CallInv
    OBVIOUS
  <2>1. /\ stopped = {} /\ pc # "resumed"
        /\ \A p \in Proc : blockedQueue[p] = <<>>
        /\ \A q \in Fid : size[q] = 0 /\ nbMessages[q] = 0
    BY DEF Init, SchedInit
  <2>2. ASSUME NEW p \in Proc PROVE InCall(p)
    BY <2>1, Pairs DEF InCall
  <2> QED BY <2>1, <2>2 DEF CallInv, DeadEmpty
<1>2. Init => Contract!CInit
  <2> SUFFICES ASSUME Init PROVE Contract!CInit
    OBVIOUS
  <2>1. /\ size = [q \in Fid |-> 0] /\ received = [p \in Proc |-> 0]
        /\ stopped = {} /\ \A q \in Fid : nbMessages[q] = 0
        /\ \A p \in Proc : blockedQueue[p] = <<>>
    BY DEF Init, SchedInit
  <2>2. Content = [q \in Fid |-> <<>>]
    BY <2>1, RingEmpty DEF Content
  <2>3. Wants = [p \in Proc |-> Contract!Nothing]
    <3>1. \A p \in Proc : Wants[p] = WantOf(<<>>, message[p])
      BY <2>1 DEF Wants
    <3>2. \A p \in Proc : Wants[p] = Contract!Nothing
      BY <3>1, WantOfIs
    <3> QED BY <3>2 DEF Wants
  <2>4. Replies = [p \in Proc |-> Contract!Nothing]
    BY <2>1 DEF Replies, Contract!Nothing
  <2> QED BY <2>1, <2>2, <2>3, <2>4
          DEF Contract!CInit, Content, Ring, Nth, Wants, WantOf, Replies
<1>3. WInv /\ TInv /\ EInv /\ Ranges /\ CallInv /\ [Next]_vars => CallInv'
  BY NextCallInv
<1>4. /\ WInv /\ TInv /\ EInv /\ ListsSorted /\ Ranges /\ CallInv /\ IndicesAgree /\ [Next]_vars
      => [Contract!CNext]_(Contract!cvars)
  BY AgreeIs, NextContract
<1> QED BY <1>1, <1>2, <1>3, <1>4, Invariant, PTL
        DEF Spec, MessagePromise, Contract!CSpec

\* Hence without preset.
THEOREM PromiseKept ==
  ResetIds = {} /\ Receivers \subseteq {TRUE} /\ Spec => MessagePromise
<1> SUFFICES ASSUME ResetIds = {}, Receivers \subseteq {TRUE} PROVE Spec => MessagePromise
  OBVIOUS
<1>1. Spec => []IndicesAgree
  BY IndicesHold
<1>2. Spec /\ []IndicesAgree => MessagePromise
  BY PromiseWhileIndicesAgree
<1> QED BY <1>1, <1>2, PTL
=============================================================================

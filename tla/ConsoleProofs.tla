--------------------------- MODULE ConsoleProofs ---------------------------
(***************************************************************************)
(* For every size of the buffer and every number of processes: with a      *)
(* careful typist the indices, the room and the number of lines of module  *)
(* Console stay in step, whatever the scheduler does; and, if nobody is    *)
(* killed who waits for input, the console implements ConsoleContract.     *)
(***************************************************************************)
EXTENDS ConsoleProps, SchedulerProofs, FiniteSetTheorems

\* Places and distances in the ring.
Index == 0..(TailleTamp - 1)
Room  == 0..TailleTamp

\* The carriage returns among the n places of t from l on, and how many.
ReturnsIn(t, l, n) == {i \in 1..n : t[Avancer(l, i - 1)] = "cr"}

-----------------------------------------------------------------------------
(* The circular buffer. *)

\* avancer and reculer go round at the ends of the buffer.
LEMMA Ring ==
  ASSUME NEW i \in Index, NEW n \in Room
  PROVE  /\ Avancer(i, n) = IF i + n < TailleTamp THEN i + n ELSE i + n - TailleTamp
         /\ Behind(i, n) = IF n <= i THEN i - n ELSE i - n + TailleTamp
         /\ Avancer(i, n) \in Index /\ Behind(i, n) \in Index
<1>1. ASSUME NEW x \in Nat, x < TailleTamp
      PROVE  /\ x % TailleTamp = x
             /\ (x + TailleTamp) % TailleTamp = x
             /\ (x - TailleTamp) % TailleTamp = x
  BY <1>1, ConsoleAssumption, Z3
<1>2. /\ i + n < TailleTamp => (i + n) % TailleTamp = i + n
      /\ i + n >= TailleTamp => (i + n) % TailleTamp = i + n - TailleTamp
  <2>1. CASE i + n < TailleTamp
    BY <2>1, <1>1, ConsoleAssumption DEF Index, Room
  <2>2. CASE i + n >= TailleTamp
    <3>1. i + n - TailleTamp \in Nat /\ i + n - TailleTamp < TailleTamp
      BY <2>2, ConsoleAssumption DEF Index, Room
    <3>2. ((i + n - TailleTamp) + TailleTamp) % TailleTamp = i + n - TailleTamp
      BY <3>1, <1>1
    <3>3. (i + n - TailleTamp) + TailleTamp = i + n
      BY ConsoleAssumption DEF Index, Room
    <3> QED BY <2>2, <3>2, <3>3, ConsoleAssumption DEF Index, Room
  <2> QED BY <2>1, <2>2, ConsoleAssumption DEF Index, Room
<1>3. /\ n <= i => (i - n) % TailleTamp = i - n
      /\ n > i => (i - n) % TailleTamp = i - n + TailleTamp
  <2>1. CASE n <= i
    BY <2>1, <1>1, ConsoleAssumption DEF Index, Room
  <2>2. CASE n > i
    <3>1. i - n + TailleTamp \in Nat /\ i - n + TailleTamp < TailleTamp
      BY <2>2, ConsoleAssumption DEF Index, Room
    <3>2. ((i - n + TailleTamp) - TailleTamp) % TailleTamp = i - n + TailleTamp
      BY <3>1, <1>1
    <3>3. (i - n + TailleTamp) - TailleTamp = i - n
      BY ConsoleAssumption DEF Index, Room
    <3> QED BY <2>2, <3>2, <3>3, ConsoleAssumption DEF Index, Room
  <2> QED BY <2>1, <2>2, ConsoleAssumption DEF Index, Room
<1> QED BY <1>2, <1>3, ConsoleAssumption DEF Index, Room, Avancer, Behind

\* Returns can be counted.
LEMMA ReturnsFinite ==
  ASSUME NEW t, NEW l, NEW n \in Nat
  PROVE  /\ ReturnsIn(t, l, n) \subseteq 1..n
         /\ IsFiniteSet(ReturnsIn(t, l, n))
         /\ Cardinality(ReturnsIn(t, l, n)) \in Nat
<1>1. ReturnsIn(t, l, n) \subseteq 1..n
  BY DEF ReturnsIn
<1>2. IsFiniteSet(1..n)
  BY FS_Interval
<1> QED BY <1>1, <1>2, FS_Subset, FS_CardinalityType

\* A key is stored behind the n that are there, which stay.
LEMMA PlaceStored ==
  ASSUME NEW t, DOMAIN t = Index, NEW l \in Index, NEW n \in Nat, n < TailleTamp, NEW k,
         NEW u, u = [t EXCEPT ![Avancer(l, n)] = k]
  PROVE  /\ \A i \in 1..n : u[Avancer(l, i - 1)] = t[Avancer(l, i - 1)]
         /\ u[Avancer(l, n)] = k
<1>1. ASSUME NEW i \in 1..n
      PROVE  Avancer(l, i - 1) # Avancer(l, n)
  <2>1. i - 1 \in Room /\ n \in Room /\ i - 1 < n
    BY ConsoleAssumption DEF Room
  <2>2. /\ Avancer(l, i - 1) = IF l + (i - 1) < TailleTamp THEN l + (i - 1)
                               ELSE l + (i - 1) - TailleTamp
        /\ Avancer(l, n) = IF l + n < TailleTamp THEN l + n ELSE l + n - TailleTamp
    BY <2>1, Ring
  <2> QED BY <2>1, <2>2, ConsoleAssumption DEF Index, Room
<1>2. Avancer(l, n) \in Index
  BY Ring, ConsoleAssumption DEF Room
<1> QED BY <1>1, <1>2

\* Its effect on the returns.
LEMMA ReturnsStored ==
  ASSUME NEW t, DOMAIN t = Index, NEW l \in Index, NEW n \in Nat, n < TailleTamp, NEW k
  PROVE  LET stored == ReturnsIn([t EXCEPT ![Avancer(l, n)] = k], l, n + 1)
         IN /\ k = "cr" => Cardinality(stored) = Cardinality(ReturnsIn(t, l, n)) + 1
            /\ k # "cr" => Cardinality(stored) = Cardinality(ReturnsIn(t, l, n))
<1> DEFINE u == [t EXCEPT ![Avancer(l, n)] = k]
<1>0. u = [t EXCEPT ![Avancer(l, n)] = k]
  OBVIOUS
<1> HIDE DEF u
<1>1. \A i \in 1..n : u[Avancer(l, i - 1)] = t[Avancer(l, i - 1)]
  BY <1>0, PlaceStored
<1>2. u[Avancer(l, n)] = k
  BY <1>0, PlaceStored
<1>3. (n + 1) - 1 = n /\ 1..(n + 1) = 1..n \cup {n + 1} /\ n + 1 \notin 1..n
  OBVIOUS
<1>4. ReturnsIn(u, l, n + 1) =
        ReturnsIn(t, l, n) \cup (IF k = "cr" THEN {n + 1} ELSE {})
  BY <1>1, <1>2, <1>3 DEF ReturnsIn
<1>5. n + 1 \notin ReturnsIn(t, l, n)
  BY <1>3 DEF ReturnsIn
<1>6. IsFiniteSet(ReturnsIn(t, l, n)) /\ Cardinality(ReturnsIn(t, l, n)) \in Nat
  BY ReturnsFinite
<1> USE DEF u
<1>7. CASE k = "cr"
  BY <1>4, <1>5, <1>6, <1>7, FS_AddElement
<1>8. CASE k # "cr"
  <2>1. ReturnsIn(u, l, n + 1) = ReturnsIn(t, l, n)
    BY <1>4, <1>8
  <2> QED BY <2>1, <1>6, <1>8
<1> QED BY <1>7, <1>8

\* The last m of n places hold no return, and are dropped.
LEMMA ReturnsDropped ==
  ASSUME NEW t, NEW l, NEW n \in Nat, NEW m \in 0..n,
         \A i \in (n - m + 1)..n : t[Avancer(l, i - 1)] # "cr"
  PROVE  ReturnsIn(t, l, n - m) = ReturnsIn(t, l, n)
BY DEF ReturnsIn

\* What follows the first k of n places.
LEMMA Further ==
  ASSUME NEW l \in Index, NEW n \in Room, NEW k \in 1..n, NEW i \in 1..(n - k)
  PROVE  Avancer(Avancer(l, k), i - 1) = Avancer(l, i + k - 1)
<1>1. k \in Room /\ i - 1 \in Room /\ i + k - 1 \in Room
  BY ConsoleAssumption DEF Room
<1>2. Avancer(l, k) \in Index
  BY <1>1, Ring
<1>3. Avancer(l, k) = IF l + k < TailleTamp THEN l + k ELSE l + k - TailleTamp
  BY <1>1, Ring
<1>4. Avancer(Avancer(l, k), i - 1) =
        IF Avancer(l, k) + (i - 1) < TailleTamp THEN Avancer(l, k) + (i - 1)
        ELSE Avancer(l, k) + (i - 1) - TailleTamp
  BY <1>1, <1>2, Ring
<1>5. Avancer(l, i + k - 1) =
        IF l + (i + k - 1) < TailleTamp THEN l + (i + k - 1)
        ELSE l + (i + k - 1) - TailleTamp
  BY <1>1, Ring
<1> QED BY <1>1, <1>2, <1>3, <1>4, <1>5, ConsoleAssumption DEF Index, Room

\* The first k of n places are read; before the k-th there is no return.
LEMMA ReturnsRead ==
  ASSUME NEW t, NEW l \in Index, NEW n \in Room, NEW k \in 1..n,
         \A i \in 1..(k - 1) : t[Avancer(l, i - 1)] # "cr"
  PROVE  Cardinality(ReturnsIn(t, Avancer(l, k), n - k)) =
           Cardinality(ReturnsIn(t, l, n)) -
             IF t[Avancer(l, k - 1)] = "cr" THEN 1 ELSE 0
<1> DEFINE old  == ReturnsIn(t, l, n)
           new  == ReturnsIn(t, Avancer(l, k), n - k)
           move == [i \in new |-> i + k]
<1>1. \A i \in 1..(n - k) : Avancer(Avancer(l, k), i - 1) = Avancer(l, i + k - 1)
  BY Further
<1>2. n \in Nat /\ n - k \in Nat
  BY ConsoleAssumption DEF Room
<1>3. \A j \in old \ {k} : j - k \in new /\ (j - k) + k = j
  <2>1. ASSUME NEW j \in old \ {k}
        PROVE  j - k \in new /\ (j - k) + k = j
    <3>1. j \in 1..n /\ t[Avancer(l, j - 1)] = "cr" /\ j # k
      BY DEF ReturnsIn
    <3>2. j > k
      BY <3>1, <1>2
    <3>3. j - k \in 1..(n - k) /\ (j - k) + k - 1 = j - 1
      BY <3>1, <3>2, <1>2
    <3> QED BY <3>1, <3>3, <1>1, <1>2 DEF ReturnsIn
  <2> QED BY <2>1
<1>4. \A i \in new : i + k \in old \ {k}
  <2>1. ASSUME NEW i \in new
        PROVE  i + k \in old \ {k}
    <3>1. i \in 1..(n - k) /\ t[Avancer(Avancer(l, k), i - 1)] = "cr"
      BY DEF ReturnsIn
    <3>2. i + k \in 1..n /\ i + k # k /\ t[Avancer(l, (i + k) - 1)] = "cr"
      BY <3>1, <1>1, <1>2
    <3> QED BY <3>2 DEF ReturnsIn
  <2> QED BY <2>1
<1>5. move \in Bijection(new, old \ {k})
  <2>1. move \in [new -> old \ {k}]
    BY <1>4
  <2>2. \A i, j \in new : move[i] = move[j] => i = j
    BY <1>2 DEF ReturnsIn
  <2>3. \A j \in old \ {k} : \E i \in new : move[i] = j
    BY <1>3
  <2> QED BY <2>1, <2>2, <2>3 DEF Bijection, Injection, Surjection, IsInjective
<1>6. IsFiniteSet(new) /\ IsFiniteSet(old) /\ Cardinality(old) \in Nat
  BY <1>2, ReturnsFinite
<1>7. Cardinality(old \ {k}) = Cardinality(new)
  BY <1>5, <1>6, FS_Bijection DEF ExistsBijection
<1>8. k \in old <=> t[Avancer(l, k - 1)] = "cr"
  BY DEF ReturnsIn
<1>9. Cardinality(old \ {k}) = IF k \in old THEN Cardinality(old) - 1 ELSE Cardinality(old)
  BY <1>6, FS_RemoveElement
<1> HIDE DEF old, new
<1> QED BY <1>6, <1>7, <1>8, <1>9 DEF old, new

\* ecrire_clavier writes m characters behind the n that are there.
LEMMA PlacesWritten ==
  ASSUME NEW t, DOMAIN t = Index, NEW l \in Index, NEW n \in Nat, NEW m \in Nat,
         n + m <= TailleTamp, NEW u,
         \A i \in Index : u[i] = IF Behind(i, Avancer(l, n)) < m THEN "c" ELSE t[i]
  PROVE  \A i \in 1..(n + m) :
           u[Avancer(l, i - 1)] = IF i <= n THEN t[Avancer(l, i - 1)] ELSE "c"
<1> DEFINE e == Avancer(l, n)
<1>1. e \in Index /\ n \in Room
  BY Ring, ConsoleAssumption DEF Room
<1>2. ASSUME NEW i \in 1..(n + m)
      PROVE  /\ Avancer(l, i - 1) \in Index
             /\ i <= n => ~ Behind(Avancer(l, i - 1), e) < m
             /\ i > n => Behind(Avancer(l, i - 1), e) < m
  <2>1. i - 1 \in Room /\ Avancer(l, i - 1) \in Index
    BY Ring, ConsoleAssumption DEF Room
  <2>2. e \in Room
    BY <1>1, ConsoleAssumption DEF Index, Room
  <2>3. Behind(Avancer(l, i - 1), e) =
          IF e <= Avancer(l, i - 1) THEN Avancer(l, i - 1) - e
          ELSE Avancer(l, i - 1) - e + TailleTamp
    BY <2>1, <2>2, Ring
  <2>4. e = IF l + n < TailleTamp THEN l + n ELSE l + n - TailleTamp
    BY <1>1, Ring
  <2>5. Avancer(l, i - 1) =
          IF l + (i - 1) < TailleTamp THEN l + (i - 1) ELSE l + (i - 1) - TailleTamp
    BY <2>1, Ring
  <2> HIDE DEF e
  <2> QED BY <2>1, <2>3, <2>4, <2>5, ConsoleAssumption DEF Index, Room
<1> QED BY <1>2

\* They bring no return.
LEMMA ReturnsWritten ==
  ASSUME NEW t, DOMAIN t = Index, NEW l \in Index, NEW n \in Nat, NEW m \in Nat,
         n + m <= TailleTamp
  PROVE  ReturnsIn([i \in Index |-> IF Behind(i, Avancer(l, n)) < m THEN "c" ELSE t[i]],
                   l, n + m) = ReturnsIn(t, l, n)
<1> DEFINE u == [i \in Index |-> IF Behind(i, Avancer(l, n)) < m THEN "c" ELSE t[i]]
<1>1. \A i \in 1..(n + m) : u[Avancer(l, i - 1)] = IF i <= n THEN t[Avancer(l, i - 1)] ELSE "c"
  <2>1. \A i \in Index : u[i] = IF Behind(i, Avancer(l, n)) < m THEN "c" ELSE t[i]
    OBVIOUS
  <2> HIDE DEF u
  <2> QED BY <2>1, PlacesWritten
<1> HIDE DEF u
<1>2. \A i \in 1..(n + m) : u[Avancer(l, i - 1)] = "cr" <=>
                              i \in 1..n /\ t[Avancer(l, i - 1)] = "cr"
  BY <1>1
<1> QED BY <1>2 DEF ReturnsIn, u

-----------------------------------------------------------------------------
(* The inductive invariant. *)

\* What a place of the buffer holds.
Chars == {"nul", "c", "cr", "tab", "up", "down"}

InputType ==
  /\ DOMAIN tampon = Index
  /\ \A i \in Index : tampon[i] \in Chars
  /\ casesDispos \in Room
  /\ indiceEcr \in Index /\ indiceLec \in Index
  /\ nbLig \in Nat
  /\ flags \subseteq {"tab", "up", "down"}

\* A tab or an arrow that has not been noticed is the last key of the buffer:
\* cons_look then erases nothing else.
FlagIsLast ==
  /\ flags # {} => /\ casesDispos # TailleTamp
                   /\ tampon[Reculer(indiceEcr)] \in {"tab", "up", "down"}
  /\ \A f, g \in flags : f = g

IInv == InputType /\ FlagIsLast /\ BufferInStep

Used == TailleTamp - casesDispos

\* BufferInStep, in terms of the buffer.
LEMMA InStep ==
  ASSUME InputType
  PROVE  BufferInStep <=> /\ indiceEcr = Avancer(indiceLec, Used)
                          /\ nbLig = Cardinality(ReturnsIn(tampon, indiceLec, Used))
<1>1. Used \in Nat
  BY ConsoleAssumption DEF InputType, Room, Used
<1>2. Len(Unread) = Used
  BY <1>1 DEF Unread, Used
<1>3. \A i \in 1..Used : Unread[i] = tampon[Avancer(indiceLec, i - 1)]
  BY DEF Unread, Used
<1>4. {i \in 1..Len(Unread) : Unread[i] = "cr"} = ReturnsIn(tampon, indiceLec, Used)
  BY <1>2, <1>3 DEF ReturnsIn
<1> QED BY <1>4 DEF BufferInStep, InputType, Room, Used

\* The same of the next state.
LEMMA InStepNext ==
  ASSUME InputType'
  PROVE  BufferInStep' <=> /\ indiceEcr' = Avancer(indiceLec', Used')
                           /\ nbLig' = Cardinality(ReturnsIn(tampon', indiceLec', Used'))
<1>1. Used' \in Nat
  <2>1. \A d \in Room : TailleTamp - d \in Nat
    BY ConsoleAssumption DEF Room
  <2> QED BY <2>1 DEF InputType, Used
<1>2. Len(Unread') = Used'
  BY <1>1 DEF Unread, Used
<1>3. \A i \in 1..Used' : Unread'[i] = tampon'[Avancer(indiceLec', i - 1)]
  BY DEF Unread, Used
<1>4. {i \in 1..Len(Unread') : Unread'[i] = "cr"} = ReturnsIn(tampon', indiceLec', Used')
  BY <1>2, <1>3 DEF ReturnsIn
<1> QED BY <1>4 DEF BufferInStep, InputType, Room, Used

\* The buffer ends where the next key is stored, counted from either index.
LEMMA FromTheEnd ==
  ASSUME IInv, NEW d \in 1..Used
  PROVE  Behind(indiceEcr, d) = Avancer(indiceLec, Used - d)
<1>1. /\ Used \in Room /\ d \in Room /\ Used - d \in Room
      /\ indiceLec \in Index /\ indiceEcr \in Index
  BY ConsoleAssumption DEF IInv, InputType, Room, Used
<1>2. indiceEcr = Avancer(indiceLec, Used)
  BY InStep DEF IInv
<1>3. Avancer(indiceLec, Used) = IF indiceLec + Used < TailleTamp THEN indiceLec + Used
                                 ELSE indiceLec + Used - TailleTamp
  BY <1>1, Ring
<1>4. Avancer(indiceLec, Used - d) =
        IF indiceLec + (Used - d) < TailleTamp THEN indiceLec + (Used - d)
        ELSE indiceLec + (Used - d) - TailleTamp
  BY <1>1, Ring
<1>5. Behind(indiceEcr, d) = IF d <= indiceEcr THEN indiceEcr - d
                             ELSE indiceEcr - d + TailleTamp
  BY <1>1, Ring
<1> QED BY <1>1, <1>2, <1>3, <1>4, <1>5, ConsoleAssumption DEF Index, Room

\* The last m keys go, and none of them is a return.
LEMMA DropInStep ==
  ASSUME IInv, NEW m \in 0..Used, flags' = {} \/ (m = 0 /\ flags' = flags),
         indiceEcr' = Behind(indiceEcr, m), casesDispos' = casesDispos + m,
         UNCHANGED <<tampon, indiceLec, nbLig>>,
         \A d \in 1..m : tampon[Behind(indiceEcr, d)] # "cr"
  PROVE  IInv'
<1>1. /\ Used \in Nat /\ Used \in Room /\ m \in Room /\ m <= Used
      /\ indiceLec \in Index /\ indiceEcr \in Index
  BY ConsoleAssumption DEF IInv, InputType, Room, Used
<1>2. Used' = Used - m /\ casesDispos' \in Room
  BY <1>1, ConsoleAssumption DEF IInv, InputType, Room, Used
<1>3. InputType'
  BY <1>1, <1>2, Ring DEF IInv, InputType
<1>4. m = 0 => indiceEcr' = indiceEcr
  BY <1>1, Ring, ConsoleAssumption DEF Index, Room
<1>5. FlagIsLast'
  <2>1. CASE flags' = {}
    BY <2>1 DEF FlagIsLast
  <2>2. CASE m = 0 /\ flags' = flags
    BY <2>2, <1>1, <1>4 DEF IInv, FlagIsLast, InputType, Room, Reculer
  <2> QED BY <2>1, <2>2
<1>6. indiceEcr' = Avancer(indiceLec', Used')
  <2>1. CASE m = 0
    BY <2>1, <1>1, <1>2, <1>4, InStep DEF IInv
  <2>2. CASE m # 0
    BY <2>2, <1>1, <1>2, FromTheEnd
  <2> QED BY <2>1, <2>2
<1>7. \A i \in (Used - m + 1)..Used : tampon[Avancer(indiceLec, i - 1)] # "cr"
  <2>1. ASSUME NEW i \in (Used - m + 1)..Used
        PROVE  tampon[Avancer(indiceLec, i - 1)] # "cr"
    <3>1. (Used - i) + 1 \in 1..m /\ (Used - i) + 1 \in 1..Used
          /\ Used - ((Used - i) + 1) = i - 1
      BY <1>1
    <3> QED BY <3>1, FromTheEnd
  <2> QED BY <2>1
<1>8. ReturnsIn(tampon, indiceLec, Used - m) = ReturnsIn(tampon, indiceLec, Used)
  BY <1>1, <1>7, ReturnsDropped
<1>9. nbLig' = Cardinality(ReturnsIn(tampon', indiceLec', Used'))
  BY <1>2, <1>8, InStep DEF IInv
<1> QED BY <1>3, <1>5, <1>6, <1>9, InStepNext DEF IInv

-----------------------------------------------------------------------------
(* One lemma per action that touches the buffer. *)

\* keyboard_data with a key that is stored: it is the last one, and the only
\* one that asks for attention.
LEMMA StoredIInv ==
  ASSUME IInv, CarefulTypist, NEW k \in Keys, Careful(k), Stored(k), KeyboardData(k)
  PROVE  IInv'
<1>1. /\ tampon' = [tampon EXCEPT ![indiceEcr] = k]
      /\ indiceEcr' = Avancer(indiceEcr, 1)
      /\ casesDispos' = casesDispos - 1
      /\ nbLig' = IF k = "cr" THEN nbLig + 1 ELSE nbLig
      /\ indiceLec' = indiceLec
  BY DEF KeyboardData, Stored
<1>2. /\ flags = {} /\ casesDispos > 0
      /\ flags' = {k} \cap {"up", "down", "tab"}
  BY DEF KeyboardData, Stored, Careful
<1>3. /\ 1 \in Room /\ Used \in Nat /\ Used \in Room /\ Used < TailleTamp
      /\ Used + 1 \in Room /\ casesDispos - 1 \in Room
      /\ indiceLec \in Index /\ indiceEcr \in Index /\ DOMAIN tampon = Index
      /\ nbLig \in Nat
  BY <1>2, ConsoleAssumption DEF IInv, InputType, Room, Used
<1>4. Used' = Used + 1
  BY <1>1, <1>3, ConsoleAssumption DEF Used, IInv, InputType, Room
<1>5. InputType'
  <2>1. /\ DOMAIN tampon' = Index /\ Avancer(indiceEcr, 1) \in Index
        /\ \A i \in Index : tampon'[i] \in Chars
    <3>1. k \in Chars
      BY ConsoleAssumption DEF Stored, Chars
    <3> QED BY <1>1, <1>3, <3>1, Ring DEF IInv, InputType
  <2>2. nbLig' \in Nat /\ flags' \subseteq {"tab", "up", "down"}
    BY <1>1, <1>2, <1>3
  <2> QED BY <1>1, <1>3, <2>1, <2>2 DEF InputType
<1>6. Avancer(indiceLec, Used) = indiceEcr
      /\ Avancer(indiceLec, Used + 1) = Avancer(indiceEcr, 1)
  <2>1. indiceEcr = Avancer(indiceLec, Used)
    BY InStep DEF IInv
  <2>2. /\ Avancer(indiceLec, Used) =
             IF indiceLec + Used < TailleTamp THEN indiceLec + Used
             ELSE indiceLec + Used - TailleTamp
        /\ Avancer(indiceLec, Used + 1) =
             IF indiceLec + (Used + 1) < TailleTamp THEN indiceLec + (Used + 1)
             ELSE indiceLec + (Used + 1) - TailleTamp
        /\ Avancer(indiceEcr, 1) = IF indiceEcr + 1 < TailleTamp THEN indiceEcr + 1
                                   ELSE indiceEcr + 1 - TailleTamp
    BY <1>3, Ring
  <2> QED BY <1>3, <2>1, <2>2, ConsoleAssumption DEF Index, Room
<1>7. FlagIsLast'
  <2>1. casesDispos' # TailleTamp
    BY <1>1, ConsoleAssumption DEF IInv, InputType, Room
  <2>2. Reculer(Avancer(indiceEcr, 1)) = indiceEcr
    <3>1. Avancer(indiceEcr, 1) = IF indiceEcr + 1 < TailleTamp THEN indiceEcr + 1
                                  ELSE indiceEcr + 1 - TailleTamp
      BY <1>3, Ring
    <3> QED BY <1>3, <3>1, ConsoleAssumption DEF Index, Reculer
  <2>3. tampon'[indiceEcr] = k
    BY <1>1, <1>3
  <2>4. tampon'[Reculer(indiceEcr')] = k
    BY <1>1, <2>2, <2>3
  <2>5. flags' # {} => k \in {"tab", "up", "down"}
    BY <1>2
  <2>6. \A f, g \in flags' : f = g
    BY <1>2
  <2> QED BY <2>1, <2>4, <2>5, <2>6 DEF FlagIsLast, Reculer
<1>8. nbLig' = Cardinality(ReturnsIn(tampon', indiceLec', Used'))
  <2>1. nbLig = Cardinality(ReturnsIn(tampon, indiceLec, Used))
    BY InStep DEF IInv
  <2>2. tampon' = [tampon EXCEPT ![Avancer(indiceLec, Used)] = k]
    BY <1>1, <1>6
  <2>3. LET stored == ReturnsIn([tampon EXCEPT ![Avancer(indiceLec, Used)] = k],
                                indiceLec, Used + 1)
        IN /\ k = "cr" => Cardinality(stored) = Cardinality(ReturnsIn(tampon, indiceLec, Used)) + 1
           /\ k # "cr" => Cardinality(stored) = Cardinality(ReturnsIn(tampon, indiceLec, Used))
    BY <1>3, ReturnsStored
  <2> QED BY <1>1, <1>3, <1>4, <2>1, <2>2, <2>3
<1> QED BY <1>1, <1>4, <1>5, <1>6, <1>7, <1>8, InStepNext DEF IInv

\* The backspace, typed or by cons_look, takes a key that is no return.
LEMMA BackspaceIInv ==
  ASSUME IInv, Backspace, flags' = {},
         casesDispos = TailleTamp \/ tampon[Reculer(indiceEcr)] # "cr"
  PROVE  IInv'
<1>1. CASE casesDispos = TailleTamp
  <2>1. 0 \in 0..Used /\ indiceEcr = Behind(indiceEcr, 0) /\ casesDispos = casesDispos + 0
    BY <1>1, Ring, ConsoleAssumption DEF IInv, InputType, Index, Room, Used
  <2> QED BY <1>1, <2>1, DropInStep DEF Backspace
<1>2. CASE casesDispos # TailleTamp
  <2>1. 1 \in 0..Used /\ 1 \in Room /\ indiceEcr \in Index
    BY <1>2, ConsoleAssumption DEF IInv, InputType, Room, Used
  <2>2. Reculer(indiceEcr) = Behind(indiceEcr, 1)
    BY <2>1, Ring, ConsoleAssumption DEF Reculer, Index
  <2>3. \A d \in 1..1 : d = 1
    OBVIOUS
  <2> QED BY <1>2, <2>1, <2>2, <2>3, DropInStep DEF Backspace
<1> QED BY <1>1, <1>2

\* Steps that touch neither the buffer nor its counts.
LEMMA SameInStep ==
  ASSUME IInv, flags' \subseteq flags,
         UNCHANGED <<tampon, casesDispos, indiceEcr, indiceLec, nbLig>>
  PROVE  IInv'
<1>1. InputType' /\ FlagIsLast'
  BY DEF IInv, InputType, FlagIsLast, Reculer
<1>2. BufferInStep'
  BY DEF IInv, BufferInStep, Unread
<1> QED BY <1>1, <1>2 DEF IInv

\* The keyboard interrupt.
LEMMA KeyIInv ==
  ASSUME IInv, CarefulTypist, NEW k \in Keys, TraitantClavier(k)
  PROVE  IInv'
<1>1. Careful(k) /\ KeyboardData(k)
  BY DEF TraitantClavier
<1>2. CASE Stored(k)
  BY <1>1, <1>2, StoredIInv
<1>3. CASE k = "bs"
  BY <1>1, <1>3, BackspaceIInv DEF KeyboardData, Careful, Stored
<1>4. CASE k # "bs" /\ ~ Stored(k)
  <2>1. UNCHANGED <<tampon, casesDispos, indiceEcr, indiceLec, nbLig>>
    BY <1>1, <1>4 DEF KeyboardData
  <2>2. flags' = flags \cup ({k} \cap {"up", "down"})
    BY <1>1, <1>4 DEF KeyboardData
  <2>3. k \notin {"up", "down"}
    BY <1>1, <1>4, ConsoleAssumption DEF Careful, Stored, IInv, InputType, Room
  <2> QED BY <2>1, <2>2, <2>3, SameInStep
<1> QED BY <1>2, <1>3, <1>4

\* cons_look answers the only flag there is.
LEMMA ConsLookIInv ==
  ASSUME IInv, NEW n, ConsLook(n)
  PROVE  IInv'
<1> DEFINE told == CHOOSE f \in flags : \/ f = "tab"
                                        \/ f = "up" /\ "tab" \notin flags
                                        \/ flags = {"down"}
<1>1. flags # {} /\ flags' = flags \ {told} /\ Backspace
  BY DEF ConsLook
<1>2. told \in flags
  BY <1>1 DEF IInv, InputType, FlagIsLast
<1>3. flags' = {}
  BY <1>1, <1>2 DEF IInv, FlagIsLast
<1> QED BY <1>1, <1>3, BackspaceIInv DEF IInv, FlagIsLast

\* cons_read finds the return that nb_lig counts among the keys not read.
LEMMA ConsumedIsThere ==
  ASSUME IInv, nbLig # 0, NEW n \in Nat \ {0}
  PROVE  /\ Consumed(n) \in 1..Used
         /\ \A i \in 1..(Consumed(n) - 1) : tampon[Avancer(indiceLec, i - 1)] # "cr"
         /\ Consumed(n) \in 1..n
         /\ Consumed(n) = n \/ tampon[Avancer(indiceLec, Consumed(n) - 1)] = "cr"
<1> DEFINE R == ReturnsIn(tampon, indiceLec, Used)
           Goes(k) == /\ \A i \in 1..(k - 1) : tampon[Avancer(indiceLec, i - 1)] # "cr"
                      /\ k = n \/ tampon[Avancer(indiceLec, k - 1)] = "cr"
<1>1. Used \in Nat
  BY ConsoleAssumption DEF IInv, InputType, Room, Used
<1>2. R # {}
  BY InStep, FS_EmptySet DEF IInv
<1>3. PICK r \in R : \A x \in R : r <= x
  <2>1. R \subseteq Nat
    BY <1>1 DEF ReturnsIn
  <2> HIDE DEF R
  <2> QED BY <1>2, <2>1, LeastNat
<1>4. /\ r \in 1..Used /\ tampon[Avancer(indiceLec, r - 1)] = "cr"
      /\ \A i \in 1..(r - 1) : tampon[Avancer(indiceLec, i - 1)] # "cr"
  <2>1. r \in 1..Used /\ tampon[Avancer(indiceLec, r - 1)] = "cr"
    BY <1>3 DEF ReturnsIn
  <2>2. ASSUME NEW i \in 1..(r - 1), tampon[Avancer(indiceLec, i - 1)] = "cr"
        PROVE  FALSE
    <3>1. i \in 1..Used /\ i < r
      BY <2>1, <1>1
    <3>2. i \in R
      BY <2>2, <3>1 DEF ReturnsIn
    <3> QED BY <1>3, <2>1, <3>1, <3>2, <1>1
  <2> QED BY <2>1, <2>2
<1>5. \E k \in 1..n : Goes(k)
  <2>1. CASE r <= n
    BY <2>1, <1>4, <1>1
  <2>2. CASE r > n
    <3>1. \A i \in 1..(n - 1) : i \in 1..(r - 1)
      BY <2>2, <1>4, <1>1
    <3> QED BY <3>1, <1>4
  <2> QED BY <2>1, <2>2, <1>1, <1>4
<1>6. Consumed(n) \in 1..n /\ Goes(Consumed(n))
  BY <1>5 DEF Consumed
<1>7. Consumed(n) <= r
  <2> SUFFICES ASSUME Consumed(n) > r PROVE FALSE
    BY <1>6, <1>4, <1>1
  <2>1. r \in 1..(Consumed(n) - 1)
    BY <1>6, <1>4, <1>1
  <2> QED BY <2>1, <1>6, <1>4
<1> QED BY <1>1, <1>4, <1>6, <1>7

\* cons_read gives back the places it has gone over.
LEMMA ConsReadIInv ==
  ASSUME IInv, NEW n \in Nat \ {0}, ConsRead(n)
  PROVE  IInv'
<1> DEFINE k == Consumed(n)
<1>1. /\ nbLig # 0 /\ flags = {} /\ UNCHANGED <<tampon, indiceEcr, flags>>
      /\ casesDispos' = casesDispos + k
      /\ indiceLec' = Avancer(indiceLec, k)
      /\ nbLig' = IF tampon[Avancer(indiceLec, k - 1)] = "cr" THEN nbLig - 1 ELSE nbLig
  BY DEF ConsRead, Ready, LinesLeft
<1>2. /\ k \in 1..Used
      /\ \A i \in 1..(k - 1) : tampon[Avancer(indiceLec, i - 1)] # "cr"
  BY <1>1, ConsumedIsThere
<1> HIDE DEF k
<1>3. /\ Used \in Nat /\ Used \in Room /\ k \in Room /\ Used - k \in Room
      /\ indiceLec \in Index /\ casesDispos + k \in Room
      /\ nbLig \in Nat
  BY <1>2, ConsoleAssumption DEF IInv, InputType, Room, Used
<1>4. Used' = Used - k
  BY <1>1, <1>2, <1>3, ConsoleAssumption DEF Used, IInv, InputType, Room
<1>5. InputType'
  <2>1. nbLig' \in Nat
    BY <1>1, <1>3
  <2>2. Avancer(indiceLec, k) \in Index
    BY <1>3, Ring
  <2> QED BY <1>1, <1>3, <2>1, <2>2 DEF IInv, InputType
<1>6. FlagIsLast'
  BY <1>1 DEF FlagIsLast
<1>7. Avancer(indiceLec, Used) = Avancer(Avancer(indiceLec, k), Used - k)
  <2>1. Avancer(indiceLec, k) \in Index
    BY <1>3, Ring
  <2>2. /\ Avancer(indiceLec, k) = IF indiceLec + k < TailleTamp THEN indiceLec + k
                                   ELSE indiceLec + k - TailleTamp
        /\ Avancer(indiceLec, Used) = IF indiceLec + Used < TailleTamp THEN indiceLec + Used
                                      ELSE indiceLec + Used - TailleTamp
    BY <1>3, Ring
  <2>3. Avancer(Avancer(indiceLec, k), Used - k) =
          IF Avancer(indiceLec, k) + (Used - k) < TailleTamp
          THEN Avancer(indiceLec, k) + (Used - k)
          ELSE Avancer(indiceLec, k) + (Used - k) - TailleTamp
    BY <1>3, <2>1, Ring
  <2> QED BY <1>2, <1>3, <2>1, <2>2, <2>3, ConsoleAssumption DEF Index, Room
<1>8. nbLig' = Cardinality(ReturnsIn(tampon', indiceLec', Used'))
  <2>1. nbLig = Cardinality(ReturnsIn(tampon, indiceLec, Used))
    BY InStep DEF IInv
  <2>2. Cardinality(ReturnsIn(tampon, Avancer(indiceLec, k), Used - k)) =
          Cardinality(ReturnsIn(tampon, indiceLec, Used)) -
            IF tampon[Avancer(indiceLec, k - 1)] = "cr" THEN 1 ELSE 0
    BY <1>2, <1>3, ReturnsRead
  <2> QED BY <1>1, <1>3, <1>4, <2>1, <2>2
<1>9. indiceEcr' = Avancer(indiceLec', Used')
  BY <1>1, <1>4, <1>7, InStep DEF IInv
<1> QED BY <1>5, <1>6, <1>8, <1>9, InStepNext DEF IInv

\* clear_line stops in front of the nearest return behind the pointer.
LEMMA ClearLineDrops ==
  ASSUME IInv, CarefulTypist, ClearLine
  PROVE  \E m \in 0..Used : /\ indiceEcr' = Behind(indiceEcr, m)
                            /\ casesDispos' = casesDispos + m
                            /\ \A e \in 1..m : tampon[Behind(indiceEcr, e)] # "cr"
                            /\ m = Used \/ tampon[Behind(indiceEcr, m + 1)] = "cr"
<1> DEFINE Ends(d) == /\ tampon[Behind(indiceEcr, d)] = "cr"
                      /\ \A e \in 1..(d - 1) : tampon[Behind(indiceEcr, e)] # "cr"
           D == {d \in 1..TailleTamp : tampon[Behind(indiceEcr, d)] = "cr"}
           m == IF Backspaces < Used THEN Backspaces ELSE Used
<1>1. /\ flags = {} /\ HoldsReturn
      /\ indiceEcr' = Behind(indiceEcr, m) /\ casesDispos' = casesDispos + m
      /\ UNCHANGED <<tampon, indiceLec, nbLig, flags>>
  BY DEF ClearLine, Rewrites, Used
<1>2. /\ indiceEcr \in Index /\ DOMAIN tampon = Index /\ Used \in Nat
      /\ TailleTamp \in Nat \ {0}
  BY ConsoleAssumption DEF IInv, InputType, Room, Used
<1>3. D # {}
  <2>1. PICK i \in Index : tampon[i] = "cr"
    BY <1>1, <1>2 DEF HoldsReturn
  <2>2. CASE i < indiceEcr
    <3>1. indiceEcr - i \in 1..TailleTamp /\ indiceEcr - i \in Room
      BY <1>2, <2>2 DEF Index, Room
    <3>2. Behind(indiceEcr, indiceEcr - i) = i
      BY <1>2, <2>2, <3>1, Ring DEF Index
    <3> QED BY <2>1, <3>1, <3>2
  <2>3. CASE i >= indiceEcr
    <3>1. indiceEcr - i + TailleTamp \in 1..TailleTamp
          /\ indiceEcr - i + TailleTamp \in Room
          /\ indiceEcr - i + TailleTamp > indiceEcr
          /\ indiceEcr - (indiceEcr - i + TailleTamp) + TailleTamp = i
      BY <1>2, <2>3 DEF Index, Room
    <3>2. Behind(indiceEcr, indiceEcr - i + TailleTamp) = i
      BY <1>2, <3>1, Ring DEF Index
    <3> QED BY <2>1, <3>1, <3>2
  <2> QED BY <1>2, <2>2, <2>3 DEF Index
<1>4. PICK r \in D : \A x \in D : r <= x
  <2>1. D \subseteq Nat
    BY <1>2
  <2> HIDE DEF D
  <2> QED BY <1>3, <2>1, LeastNat
<1>5. Ends(r) /\ r \in 1..TailleTamp
  <2>1. ASSUME NEW e \in 1..(r - 1), tampon[Behind(indiceEcr, e)] = "cr"
        PROVE  FALSE
    BY <1>2, <1>4, <2>1
  <2> QED BY <1>4, <2>1
<1>6. PICK d \in 1..TailleTamp : Ends(d) /\ Backspaces = d - 1
  BY <1>5 DEF Backspaces
<1>7. m \in 0..Used /\ m <= d - 1
  BY <1>2, <1>6
<1>8. \A e \in 1..m : tampon[Behind(indiceEcr, e)] # "cr"
  BY <1>2, <1>6, <1>7
<1>9. m = Used \/ tampon[Behind(indiceEcr, m + 1)] = "cr"
  <2>1. m = Used \/ m + 1 = d
    BY <1>6
  <2> HIDE DEF m
  <2> QED BY <1>6, <2>1
<1> HIDE DEF m
<1> QED BY <1>1, <1>7, <1>8, <1>9

\* It takes no return.
LEMMA ClearLineIInv ==
  ASSUME IInv, CarefulTypist, ClearLine
  PROVE  IInv'
<1>1. PICK m \in 0..Used : /\ indiceEcr' = Behind(indiceEcr, m)
                           /\ casesDispos' = casesDispos + m
                           /\ \A e \in 1..m : tampon[Behind(indiceEcr, e)] # "cr"
  BY ClearLineDrops
<1>2. flags' = {} /\ UNCHANGED <<tampon, indiceLec, nbLig>>
  BY DEF ClearLine, Rewrites
<1> QED BY <1>1, <1>2, DropInStep

\* ecrire_clavier writes characters, and as many as there is room for.
LEMMA EcrireIInv ==
  ASSUME IInv, CarefulTypist, NEW n \in Nat \ {0}, EcrireClavier(n)
  PROVE  IInv'
<1> DEFINE m == IF n < casesDispos THEN n ELSE casesDispos
<1>1. /\ flags = {} /\ UNCHANGED <<indiceLec, nbLig, flags>>
      /\ tampon' = [i \in DOMAIN tampon |->
                      IF Behind(i, indiceEcr) < m THEN "c" ELSE tampon[i]]
      /\ indiceEcr' = Avancer(indiceEcr, m) /\ casesDispos' = casesDispos - m
  BY DEF EcrireClavier, Rewrites
<1>2. /\ indiceEcr \in Index /\ indiceLec \in Index /\ DOMAIN tampon = Index
      /\ Used \in Nat /\ Used \in Room /\ m \in Nat /\ m \in Room
      /\ Used + m <= TailleTamp /\ Used + m \in Room /\ casesDispos - m \in Room
  BY ConsoleAssumption DEF IInv, InputType, Room, Used
<1>3. Used' = Used + m
  BY <1>1, <1>2, ConsoleAssumption DEF Used, IInv, InputType, Room
<1> HIDE DEF m
<1>4. InputType'
  <2>1. \A i \in Index : tampon'[i] \in Chars
    BY <1>1, <1>2 DEF IInv, InputType, Chars
  <2> QED BY <1>1, <1>2, <2>1, Ring DEF IInv, InputType
<1>5. FlagIsLast'
  BY <1>1 DEF FlagIsLast
<1>6. indiceEcr = Avancer(indiceLec, Used)
      /\ nbLig = Cardinality(ReturnsIn(tampon, indiceLec, Used))
  BY InStep DEF IInv
<1>7. indiceEcr' = Avancer(indiceLec', Used')
  <2>1. /\ Avancer(indiceLec, Used) =
             IF indiceLec + Used < TailleTamp THEN indiceLec + Used
             ELSE indiceLec + Used - TailleTamp
        /\ Avancer(indiceLec, Used + m) =
             IF indiceLec + (Used + m) < TailleTamp THEN indiceLec + (Used + m)
             ELSE indiceLec + (Used + m) - TailleTamp
        /\ Avancer(indiceEcr, m) = IF indiceEcr + m < TailleTamp THEN indiceEcr + m
                                   ELSE indiceEcr + m - TailleTamp
    BY <1>2, Ring
  <2>2. Avancer(indiceEcr, m) = Avancer(indiceLec, Used + m)
    BY <1>2, <1>6, <2>1, ConsoleAssumption DEF Index, Room
  <2> QED BY <1>1, <1>3, <2>2
<1>8. ReturnsIn(tampon', indiceLec, Used + m) = ReturnsIn(tampon, indiceLec, Used)
  <2>1. tampon' = [i \in Index |-> IF Behind(i, Avancer(indiceLec, Used)) < m
                                   THEN "c" ELSE tampon[i]]
    BY <1>1, <1>2, <1>6
  <2> QED BY <1>2, <2>1, ReturnsWritten
<1> QED BY <1>1, <1>3, <1>4, <1>5, <1>6, <1>7, <1>8, InStepNext DEF IInv

-----------------------------------------------------------------------------
(* All of Next; the other actions leave the buffer alone. *)

\* The empty buffer.
LEMMA InitIInv == Init => IInv
<1> SUFFICES ASSUME Init PROVE IInv
  OBVIOUS
<1>1. /\ DOMAIN tampon = Index /\ \A i \in Index : tampon[i] = "nul"
      /\ casesDispos = TailleTamp /\ indiceEcr = 0 /\ indiceLec = 0
      /\ nbLig = 0 /\ flags = {}
  BY DEF Init, Index
<1>2. InputType /\ FlagIsLast
  BY <1>1, ConsoleAssumption DEF InputType, FlagIsLast, Index, Room, Chars
<1>3. Used = 0 /\ 0 \in Index /\ 0 \in Room
  BY <1>1, ConsoleAssumption DEF Used, Index, Room
<1>4. Avancer(0, 0) = 0
  BY <1>3, Ring, ConsoleAssumption
<1>5. ReturnsIn(tampon, 0, 0) = {}
  BY DEF ReturnsIn
<1> QED BY <1>1, <1>2, <1>3, <1>4, <1>5, InStep, FS_EmptySet DEF IInv

\* Every step of a system with a careful typist keeps the invariant.
LEMMA NextIInv ==
  ASSUME IInv, CarefulTypist, [Next]_vars
  PROVE  IInv'
<1>1. ASSUME NEW k \in Keys, TraitantClavier(k) PROVE IInv'
  BY <1>1, KeyIInv
<1>2. ASSUME NEW n \in Lengths, ConsReadBlock(n) PROVE IInv'
  BY <1>2, SameInStep DEF ConsReadBlock, BloqueIo, input
<1>3. ASSUME NEW n \in Lengths, ConsLook(n) PROVE IInv'
  BY <1>3, ConsLookIInv
<1>4. ASSUME NEW n \in Lengths, ConsRead(n) PROVE IInv'
  BY <1>4, ConsReadIInv, ConsoleAssumption
<1>5. CASE WaitKeyboardBlock
  BY <1>5, SameInStep DEF WaitKeyboardBlock, BloqueIo, input
<1>6. CASE WaitKeyboard \/ GetInputGame \/ ClearLineStuck
  BY <1>6, SameInStep DEF WaitKeyboard, GetInputGame, ClearLineStuck, input
<1>7. CASE ClearLine
  BY <1>7, ClearLineIInv
<1>8. ASSUME NEW n \in Inserts, EcrireClavier(n) PROVE IInv'
  BY <1>8, EcrireIInv, ConsoleAssumption
<1>9. ASSUME NEW p \in Proc, NEW n \in Prio, Start(p, n) \/ Chprio(p, n)
      PROVE  IInv'
  BY <1>9, SameInStep DEF Start, Chprio, input
<1>10. CASE Tick \/ Ordonnance
  BY <1>10, SameInStep DEF Tick, Ordonnance, input
<1>11. CASE UNCHANGED vars
  BY <1>11, SameInStep DEF vars, input
<1>12. ASSUME NEW p \in Proc, Kill(p) PROVE IInv'
  BY <1>12, SameInStep DEF Kill, input
<1> QED BY <1>1, <1>2, <1>3, <1>4, <1>5, <1>6, <1>7, <1>8, <1>9, <1>10, <1>11, <1>12
        DEF Next

\* The indices, the room and the line count of the keyboard buffer stay in
\* step, whatever is typed, read and rewritten, for a typist who is Careful:
\* who erases no return, and neither types nor has the line rewritten between
\* a tab or an arrow and the read that notices it.
THEOREM BufferHolds == CarefulTypist /\ Spec => []BufferInStep
<1> SUFFICES ASSUME CarefulTypist PROVE Spec => []BufferInStep
  OBVIOUS
<1>1. Init => IInv
  BY InitIInv
<1>2. IInv /\ [Next]_vars => IInv'
  BY NextIInv
<1>3. IInv => BufferInStep
  BY DEF IInv
<1> QED BY <1>1, <1>2, <1>3, PTL DEF Spec

-----------------------------------------------------------------------------
(* The text that the readers see. *)

\* What has been typed and not read, place by place.
LEMMA TextIs ==
  ASSUME IInv
  PROVE  /\ Unread \in Seq(Chars) /\ Len(Unread) = Used
         /\ Used \in Nat /\ Used \in Room /\ casesDispos = TailleTamp - Used
         /\ \A i \in 1..Used : Unread[i] = tampon[Avancer(indiceLec, i - 1)]
<1>1. /\ Used \in Nat /\ Used \in Room /\ indiceLec \in Index
      /\ casesDispos = TailleTamp - Used
      /\ \A i \in Index : tampon[i] \in Chars
  BY ConsoleAssumption DEF IInv, InputType, Room, Used
<1>2. ASSUME NEW i \in 1..Used PROVE tampon[Avancer(indiceLec, i - 1)] \in Chars
  <2>1. i - 1 \in Room
    BY <1>1, ConsoleAssumption DEF Room
  <2> QED BY <1>1, <2>1, Ring
<1>3. Unread = [i \in 1..Used |-> tampon[Avancer(indiceLec, i - 1)]]
  BY DEF Unread, Used
<1>4. Unread \in [1..Used -> Chars]
  BY <1>2, <1>3
<1>5. Unread \in Seq(Chars) /\ Len(Unread) = Used
  BY <1>1, <1>4
<1> QED BY <1>1, <1>3, <1>5

\* How much of the buffer is used in the next state.
LEMMA UsedNext ==
  ASSUME IInv, IInv'
  PROVE  /\ Used' \in Nat /\ Used' \in Room /\ casesDispos' = TailleTamp - Used'
         /\ \A d \in Int : casesDispos' = casesDispos + d => Used' = Used - d
         /\ \A d \in Int : casesDispos' = casesDispos - d => Used' = Used + d
<1>1. \A c \in Room : /\ TailleTamp - c \in Nat /\ TailleTamp - c \in Room
                       /\ c = TailleTamp - (TailleTamp - c)
  BY ConsoleAssumption DEF Room
<1>2. \A c, e \in Room, d \in Int :
        /\ e = c + d => TailleTamp - e = TailleTamp - c - d
        /\ e = c - d => TailleTamp - e = TailleTamp - c + d
  BY ConsoleAssumption DEF Room
<1>3. casesDispos \in Room /\ casesDispos' \in Room
  BY DEF IInv, InputType
<1>4. Used = TailleTamp - casesDispos /\ Used' = TailleTamp - casesDispos'
  BY DEF Used
<1> QED BY <1>1, <1>2, <1>3, <1>4

\* The same of the next state.
LEMMA TextIsNext ==
  ASSUME IInv, IInv'
  PROVE  /\ Unread' \in Seq(Chars) /\ Len(Unread') = Used'
         /\ Used' \in Nat /\ Used' \in Room /\ casesDispos' = TailleTamp - Used'
         /\ \A i \in 1..Used' : Unread'[i] = tampon'[Avancer(indiceLec', i - 1)]
<1>1. /\ Used' \in Nat /\ Used' \in Room /\ indiceLec' \in Index
      /\ casesDispos' = TailleTamp - Used'
      /\ \A i \in Index : tampon'[i] \in Chars
  <2>1. indiceLec' \in Index /\ \A i \in Index : tampon'[i] \in Chars
    BY DEF IInv, InputType
  <2> QED BY <2>1, UsedNext
<1>2. ASSUME NEW i \in 1..Used' PROVE tampon'[Avancer(indiceLec', i - 1)] \in Chars
  <2>1. i - 1 \in Room
    BY <1>1, ConsoleAssumption DEF Room
  <2>2. Avancer(indiceLec', i - 1) \in Index
    <3>1. \A l \in Index : Avancer(l, i - 1) \in Index
      BY <2>1, Ring
    <3> QED BY <1>1, <3>1
  <2> QED BY <1>1, <2>2
<1>3. Unread' = [i \in 1..Used' |-> tampon'[Avancer(indiceLec', i - 1)]]
  BY DEF Unread, Used
<1>4. Unread' \in [1..Used' -> Chars]
  BY <1>2, <1>3
<1>5. Unread' \in Seq(Chars) /\ Len(Unread') = Used'
  BY <1>1, <1>4
<1> QED BY <1>1, <1>3, <1>5

\* A key that is stored is the last one.
LEMMA StoredText ==
  ASSUME IInv, IInv', NEW k, Stored(k), KeyboardData(k)
  PROVE  Len(Unread) < TailleTamp /\ Unread' = Append(Unread, k)
<1>1. /\ tampon' = [tampon EXCEPT ![indiceEcr] = k]
      /\ casesDispos' = casesDispos - 1 /\ indiceLec' = indiceLec /\ casesDispos > 0
  BY DEF KeyboardData, Stored
<1>2. /\ Unread \in Seq(Chars) /\ Len(Unread) = Used /\ Used \in Nat
      /\ casesDispos = TailleTamp - Used
      /\ \A i \in 1..Used : Unread[i] = tampon[Avancer(indiceLec, i - 1)]
  BY TextIs
<1>3. /\ Unread' \in Seq(Chars) /\ Len(Unread') = Used' /\ casesDispos' = TailleTamp - Used'
      /\ \A i \in 1..Used' : Unread'[i] = tampon'[Avancer(indiceLec', i - 1)]
      /\ Used' \in Nat
  BY TextIsNext
<1>4. Used' = Used + 1 /\ Used < TailleTamp
  <2>1. Used' = Used + 1
    BY <1>1, UsedNext
  <2>2. Used < TailleTamp
    BY <1>1, ConsoleAssumption DEF IInv, InputType, Room, Used
  <2> QED BY <2>1, <2>2
<1>5. /\ \A i \in 1..Used : tampon'[Avancer(indiceLec, i - 1)] = tampon[Avancer(indiceLec, i - 1)]
      /\ tampon'[Avancer(indiceLec, Used)] = k
  <2>1. /\ DOMAIN tampon = Index /\ indiceLec \in Index
        /\ indiceEcr = Avancer(indiceLec, Used)
    BY InStep DEF IInv, InputType
  <2>2. ASSUME NEW u, u = [tampon EXCEPT ![Avancer(indiceLec, Used)] = k]
        PROVE  /\ \A i \in 1..Used : u[Avancer(indiceLec, i - 1)] = tampon[Avancer(indiceLec, i - 1)]
               /\ u[Avancer(indiceLec, Used)] = k
    <3>1. Used \in Nat /\ Used < TailleTamp
      BY <1>2, <1>4
    <3> QED BY <2>1, <2>2, <3>1, PlaceStored
  <2>3. tampon' = [tampon EXCEPT ![Avancer(indiceLec, Used)] = k]
    BY <1>1, <2>1
  <2> QED BY <2>2, <2>3
<1>6. k \in Chars
  <2>1. Avancer(indiceLec, Used) \in Index
    BY InStep DEF IInv, InputType
  <2>2. \A i \in Index : tampon'[i] \in Chars
    BY DEF IInv, InputType
  <2> QED BY <1>5, <2>1, <2>2
<1> DEFINE s == Unread
           t == Unread'
           n == Used
<1>7. /\ Append(s, k) \in Seq(Chars) /\ Len(Append(s, k)) = n + 1
      /\ \A i \in 1..n : Append(s, k)[i] = s[i]
      /\ Append(s, k)[n + 1] = k
  BY <1>2, <1>6, AppendProperties
<1>8. \A i \in 1..n : t[i] = s[i]
  BY <1>1, <1>2, <1>3, <1>4, <1>5
<1>9. t[n + 1] = k
  <2>1. n + 1 \in 1..Used' /\ (n + 1) - 1 = n
    BY <1>2, <1>4
  <2> QED BY <1>1, <1>3, <1>5, <2>1
<1>10. n \in Nat /\ s \in Seq(Chars) /\ t \in Seq(Chars) /\ Len(t) = n + 1
  BY <1>2, <1>3, <1>4
<1>11. Len(Unread) < TailleTamp
  BY <1>2, <1>4
<1> HIDE DEF s, t, n
<1>12. \A i \in 1..(n + 1) : i \in 1..n \/ i = n + 1
  BY <1>10
<1>13. \A i \in 1..Len(t) : t[i] = Append(s, k)[i]
  BY <1>7, <1>8, <1>9, <1>10, <1>12
<1>14. t = Append(s, k)
  BY <1>7, <1>10, <1>13, SeqEqual
<1> QED BY <1>11, <1>14 DEF s, t

\* The last m keys are gone.
LEMMA DropText ==
  ASSUME IInv, IInv', NEW m \in 0..Used, casesDispos' = casesDispos + m,
         UNCHANGED <<tampon, indiceLec>>
  PROVE  Unread' = SubSeq(Unread, 1, Used - m)
<1> DEFINE s == Unread
           t == Unread'
           n == Used
<1>1. /\ s \in Seq(Chars) /\ Len(s) = n /\ n \in Nat /\ casesDispos = TailleTamp - n
      /\ \A i \in 1..n : s[i] = tampon[Avancer(indiceLec, i - 1)]
  BY TextIs
<1>2. /\ t \in Seq(Chars) /\ Len(t) = Used' /\ casesDispos' = TailleTamp - Used'
      /\ \A i \in 1..Used' : t[i] = tampon[Avancer(indiceLec, i - 1)]
      /\ Used' \in Nat
  BY TextIsNext
<1>3. Used' = n - m
  BY <1>1, UsedNext
<1> HIDE DEF s, t, n
<1>4. \A i \in 1..(n - m) : i \in 1..n
  BY <1>1
<1>5. \A i \in 1..(n - m) : s[i] \in Chars
  BY <1>1, <1>4, ElementOfSeq
<1>6. 1 \in Int /\ n - m \in Int /\ m \in 0..n
  BY <1>1 DEF n
<1>7. /\ SubSeq(s, 1, n - m) \in Seq(Chars)
      /\ Len(SubSeq(s, 1, n - m)) = IF 1 <= n - m THEN n - m - 1 + 1 ELSE 0
      /\ \A i \in 1..(n - m - 1 + 1) : SubSeq(s, 1, n - m)[i] = s[1 + i - 1]
  BY <1>5, <1>6, SubSeqProperties
<1>8. /\ Len(SubSeq(s, 1, n - m)) = n - m
      /\ \A i \in 1..(n - m) : SubSeq(s, 1, n - m)[i] = s[i]
  <2>1. (IF 1 <= n - m THEN n - m - 1 + 1 ELSE 0) = n - m /\ n - m - 1 + 1 = n - m
    BY <1>1, <1>6
  <2>2. \A i \in 1..(n - m) : 1 + i - 1 = i
    BY <1>6
  <2> QED BY <1>7, <2>1, <2>2
<1>9. \A i \in 1..Len(t) : t[i] = SubSeq(s, 1, n - m)[i]
  BY <1>1, <1>2, <1>3, <1>4, <1>8
<1>10. t = SubSeq(s, 1, n - m)
  BY <1>2, <1>3, <1>7, <1>8, <1>9, SeqEqual
<1> QED BY <1>10 DEF s, t, n

\* The first k keys have been read.
LEMMA ReadText ==
  ASSUME IInv, IInv', NEW k \in 1..Used, casesDispos' = casesDispos + k,
         indiceLec' = Avancer(indiceLec, k), UNCHANGED tampon
  PROVE  Unread' = SubSeq(Unread, k + 1, Used)
<1> DEFINE s == Unread
           t == Unread'
           n == Used
<1>1. /\ s \in Seq(Chars) /\ Len(s) = n /\ n \in Nat /\ casesDispos = TailleTamp - n
      /\ \A i \in 1..n : s[i] = tampon[Avancer(indiceLec, i - 1)]
      /\ n \in Room /\ indiceLec \in Index
  BY TextIs DEF IInv, InputType
<1>2. /\ t \in Seq(Chars) /\ Len(t) = Used' /\ casesDispos' = TailleTamp - Used'
      /\ \A i \in 1..Used' : t[i] = tampon[Avancer(Avancer(indiceLec, k), i - 1)]
      /\ Used' \in Nat
  BY TextIsNext
<1>3. Used' = n - k
  BY <1>1, UsedNext
<1>4. k \in 1..n
  OBVIOUS
<1> HIDE DEF s, t, n
<1>5. \A i \in 1..(n - k) : k + i \in 1..n /\ (k + i) - 1 = i + k - 1
  BY <1>1, <1>4
<1>6. \A i \in 1..(n - k) : t[i] = s[k + i]
  <2>1. ASSUME NEW i \in 1..(n - k) PROVE t[i] = s[k + i]
    <3>1. Avancer(Avancer(indiceLec, k), i - 1) = Avancer(indiceLec, i + k - 1)
      BY <1>1, <1>4, Further
    <3> QED BY <1>1, <1>2, <1>3, <1>5, <3>1
  <2> QED BY <2>1
<1>7. \A i \in (k + 1)..n : s[i] \in Chars
  <2>1. \A i \in (k + 1)..n : i \in 1..n
    BY <1>1, <1>4
  <2> QED BY <1>1, <2>1, ElementOfSeq
<1>8. k + 1 \in Int /\ n \in Int
  BY <1>1, <1>4
<1>9. /\ SubSeq(s, k + 1, n) \in Seq(Chars)
      /\ Len(SubSeq(s, k + 1, n)) = IF k + 1 <= n THEN n - (k + 1) + 1 ELSE 0
      /\ \A i \in 1..(n - (k + 1) + 1) : SubSeq(s, k + 1, n)[i] = s[(k + 1) + i - 1]
  BY <1>7, <1>8, SubSeqProperties
<1>10. /\ Len(SubSeq(s, k + 1, n)) = n - k
       /\ \A i \in 1..(n - k) : SubSeq(s, k + 1, n)[i] = s[k + i]
  <2>1. (IF k + 1 <= n THEN n - (k + 1) + 1 ELSE 0) = n - k /\ n - (k + 1) + 1 = n - k
    BY <1>1, <1>4
  <2>2. \A i \in 1..(n - k) : (k + 1) + i - 1 = k + i
    BY <1>1, <1>4
  <2> QED BY <1>9, <2>1, <2>2
<1>11. \A i \in 1..Len(t) : t[i] = SubSeq(s, k + 1, n)[i]
  BY <1>2, <1>3, <1>6, <1>10
<1>12. t = SubSeq(s, k + 1, n)
  BY <1>2, <1>3, <1>9, <1>10, <1>11, SeqEqual
<1> QED BY <1>12 DEF s, t, n

\* ecrire_clavier adds characters, as many as there is room for.
LEMMA WrittenText ==
  ASSUME IInv, IInv', NEW n \in Nat \ {0}, EcrireClavier(n)
  PROVE  \E m \in 0..n : /\ Len(Unread) + m <= TailleTamp
                         /\ m = n \/ Len(Unread) + m = TailleTamp
                         /\ Unread' = Unread \o [i \in 1..m |-> "c"]
<1> DEFINE m == IF n < casesDispos THEN n ELSE casesDispos
           s == Unread
           t == Unread'
           u == Used
           w == [i \in 1..m |-> "c"]
<1>1. /\ UNCHANGED indiceLec
      /\ tampon' = [i \in DOMAIN tampon |-> IF Behind(i, indiceEcr) < m THEN "c" ELSE tampon[i]]
      /\ casesDispos' = casesDispos - m
  BY DEF EcrireClavier, Rewrites
<1>2. /\ s \in Seq(Chars) /\ Len(s) = u /\ u \in Nat /\ u \in Room /\ casesDispos = TailleTamp - u
      /\ \A i \in 1..u : s[i] = tampon[Avancer(indiceLec, i - 1)]
      /\ indiceLec \in Index /\ DOMAIN tampon = Index /\ indiceEcr = Avancer(indiceLec, u)
  BY TextIs, InStep DEF IInv, InputType
<1>3. /\ t \in Seq(Chars) /\ Len(t) = Used' /\ casesDispos' = TailleTamp - Used'
      /\ \A i \in 1..Used' : t[i] = tampon'[Avancer(indiceLec, i - 1)]
      /\ Used' \in Nat
  BY <1>1, TextIsNext
<1>4. /\ m \in 0..n /\ u + m <= TailleTamp /\ (m = n \/ u + m = TailleTamp)
      /\ Used' = u + m /\ m \in Nat
  <2>1. /\ m \in 0..n /\ u + m <= TailleTamp /\ (m = n \/ u + m = TailleTamp)
        /\ m \in Nat
    BY ConsoleAssumption DEF Room, IInv, InputType, Used
  <2>2. Used' = u + m
    <3> HIDE DEF m
    <3> QED BY <1>1, <2>1, UsedNext
  <2> QED BY <2>1, <2>2
<1> HIDE DEF m, s, t, u, w
<1>5. \A i \in 1..(u + m) : tampon'[Avancer(indiceLec, i - 1)] =
                              IF i <= u THEN tampon[Avancer(indiceLec, i - 1)] ELSE "c"
  <2>1. \A i \in Index : tampon'[i] = IF Behind(i, Avancer(indiceLec, u)) < m THEN "c" ELSE tampon[i]
    BY <1>1, <1>2
  <2>2. ASSUME NEW v, \A i \in Index : v[i] = IF Behind(i, Avancer(indiceLec, u)) < m THEN "c" ELSE tampon[i]
        PROVE  \A i \in 1..(u + m) : v[Avancer(indiceLec, i - 1)] =
                              IF i <= u THEN tampon[Avancer(indiceLec, i - 1)] ELSE "c"
    <3>1. u \in Nat /\ m \in Nat /\ u + m <= TailleTamp /\ indiceLec \in Index
          /\ DOMAIN tampon = Index
      BY <1>2, <1>4
    <3> QED BY <2>2, <3>1, PlacesWritten
  <2> QED BY <2>1, <2>2
<1>6. w \in Seq(Chars) /\ Len(w) = m /\ \A i \in 1..m : w[i] = "c"
  <2>1. w \in [1..m -> Chars] /\ \A i \in 1..m : w[i] = "c"
    BY DEF Chars, w
  <2> QED BY <1>4, <2>1
<1>7. /\ s \o w \in Seq(Chars) /\ Len(s \o w) = u + m
      /\ \A i \in 1..(u + m) : (s \o w)[i] = IF i <= u THEN s[i] ELSE w[i - u]
  BY <1>2, <1>6, ConcatProperties
<1>8. \A i \in 1..(u + m) : i <= u => i \in 1..u
  BY <1>2, <1>4
<1>9. \A i \in 1..(u + m) : ~ (i <= u) => i - u \in 1..m
  BY <1>2, <1>4
<1>10. \A i \in 1..Len(t) : t[i] = (s \o w)[i]
  <2>1. \A i \in 1..(u + m) : t[i] = IF i <= u THEN tampon[Avancer(indiceLec, i - 1)] ELSE "c"
    BY <1>3, <1>4, <1>5
  <2>2. \A i \in 1..(u + m) : i <= u => t[i] = (s \o w)[i]
    BY <1>2, <1>7, <1>8, <2>1
  <2>3. \A i \in 1..(u + m) : ~ (i <= u) => t[i] = (s \o w)[i]
    BY <1>6, <1>7, <1>9, <2>1
  <2> QED BY <1>3, <1>4, <2>2, <2>3
<1>11. t = s \o w
  BY <1>3, <1>4, <1>7, <1>10, SeqEqual
<1> QED BY <1>2, <1>4, <1>11 DEF s, t, w, u

\* nb_lig tells whether there is a line.
LEMMA LinesText ==
  ASSUME IInv
  PROVE  nbLig # 0 <=> \E i \in 1..Len(Unread) : Unread[i] = "cr"
<1>1. /\ Len(Unread) = Used /\ Used \in Nat
      /\ \A i \in 1..Used : Unread[i] = tampon[Avancer(indiceLec, i - 1)]
  BY TextIs
<1>2. nbLig = Cardinality(ReturnsIn(tampon, indiceLec, Used))
  BY InStep DEF IInv
<1>3. IsFiniteSet(ReturnsIn(tampon, indiceLec, Used))
  BY <1>1, ReturnsFinite
<1>4. nbLig = 0 <=> ReturnsIn(tampon, indiceLec, Used) = {}
  BY <1>2, <1>3, FS_EmptySet
<1>5. ReturnsIn(tampon, indiceLec, Used) = {i \in 1..Used : Unread[i] = "cr"}
  BY <1>1 DEF ReturnsIn
<1> QED BY <1>1, <1>4, <1>5

-----------------------------------------------------------------------------
(* The steps of the contract, one lemma each. *)

Waits == [p \in Proc |-> IF call[p] = <<>> THEN "nothing" ELSE call[p][1]]
Live  == {p \in Proc : state[p] # "ENDED"}

\* What the readers see stays as it is.
LEMMA StutterStep ==
  ASSUME Unread' = Unread, Waits' = Waits, Live' = Live
  PROVE  UNCHANGED Contract!cvars
BY DEF Contract!cvars, Waits, Live

\* A key is typed.
LEMMA TypeStep ==
  ASSUME NEW k \in Keys \ {"bs", "none"}, Len(Unread) < TailleTamp,
         Unread' = Append(Unread, k), Waits' = Waits, Live' = Live
  PROVE  Contract!CNext
BY DEF Contract!CNext, Contract!Type, Waits, Live

\* A key is erased.
LEMMA EraseStep ==
  ASSUME Unread # <<>>, Unread' = SubSeq(Unread, 1, Len(Unread) - 1),
         Waits' = Waits, Live' = Live
  PROVE  Contract!CNext
BY DEF Contract!CNext, Contract!Erase, Waits, Live

\* What follows the last return is taken away.
LEMMA ClearStep ==
  ASSUME NEW k \in 0..Len(Unread), k = 0 \/ Unread[k] = "cr",
         \A i \in (k + 1)..Len(Unread) : Unread[i] # "cr",
         Unread' = SubSeq(Unread, 1, k), Waits' = Waits, Live' = Live
  PROVE  Contract!CNext
BY DEF Contract!CNext, Contract!Clear, Waits, Live

\* A program writes.
LEMMA WriteStep ==
  ASSUME NEW n \in Inserts, NEW k \in 0..n, Len(Unread) + k <= TailleTamp,
         k = n \/ Len(Unread) + k = TailleTamp,
         Unread' = Unread \o [i \in 1..k |-> "c"], Waits' = Waits, Live' = Live
  PROVE  Contract!CNext
BY DEF Contract!CNext, Contract!Write, Waits, Live

\* A client begins to wait.
LEMMA AwaitStep ==
  ASSUME NEW p \in Proc, Waits[p] = "nothing", p \in Live,
         \/ /\ ~ \E i \in 1..Len(Unread) : Unread[i] = "cr"
            /\ Waits' = [Waits EXCEPT ![p] = "line"]
         \/ /\ Unread = <<>>
            /\ Waits' = [Waits EXCEPT ![p] = "key"],
         Unread' = Unread, Live' = Live
  PROVE  Contract!CNext
<1>1. Contract!Await(p)
  BY DEF Contract!Await, Contract!HasLine, Waits, Live
<1> QED BY <1>1 DEF Contract!CNext

\* A client reads.
LEMMA TakeStep ==
  ASSUME NEW p \in Proc, NEW n \in Lengths, NEW k \in 1..Len(Unread),
         \E i \in 1..Len(Unread) : Unread[i] = "cr",
         \A i \in 1..(k - 1) : Unread[i] # "cr",
         k = n \/ Unread[k] = "cr", k <= n,
         Unread' = SubSeq(Unread, k + 1, Len(Unread)),
         p \in Live, Waits[p] \in {"nothing", "line"},
         Waits' = [Waits EXCEPT ![p] = "nothing"], Live' = Live
  PROVE  Contract!CNext
<1>1. Contract!Answer(p, "line")
  BY DEF Contract!Answer, Waits, Live
<1>2. Contract!Take(p, n)
  BY <1>1 DEF Contract!Take, Contract!HasLine
<1> QED BY <1>2 DEF Contract!CNext

\* A client takes a tab or an arrow away.
LEMMA NoticeStep ==
  ASSUME NEW p \in Proc, Unread # <<>>, Unread[Len(Unread)] \in {"tab", "up", "down"},
         Unread' = SubSeq(Unread, 1, Len(Unread) - 1),
         p \in Live, Waits[p] \in {"nothing", "line"},
         Waits' = [Waits EXCEPT ![p] = "nothing"], Live' = Live
  PROVE  Contract!CNext
<1>1. Contract!Answer(p, "line")
  BY DEF Contract!Answer, Waits, Live
<1>2. Contract!Notice(p)
  BY <1>1 DEF Contract!Notice
<1> QED BY <1>2 DEF Contract!CNext

\* A client is told that there is a key.
LEMMA WakeStep ==
  ASSUME NEW p \in Proc, Unread # <<>>, Unread' = Unread,
         p \in Live, Waits[p] \in {"nothing", "key"},
         Waits' = [Waits EXCEPT ![p] = "nothing"], Live' = Live
  PROVE  Contract!CNext
<1>1. Contract!Answer(p, "key")
  BY DEF Contract!Answer, Waits, Live
<1>2. Contract!Wake(p)
  BY <1>1 DEF Contract!Wake
<1> QED BY <1>2 DEF Contract!CNext

\* A client ends.
LEMMA EndStep ==
  ASSUME NEW p \in Proc, Live' = Live \ {p}, Waits' = [Waits EXCEPT ![p] = "nothing"],
         Unread' = Unread
  PROVE  Contract!CNext
<1>1. Contract!End(p)
  BY DEF Contract!End, Waits, Live
<1> QED BY <1>1 DEF Contract!CNext

\* A client begins.
LEMMA BeginStep ==
  ASSUME NEW p \in Proc, p \notin Live, Live' = Live \cup {p}, Waits' = Waits,
         Unread' = Unread
  PROVE  Contract!CNext
<1>1. Contract!Begin(p)
  BY DEF Contract!Begin, Waits, Live
<1> QED BY <1>1 DEF Contract!CNext

-----------------------------------------------------------------------------
(* Who waits: the second inductive invariant. *)

\* head_io holds those that wait for input, once, and whoever is inside a
\* call of the console has its kernel stack there: a process is elected back
\* into the call that it is stopped in.
CInv ==
  /\ SchedInv
  /\ DOMAIN call = Proc
  /\ headIo \in Seq(Pid) /\ NoDup(headIo)
  /\ Elems(headIo) = {p \in Proc : state[p] = "WAITIO"}
  /\ stopped \subseteq Proc
  /\ \A p \in Proc : p \in stopped <=> call[p] # <<>>
  /\ pc = "user" => cur \notin stopped
  /\ pc = "resumed" => cur \in stopped

\* The process that runs a call of the console.
LEMMA Caller ==
  ASSUME CInv, User \/ pc = "resumed"
  PROVE  /\ cur \in Proc /\ cur \in Live /\ state[cur] = "CHOSEN" /\ pc # "ordonnance"
         /\ User => call[cur] = <<>> /\ Waits[cur] = "nothing"
         /\ pc = "resumed" => Waits[cur] = call[cur][1]
<1>1. cur \in Proc /\ state[cur] = "CHOSEN" /\ pc # "ordonnance"
  BY PidFacts DEF CInv, SchedInv, User
<1> QED BY <1>1 DEF CInv, User, Waits, Live

\* bloque_io chains a process that is not chained.
LEMMA BlockCInv ==
  ASSUME CInv, NEW c, c # <<>>, At(c), BloqueIo(c)
  PROVE  CInv'
<1>1. /\ cur \in Proc /\ cur # Idle /\ cur \in Pid
      /\ state[cur] = "CHOSEN" /\ pc # "ordonnance"
  BY Caller, PidFacts DEF At
<1>2. /\ Block("WAITIO") /\ headIo' = QueueAdd(headIo, cur, prio)
      /\ call' = [call EXCEPT ![cur] = c]
  BY DEF BloqueIo
<1>3. SchedInv'
  BY <1>1, <1>2, BlockSched DEF CInv
<1>4. /\ state' = [state EXCEPT ![cur] = "WAITIO"] /\ stopped' = stopped \cup {cur}
      /\ pc' = "ordonnance"
  BY <1>2 DEF Block
<1>5. cur \notin Elems(headIo) /\ prio \in [Pid -> Int]
  BY <1>1 DEF CInv, SchedInv
<1>6. /\ headIo' \in Seq(Pid) /\ NoDup(headIo') /\ Elems(headIo') = Elems(headIo) \cup {cur}
  <2>1. /\ QueueAdd(headIo, cur, prio) \in Seq(Pid) /\ NoDup(QueueAdd(headIo, cur, prio))
        /\ Elems(QueueAdd(headIo, cur, prio)) = Elems(headIo) \cup {cur}
    BY <1>1, <1>5, QueueAddElems DEF CInv
  <2> QED BY <1>2, <2>1
<1>7. Elems(headIo') = {p \in Proc : state'[p] = "WAITIO"}
  <2>1. \A p \in Proc : p \in DOMAIN state
    BY PidFacts DEF CInv, SchedInv
  <2> QED BY <1>1, <1>4, <1>6, <2>1 DEF CInv
<1>8. DOMAIN call' = Proc /\ \A p \in Proc : p \in stopped' <=> call'[p] # <<>>
  BY <1>1, <1>2, <1>4 DEF CInv
<1>9. stopped' \subseteq Proc
  BY <1>1, <1>4 DEF CInv
<1> QED BY <1>3, <1>4, <1>6, <1>7, <1>8, <1>9 DEF CInv

\* What it changes of who waits and who lives; a process that comes back in
\* the same call changes nothing.
LEMMA BlockWaits ==
  ASSUME CInv, NEW c, c # <<>>, At(c), BloqueIo(c)
  PROVE  /\ Live' = Live
         /\ User => Waits' = [Waits EXCEPT ![cur] = c[1]]
         /\ ~ User => Waits' = Waits
<1>1. cur \in Proc /\ state[cur] = "CHOSEN" /\ cur \in Pid
  BY Caller, PidFacts DEF At
<1>2. /\ state' = [state EXCEPT ![cur] = "WAITIO"]
      /\ call' = [call EXCEPT ![cur] = c]
  BY DEF BloqueIo, Block
<1>3. Live' = Live
  <2>1. \A p \in Proc : p \in DOMAIN state
    BY PidFacts DEF CInv, SchedInv
  <2> QED BY <1>1, <1>2, <2>1 DEF Live
<1>4. DOMAIN call = Proc
  BY DEF CInv
<1>5. User => Waits' = [Waits EXCEPT ![cur] = c[1]]
  BY <1>1, <1>2, <1>4 DEF Waits
<1>6. ~ User => Waits' = Waits
  <2>1. ~ User => call[cur] = c
    BY DEF At
  <2>2. ~ User => \A p \in Proc : call'[p] = call[p]
    BY <1>1, <1>2, <1>4, <2>1
  <2> QED BY <2>2 DEF Waits
<1> QED BY <1>3, <1>5, <1>6

\* A process leaves the call that it made.
LEMMA LeavesCInv ==
  ASSUME CInv, User \/ pc = "resumed", Leaves
  PROVE  CInv' /\ Waits' = [Waits EXCEPT ![cur] = "nothing"] /\ Live' = Live
<1>1. cur \in Proc /\ state[cur] = "CHOSEN"
  BY Caller
<1>2. /\ stopped' = stopped \ {cur} /\ pc' = "user" /\ call' = [call EXCEPT ![cur] = <<>>]
      /\ UNCHANGED <<state, prio, act, cur, headIo>>
  BY DEF Leaves
<1>3. SchedInv'
  BY <1>1, <1>2 DEF CInv, SchedInv
<1>4. DOMAIN call' = Proc /\ \A p \in Proc : p \in stopped' <=> call'[p] # <<>>
  BY <1>1, <1>2 DEF CInv
<1>5. CInv'
  BY <1>1, <1>2, <1>3, <1>4 DEF CInv
<1>6. Waits' = [Waits EXCEPT ![cur] = "nothing"]
  BY <1>1, <1>2 DEF Waits, CInv
<1>7. Live' = Live
  BY <1>2 DEF Live
<1> QED BY <1>5, <1>6, <1>7

\* debloque_io takes out of head_io the one that it makes ready.
LEMMA DebloqueCInv ==
  ASSUME CInv, pc = "user", DebloqueIo, UNCHANGED call
  PROVE  CInv' /\ Waits' = Waits /\ Live' = Live
<1> DEFINE ps == IF headIo = <<>> THEN <<>> ELSE <<QueueTop(headIo)>>
<1>1. /\ headIo' = IF headIo = <<>> THEN headIo ELSE QueueOut(headIo)
      /\ Wake(ps, FALSE)
  BY DEF DebloqueIo
<1>2. /\ headIo \in Seq(Pid) /\ NoDup(headIo)
      /\ Elems(headIo) = {p \in Proc : state[p] = "WAITIO"}
      /\ SchedInv /\ Proc \subseteq Pid
  BY PidFacts DEF CInv
<1>3. headIo # <<>> => /\ QueueTop(headIo) \in Elems(headIo) /\ QueueTop(headIo) \in Pid
                       /\ QueueOut(headIo) \in Seq(Pid) /\ NoDup(QueueOut(headIo))
                       /\ Elems(QueueOut(headIo)) = Elems(headIo) \ {QueueTop(headIo)}
  BY <1>2, QueueOutElems
<1>4. /\ ps \in Seq(Pid) /\ NoDup(ps) /\ Elems(ps) \subseteq Elems(headIo)
      /\ headIo' \in Seq(Pid) /\ NoDup(headIo')
      /\ Elems(headIo') = Elems(headIo) \ Elems(ps)
  <2>1. CASE headIo = <<>>
    <3>1. Elems(<<>>) = {} /\ NoDup(<<>>) /\ <<>> \in Seq(Pid)
      BY <1>2, ElemsEmpty
    <3> QED BY <2>1, <3>1, <1>1, <1>2
  <2>2. CASE headIo # <<>>
    <3> DEFINE w == QueueTop(headIo)
    <3>1. ps = <<w>> /\ w \in Pid
      BY <2>2, <1>3
    <3> HIDE DEF ps, w
    <3>2. <<w>> \in Seq(Pid) /\ Len(<<w>>) = 1 /\ <<w>>[1] = w
      BY <3>1
    <3>3. Elems(<<w>>) = {w} /\ NoDup(<<w>>)
      BY <3>2 DEF Elems, NoDup
    <3> QED BY <2>2, <1>1, <1>3, <3>1, <3>2, <3>3 DEF w
  <2> QED BY <2>1, <2>2
<1> HIDE DEF ps
<1>5. \A p \in Elems(ps) : state[p] \notin {"CHOSEN", "ACTIVABLE"}
  BY <1>2, <1>4
<1>6. SchedInv'
  BY <1>1, <1>2, <1>4, <1>5, WakeSched
<1>7. /\ state' = [p \in Pid |-> IF p \in Elems(ps) THEN "ACTIVABLE" ELSE state[p]]
      /\ pc' = "user" /\ UNCHANGED <<cur, stopped>>
  BY <1>1 DEF Wake
<1>8. \A p \in Proc : state'[p] = IF p \in Elems(ps) THEN "ACTIVABLE" ELSE state[p]
  BY <1>2, <1>7
<1>9. Elems(headIo') = {p \in Proc : state'[p] = "WAITIO"}
  BY <1>2, <1>4, <1>8
<1>10. Live' = Live
  BY <1>2, <1>4, <1>8 DEF Live
<1>11. CInv'
  BY <1>4, <1>6, <1>7, <1>9 DEF CInv
<1>12. Waits' = Waits
  BY DEF Waits
<1> QED BY <1>10, <1>11, <1>12

\* kill of a process that does not wait for input, and exit.
LEMMA KillCInv ==
  ASSUME CInv, ~ KillsWaiters, NEW p \in Proc, Kill(p)
  PROVE  /\ CInv' /\ Live' = Live \ {p} /\ Waits' = [Waits EXCEPT ![p] = "nothing"]
<1>1. /\ Ended(p) /\ state[p] # "WAITIO" /\ call' = [call EXCEPT ![p] = <<>>]
      /\ UNCHANGED headIo
  BY DEF Kill
<1>2. SchedInv'
  BY <1>1, EndedSched DEF CInv
<1>3. /\ state' = [state EXCEPT ![p] = "ENDED"] /\ stopped' = stopped \ {p}
      /\ pc' = IF p = cur THEN "ordonnance" ELSE "user"
      /\ cur' = cur /\ pc = "user"
  BY <1>1 DEF Ended, User
<1>4. \A q \in Proc : state'[q] = IF q = p THEN "ENDED" ELSE state[q]
  BY <1>3, PidFacts DEF CInv, SchedInv
<1>5. Elems(headIo') = {q \in Proc : state'[q] = "WAITIO"}
  BY <1>1, <1>4 DEF CInv
<1>6. \A q \in Proc : call'[q] = IF q = p THEN <<>> ELSE call[q]
  BY <1>1 DEF CInv
<1>7. DOMAIN call' = Proc /\ \A q \in Proc : q \in stopped' <=> call'[q] # <<>>
  BY <1>1, <1>3, <1>6 DEF CInv
<1>8. CInv'
  BY <1>1, <1>2, <1>3, <1>5, <1>7 DEF CInv
<1>9. Live' = Live \ {p}
  BY <1>4 DEF Live
<1>10. Waits' = [Waits EXCEPT ![p] = "nothing"]
  BY <1>6 DEF Waits
<1> QED BY <1>8, <1>9, <1>10

\* start.
LEMMA StartCInv ==
  ASSUME CInv, NEW p \in Proc, NEW n \in Prio, Start(p, n)
  PROVE  CInv' /\ p \notin Live /\ Live' = Live \cup {p} /\ Waits' = Waits
<1>1. Started(p, n) /\ UNCHANGED <<headIo, call>>
  BY DEF Start
<1>2. SchedInv'
  BY <1>1, StartedSched DEF CInv
<1>3. /\ state' = [state EXCEPT ![p] = "ACTIVABLE"] /\ state[p] = "ENDED"
      /\ pc = "user" /\ pc' \in {"ordonnance", "user"} /\ UNCHANGED <<cur, stopped>>
  BY <1>1 DEF Started, User
<1>4. \A q \in Proc : state'[q] = IF q = p THEN "ACTIVABLE" ELSE state[q]
  BY <1>3, PidFacts DEF CInv, SchedInv
<1>5. Elems(headIo') = {q \in Proc : state'[q] = "WAITIO"}
  BY <1>1, <1>3, <1>4 DEF CInv
<1>6. CInv'
  BY <1>1, <1>2, <1>3, <1>5 DEF CInv
<1>7. p \notin Live /\ Live' = Live \cup {p}
  BY <1>3, <1>4 DEF Live
<1>8. Waits' = Waits
  BY <1>1 DEF Waits
<1> QED BY <1>6, <1>7, <1>8

\* Nobody begins to wait, stops or ends.
LEMMA SameCInv ==
  ASSUME CInv, SchedInv',
         \A p \in Proc : \/ state'[p] = state[p]
                         \/ /\ state[p] \in {"CHOSEN", "ACTIVABLE"}
                            /\ state'[p] \in {"CHOSEN", "ACTIVABLE"},
         UNCHANGED <<stopped, headIo, call>>,
         pc' = "user" => cur' \notin stopped, pc' = "resumed" => cur' \in stopped
  PROVE  CInv' /\ Live' = Live /\ Waits' = Waits
<1>1. {q \in Proc : state'[q] = "WAITIO"} = {q \in Proc : state[q] = "WAITIO"}
  OBVIOUS
<1>2. CInv'
  BY <1>1 DEF CInv
<1>3. Live' = Live
  BY DEF Live
<1>4. Waits' = Waits
  BY DEF Waits
<1> QED BY <1>2, <1>3, <1>4

\* chprio, the clock, ordonnance, and what does not concern the scheduler.
LEMMA OtherCInv ==
  ASSUME CInv,
         \/ \E p \in Proc, n \in Prio : Chprio(p, n)
         \/ Tick \/ Ordonnance
         \/ UNCHANGED <<sched, headIo, call>>
         \/ ClearLineStuck
  PROVE  CInv' /\ Live' = Live /\ Waits' = Waits
<1>1. ASSUME NEW p \in Proc, NEW n \in Prio, Chprio(p, n)
      PROVE  CInv' /\ Live' = Live /\ Waits' = Waits
  <2>1. Repriorised(p, n) /\ UNCHANGED <<headIo, call>>
    BY <1>1 DEF Chprio
  <2>2. SchedInv'
    BY <2>1, RepriorisedSched DEF CInv
  <2>3. UNCHANGED <<state, cur, stopped>> /\ pc' \in {"ordonnance", "user"} /\ pc = "user"
    BY <2>1 DEF Repriorised, User
  <2> QED BY <2>1, <2>2, <2>3, SameCInv DEF CInv
<1>2. CASE Tick
  <2>1. Preempted /\ UNCHANGED <<headIo, call>>
    BY <1>2 DEF Tick
  <2>2. SchedInv'
    BY <2>1, OtherSched DEF CInv
  <2> QED BY <2>1, <2>2, SameCInv DEF Preempted, CInv
<1>3. CASE Ordonnance
  <2>1. Elected /\ UNCHANGED <<headIo, call>>
    BY <1>3 DEF Ordonnance
  <2>2. /\ SchedInv'
        /\ \A p \in Pid : state[p] \notin {"CHOSEN", "ACTIVABLE"} => state'[p] = state[p]
        /\ \A p \in Pid : state[p] \in {"CHOSEN", "ACTIVABLE"} =>
                            state'[p] \in {"CHOSEN", "ACTIVABLE"}
    BY <2>1, ElectedSched DEF CInv
  <2>3. \A p \in Proc : \/ state'[p] = state[p]
                        \/ /\ state[p] \in {"CHOSEN", "ACTIVABLE"}
                           /\ state'[p] \in {"CHOSEN", "ACTIVABLE"}
    BY <2>2, PidFacts
  <2>4. UNCHANGED stopped /\ pc' = IF cur' \in stopped THEN "resumed" ELSE "user"
    BY <2>1 DEF Elected
  <2> QED BY <2>1, <2>2, <2>3, <2>4, SameCInv
<1>4. CASE UNCHANGED <<sched, headIo, call>>
  <2>1. SchedInv'
    BY <1>4, OtherSched DEF CInv
  <2> QED BY <1>4, <2>1, SameCInv DEF sched, CInv
<1>5. CASE ClearLineStuck
  <2>1. UNCHANGED <<state, prio, act, cur, stopped, headIo, call>> /\ pc' = "stuck" /\ pc = "user"
    BY <1>5 DEF ClearLineStuck, Rewrites, User
  <2>2. SchedInv'
    BY <2>1 DEF CInv, SchedInv
  <2> QED BY <2>1, <2>2, SameCInv
<1> QED BY <1>1, <1>2, <1>3, <1>4, <1>5

-----------------------------------------------------------------------------
(* With a careful typist, and if nobody is killed who waits for input,      *)
(* every step is a step of the contract, or none that the readers see.      *)

\* What the buffer and the readers keep together.
Both == IInv /\ CInv

Promised == [Contract!CNext]_(Contract!cvars)

\* The last key, and what backspace takes.
LEMMA LastKey ==
  ASSUME IInv, IInv', Backspace
  PROVE  /\ casesDispos = TailleTamp => Unread' = Unread
         /\ casesDispos # TailleTamp =>
              /\ Unread # <<>> /\ Unread' = SubSeq(Unread, 1, Len(Unread) - 1)
              /\ Unread[Len(Unread)] = tampon[Reculer(indiceEcr)]
<1>1. /\ Len(Unread) = Used /\ Used \in Nat /\ casesDispos = TailleTamp - Used
      /\ \A i \in 1..Used : Unread[i] = tampon[Avancer(indiceLec, i - 1)]
  BY TextIs
<1>2. CASE casesDispos = TailleTamp
  <2>1. UNCHANGED <<tampon, casesDispos, indiceLec>>
    BY <1>2 DEF Backspace
  <2> QED BY <1>2, <2>1 DEF Unread
<1>3. CASE casesDispos # TailleTamp
  <2>1. Used \in Nat /\ Used # 0
    BY <1>1, <1>3, ConsoleAssumption
  <2>2. 1 \in 0..Used /\ 1 \in 1..Used /\ Used \in 1..Used
    BY <2>1
  <2>3. Unread' = SubSeq(Unread, 1, Used - 1)
    BY <1>3, <2>2, DropText DEF Backspace
  <2>4. Behind(indiceEcr, 1) = Avancer(indiceLec, Used - 1)
    BY <2>2, FromTheEnd
  <2>5. Reculer(indiceEcr) = Behind(indiceEcr, 1)
    <3>1. indiceEcr \in Index /\ 1 \in Room
      BY ConsoleAssumption DEF IInv, InputType, Room
    <3> QED BY <3>1, Ring, ConsoleAssumption DEF Reculer, Index
  <2>6. Unread[Used] = tampon[Reculer(indiceEcr)]
    BY <1>1, <2>2, <2>4, <2>5
  <2>7. Unread # <<>>
    BY <1>1, <2>1
  <2> QED BY <1>1, <1>3, <2>3, <2>6, <2>7
<1> QED BY <1>2, <1>3

\* The keyboard interrupt types, erases, or tells the readers nothing.
LEMMA KeyPromised ==
  ASSUME Both, IInv', NEW k \in Keys, TraitantClavier(k)
  PROVE  CInv' /\ Promised
<1>1. pc = "user" /\ KeyboardData(k) /\ DebloqueIo /\ UNCHANGED call
  BY DEF TraitantClavier
<1>2. CInv' /\ Waits' = Waits /\ Live' = Live
  BY <1>1, DebloqueCInv DEF Both
<1>3. CASE Stored(k)
  <2>1. Len(Unread) < TailleTamp /\ Unread' = Append(Unread, k)
    BY <1>1, <1>3, StoredText DEF Both
  <2>2. k \in Keys \ {"bs", "none"}
    BY <1>3 DEF Stored
  <2> QED BY <1>2, <2>1, <2>2, TypeStep DEF Promised
<1>4. CASE k = "bs"
  <2>1. Backspace
    BY <1>1, <1>4 DEF KeyboardData, Stored
  <2>2. CASE casesDispos = TailleTamp
    <3>1. Unread' = Unread
      BY <2>1, <2>2, LastKey DEF Both
    <3> QED BY <1>2, <3>1, StutterStep DEF Promised
  <2>3. CASE casesDispos # TailleTamp
    <3>1. Unread # <<>> /\ Unread' = SubSeq(Unread, 1, Len(Unread) - 1)
      BY <2>1, <2>3, LastKey DEF Both
    <3> QED BY <1>2, <3>1, EraseStep DEF Promised
  <2> QED BY <2>2, <2>3
<1>5. CASE k # "bs" /\ ~ Stored(k)
  <2>1. UNCHANGED <<tampon, casesDispos, indiceLec>>
    BY <1>1, <1>5 DEF KeyboardData
  <2>2. Unread' = Unread
    BY <2>1 DEF Unread
  <2> QED BY <1>2, <2>2, StutterStep DEF Promised
<1> QED BY <1>3, <1>4, <1>5

\* cons_read and wait_for_keyboard wait for what is not there.
LEMMA BlockPromised ==
  ASSUME Both, NEW c,
         \/ \E n \in Lengths : c = <<"line", n>> /\ ConsReadBlock(n)
         \/ c = <<"key">> /\ WaitKeyboardBlock
  PROVE  CInv' /\ Promised
<1>1. /\ At(c) /\ BloqueIo(c) /\ c # <<>>
      /\ \/ c[1] = "line" /\ nbLig = 0
         \/ c[1] = "key" /\ casesDispos = TailleTamp
  <2>1. CASE \E n \in Lengths : c = <<"line", n>> /\ ConsReadBlock(n)
    <3>1. PICK n \in Lengths : c = <<"line", n>> /\ ConsReadBlock(n)
      BY <2>1
    <3>2. At(<<"line", n>>) /\ BloqueIo(<<"line", n>>) /\ nbLig = 0
      BY <3>1 DEF ConsReadBlock, Ready
    <3>3. c # <<>> /\ c[1] = "line"
      BY <3>1
    <3> QED BY <3>1, <3>2, <3>3
  <2>2. CASE c = <<"key">> /\ WaitKeyboardBlock
    <3>1. At(<<"key">>) /\ BloqueIo(<<"key">>) /\ casesDispos = TailleTamp
      BY <2>2 DEF WaitKeyboardBlock
    <3>2. c # <<>> /\ c[1] = "key"
      BY <2>2
    <3> QED BY <2>2, <3>1, <3>2
  <2> QED BY <2>1, <2>2
<1>2. CInv'
  BY <1>1, BlockCInv DEF Both
<1>3. /\ Live' = Live
      /\ User => Waits' = [Waits EXCEPT ![cur] = c[1]]
      /\ ~ User => Waits' = Waits
  BY <1>1, BlockWaits DEF Both
<1>4. Unread' = Unread
  <2>1. UNCHANGED <<tampon, casesDispos, indiceLec>>
    BY <1>1 DEF BloqueIo, input
  <2> QED BY <2>1 DEF Unread
<1>5. CASE ~ User
  BY <1>2, <1>3, <1>4, <1>5, StutterStep DEF Promised
<1>6. CASE User
  <2>1. cur \in Proc /\ cur \in Live /\ Waits[cur] = "nothing"
    BY <1>6, Caller DEF Both
  <2>2. CASE c[1] = "line" /\ nbLig = 0
    <3>1. ~ \E i \in 1..Len(Unread) : Unread[i] = "cr"
      BY <2>2, LinesText DEF Both
    <3> QED BY <1>2, <1>3, <1>4, <1>6, <2>1, <2>2, <3>1, AwaitStep DEF Promised
  <2>3. CASE c[1] = "key" /\ casesDispos = TailleTamp
    <3>1. Unread \in Seq(Chars) /\ Len(Unread) = Used /\ Used = 0
      BY <2>3, TextIs, ConsoleAssumption DEF Both, Used
    <3>2. Unread = <<>>
      BY <3>1
    <3> QED BY <1>2, <1>3, <1>4, <1>6, <2>1, <2>3, <3>2, AwaitStep DEF Promised
  <2> QED BY <1>1, <2>2, <2>3
<1> QED BY <1>5, <1>6

\* Whoever leaves a call of the kind w has not been in another.
LEMMA AnswerPromised ==
  ASSUME Both, NEW c, At(c), c # <<>>, Leaves
  PROVE  /\ CInv' /\ Waits' = [Waits EXCEPT ![cur] = "nothing"] /\ Live' = Live
         /\ cur \in Proc /\ cur \in Live /\ Waits[cur] \in {"nothing", c[1]}
<1>1. User \/ pc = "resumed"
  BY DEF At
<1>2. CInv' /\ Waits' = [Waits EXCEPT ![cur] = "nothing"] /\ Live' = Live
  BY <1>1, LeavesCInv DEF Both
<1>3. cur \in Proc /\ cur \in Live /\ Waits[cur] \in {"nothing", c[1]}
  BY <1>1, Caller DEF Both, At
<1> QED BY <1>2, <1>3

\* cons_look takes the tab or the arrow that it has noticed.
LEMMA LookPromised ==
  ASSUME Both, IInv', NEW n \in Lengths, ConsLook(n)
  PROVE  CInv' /\ Promised
<1> DEFINE c == <<"line", n>>
<1>1. At(c) /\ flags # {} /\ Backspace /\ Leaves /\ c # <<>> /\ c[1] = "line"
  BY DEF ConsLook
<1> HIDE DEF c
<1>2. /\ CInv' /\ Waits' = [Waits EXCEPT ![cur] = "nothing"] /\ Live' = Live
      /\ cur \in Proc /\ cur \in Live /\ Waits[cur] \in {"nothing", c[1]}
  BY <1>1, AnswerPromised
<1>3. casesDispos # TailleTamp /\ tampon[Reculer(indiceEcr)] \in {"tab", "up", "down"}
  BY <1>1 DEF Both, IInv, FlagIsLast
<1>4. /\ Unread # <<>> /\ Unread' = SubSeq(Unread, 1, Len(Unread) - 1)
      /\ Unread[Len(Unread)] \in {"tab", "up", "down"}
  BY <1>1, <1>3, LastKey DEF Both
<1> QED BY <1>1, <1>2, <1>4, NoticeStep DEF Promised

\* cons_read takes a line, or the beginning of one.
LEMMA ReadPromised ==
  ASSUME Both, IInv', NEW n \in Lengths, ConsRead(n)
  PROVE  CInv' /\ Promised
<1> DEFINE c == <<"line", n>>
           k == Consumed(n)
<1>1. /\ At(c) /\ Leaves /\ c # <<>> /\ c[1] = "line" /\ nbLig # 0
      /\ casesDispos' = casesDispos + k /\ indiceLec' = Avancer(indiceLec, k)
      /\ UNCHANGED tampon
  BY DEF ConsRead, Ready
<1>2. n \in Nat \ {0}
  BY ConsoleAssumption
<1>3. k \in 1..Used /\ \A i \in 1..(k - 1) : tampon[Avancer(indiceLec, i - 1)] # "cr"
  BY <1>1, <1>2, ConsumedIsThere DEF Both
<1>4. k \in 1..n /\ (k = n \/ tampon[Avancer(indiceLec, k - 1)] = "cr")
  BY <1>1, <1>2, ConsumedIsThere DEF Both
<1> HIDE DEF c, k
<1>5. /\ CInv' /\ Waits' = [Waits EXCEPT ![cur] = "nothing"] /\ Live' = Live
      /\ cur \in Proc /\ cur \in Live /\ Waits[cur] \in {"nothing", c[1]}
  BY <1>1, AnswerPromised
<1>6. /\ Len(Unread) = Used /\ Used \in Nat
      /\ \A i \in 1..Used : Unread[i] = tampon[Avancer(indiceLec, i - 1)]
  BY TextIs DEF Both
<1>7. Unread' = SubSeq(Unread, k + 1, Used)
  BY <1>1, <1>3, ReadText DEF Both
<1>8. \E i \in 1..Len(Unread) : Unread[i] = "cr"
  BY <1>1, LinesText DEF Both
<1>9. \A i \in 1..(k - 1) : i \in 1..Used
  BY <1>3, <1>6
<1>10. /\ \A i \in 1..(k - 1) : Unread[i] # "cr"
       /\ k = n \/ Unread[k] = "cr"
  BY <1>3, <1>4, <1>6, <1>9
<1>11. k <= n /\ k \in 1..Len(Unread) /\ Unread' = SubSeq(Unread, k + 1, Len(Unread))
  BY <1>2, <1>3, <1>4, <1>6, <1>7
<1> QED BY <1>1, <1>5, <1>8, <1>10, <1>11, TakeStep DEF Promised

\* wait_for_keyboard finds a key.
LEMMA KeyboardPromised ==
  ASSUME Both, WaitKeyboard
  PROVE  CInv' /\ Promised
<1> DEFINE c == <<"key">>
<1>1. At(c) /\ Leaves /\ c # <<>> /\ c[1] = "key" /\ casesDispos # TailleTamp
      /\ UNCHANGED <<tampon, casesDispos, indiceLec>>
  BY DEF WaitKeyboard, input
<1> HIDE DEF c
<1>2. /\ CInv' /\ Waits' = [Waits EXCEPT ![cur] = "nothing"] /\ Live' = Live
      /\ cur \in Proc /\ cur \in Live /\ Waits[cur] \in {"nothing", c[1]}
  BY <1>1, AnswerPromised
<1>3. Unread' = Unread
  BY <1>1 DEF Unread
<1>4. Unread # <<>>
  <2>1. Len(Unread) = Used /\ casesDispos = TailleTamp - Used
    BY TextIs DEF Both
  <2>2. Used # 0
    BY <1>1, <2>1, ConsoleAssumption
  <2> QED BY <2>1, <2>2
<1> QED BY <1>1, <1>2, <1>3, <1>4, WakeStep DEF Promised

\* clear_line leaves the complete lines.
LEMMA ClearPromised ==
  ASSUME Both, IInv', CarefulTypist, ClearLine
  PROVE  CInv' /\ Promised
<1>1. PICK m \in 0..Used : /\ indiceEcr' = Behind(indiceEcr, m)
                           /\ casesDispos' = casesDispos + m
                           /\ \A e \in 1..m : tampon[Behind(indiceEcr, e)] # "cr"
                           /\ m = Used \/ tampon[Behind(indiceEcr, m + 1)] = "cr"
  BY ClearLineDrops DEF Both
<1>2. UNCHANGED <<sched, tampon, indiceLec, headIo, call>>
  BY DEF ClearLine
<1>3. CInv' /\ Live' = Live /\ Waits' = Waits
  BY <1>2, OtherCInv DEF Both
<1>4. /\ Len(Unread) = Used /\ Used \in Nat
      /\ \A i \in 1..Used : Unread[i] = tampon[Avancer(indiceLec, i - 1)]
  BY TextIs DEF Both
<1>5. Unread' = SubSeq(Unread, 1, Used - m)
  BY <1>1, <1>2, DropText DEF Both
<1>6. ASSUME NEW i \in (Used - m + 1)..Used PROVE Unread[i] # "cr"
  <2>1. /\ (Used - i) + 1 \in 1..m /\ (Used - i) + 1 \in 1..Used
        /\ Used - ((Used - i) + 1) = i - 1 /\ i \in 1..Used
    BY <1>4
  <2> QED BY <1>1, <1>4, <2>1, FromTheEnd DEF Both
<1>7. Used - m = 0 \/ Unread[Used - m] = "cr"
  <2>1. CASE m = Used
    BY <2>1, <1>4
  <2>2. CASE m # Used
    <3>1. m + 1 \in 1..Used /\ Used - (m + 1) = (Used - m) - 1 /\ Used - m \in 1..Used
      BY <2>2, <1>4
    <3> QED BY <2>2, <1>1, <1>4, <3>1, FromTheEnd DEF Both
  <2> QED BY <2>1, <2>2
<1> DEFINE k == Used - m
<1>8. /\ k \in 0..Len(Unread) /\ (k = 0 \/ Unread[k] = "cr")
      /\ \A i \in (k + 1)..Len(Unread) : Unread[i] # "cr"
      /\ Unread' = SubSeq(Unread, 1, k)
  BY <1>4, <1>5, <1>6, <1>7
<1> HIDE DEF k
<1> QED BY <1>3, <1>8, ClearStep DEF Promised

\* ecrire_clavier types characters.
LEMMA WritePromised ==
  ASSUME Both, IInv', NEW n \in Inserts, EcrireClavier(n)
  PROVE  CInv' /\ Promised
<1>1. UNCHANGED <<sched, headIo, call>>
  BY DEF EcrireClavier
<1>2. CInv' /\ Live' = Live /\ Waits' = Waits
  BY <1>1, OtherCInv DEF Both
<1>3. n \in Nat \ {0}
  BY ConsoleAssumption
<1>4. PICK m \in 0..n : /\ Len(Unread) + m <= TailleTamp
                        /\ m = n \/ Len(Unread) + m = TailleTamp
                        /\ Unread' = Unread \o [i \in 1..m |-> "c"]
  BY <1>3, WrittenText DEF Both
<1> QED BY <1>2, <1>4, WriteStep DEF Promised

\* The calls that leave the keyboard alone.
LEMMA OtherPromised ==
  ASSUME Both,
         \/ \E p \in Proc, n \in Prio : Chprio(p, n)
         \/ Tick \/ Ordonnance \/ GetInputGame \/ ClearLineStuck \/ UNCHANGED vars
  PROVE  CInv' /\ Promised
<1>1. CInv' /\ Live' = Live /\ Waits' = Waits
  BY OtherCInv DEF Both, GetInputGame, vars
<1>2. UNCHANGED <<tampon, casesDispos, indiceLec>>
  BY DEF Chprio, Tick, Ordonnance, GetInputGame, ClearLineStuck, vars, input
<1>3. Unread' = Unread
  BY <1>2 DEF Unread
<1> QED BY <1>1, <1>3, StutterStep DEF Promised

\* Every step, then, is a step of the contract or none that it knows.
LEMMA NextPromised ==
  ASSUME Both, CarefulTypist, ~ KillsWaiters, [Next]_vars
  PROVE  Both' /\ Promised
<1>1. IInv'
  BY NextIInv DEF Both
<1> SUFFICES CInv' /\ Promised
  BY <1>1 DEF Both
<1>2. ASSUME NEW k \in Keys, TraitantClavier(k) PROVE CInv' /\ Promised
  BY <1>1, <1>2, KeyPromised
<1>3. ASSUME NEW n \in Lengths, ConsReadBlock(n) PROVE CInv' /\ Promised
  <2> DEFINE c == <<"line", n>>
  <2>1. \E m \in Lengths : c = <<"line", m>> /\ ConsReadBlock(m)
    BY <1>3
  <2> HIDE DEF c
  <2> QED BY <2>1, BlockPromised
<1>4. ASSUME NEW n \in Lengths, ConsLook(n) PROVE CInv' /\ Promised
  BY <1>1, <1>4, LookPromised
<1>5. ASSUME NEW n \in Lengths, ConsRead(n) PROVE CInv' /\ Promised
  BY <1>1, <1>5, ReadPromised
<1>6. CASE WaitKeyboardBlock
  <2> DEFINE c == <<"key">>
  <2>1. c = <<"key">>
    OBVIOUS
  <2> HIDE DEF c
  <2> QED BY <1>6, <2>1, BlockPromised
<1>7. CASE WaitKeyboard
  BY <1>7, KeyboardPromised
<1>8. CASE ClearLine
  BY <1>1, <1>8, ClearPromised
<1>9. ASSUME NEW n \in Inserts, EcrireClavier(n) PROVE CInv' /\ Promised
  BY <1>1, <1>9, WritePromised
<1>10. ASSUME NEW p \in Proc, Kill(p) PROVE CInv' /\ Promised
  <2>1. CInv' /\ Live' = Live \ {p} /\ Waits' = [Waits EXCEPT ![p] = "nothing"]
    BY <1>10, KillCInv DEF Both
  <2>2. Unread' = Unread
    BY <1>10 DEF Kill, input, Unread
  <2> QED BY <2>1, <2>2, EndStep DEF Promised
<1>11. ASSUME NEW p \in Proc, NEW n \in Prio, Start(p, n) PROVE CInv' /\ Promised
  <2>1. CInv' /\ p \notin Live /\ Live' = Live \cup {p} /\ Waits' = Waits
    BY <1>11, StartCInv DEF Both
  <2>2. Unread' = Unread
    BY <1>11 DEF Start, input, Unread
  <2> QED BY <2>1, <2>2, BeginStep DEF Promised
<1>12. CASE \/ \E p \in Proc, n \in Prio : Chprio(p, n)
            \/ Tick \/ Ordonnance \/ GetInputGame \/ ClearLineStuck \/ UNCHANGED vars
  BY <1>12, OtherPromised
<1> QED BY <1>2, <1>3, <1>4, <1>5, <1>6, <1>7, <1>8, <1>9, <1>10, <1>11, <1>12 DEF Next

\* Nobody waits at first, and nothing has been typed.
LEMMA InitPromised == Init => Both /\ Contract!CInit
<1> SUFFICES ASSUME Init PROVE Both /\ Contract!CInit
  OBVIOUS
<1>1. IInv
  BY InitIInv
<1>2. SchedInv
  BY InitSched DEF Init
<1>3. /\ headIo = <<>> /\ call = [p \in Proc |-> <<>>] /\ casesDispos = TailleTamp
      /\ stopped = {} /\ pc = "user" /\ cur = 1
      /\ state = [p \in Pid |-> IF p = 1 THEN "CHOSEN" ELSE "ACTIVABLE"]
  BY DEF Init, SchedInit
<1>4. \A p \in Proc : state[p] \in {"CHOSEN", "ACTIVABLE"}
  BY <1>3, PidFacts
<1>5. headIo \in Seq(Pid) /\ NoDup(headIo) /\ Elems(headIo) = {}
  <2>1. act \in Seq(Pid)
    BY <1>2 DEF SchedInv
  <2>2. NoDup(<<>>) /\ Elems(<<>>) = {} /\ <<>> \in Seq(Pid)
    BY <2>1, ElemsEmpty
  <2> QED BY <1>3, <2>2
<1>6. CInv
  BY <1>2, <1>3, <1>4, <1>5 DEF CInv
<1>7. Unread = <<>>
  <2>1. Unread \in Seq(Chars) /\ Len(Unread) = Used /\ Used = 0
    BY <1>1, <1>3, TextIs, ConsoleAssumption DEF Used
  <2> QED BY <2>1
<1>8. Waits = [p \in Proc |-> "nothing"] /\ Live = Proc
  BY <1>3, <1>4 DEF Waits, Live
<1> QED BY <1>1, <1>6, <1>7, <1>8 DEF Both, Contract!CInit, Waits, Live

\* For every buffer, every reader and every length: what is typed, and not
\* erased, is read once, in its order and only when a line is complete,
\* whoever is woken, overtaken and ends, if
\*   nobody erases a return (else nb_lig is wrong),
\*   nobody types behind a tab or an arrow, or has the line rewritten, until a
\*   read has noticed it (else cons_look erases what was typed there, as the c
\*   in tab, c, and leaves the tab for the next reader), and
\*   nobody is killed in head_io (else debloque_io wakes who does not exist).
THEOREM PromiseKept == CarefulTypist /\ ~ KillsWaiters /\ Spec => ConsolePromise
<1> SUFFICES ASSUME CarefulTypist, ~ KillsWaiters PROVE Spec => ConsolePromise
  OBVIOUS
<1>1. Init => Both /\ Contract!CInit
  BY InitPromised
<1>2. Both /\ [Next]_vars => Both' /\ [Contract!CNext]_(Contract!cvars)
  BY NextPromised DEF Promised
<1> QED BY <1>1, <1>2, PTL DEF Spec, ConsolePromise, Contract!CSpec
=============================================================================

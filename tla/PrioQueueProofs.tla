-------------------------- MODULE PrioQueueProofs --------------------------
(***************************************************************************)
(* What queue_add, queue_out and queue_del do to the set of the chained    *)
(* elements and to their order, for queues of any length.                  *)
(***************************************************************************)
EXTENDS PrioQueue, SequenceTheorems, WellFoundedInduction, TLAPS

\* A nonempty set of naturals has a least element: the form of induction the
\* proofs below use.
LEMMA LeastNat ==
  ASSUME NEW S, S \subseteq Nat, S # {}
  PROVE  \E m \in S : \A n \in S : m <= n
<1> DEFINE R == {ss \in Nat \X Nat : ss[1] < ss[2]}
<1>1. IsWellFoundedOn(R, Nat)
  BY NatLessThanWellFounded DEF OpToRel
<1>2. \E x \in S : \A y \in S : ~ (<<y, x>> \in R)
  <2> HIDE DEF R
  <2> QED BY <1>1, WFMin
<1>3. PICK m \in S : \A n \in S : ~ (<<n, m>> \in R)
  BY <1>2
<1>4. \A n \in S : <<n, m>> \in Nat \X Nat /\ <<n, m>>[1] = n /\ <<n, m>>[2] = m
  OBVIOUS
<1>5. \A n \in S : ~ (n < m)
  BY <1>3, <1>4
<1> QED BY <1>5

\* queue_add always finds a place.
LEMMA AddPlaceProp ==
  ASSUME NEW S, NEW q \in Seq(S), NEW key \in [S -> Int], NEW k \in Int
  PROVE  /\ AddPlace(q, k, key) \in 1..(Len(q) + 1)
         /\ \A j \in 1..(AddPlace(q, k, key) - 1) : key[q[j]] < k
         /\ AddPlace(q, k, key) <= Len(q) => key[q[AddPlace(q, k, key)]] >= k
<1> DEFINE T == {i \in 1..(Len(q) + 1) : i <= Len(q) => key[q[i]] >= k}
<1>1. Len(q) \in Nat /\ \A i \in 1..Len(q) : q[i] \in S /\ key[q[i]] \in Int
  BY LenProperties, ElementOfSeq
<1>2. T # {} /\ T \subseteq Nat
  <2>1. Len(q) + 1 \in T BY <1>1
  <2> QED BY <1>1, <2>1
<1>3. PICK m \in T : \A n \in T : m <= n
  <2> HIDE DEF T
  <2> QED BY <1>2, LeastNat
<1>4. \A j \in 1..(m - 1) : key[q[j]] < k
  <2> SUFFICES ASSUME NEW j \in 1..(m - 1), ~ (key[q[j]] < k) PROVE FALSE
    OBVIOUS
  <2>1. j \in 1..Len(q) /\ key[q[j]] >= k BY <1>1
  <2>2. j \in T BY <1>1, <2>1
  <2> QED BY <1>3, <2>2, <1>1
<1>5. \E i \in 1..(Len(q) + 1) :
        /\ \A j \in 1..(i - 1) : key[q[j]] < k
        /\ i <= Len(q) => key[q[i]] >= k
  BY <1>3, <1>4
<1> QED BY <1>5 DEF AddPlace

\* Concatenation, one half at a time.
LEMMA ConcatAt ==
  ASSUME NEW S, NEW a \in Seq(S), NEW b \in Seq(S)
  PROVE  /\ a \o b \in Seq(S)
         /\ Len(a \o b) = Len(a) + Len(b)
         /\ \A i \in 1..Len(a) : (a \o b)[i] = a[i]
         /\ \A i \in (Len(a) + 1)..(Len(a) + Len(b)) : (a \o b)[i] = b[i - Len(a)]
<1>1. \A i \in 1..(Len(a) + Len(b)) :
        (a \o b)[i] = IF i <= Len(a) THEN a[i] ELSE b[i - Len(a)]
  BY ConcatProperties
<1>2. a \o b \in Seq(S) /\ Len(a \o b) = Len(a) + Len(b)
  BY ConcatProperties
<1>3. Len(a) \in Nat /\ Len(b) \in Nat
  BY LenProperties
<1> DEFINE c == a \o b
           m == Len(a)
           n == Len(b)
<1> HIDE DEF c, m, n
<1>4. m \in Nat /\ n \in Nat /\ \A i \in 1..(m + n) : c[i] = IF i <= m THEN a[i] ELSE b[i - m]
  BY <1>1, <1>3 DEF c, m, n
<1>5. \A i \in 1..m : c[i] = a[i]
  BY <1>4
<1>6. \A i \in (m + 1)..(m + n) : c[i] = b[i - m]
  BY <1>4
<1> QED BY <1>2, <1>5, <1>6 DEF c, m, n

\* Inserting an element (the linking of queue_add) keeps all the others, in
\* order, and lengthens the queue by one.
LEMMA InsertAtProp ==
  ASSUME NEW S, NEW q \in Seq(S), NEW e \in S, NEW p \in 1..(Len(q) + 1)
  PROVE  /\ InsertAt(q, p, e) \in Seq(S)
         /\ Len(InsertAt(q, p, e)) = Len(q) + 1
         /\ \A i \in 1..(p - 1) : InsertAt(q, p, e)[i] = q[i]
         /\ InsertAt(q, p, e)[p] = e
         /\ \A i \in (p + 1)..(Len(q) + 1) : InsertAt(q, p, e)[i] = q[i - 1]
<1> DEFINE a == SubSeq(q, 1, p - 1)
           b == SubSeq(q, p, Len(q))
           c == a \o <<e>>
           d == c \o b
           n == Len(q)
<1>1. n \in Nat /\ \A i \in 1..n : q[i] \in S
  BY LenProperties, ElementOfSeq
<1>2. a \in Seq(S) /\ Len(a) = p - 1 /\ \A i \in 1..(p - 1) : a[i] = q[i]
  BY <1>1, SubSeqProperties
<1>3. b \in Seq(S) /\ Len(b) = n - p + 1
      /\ \A i \in 1..(n - p + 1) : b[i] = q[p + i - 1]
  BY <1>1, SubSeqProperties
<1>4. <<e>> \in Seq(S) /\ Len(<<e>>) = 1 /\ <<e>>[1] = e
  OBVIOUS
<1>5. InsertAt(q, p, e) = d
  BY DEF InsertAt
<1>6. p - 1 \in Nat /\ n - p + 1 \in Nat /\ p \in Nat
  BY <1>1
<1> HIDE DEF a, b, n
<1>7. /\ c \in Seq(S)
      /\ Len(c) = Len(a) + Len(<<e>>)
      /\ \A i \in 1..Len(a) : c[i] = a[i]
      /\ \A i \in (Len(a) + 1)..(Len(a) + Len(<<e>>)) : c[i] = <<e>>[i - Len(a)]
  BY <1>2, <1>4, ConcatAt
<1> HIDE DEF c
<1>8. c \in Seq(S) /\ Len(c) = p /\ c[p] = e /\ \A i \in 1..(p - 1) : c[i] = q[i]
  <2>1. p - (p - 1) = 1 /\ p \in ((p - 1) + 1)..((p - 1) + 1) BY <1>6
  <2>2. c[p] = e BY <1>2, <1>4, <1>6, <1>7, <2>1
  <2> QED BY <1>2, <1>6, <1>7, <2>2
<1>9. /\ d \in Seq(S)
      /\ Len(d) = p + (n - p + 1)
      /\ \A i \in 1..p : d[i] = c[i]
      /\ \A i \in (p + 1)..(p + (n - p + 1)) : d[i] = b[i - p]
  <2>1. /\ d \in Seq(S)
        /\ Len(d) = Len(c) + Len(b)
        /\ \A i \in 1..Len(c) : d[i] = c[i]
        /\ \A i \in (Len(c) + 1)..(Len(c) + Len(b)) : d[i] = b[i - Len(c)]
    BY <1>3, <1>8, ConcatAt
  <2> QED BY <2>1, <1>3, <1>8
<1> HIDE DEF d
<1>10. p + (n - p + 1) = n + 1
  BY <1>1
<1>11. \A i \in (p + 1)..(n + 1) : d[i] = q[i - 1]
  <2> TAKE i \in (p + 1)..(n + 1)
  <2>1. i - p \in 1..(n - p + 1) /\ p + (i - p) - 1 = i - 1 BY <1>1
  <2>2. b[i - p] = q[i - 1] BY <1>3, <2>1
  <2> QED BY <1>9, <1>10, <2>2
<1>12. d[p] = e /\ \A i \in 1..(p - 1) : d[i] = q[i]
  BY <1>8, <1>9, <1>6
<1> QED BY <1>5, <1>9, <1>10, <1>11, <1>12 DEF n

\* Removing an element (the unlinking of queue_del) keeps all the others, in
\* order, and shortens the queue by one.
LEMMA RemoveAtProp ==
  ASSUME NEW S, NEW q \in Seq(S), NEW p \in 1..Len(q)
  PROVE  /\ RemoveAt(q, p) \in Seq(S)
         /\ Len(RemoveAt(q, p)) = Len(q) - 1
         /\ \A i \in 1..(p - 1) : RemoveAt(q, p)[i] = q[i]
         /\ \A i \in p..(Len(q) - 1) : RemoveAt(q, p)[i] = q[i + 1]
<1> DEFINE a == SubSeq(q, 1, p - 1)
           b == SubSeq(q, p + 1, Len(q))
           d == a \o b
           n == Len(q)
<1>1. n \in Nat /\ \A i \in 1..n : q[i] \in S
  BY LenProperties, ElementOfSeq
<1>2. a \in Seq(S) /\ Len(a) = p - 1 /\ \A i \in 1..(p - 1) : a[i] = q[i]
  BY <1>1, SubSeqProperties
<1>3. b \in Seq(S) /\ Len(b) = n - p
      /\ \A i \in 1..(n - p) : b[i] = q[p + i]
  <2>1. \A i \in (p + 1)..n : q[i] \in S BY <1>1
  <2>2. /\ b \in Seq(S)
        /\ Len(b) = IF p + 1 <= n THEN n - (p + 1) + 1 ELSE 0
        /\ \A i \in 1..(n - (p + 1) + 1) : b[i] = q[(p + 1) + i - 1]
    BY <1>1, <2>1, SubSeqProperties
  <2> QED BY <1>1, <2>2
<1>4. RemoveAt(q, p) = d
  BY DEF RemoveAt
<1>5. p - 1 \in Nat /\ n - p \in Nat
  BY <1>1
<1> HIDE DEF a, b, n
<1>6. /\ d \in Seq(S)
      /\ Len(d) = (p - 1) + (n - p)
      /\ \A i \in 1..(p - 1) : d[i] = a[i]
      /\ \A i \in ((p - 1) + 1)..((p - 1) + (n - p)) : d[i] = b[i - (p - 1)]
  <2>1. /\ d \in Seq(S)
        /\ Len(d) = Len(a) + Len(b)
        /\ \A i \in 1..Len(a) : d[i] = a[i]
        /\ \A i \in (Len(a) + 1)..(Len(a) + Len(b)) : d[i] = b[i - Len(a)]
    BY <1>2, <1>3, ConcatAt
  <2> QED BY <2>1, <1>2, <1>3
<1> HIDE DEF d
<1>7. (p - 1) + (n - p) = n - 1 /\ (p - 1) + 1 = p
  BY <1>1
<1>8. \A i \in p..(n - 1) : d[i] = q[i + 1]
  <2> TAKE i \in p..(n - 1)
  <2>1. i - (p - 1) \in 1..(n - p) /\ p + (i - (p - 1)) = i + 1 BY <1>1
  <2>2. b[i - (p - 1)] = q[i + 1] BY <1>3, <2>1
  <2> QED BY <1>6, <1>7, <2>2
<1> QED BY <1>2, <1>4, <1>6, <1>7, <1>8 DEF n

\* queue_add chains exactly one more element, whatever the keys are.
LEMMA QueueAddElems ==
  ASSUME NEW S, NEW q \in Seq(S), NEW key \in [S -> Int],
         NEW e \in S, NoDup(q), e \notin Elems(q)
  PROVE  /\ QueueAdd(q, e, key) \in Seq(S)
         /\ Elems(QueueAdd(q, e, key)) = Elems(q) \cup {e}
         /\ NoDup(QueueAdd(q, e, key))
         /\ QueueAdd(q, e, key) # <<>>
<1> DEFINE p == AddPlace(q, key[e], key)
           r == QueueAdd(q, e, key)
           n == Len(q)
<1>1. n \in Nat /\ \A i \in 1..n : q[i] \in S
  BY LenProperties, ElementOfSeq
<1>2. p \in 1..(n + 1)
  BY AddPlaceProp
<1>3. r = InsertAt(q, p, e)
  BY DEF QueueAdd
<1> HIDE DEF p, r
<1>4. /\ r \in Seq(S)
      /\ Len(r) = n + 1
      /\ \A i \in 1..(p - 1) : r[i] = q[i]
      /\ r[p] = e
      /\ \A i \in (p + 1)..(n + 1) : r[i] = q[i - 1]
  <2>1. /\ InsertAt(q, p, e) \in Seq(S)
        /\ Len(InsertAt(q, p, e)) = Len(q) + 1
        /\ \A i \in 1..(p - 1) : InsertAt(q, p, e)[i] = q[i]
        /\ InsertAt(q, p, e)[p] = e
        /\ \A i \in (p + 1)..(Len(q) + 1) : InsertAt(q, p, e)[i] = q[i - 1]
    BY <1>2, InsertAtProp
  <2> QED BY <2>1, <1>3
<1>5. \A i \in 1..n : q[i] \in Elems(q) /\ q[i] # e
  BY DEF Elems
<1>6. \A i, j \in 1..n : q[i] = q[j] => i = j
  BY DEF NoDup
<1> HIDE DEF n
<1>7. Elems(r) = Elems(q) \cup {e}
  <2>1. ASSUME NEW i \in 1..(n + 1) PROVE r[i] \in Elems(q) \cup {e}
    <3>1. CASE i < p
      <4>1. i \in 1..(p - 1) /\ i \in 1..n BY <3>1, <1>1, <1>2
      <4> QED BY <4>1, <1>4, <1>5
    <3>2. CASE i = p BY <3>2, <1>4
    <3>3. CASE i > p
      <4>1. i \in (p + 1)..(n + 1) /\ i - 1 \in 1..n BY <3>3, <1>1, <1>2
      <4> QED BY <4>1, <1>4, <1>5
    <3> QED BY <3>1, <3>2, <3>3, <1>1, <1>2
  <2>2. e \in Elems(r) BY <1>1, <1>2, <1>4 DEF Elems
  <2>3. ASSUME NEW i \in 1..n PROVE q[i] \in Elems(r)
    <3>1. CASE i < p
      <4>1. i \in 1..(p - 1) /\ i \in 1..(n + 1) BY <3>1, <1>1, <1>2
      <4> QED BY <4>1, <1>4 DEF Elems
    <3>2. CASE i >= p
      <4>1. i + 1 \in (p + 1)..(n + 1) /\ i + 1 \in 1..(n + 1) /\ (i + 1) - 1 = i
        BY <3>2, <1>1, <1>2
      <4>2. r[i + 1] = q[i] BY <4>1, <1>4
      <4> QED BY <4>1, <4>2, <1>4 DEF Elems
    <3> QED BY <3>1, <3>2, <1>1, <1>2
  <2>4. /\ Elems(r) = {r[i] : i \in 1..(n + 1)}
        /\ Elems(q) = {q[i] : i \in 1..n}
    BY <1>4 DEF Elems, n
  <2>5. Elems(q) \subseteq Elems(r) BY <2>3, <2>4
  <2>6. Elems(r) \subseteq Elems(q) \cup {e} BY <2>1, <2>4
  <2> QED BY <2>2, <2>5, <2>6
<1>8. NoDup(r)
  <2> SUFFICES ASSUME NEW i \in 1..(n + 1), NEW j \in 1..(n + 1), r[i] = r[j], i < j
               PROVE  FALSE
    BY <1>1, <1>4 DEF NoDup
  <2>1. CASE j < p
    <3>1. i \in 1..(p - 1) /\ j \in 1..(p - 1) /\ i \in 1..n /\ j \in 1..n
      BY <2>1, <1>1, <1>2
    <3> QED BY <3>1, <1>1, <1>4, <1>6
  <2>2. CASE j = p
    <3>1. i \in 1..(p - 1) /\ i \in 1..n BY <2>2, <1>1, <1>2
    <3> QED BY <2>2, <3>1, <1>4, <1>5
  <2>3. CASE j > p
    <3>1. j \in (p + 1)..(n + 1) /\ j - 1 \in 1..n BY <2>3, <1>1, <1>2
    <3>2. r[j] = q[j - 1] BY <3>1, <1>4
    <3>3. CASE i < p
      <4>1. i \in 1..(p - 1) /\ i \in 1..n BY <3>3, <1>1, <1>2
      <4>2. r[i] = q[i] BY <4>1, <1>4
      <4>3. i = j - 1 BY <3>1, <3>2, <4>1, <4>2, <1>6
      <4> QED BY <4>3, <3>3, <2>3, <1>1, <1>2
    <3>4. CASE i = p BY <3>1, <3>2, <3>4, <1>4, <1>5
    <3>5. CASE i > p
      <4>1. i \in (p + 1)..(n + 1) /\ i - 1 \in 1..n BY <3>5, <1>1, <1>2
      <4>2. r[i] = q[i - 1] BY <4>1, <1>4
      <4>3. i - 1 = j - 1 BY <3>1, <3>2, <4>1, <4>2, <1>6
      <4> QED BY <4>3, <1>1
    <3> QED BY <3>3, <3>4, <3>5, <1>1, <1>2
  <2> QED BY <2>1, <2>2, <2>3, <1>1, <1>2
<1>9. r # <<>>
  BY <1>1, <1>4, EmptySeq
<1> QED BY <1>4, <1>7, <1>8, <1>9 DEF r

\* Removing the element at place p unchains it and no other.
LEMMA RemoveAtElems ==
  ASSUME NEW S, NEW q \in Seq(S), NEW p \in 1..Len(q), NoDup(q)
  PROVE  /\ RemoveAt(q, p) \in Seq(S)
         /\ Elems(RemoveAt(q, p)) = Elems(q) \ {q[p]}
         /\ NoDup(RemoveAt(q, p))
<1> DEFINE r == RemoveAt(q, p)
           n == Len(q)
<1>1. n \in Nat /\ \A i \in 1..n : q[i] \in S
  BY LenProperties, ElementOfSeq
<1> HIDE DEF r
<1>2. /\ r \in Seq(S)
      /\ Len(r) = n - 1
      /\ \A i \in 1..(p - 1) : r[i] = q[i]
      /\ \A i \in p..(n - 1) : r[i] = q[i + 1]
  BY RemoveAtProp DEF r
<1>3. \A i, j \in 1..n : q[i] = q[j] => i = j
  BY DEF NoDup
<1>4. p \in 1..n
  OBVIOUS
<1>5. \A i \in 1..n : q[i] \in Elems(q)
  BY DEF Elems
<1> HIDE DEF n
<1>6. ASSUME NEW i \in 1..(n - 1)
      PROVE  \E k \in 1..n : /\ r[i] = q[k]
                             /\ k = IF i < p THEN i ELSE i + 1
  <2>1. CASE i < p
    <3>1. i \in 1..(p - 1) /\ i \in 1..n BY <2>1, <1>1, <1>4
    <3> QED BY <2>1, <3>1, <1>2
  <2>2. CASE i >= p
    <3>1. i \in p..(n - 1) /\ i + 1 \in 1..n BY <2>2, <1>1, <1>4
    <3>2. r[i] = q[i + 1] BY <3>1, <1>2
    <3>3. ~ (i < p) BY <2>2, <1>4
    <3> QED BY <3>1, <3>2, <3>3
  <2> QED BY <2>1, <2>2, <1>1, <1>4
<1>7. Elems(r) = Elems(q) \ {q[p]}
  <2>1. ASSUME NEW i \in 1..(n - 1) PROVE r[i] \in Elems(q) \ {q[p]}
    <3>1. PICK k \in 1..n : r[i] = q[k] /\ k = IF i < p THEN i ELSE i + 1
      BY <1>6
    <3>2. k # p BY <3>1, <1>1, <1>4
    <3> QED BY <3>1, <3>2, <1>3, <1>4, <1>5
  <2>2. ASSUME NEW i \in 1..n, q[i] # q[p] PROVE q[i] \in Elems(r)
    <3>1. CASE i < p
      <4>1. i \in 1..(p - 1) /\ i \in 1..(n - 1) BY <3>1, <1>1, <1>4
      <4>2. r[i] = q[i] BY <4>1, <1>2
      <4> QED BY <4>1, <4>2, <1>2 DEF Elems
    <3>2. CASE i > p
      <4>1. i - 1 \in p..(n - 1) /\ i - 1 \in 1..(n - 1) /\ (i - 1) + 1 = i
        BY <3>2, <1>1, <1>4
      <4>2. r[i - 1] = q[i] BY <4>1, <1>2
      <4> QED BY <4>1, <4>2, <1>2 DEF Elems
    <3>3. i # p BY <2>2
    <3> QED BY <3>1, <3>2, <3>3, <1>1, <1>4
  <2> QED BY <2>1, <2>2, <1>2 DEF Elems, n
<1>8. NoDup(r)
  <2> SUFFICES ASSUME NEW i \in 1..(n - 1), NEW j \in 1..(n - 1), r[i] = r[j]
               PROVE  i = j
    BY <1>2 DEF NoDup
  <2>1. PICK k \in 1..n : r[i] = q[k] /\ k = IF i < p THEN i ELSE i + 1
    BY <1>6
  <2>2. PICK l \in 1..n : r[j] = q[l] /\ l = IF j < p THEN j ELSE j + 1
    BY <1>6
  <2>3. k = l BY <2>1, <2>2, <1>3
  <2> QED BY <2>1, <2>2, <2>3, <1>1, <1>4
<1> QED BY <1>2, <1>7, <1>8 DEF r

\* queue_del unchains the element it is given and no other.
LEMMA QueueDelElems ==
  ASSUME NEW S, NEW q \in Seq(S), NoDup(q), NEW e \in Elems(q)
  PROVE  /\ QueueDel(q, e) \in Seq(S)
         /\ Elems(QueueDel(q, e)) = Elems(q) \ {e}
         /\ NoDup(QueueDel(q, e))
<1>1. \E i \in 1..Len(q) : q[i] = e
  BY DEF Elems
<1>2. Place(q, e) \in 1..Len(q) /\ q[Place(q, e)] = e
  BY <1>1 DEF Place
<1> QED BY <1>2, RemoveAtElems DEF QueueDel

\* queue_out unchains the element it returns, which was chained.
LEMMA QueueOutElems ==
  ASSUME NEW S, NEW q \in Seq(S), NoDup(q), q # <<>>
  PROVE  /\ QueueTop(q) \in Elems(q)
         /\ QueueTop(q) \in S
         /\ QueueOut(q) \in Seq(S)
         /\ Elems(QueueOut(q)) = Elems(q) \ {QueueTop(q)}
         /\ NoDup(QueueOut(q))
<1>1. Len(q) \in 1..Len(q)
  BY EmptySeq, LenProperties
<1>2. q[Len(q)] \in S
  BY <1>1, ElementOfSeq
<1> QED BY <1>1, <1>2, RemoveAtElems DEF QueueOut, QueueTop, Elems

\* The first element of a nonempty queue is chained in it.
LEMMA QueueBottomElems ==
  ASSUME NEW S, NEW q \in Seq(S), q # <<>>
  PROVE  QueueBottom(q) \in Elems(q) /\ QueueBottom(q) \in S
<1>1. 1 \in 1..Len(q)
  BY EmptySeq, LenProperties
<1> QED BY <1>1, ElementOfSeq DEF QueueBottom, Elems

\* A queue is empty when nothing is chained in it.
LEMMA ElemsEmpty ==
  ASSUME NEW S, NEW q \in Seq(S)
  PROVE  /\ Elems(q) = {} <=> q = <<>>
         /\ Elems(q) \subseteq S
         /\ NoDup(<<>>) /\ Elems(<<>>) = {} /\ <<>> \in Seq(S)
<1>1. Elems(q) \subseteq S
  BY ElementOfSeq DEF Elems
<1>2. NoDup(<<>>) /\ Elems(<<>>) = {} /\ <<>> \in Seq(S)
  BY EmptySeq DEF NoDup, Elems
<1>3. q # <<>> => 1 \in 1..Len(q)
  BY EmptySeq, LenProperties
<1>4. q # <<>> => Elems(q) # {}
  BY <1>3 DEF Elems
<1> QED BY <1>1, <1>2, <1>4

-----------------------------------------------------------------------------
(* Order. *)

\* A queue stays sorted when the keys of its own elements do not change.
LEMMA SortedByKeys ==
  ASSUME NEW q, NEW key, NEW new, Sorted(q, key), \A e \in Elems(q) : new[e] = key[e]
  PROVE  Sorted(q, new)
BY DEF Sorted, Elems

\* Removing an element leaves a sorted queue sorted.
LEMMA RemoveAtSorted ==
  ASSUME NEW S, NEW q \in Seq(S), NEW key, NEW p \in 1..Len(q), Sorted(q, key)
  PROVE  Sorted(RemoveAt(q, p), key)
<1> DEFINE r == RemoveAt(q, p)
           n == Len(q)
<1>1. n \in Nat
  BY LenProperties
<1> HIDE DEF r
<1>2. /\ Len(r) = n - 1
      /\ \A i \in 1..(p - 1) : r[i] = q[i]
      /\ \A i \in p..(n - 1) : r[i] = q[i + 1]
  BY RemoveAtProp DEF r
<1>3. p \in 1..n /\ \A i, j \in 1..n : i <= j => key[q[i]] <= key[q[j]]
  BY DEF Sorted
<1> HIDE DEF n
<1>4. ASSUME NEW i \in 1..(n - 1)
      PROVE  \E k \in 1..n : r[i] = q[k] /\ k = IF i < p THEN i ELSE i + 1
  <2>1. CASE i < p
    <3>1. i \in 1..(p - 1) /\ i \in 1..n BY <2>1, <1>1, <1>3
    <3> QED BY <2>1, <3>1, <1>2
  <2>2. CASE ~ (i < p)
    <3>1. i \in p..(n - 1) /\ i + 1 \in 1..n BY <2>2, <1>1, <1>3
    <3> QED BY <2>2, <3>1, <1>2
  <2> QED BY <2>1, <2>2
<1> SUFFICES ASSUME NEW i \in 1..(n - 1), NEW j \in 1..(n - 1), i <= j
             PROVE  key[r[i]] <= key[r[j]]
  BY <1>2 DEF Sorted, r
<1>5. PICK k \in 1..n : r[i] = q[k] /\ k = IF i < p THEN i ELSE i + 1
  BY <1>4
<1>6. PICK l \in 1..n : r[j] = q[l] /\ l = IF j < p THEN j ELSE j + 1
  BY <1>4
<1>7. k <= l BY <1>1, <1>3, <1>5, <1>6
<1> QED BY <1>3, <1>5, <1>6, <1>7

\* queue_add in a sorted queue keeps it sorted.
LEMMA QueueAddSorted ==
  ASSUME NEW S, NEW q \in Seq(S), NEW key \in [S -> Int], NEW e \in S, Sorted(q, key)
  PROVE  Sorted(QueueAdd(q, e, key), key)
<1> DEFINE p == AddPlace(q, key[e], key)
           r == QueueAdd(q, e, key)
           n == Len(q)
           k == key[e]
<1>1. n \in Nat /\ k \in Int /\ \A i \in 1..n : q[i] \in S /\ key[q[i]] \in Int
  BY LenProperties, ElementOfSeq
<1>2. /\ p \in 1..(n + 1)
      /\ \A j \in 1..(p - 1) : key[q[j]] < k
      /\ p <= n => key[q[p]] >= k
  BY <1>1, AddPlaceProp
<1>3. r = InsertAt(q, p, e)
  BY DEF QueueAdd
<1> HIDE DEF p, r
<1>4. /\ Len(r) = n + 1
      /\ \A i \in 1..(p - 1) : r[i] = q[i]
      /\ r[p] = e
      /\ \A i \in (p + 1)..(n + 1) : r[i] = q[i - 1]
  <2>1. /\ Len(InsertAt(q, p, e)) = Len(q) + 1
        /\ \A i \in 1..(p - 1) : InsertAt(q, p, e)[i] = q[i]
        /\ InsertAt(q, p, e)[p] = e
        /\ \A i \in (p + 1)..(Len(q) + 1) : InsertAt(q, p, e)[i] = q[i - 1]
    BY <1>2, InsertAtProp
  <2> QED BY <2>1, <1>3
<1>5. \A i, j \in 1..n : i <= j => key[q[i]] <= key[q[j]]
  BY DEF Sorted
<1> HIDE DEF n, k
<1>6. \A i \in p..n : k <= key[q[i]]
  <2> TAKE i \in p..n
  <2>1. p \in 1..n /\ i \in 1..n /\ p <= i BY <1>1, <1>2
  <2>2. key[q[p]] >= k /\ key[q[p]] <= key[q[i]] BY <2>1, <1>2, <1>5
  <2> QED BY <2>1, <2>2, <1>1
<1> SUFFICES ASSUME NEW i \in 1..(n + 1), NEW j \in 1..(n + 1), i <= j
             PROVE  key[r[i]] <= key[r[j]]
  BY <1>4 DEF Sorted, r
<1>7. CASE j < p
  <2>1. i \in 1..(p - 1) /\ j \in 1..(p - 1) /\ i \in 1..n /\ j \in 1..n
    BY <1>7, <1>1, <1>2
  <2> QED BY <2>1, <1>4, <1>5
<1>8. CASE j = p
  <2>1. CASE i < p
    <3>1. i \in 1..(p - 1) /\ i \in 1..n BY <2>1, <1>1, <1>2
    <3>2. key[q[i]] < k /\ r[i] = q[i] /\ key[q[i]] \in Int BY <3>1, <1>1, <1>2, <1>4
    <3> QED BY <3>2, <1>8, <1>4, <1>1 DEF k
  <2>2. CASE i = p
    BY <2>2, <1>8, <1>4, <1>1 DEF k
  <2> QED BY <2>1, <2>2, <1>8, <1>1, <1>2
<1>9. CASE j > p
  <2>1. j \in (p + 1)..(n + 1) /\ j - 1 \in 1..n /\ j - 1 \in p..n
    BY <1>9, <1>1, <1>2
  <2>2. r[j] = q[j - 1]
    BY <2>1, <1>4
  <2>3. CASE i < p
    <3>1. i \in 1..(p - 1) /\ i \in 1..n /\ i <= j - 1 BY <2>3, <1>9, <1>1, <1>2
    <3> QED BY <2>1, <2>2, <3>1, <1>4, <1>5
  <2>4. CASE i = p
    BY <2>1, <2>2, <2>4, <1>4, <1>6 DEF k
  <2>5. CASE i > p
    <3>1. i \in (p + 1)..(n + 1) /\ i - 1 \in 1..n /\ i - 1 <= j - 1 BY <2>5, <1>1, <1>2
    <3>2. r[i] = q[i - 1] BY <3>1, <1>4
    <3> QED BY <2>1, <2>2, <3>1, <3>2, <1>5
  <2> QED BY <2>3, <2>4, <2>5, <1>1, <1>2
<1> QED BY <1>7, <1>8, <1>9, <1>1, <1>2

\* So does queue_del.
LEMMA QueueDelSorted ==
  ASSUME NEW S, NEW q \in Seq(S), NEW key, NEW e \in Elems(q), Sorted(q, key)
  PROVE  Sorted(QueueDel(q, e), key)
<1>1. \E i \in 1..Len(q) : q[i] = e
  BY DEF Elems
<1>2. Place(q, e) \in 1..Len(q)
  BY <1>1 DEF Place
<1> QED BY <1>2, RemoveAtSorted DEF QueueDel

\* queue_out, and which of the keys its tail and its first element have.
LEMMA QueueOutSorted ==
  ASSUME NEW S, NEW q \in Seq(S), NEW key, q # <<>>, Sorted(q, key)
  PROVE  /\ Sorted(QueueOut(q), key)
         /\ \A e \in Elems(q) : key[e] <= key[QueueTop(q)]
         /\ \A e \in Elems(q) : key[QueueBottom(q)] <= key[e]
<1>1. Len(q) \in 1..Len(q) /\ 1 \in 1..Len(q)
  BY EmptySeq, LenProperties
<1>2. \A i \in 1..Len(q) : 1 <= i /\ i <= Len(q)
  BY <1>1
<1> QED BY <1>1, <1>2, RemoveAtSorted DEF QueueOut, QueueTop, QueueBottom, Sorted, Elems

\* A list without its first element, and with one more.
LEMMA HeadTail ==
  ASSUME NEW S, NEW s \in Seq(S), NoDup(s)
  PROVE  /\ s # <<>> => /\ Head(s) \in Elems(s) /\ Head(s) \in S
                        /\ Tail(s) \in Seq(S) /\ NoDup(Tail(s))
                        /\ Elems(Tail(s)) = Elems(s) \ {Head(s)}
         /\ \A e \in S : e \notin Elems(s) => /\ Append(s, e) \in Seq(S)
                                              /\ NoDup(Append(s, e))
                                              /\ Elems(Append(s, e)) = Elems(s) \cup {e}
<1> DEFINE n == Len(s)
<1>1. n \in Nat /\ \A i \in 1..n : s[i] \in S
  BY LenProperties, ElementOfSeq
<1>2. ASSUME s # <<>>
      PROVE  /\ Head(s) \in Elems(s) /\ Head(s) \in S
             /\ Tail(s) \in Seq(S) /\ NoDup(Tail(s))
             /\ Elems(Tail(s)) = Elems(s) \ {Head(s)}
  <2> DEFINE t == Tail(s)
  <2>1. 1 \in 1..n /\ Head(s) = s[1]
    BY <1>1, <1>2, EmptySeq, HeadTailProperties
  <2>2. t \in Seq(S) /\ Len(t) = n - 1 /\ \A i \in 1..(n - 1) : t[i] = s[i + 1]
    BY <1>1, <1>2, HeadTailProperties
  <2> HIDE DEF t, n
  <2>3. \A i \in 1..(n - 1) : i + 1 \in 1..n /\ i + 1 # 1 /\ (i + 1) - 1 = i
    BY <1>1
  <2>4. \A i \in 1..n : i # 1 => i - 1 \in 1..(n - 1) /\ (i - 1) + 1 = i
    BY <1>1
  <2>5. \A i, j \in 1..n : s[i] = s[j] => i = j
    BY DEF NoDup, n
  <2>6. \A i, j \in 1..(n - 1) : t[i] = t[j] => i = j
    <3> SUFFICES ASSUME NEW i \in 1..(n - 1), NEW j \in 1..(n - 1), t[i] = t[j] PROVE i = j
      OBVIOUS
    <3>1. i + 1 = j + 1
      BY <2>2, <2>3, <2>5
    <3> QED BY <2>3, <3>1
  <2>7. Elems(t) = Elems(s) \ {s[1]}
    <3>1. ASSUME NEW i \in 1..(n - 1) PROVE t[i] \in Elems(s) \ {s[1]}
      BY <2>1, <2>2, <2>3, <2>5 DEF Elems, n
    <3>2. Elems(t) = {t[i] : i \in 1..(n - 1)} /\ Elems(s) = {s[i] : i \in 1..n}
      BY <2>2 DEF Elems, n
    <3>3. ASSUME NEW i \in 1..n, s[i] # s[1] PROVE s[i] \in {t[j] : j \in 1..(n - 1)}
      BY <2>2, <2>4, <3>3
    <3> QED BY <3>1, <3>2, <3>3
  <2> QED BY <1>1, <2>1, <2>2, <2>6, <2>7 DEF NoDup, Elems, t, n
<1>3. ASSUME NEW e \in S, e \notin Elems(s)
      PROVE  /\ Append(s, e) \in Seq(S) /\ NoDup(Append(s, e))
             /\ Elems(Append(s, e)) = Elems(s) \cup {e}
  <2> DEFINE a == Append(s, e)
  <2>1. /\ a \in Seq(S) /\ Len(a) = n + 1 /\ a[n + 1] = e
        /\ \A i \in 1..n : a[i] = s[i]
    BY <1>1, AppendProperties
  <2> HIDE DEF a
  <2>2. \A i \in 1..(n + 1) : i \in 1..n \/ i = n + 1
    BY <1>1
  <2>3. NoDup(a)
    BY <1>1, <1>3, <2>1, <2>2 DEF NoDup, Elems
  <2>4. Elems(a) = Elems(s) \cup {e}
    <3>1. n + 1 \in 1..(n + 1) /\ \A i \in 1..n : i \in 1..(n + 1)
      BY <1>1
    <3> QED BY <2>1, <2>2, <3>1 DEF Elems
  <2> QED BY <2>1, <2>3, <2>4 DEF a
<1> QED BY <1>2, <1>3

\* queue_add and queue_del change the length by one.
LEMMA QueueLengths ==
  ASSUME NEW S, NEW q \in Seq(S), NEW key \in [S -> Int], NEW e \in S
  PROVE  /\ Len(QueueAdd(q, e, key)) = Len(q) + 1
         /\ e \in Elems(q) => Len(QueueDel(q, e)) = Len(q) - 1
<1>1. AddPlace(q, key[e], key) \in 1..(Len(q) + 1)
  BY AddPlaceProp
<1>2. e \in Elems(q) => Place(q, e) \in 1..Len(q)
  BY DEF Place, Elems
<1> QED BY <1>1, <1>2, InsertAtProp, RemoveAtProp DEF QueueAdd, QueueDel

\* A queue cut in two: both parts are sorted, and the tail has the highest
\* keys.
LEMMA CutSorted ==
  ASSUME NEW S, NEW q \in Seq(S), NEW key, NEW m \in 0..Len(q), Sorted(q, key)
  PROVE  LET kept  == SubSeq(q, 1, m)
             taken == SubSeq(q, m + 1, Len(q))
         IN /\ Sorted(kept, key)
            /\ \A a \in Elems(kept), b \in Elems(taken) : key[a] <= key[b]
<1> DEFINE n == Len(q)
           kept == SubSeq(q, 1, m)
           taken == SubSeq(q, m + 1, n)
<1>1. n \in Nat /\ m \in Nat /\ m <= n
  BY LenProperties
<1>2. \A i \in 1..n : q[i] \in S
  BY ElementOfSeq
<1>3. Len(kept) = m /\ \A i \in 1..m : kept[i] = q[i]
  BY <1>1, <1>2
<1>4. Len(taken) = n - m /\ \A i \in 1..(n - m) : taken[i] = q[i + m]
  BY <1>1, <1>2
<1>5. \A i, j \in 1..n : i <= j => key[q[i]] <= key[q[j]]
  BY DEF Sorted
<1> HIDE DEF kept, taken, n
<1>6. Sorted(kept, key)
  <2>1. ASSUME NEW i \in 1..m, NEW j \in 1..m, i <= j
        PROVE  key[kept[i]] <= key[kept[j]]
    BY <1>1, <1>3, <1>5, <2>1
  <2> QED BY <1>3, <2>1 DEF Sorted
<1>7. ASSUME NEW i \in 1..m, NEW j \in 1..(n - m)
      PROVE  key[kept[i]] <= key[taken[j]]
  <2>1. i \in 1..n /\ j + m \in 1..n /\ i <= j + m
    BY <1>1
  <2>2. key[q[i]] <= key[q[j + m]]
    BY <1>5, <2>1
  <2> QED BY <1>3, <1>4, <2>2
<1>8. \A a \in Elems(kept), b \in Elems(taken) : key[a] <= key[b]
  BY <1>3, <1>4, <1>7 DEF Elems
<1> QED BY <1>6, <1>8 DEF kept, taken, n

\* chprio of a chained element: it is taken out and added under its new key.
LEMMA RequeueSorted ==
  ASSUME NEW S, NEW q \in Seq(S), NoDup(q), NEW old, Sorted(q, old), NEW e \in S, e \in Elems(q),
         NEW new \in [S -> Int], \A x \in Elems(q) \ {e} : new[x] = old[x]
  PROVE  Sorted(QueueAdd(QueueDel(q, e), e, new), new)
<1> DEFINE d == QueueDel(q, e)
<1>1. d \in Seq(S) /\ Elems(d) = Elems(q) \ {e} /\ Sorted(d, old)
  BY QueueDelElems, QueueDelSorted
<1> HIDE DEF d
<1>2. Sorted(d, new)
  BY <1>1, SortedByKeys
<1>3. Sorted(QueueAdd(d, e, new), new)
  BY <1>1, <1>2, QueueAddSorted
<1> QED BY <1>3 DEF d

-----------------------------------------------------------------------------
(* The order of the elements of a queue. *)

\* Where an element is chained.
LEMMA PlaceProp ==
  ASSUME NEW S, NEW q \in Seq(S), NoDup(q), NEW e \in Elems(q)
  PROVE  /\ Place(q, e) \in 1..Len(q) /\ Place(q, e) \in Nat /\ q[Place(q, e)] = e
         /\ \A i \in 1..Len(q) : q[i] = e => Place(q, e) = i
<1>1. \E i \in 1..Len(q) : q[i] = e
  BY DEF Elems
<1>2. Place(q, e) \in 1..Len(q) /\ q[Place(q, e)] = e
  BY <1>1 DEF Place
<1>3. Len(q) \in Nat
  BY LenProperties
<1> QED BY <1>2, <1>3 DEF NoDup

\* All of d's elements are in q, and in the same order.
SubOrder(q, d) ==
  /\ Elems(d) \subseteq Elems(q)
  /\ \A x, y \in Elems(d) : Place(q, y) < Place(q, x) => Place(d, y) < Place(d, x)

\* Removing an element does not disturb the order.
LEMMA RemoveAtOrder ==
  ASSUME NEW S, NEW q \in Seq(S), NoDup(q), NEW p \in 1..Len(q)
  PROVE  SubOrder(q, RemoveAt(q, p))
<1> DEFINE d == RemoveAt(q, p)
           n == Len(q)
<1>1. n \in Nat /\ p \in 1..n
  BY LenProperties
<1>2. /\ d \in Seq(S) /\ Len(d) = n - 1
      /\ \A i \in 1..(p - 1) : d[i] = q[i]
      /\ \A i \in p..(n - 1) : d[i] = q[i + 1]
  BY RemoveAtProp
<1>3. NoDup(d) /\ Elems(d) = Elems(q) \ {q[p]}
  BY RemoveAtElems
<1> HIDE DEF d
<1>4. ASSUME NEW x \in Elems(d)
      PROVE  /\ Place(q, x) \in Nat
             /\ Place(q, x) # p
             /\ Place(d, x) = IF Place(q, x) < p THEN Place(q, x) ELSE Place(q, x) - 1
  <2> DEFINE k == Place(q, x)
  <2>1. x \in Elems(q) /\ x # q[p]
    BY <1>3
  <2>2. k \in 1..n /\ q[k] = x
    BY <2>1, PlaceProp
  <2>3. k # p
    BY <2>1, <2>2
  <2> HIDE DEF n, k
  <2>4. CASE k < p
    <3>1. k \in 1..(p - 1) /\ k \in 1..(n - 1)
      BY <1>1, <2>2, <2>4
    <3>2. d[k] = x
      BY <1>2, <2>2, <3>1
    <3>3. Place(d, x) = k
      BY <1>2, <1>3, <3>1, <3>2, PlaceProp
    <3> QED BY <2>2, <2>3, <2>4, <3>3 DEF k
  <2>5. CASE ~ (k < p)
    <3>1. k - 1 \in p..(n - 1) /\ k - 1 \in 1..(n - 1) /\ (k - 1) + 1 = k
      BY <1>1, <2>2, <2>3, <2>5
    <3>2. d[k - 1] = x
      BY <1>2, <2>2, <3>1
    <3>3. Place(d, x) = k - 1
      BY <1>2, <1>3, <3>1, <3>2, PlaceProp
    <3> QED BY <2>2, <2>3, <2>5, <3>3 DEF k
  <2> QED BY <2>4, <2>5
<1>5. ASSUME NEW x \in Elems(d), NEW y \in Elems(d), Place(q, y) < Place(q, x)
      PROVE  Place(d, y) < Place(d, x)
  <2> DEFINE k == Place(q, x)
             l == Place(q, y)
  <2>1. /\ k \in Nat /\ k # p /\ Place(d, x) = IF k < p THEN k ELSE k - 1
        /\ l \in Nat /\ l # p /\ Place(d, y) = IF l < p THEN l ELSE l - 1
        /\ l < k /\ p \in Nat
    BY <1>1, <1>4, <1>5
  <2> HIDE DEF k, l
  <2> QED BY <2>1
<1> QED BY <1>3, <1>5 DEF SubOrder, d

\* queue_del and queue_out do not disturb the order, and neither does nothing.
LEMMA QueueDelOrder ==
  ASSUME NEW S, NEW q \in Seq(S), NoDup(q)
  PROVE  /\ SubOrder(q, q)
         /\ \A e \in Elems(q) : SubOrder(q, QueueDel(q, e))
         /\ q # <<>> => SubOrder(q, QueueOut(q))
<1>1. \A e \in Elems(q) : SubOrder(q, QueueDel(q, e))
  BY PlaceProp, RemoveAtOrder DEF QueueDel
<1>2. ASSUME q # <<>> PROVE SubOrder(q, QueueOut(q))
  <2>1. Len(q) \in 1..Len(q)
    BY <1>2, EmptySeq, LenProperties
  <2> QED BY <2>1, RemoveAtOrder DEF QueueOut
<1>3. SubOrder(q, q)
  BY DEF SubOrder
<1> QED BY <1>1, <1>2, <1>3

\* queue_add leaves the others in order and puts the new element in front of
\* its equals, which queue_out takes first.
LEMMA QueueAddOrder ==
  ASSUME NEW S, NEW q \in Seq(S), NEW key \in [S -> Int],
         NEW e \in S, NoDup(q), e \notin Elems(q)
  PROVE  /\ SubOrder(QueueAdd(q, e, key), QueueAdd(q, e, key))
         /\ \A x, y \in Elems(q) : Place(q, y) < Place(q, x) =>
              Place(QueueAdd(q, e, key), y) < Place(QueueAdd(q, e, key), x)
         /\ \A x \in Elems(q) : key[x] >= key[e] =>
              Place(QueueAdd(q, e, key), e) < Place(QueueAdd(q, e, key), x)
<1> DEFINE p == AddPlace(q, key[e], key)
           r == QueueAdd(q, e, key)
           n == Len(q)
<1>1. n \in Nat /\ \A i \in 1..n : q[i] \in S
  BY LenProperties, ElementOfSeq
<1>2. /\ p \in 1..(n + 1)
      /\ \A j \in 1..(p - 1) : key[q[j]] < key[e]
  BY AddPlaceProp
<1>3. r \in Seq(S) /\ Elems(r) = Elems(q) \cup {e} /\ NoDup(r)
  BY QueueAddElems
<1>4. r = InsertAt(q, p, e)
  BY DEF QueueAdd
<1> HIDE DEF p, r
<1>5. /\ Len(r) = n + 1
      /\ \A i \in 1..(p - 1) : r[i] = q[i]
      /\ r[p] = e
      /\ \A i \in (p + 1)..(n + 1) : r[i] = q[i - 1]
  <2>1. /\ Len(InsertAt(q, p, e)) = Len(q) + 1
        /\ \A i \in 1..(p - 1) : InsertAt(q, p, e)[i] = q[i]
        /\ InsertAt(q, p, e)[p] = e
        /\ \A i \in (p + 1)..(Len(q) + 1) : InsertAt(q, p, e)[i] = q[i - 1]
    BY <1>2, InsertAtProp
  <2> QED BY <2>1, <1>4
<1>6. Place(r, e) = p
  <2>1. p \in 1..Len(r) /\ e \in Elems(r)
    BY <1>2, <1>3, <1>5
  <2> QED BY <1>3, <1>5, <2>1, PlaceProp
<1>7. ASSUME NEW x \in Elems(q)
      PROVE  /\ Place(q, x) \in Nat
             /\ Place(r, x) = IF Place(q, x) < p THEN Place(q, x) ELSE Place(q, x) + 1
             /\ Place(q, x) < p => key[x] < key[e]
  <2> DEFINE k == Place(q, x)
  <2>1. k \in 1..n /\ q[k] = x
    BY PlaceProp
  <2>2. x \in Elems(r)
    BY <1>3
  <2> HIDE DEF n, k
  <2>3. CASE k < p
    <3>1. k \in 1..(p - 1) /\ k \in 1..(n + 1)
      BY <1>1, <1>2, <2>1, <2>3
    <3>2. r[k] = x /\ key[x] < key[e]
      BY <1>2, <1>5, <2>1, <3>1
    <3>3. Place(r, x) = k
      BY <1>3, <1>5, <2>2, <3>1, <3>2, PlaceProp
    <3> QED BY <2>1, <2>3, <3>2, <3>3 DEF k
  <2>4. CASE ~ (k < p)
    <3>1. k + 1 \in (p + 1)..(n + 1) /\ k + 1 \in 1..(n + 1) /\ (k + 1) - 1 = k
      BY <1>1, <1>2, <2>1, <2>4
    <3>2. r[k + 1] = x
      <4>1. \A i \in (p + 1)..(n + 1) : r[i] = q[i - 1]
        BY <1>5
      <4>2. r[k + 1] = q[(k + 1) - 1]
        BY <3>1, <4>1
      <4> QED BY <2>1, <3>1, <4>2
    <3>3. Place(r, x) = k + 1
      BY <1>3, <1>5, <2>2, <3>1, <3>2, PlaceProp
    <3> QED BY <2>1, <2>4, <3>3 DEF k
  <2> QED BY <2>3, <2>4
<1>8. ASSUME NEW x \in Elems(q), NEW y \in Elems(q), Place(q, y) < Place(q, x)
      PROVE  Place(r, y) < Place(r, x)
  <2> DEFINE k == Place(q, x)
             l == Place(q, y)
  <2>1. /\ k \in Nat /\ Place(r, x) = IF k < p THEN k ELSE k + 1
        /\ l \in Nat /\ Place(r, y) = IF l < p THEN l ELSE l + 1
        /\ l < k /\ p \in Nat
    BY <1>1, <1>2, <1>7, <1>8
  <2> HIDE DEF k, l
  <2> QED BY <2>1
<1>9. ASSUME NEW x \in Elems(q), key[x] >= key[e]
      PROVE  Place(r, e) < Place(r, x)
  <2> DEFINE k == Place(q, x)
  <2>1. key[x] \in Int /\ key[e] \in Int
    BY ElemsEmpty
  <2>2. /\ k \in Nat /\ Place(r, x) = IF k < p THEN k ELSE k + 1
        /\ ~ (k < p) /\ p \in Nat
    BY <1>1, <1>2, <1>7, <1>9, <2>1
  <2> HIDE DEF k
  <2> QED BY <1>6, <2>2
<1>10. SubOrder(r, r)
  BY DEF SubOrder
<1> QED BY <1>8, <1>9, <1>10 DEF r

\* The promise to those that wait in a queue of priorities: when q becomes r
\* and the keys old become new, an element x that stays, with its key, has in
\* front of it no y of its key that came meanwhile, or that was behind it.
\* (The tail of the queue is served first.)
KeepsTurn(q, r, old, new) ==
  \A x \in Elems(q) \cap Elems(r) : \A y \in Elems(r) \ {x} :
     /\ new[x] = old[x] /\ new[y] = old[x]
     /\ \/ y \notin Elems(q)
        \/ old[y] # old[x]
        \/ Place(q, y) < Place(q, x)
     => Place(r, y) < Place(r, x)

\* It holds when elements leave and no other key changes.
LEMMA SubTurn ==
  ASSUME NEW q, NEW d, NEW old, NEW new, SubOrder(q, d),
         \A e \in Elems(d) : new[e] = old[e]
  PROVE  KeepsTurn(q, d, old, new)
BY DEF KeepsTurn, SubOrder

\* It holds when elements leave after a change that keeps it.
LEMMA TurnSub ==
  ASSUME NEW q, NEW r, NEW d, NEW old, NEW new, KeepsTurn(q, r, old, new), SubOrder(r, d)
  PROVE  KeepsTurn(q, d, old, new)
<1> SUFFICES ASSUME NEW x \in Elems(q) \cap Elems(d), NEW y \in Elems(d) \ {x},
                    new[x] = old[x], new[y] = old[x],
                    y \notin Elems(q) \/ old[y] # old[x] \/ Place(q, y) < Place(q, x)
             PROVE  Place(d, y) < Place(d, x)
  BY DEF KeepsTurn
<1>1. x \in Elems(r) /\ y \in Elems(r)
  BY DEF SubOrder
<1>2. Place(r, y) < Place(r, x)
  BY <1>1 DEF KeepsTurn
<1> QED BY <1>2 DEF SubOrder

\* It holds when elements leave and then e is added, which was not in the
\* queue or gets another key.
LEMMA AddTurn ==
  ASSUME NEW S, NEW q, NEW d \in Seq(S), NEW old, NEW new \in [S -> Int], NEW e \in S,
         SubOrder(q, d), NoDup(d), e \notin Elems(d),
         e \notin Elems(q) \/ new[e] # old[e],
         \A z \in Elems(d) : new[z] = old[z]
  PROVE  KeepsTurn(q, QueueAdd(d, e, new), old, new)
<1> DEFINE r == QueueAdd(d, e, new)
<1>1. Elems(r) = Elems(d) \cup {e}
  BY QueueAddElems
<1>2. /\ \A x, y \in Elems(d) : Place(d, y) < Place(d, x) => Place(r, y) < Place(r, x)
      /\ \A x \in Elems(d) : new[x] >= new[e] => Place(r, e) < Place(r, x)
  BY QueueAddOrder
<1> HIDE DEF r
<1> SUFFICES ASSUME NEW x \in Elems(q) \cap Elems(r), NEW y \in Elems(r) \ {x},
                    new[x] = old[x], new[y] = old[x],
                    y \notin Elems(q) \/ old[y] # old[x] \/ Place(q, y) < Place(q, x)
             PROVE  Place(r, y) < Place(r, x)
  BY DEF KeepsTurn, r
<1>3. x \in Elems(d)
  BY <1>1
<1>4. CASE y = e
  <2>1. new[x] \in Int /\ new[e] = new[x]
    BY <1>3, <1>4, ElemsEmpty
  <2> QED BY <1>2, <1>3, <1>4, <2>1
<1>5. CASE y # e
  <2>1. y \in Elems(d) /\ y \in Elems(q) /\ old[y] = old[x]
    BY <1>1, <1>5 DEF SubOrder
  <2>2. Place(d, y) < Place(d, x)
    BY <1>3, <2>1 DEF SubOrder
  <2> QED BY <1>2, <1>3, <2>1, <2>2
<1> QED BY <1>4, <1>5
=============================================================================

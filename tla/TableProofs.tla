------------------------------ MODULE TableProofs ------------------------------
(***************************************************************************)
(* The users of the hash table, for every set of keys and every hash       *)
(* function.  First the table itself: its searches end and find what was   *)
(* inserted.  Then the files, which stay in bounds and as programs were    *)
(* promised.  Then shared memory: address spaces, each page in one use,    *)
(* reference counts, and what processes see of shared pages.               *)
(***************************************************************************)
EXTENDS FileProps, SharedProps, PrioQueueProofs, FiniteSetTheorems

-----------------------------------------------------------------------------
(* Recursive functions. *)

\* What a recursive definition on 0..n with values in S defines: f is a
\* function there, which begins with a and goes on with F.
Recursive(f, S, a, F, n) ==
  /\ f = [i \in 0..n |-> IF i = 0 THEN a ELSE F[i, f[i - 1]]]
  /\ \A i \in 0..n : f[i] \in S

\* There is one for every n.
LEMMA RecursiveExists ==
  ASSUME NEW S, NEW a \in S, NEW n \in Nat, NEW F \in [(1..n) \X S -> S]
  PROVE  \E f : Recursive(f, S, a, F, n)
<1> DEFINE T == {m \in 0..n : ~ \E f : Recursive(f, S, a, F, m)}
<1>1. SUFFICES ASSUME T # {} PROVE FALSE
  OBVIOUS
<1>2. PICK m \in T : \A x \in T : m <= x
  <2>1. T \subseteq Nat
    OBVIOUS
  <2> HIDE DEF T
  <2> QED BY <1>1, <2>1, LeastNat
<1>3. m # 0
  <2> DEFINE f == [i \in 0..0 |-> a]
  <2>1. \A i \in 0..0 : f[i] = (IF i = 0 THEN a ELSE F[i, f[i - 1]]) /\ f[i] \in S
    OBVIOUS
  <2>2. f = [i \in 0..0 |-> f[i]]
    OBVIOUS
  <2> HIDE DEF f
  <2>3. Recursive(f, S, a, F, 0)
    BY <2>1, <2>2 DEF Recursive
  <2> QED BY <2>3, <1>2
<1>4. m \in 1..n /\ m \in Nat /\ m - 1 \in Nat /\ m - 1 \in 0..n /\ m - 1 \notin T
  BY <1>2, <1>3
<1>5. PICK g : Recursive(g, S, a, F, m - 1)
  BY <1>4
<1> DEFINE h == [i \in 0..m |-> IF i = m THEN F[m, g[m - 1]] ELSE g[i]]
<1>6. ASSUME NEW i \in 0..m
      PROVE  h[i] = (IF i = 0 THEN a ELSE F[i, h[i - 1]]) /\ h[i] \in S
  <2>1. CASE i = m
    <3>4. m \in 0..m /\ m - 1 \in 0..m /\ m - 1 # m
      BY <1>4
    <3>1. h[i] = F[m, g[m - 1]] /\ h[m - 1] = g[m - 1]
      BY <2>1, <3>4
    <3>2. g[m - 1] \in S
      <4>1. m - 1 \in 0..(m - 1)
        BY <1>4
      <4> QED BY <4>1, <1>5 DEF Recursive
    <3>3. F[m, g[m - 1]] \in S
      BY <3>2, <1>4
    <3> HIDE DEF h
    <3> QED BY <2>1, <3>1, <3>3, <1>3
  <2>2. CASE i # m
    <3>1. i \in 0..(m - 1)
      BY <2>2, <1>4
    <3>4. i # 0 => i - 1 \in 0..m /\ i - 1 # m
      BY <3>1, <1>4
    <3>2. h[i] = g[i] /\ (i # 0 => h[i - 1] = g[i - 1])
      BY <2>2, <3>4
    <3>3. g[i] = (IF i = 0 THEN a ELSE F[i, g[i - 1]]) /\ g[i] \in S
      BY <1>5, <3>1 DEF Recursive
    <3> HIDE DEF h
    <3> QED BY <3>2, <3>3
  <2> QED BY <2>1, <2>2
<1>7. h = [i \in 0..m |-> h[i]]
  OBVIOUS
<1> HIDE DEF h
<1>8. Recursive(h, S, a, F, m)
  BY <1>6, <1>7 DEF Recursive
<1> QED BY <1>2, <1>8

-----------------------------------------------------------------------------
(* The sizes of the tables. *)

\* MinSize is doubled at each step.
LEMMA TableSizeDef ==
  /\ TableSize \in [0..Doublings -> Nat]
  /\ TableSize[0] = MinSize
  /\ \A e \in 1..Doublings : TableSize[e] = 2 * TableSize[e - 1]
<1>1. Doublings \in Nat /\ MinSize \in Nat
  <2>1. /\ 2^1 \in Nat /\ 2^2 \in Nat /\ 2^3 \in Nat /\ 2^4 \in Nat /\ 2^5 \in Nat
        /\ 2^6 \in Nat /\ 2^7 \in Nat /\ 2^8 \in Nat /\ 2^9 \in Nat /\ 2^10 \in Nat
    OBVIOUS
  <2>2. \A e \in 1..10 : \/ e = 1 \/ e = 2 \/ e = 3 \/ e = 4 \/ e = 5
                        \/ e = 6 \/ e = 7 \/ e = 8 \/ e = 9 \/ e = 10
    OBVIOUS
  <2> QED BY <2>1, <2>2, HashAssumption
<1> DEFINE F == [x \in (1..Doublings) \X Nat |-> 2 * x[2]]
<1>2. F \in [(1..Doublings) \X Nat -> Nat]
  OBVIOUS
<1>3. \A i \in 1..Doublings, x \in Nat : F[i, x] = 2 * x
  OBVIOUS
<1> HIDE DEF F
<1>4. PICK f : Recursive(f, Nat, MinSize, F, Doublings)
  BY <1>1, <1>2, RecursiveExists
<1>5. f = [e \in 0..Doublings |-> IF e = 0 THEN MinSize ELSE 2 * f[e - 1]]
  <2>1. \A e \in 0..Doublings : f[e] \in Nat
    BY <1>4 DEF Recursive
  <2>2. \A e \in 0..Doublings : e # 0 => e \in 1..Doublings /\ e - 1 \in 0..Doublings
    BY <1>1
  <2>4. \A e \in 0..Doublings :
          (IF e = 0 THEN MinSize ELSE F[e, f[e - 1]]) = (IF e = 0 THEN MinSize ELSE 2 * f[e - 1])
    BY <1>3, <2>1, <2>2
  <2>3. f = [e \in 0..Doublings |-> IF e = 0 THEN MinSize ELSE F[e, f[e - 1]]]
    BY <1>4 DEF Recursive
  <2> QED BY <2>3, <2>4
<1>6. TableSize = [e \in 0..Doublings |-> IF e = 0 THEN MinSize ELSE 2 * TableSize[e - 1]]
  BY <1>5 DEF TableSize
<1> DEFINE T == {e \in 0..Doublings : TableSize[e] \notin Nat}
<1>7. T = {}
  <2>1. SUFFICES ASSUME T # {} PROVE FALSE
    OBVIOUS
  <2>2. PICK m \in T : \A x \in T : m <= x
    <3>1. T \subseteq Nat
      OBVIOUS
    <3> HIDE DEF T
    <3> QED BY <2>1, <3>1, LeastNat
  <2>5. m \in Nat /\ m <= Doublings
    BY <1>1, <2>2
  <2>3. TableSize[m] = IF m = 0 THEN MinSize ELSE 2 * TableSize[m - 1]
    BY <1>6, <2>2
  <2>4. m # 0 => m - 1 \in 0..Doublings /\ m - 1 \notin T
    BY <1>1, <2>2, <2>5
  <2>6. TableSize[m] \notin Nat
    BY <2>2
  <2> QED BY <2>3, <2>4, <2>6, <1>1
<1>8. \A e \in 0..Doublings : TableSize[e] = IF e = 0 THEN MinSize ELSE 2 * TableSize[e - 1]
  BY <1>6
<1>9. 0 \in 0..Doublings /\ \A e \in 1..Doublings : e \in 0..Doublings /\ e # 0
  BY <1>1
<1> QED BY <1>6, <1>7, <1>8, <1>9

\* A function on 0..m that begins with a and doubles.
Doubles(p, a, m) ==
  p \in [0..m -> Nat] /\ p[0] = a /\ \A i \in 1..m : p[i] = 2 * p[i - 1]

\* There is one for every m.
LEMMA DoublesExists ==
  ASSUME NEW m \in Nat
  PROVE  \E p : Doubles(p, 1, m)
<1> DEFINE F == [x \in (1..m) \X Nat |-> 2 * x[2]]
<1>2. F \in [(1..m) \X Nat -> Nat]
  OBVIOUS
<1>3. \A i \in 1..m, x \in Nat : F[i, x] = 2 * x
  OBVIOUS
<1> HIDE DEF F
<1>4. PICK f : Recursive(f, Nat, 1, F, m)
  BY <1>2, RecursiveExists
<1>5. f \in [0..m -> Nat] /\ \A i \in 0..m : f[i] = IF i = 0 THEN 1 ELSE F[i, f[i - 1]]
  BY <1>4 DEF Recursive
<1>6. f[0] = 1
  <2>1. 0 \in 0..m
    OBVIOUS
  <2> QED BY <1>5, <2>1
<1>7. ASSUME NEW i \in 1..m PROVE f[i] = 2 * f[i - 1]
  <2>1. i \in 0..m /\ i # 0 /\ i - 1 \in 0..m
    OBVIOUS
  <2>2. f[i] = F[i, f[i - 1]] /\ f[i - 1] \in Nat
    BY <2>1, <1>5
  <2> QED BY <2>2, <1>3
<1> QED BY <1>5, <1>6, <1>7 DEF Doubles

\* All sizes of tables are powers of two.
LEMMA SizesArePowers ==
  \E m \in Nat : \E p : /\ Doubles(p, 1, m)
                        /\ \A e \in 0..Doublings : \E i \in 1..m : p[i] = TableSize[e]
<1>1. PICK k \in 1..10 : MinSize = 2^k
  BY HashAssumption
<1>2. Doublings \in Nat
  BY HashAssumption
<1> DEFINE m == 10 + Doublings
<1>3. m \in Nat /\ m >= 10
  BY <1>2
<1>4. \A e \in 0..Doublings : k + e \in 1..m
  BY <1>2
<1> HIDE DEF m
<1>5. PICK p : Doubles(p, 1, m)
  BY <1>3, DoublesExists
<1>6. p[k] = MinSize
  <2>1. p[0] = 1 /\ \A i \in 1..m : p[i] = 2 * p[i - 1]
    BY <1>5 DEF Doubles
  <2>2. /\ p[1] = 2 * p[0] /\ p[2] = 2 * p[1] /\ p[3] = 2 * p[2] /\ p[4] = 2 * p[3]
        /\ p[5] = 2 * p[4] /\ p[6] = 2 * p[5] /\ p[7] = 2 * p[6] /\ p[8] = 2 * p[7]
        /\ p[9] = 2 * p[8] /\ p[10] = 2 * p[9]
    BY <1>3, <2>1
  <2>3. /\ p[1] = 2 /\ p[2] = 4 /\ p[3] = 8 /\ p[4] = 16 /\ p[5] = 32
        /\ p[6] = 64 /\ p[7] = 128 /\ p[8] = 256 /\ p[9] = 512 /\ p[10] = 1024
    BY <2>1, <2>2
  <2>4. /\ 2^1 = 2 /\ 2^2 = 4 /\ 2^3 = 8 /\ 2^4 = 16 /\ 2^5 = 32
        /\ 2^6 = 64 /\ 2^7 = 128 /\ 2^8 = 256 /\ 2^9 = 512 /\ 2^10 = 1024
    OBVIOUS
  <2>5. \/ k = 1 \/ k = 2 \/ k = 3 \/ k = 4 \/ k = 5
        \/ k = 6 \/ k = 7 \/ k = 8 \/ k = 9 \/ k = 10
    OBVIOUS
  <2>6. p[1] = 2^1 /\ p[2] = 2^2 /\ p[3] = 2^3 /\ p[4] = 2^4 /\ p[5] = 2^5
    BY <2>3, <2>4
  <2>7. p[6] = 2^6 /\ p[7] = 2^7 /\ p[8] = 2^8 /\ p[9] = 2^9 /\ p[10] = 2^10
    BY <2>3, <2>4
  <2>8. p[k] = 2^k
    BY Zenon, <2>5, <2>6, <2>7
  <2> QED BY <1>1, <2>8
<1> DEFINE T == {e \in 0..Doublings : p[k + e] # TableSize[e]}
<1>7. T = {}
  <2>1. SUFFICES ASSUME T # {} PROVE FALSE
    OBVIOUS
  <2>2. PICK e \in T : \A x \in T : e <= x
    <3>1. T \subseteq Nat
      OBVIOUS
    <3> HIDE DEF T
    <3> QED BY <2>1, <3>1, LeastNat
  <2>3. e \in 0..Doublings /\ e \in Nat /\ p[k + e] # TableSize[e]
    BY <2>2
  <2>4. e # 0
    <3>1. k + 0 = k
      OBVIOUS
    <3> QED BY <2>3, <3>1, <1>6, TableSizeDef
  <2>5. e \in 1..Doublings /\ e - 1 \in 0..Doublings /\ e - 1 \notin T
    BY <1>2, <2>2, <2>3, <2>4
  <2>6. p[k + (e - 1)] = TableSize[e - 1]
    BY <2>5
  <2>7. p[k + e] = 2 * p[k + (e - 1)]
    <3>1. k + e \in 1..m /\ (k + e) - 1 = k + (e - 1)
      BY <1>4, <2>3
    <3>2. \A i \in 1..m : p[i] = 2 * p[i - 1]
      BY <1>5 DEF Doubles
    <3> QED BY <3>1, <3>2
  <2> QED BY <2>3, <2>5, <2>6, <2>7, TableSizeDef
<1>8. \A e \in 0..Doublings : p[k + e] = TableSize[e]
  BY <1>7
<1> QED BY <1>3, <1>4, <1>5, <1>8

-----------------------------------------------------------------------------
(* The steps 5 * index + 1, modulo a power of two. *)

\* g makes such steps from index lo to hi, modulo n.
Orbit(g, lo, hi, n) ==
  /\ \A i \in lo..hi : g[i] \in Nat
  /\ \A i \in lo..(hi - 1) : \E z \in Int : g[i + 1] = 5 * g[i] + 1 + n * z

\* w steps are an affine function: its factor is 1 modulo 4 w and what it
\* adds is an odd multiple of w.
Jump(g, lo, hi, n, w) ==
  \E a, c \in Int : \A i \in lo..hi : i + w <= hi =>
    \E z \in Int : g[i + w] = (1 + 4 * (w * a)) * g[i] + w * (2 * c + 1) + n * z

\* The values of w successive indices are all numbers modulo w.
Cover(g, lo, hi, w) ==
  \A s \in lo..hi : s + w <= hi + 1 =>
    \A y \in 0..(w - 1) : \E i \in lo..hi : 
      s <= i /\ i < s + w /\ \E k \in Int : g[i] = y + w * k

\* Two jumps in a row.
LEMMA TwoJumps ==
  ASSUME NEW w \in Int, NEW a \in Int, NEW c \in Int, NEW n \in Int,
         NEW x \in Int, NEW y \in Int, NEW u \in Int, NEW z1 \in Int, NEW z2 \in Int,
         y = (1 + 4 * (w * a)) * x + w * (2 * c + 1) + n * z1,
         u = (1 + 4 * (w * a)) * y + w * (2 * c + 1) + n * z2
  PROVE  u = (1 + 4 * ((2 * w) * (a + 2 * (w * (a * a))))) * x
             + (2 * w) * (2 * (c + w * (a * (2 * c + 1))) + 1)
             + n * ((1 + 4 * (w * a)) * z1 + z2)
OBVIOUS

\* A step is a jump of 1, and each value is all numbers modulo 1.
LEMMA FirstJump ==
  ASSUME NEW g, NEW lo \in Nat, NEW hi \in Nat, NEW n \in Nat, Orbit(g, lo, hi, n)
  PROVE  Jump(g, lo, hi, n, 1) /\ Cover(g, lo, hi, 1)
<1>1. ASSUME NEW i \in lo..hi, i + 1 <= hi
      PROVE  \E z \in Int : g[i + 1] = (1 + 4 * (1 * 1)) * g[i] + 1 * (2 * 0 + 1) + n * z
  <2>1. g[i] \in Nat
    BY DEF Orbit
  <2>2. i \in lo..(hi - 1)
    BY <1>1
  <2>3. PICK z \in Int : g[i + 1] = 5 * g[i] + 1 + n * z
    BY <2>2 DEF Orbit
  <2>4. g[i + 1] = (1 + 4 * (1 * 1)) * g[i] + 1 * (2 * 0 + 1) + n * z
    BY <2>1, <2>3
  <2> QED BY <2>4
<1>2. ASSUME NEW s \in lo..hi, NEW y \in 0..(1 - 1)
      PROVE  \E i \in lo..hi : s <= i /\ i < s + 1 /\ \E k \in Int : g[i] = y + 1 * k
  <2>1. g[s] \in Int /\ g[s] = y + 1 * g[s] /\ s <= s /\ s < s + 1
    BY DEF Orbit
  <2> QED BY <2>1
<1>3. Jump(g, lo, hi, n, 1)
  <2> DEFINE a == 1
             c == 0
             w == 1
  <2>1. a \in Int /\ c \in Int
    OBVIOUS
  <2>2. \A i \in lo..hi : i + w <= hi =>
          \E z \in Int : g[i + w] = (1 + 4 * (w * a)) * g[i] + w * (2 * c + 1) + n * z
    BY <1>1
  <2> HIDE DEF a, c, w
  <2>3. Jump(g, lo, hi, n, w)
    BY <2>1, <2>2 DEF Jump
  <2> QED BY <2>3 DEF w
<1> QED BY <1>2, <1>3 DEF Cover

\* Jumps double.
LEMMA NextJump ==
  ASSUME NEW g, NEW lo \in Nat, NEW hi \in Nat, NEW n \in Nat, NEW w \in Nat,
         Orbit(g, lo, hi, n), Jump(g, lo, hi, n, w)
  PROVE  Jump(g, lo, hi, n, 2 * w)
<1>1. PICK a \in Int, c \in Int : \A i \in lo..hi : i + w <= hi =>
        \E z \in Int : g[i + w] = (1 + 4 * (w * a)) * g[i] + w * (2 * c + 1) + n * z
  BY DEF Jump
<1> DEFINE a2 == a + 2 * (w * (a * a))
           c2 == c + w * (a * (2 * c + 1))
<1>2. a2 \in Int /\ c2 \in Int
  OBVIOUS
<1>3. ASSUME NEW i \in lo..hi, i + 2 * w <= hi
      PROVE  \E z \in Int : g[i + 2 * w] = (1 + 4 * ((2 * w) * a2)) * g[i] + (2 * w) * (2 * c2 + 1) + n * z
  <2>1. i + w \in lo..hi /\ i + w <= hi /\ (i + w) + w <= hi /\ (i + w) + w = i + 2 * w
        /\ i + 2 * w \in lo..hi
    BY <1>3
  <2>2. g[i] \in Int /\ g[i + w] \in Int /\ g[i + 2 * w] \in Int
    BY <2>1 DEF Orbit
  <2>3. PICK z1 \in Int : g[i + w] = (1 + 4 * (w * a)) * g[i] + w * (2 * c + 1) + n * z1
    BY <1>1, <2>1
  <2>4. PICK z2 \in Int : g[(i + w) + w] = (1 + 4 * (w * a)) * g[i + w] + w * (2 * c + 1) + n * z2
    BY <1>1, <2>1
  <2>5. g[i + 2 * w] = (1 + 4 * (w * a)) * g[i + w] + w * (2 * c + 1) + n * z2
    BY <2>1, <2>4
  <2>6. n \in Int /\ w \in Int
    OBVIOUS
  <2> DEFINE z == (1 + 4 * (w * a)) * z1 + z2
  <2>7. z \in Int
    BY <2>6
  <2>8. g[i + 2 * w] = (1 + 4 * ((2 * w) * a2)) * g[i] + (2 * w) * (2 * c2 + 1) + n * z
    BY <2>2, <2>3, <2>5, <2>6, TwoJumps
  <2> HIDE DEF z, a2, c2
  <2> QED BY <2>7, <2>8
<1> HIDE DEF a2, c2
<1> QED BY <1>2, <1>3 DEF Jump

\* If y is x modulo w, then it is x modulo 2 w, or what a jump from x leads to.
LEMMA HalfJump ==
  ASSUME NEW w \in Int, NEW a \in Int, NEW c \in Int, NEW n \in Int, NEW q \in Int,
         NEW x \in Int, NEW y \in Int, NEW u \in Int, NEW z \in Int, NEW k \in Int,
         n = (2 * w) * q, x = y + w * (2 * k + 1),
         u = (1 + 4 * (w * a)) * x + w * (2 * c + 1) + n * z
  PROVE  u = y + (2 * w) * (k + c + 1 + 2 * (a * x) + q * z)
<1>1. u = x + 4 * (w * a) * x + w * (2 * c + 1) + ((2 * w) * q) * z
  OBVIOUS
<1>2. u = y + w * (2 * k + 1) + 4 * (w * a) * x + w * (2 * c + 1) + ((2 * w) * q) * z
  BY <1>1
<1> QED BY <1>2

\* Covers double.
LEMMA NextCover ==
  ASSUME NEW g, NEW lo \in Nat, NEW hi \in Nat, NEW n \in Nat, NEW w \in Nat, w >= 1,
         NEW q \in Nat, n = (2 * w) * q,
         Orbit(g, lo, hi, n), Jump(g, lo, hi, n, w), Cover(g, lo, hi, w)
  PROVE  Cover(g, lo, hi, 2 * w)
<1>1. SUFFICES ASSUME NEW s \in lo..hi, s + 2 * w <= hi + 1, NEW y \in 0..(2 * w - 1)
               PROVE  \E i \in lo..hi :
                        s <= i /\ i < s + 2 * w /\ \E k \in Int : g[i] = y + (2 * w) * k
  BY DEF Cover
<1> DEFINE r == IF y < w THEN y ELSE y - w
<1>2. r \in 0..(w - 1) /\ (r = y \/ r = y - w) /\ s + w <= hi + 1
  BY <1>1
<1>3. PICK i \in lo..hi : s <= i /\ i < s + w /\ \E k \in Int : g[i] = r + w * k
  BY <1>2 DEF Cover
<1>4. PICK k \in Int : g[i] = r + w * k
  BY <1>3
<1>5. PICK j \in Int : g[i] = y + w * j
  <2>1. CASE r = y
    BY <2>1, <1>4
  <2>2. CASE r = y - w
    <3>1. g[i] = y + w * (k - 1) /\ k - 1 \in Int
      BY <2>2, <1>4
    <3> QED BY <3>1
  <2> QED BY <2>1, <2>2, <1>2
<1>6. \E h \in Int : j = 2 * h \/ j = 2 * h + 1
  <2>1. (j \div 2) \in Int /\ (j = 2 * (j \div 2) \/ j = 2 * (j \div 2) + 1)
    OBVIOUS
  <2> QED BY <2>1
<1>7. PICK h \in Int : j = 2 * h \/ j = 2 * h + 1
  BY <1>6
<1>8. CASE j = 2 * h
  <2>1. g[i] = y + (2 * w) * h
    BY <1>5, <1>8
  <2>2. i < s + 2 * w
    BY <1>3
  <2> QED BY <1>3, <2>1, <2>2
<1>9. CASE j = 2 * h + 1
  <2>1. i + w \in lo..hi /\ i + w <= hi /\ s <= i + w /\ i + w < s + 2 * w
    BY <1>1, <1>3
  <2>2. PICK a \in Int, c \in Int : \A x \in lo..hi : x + w <= hi =>
          \E z \in Int : g[x + w] = (1 + 4 * (w * a)) * g[x] + w * (2 * c + 1) + n * z
    BY DEF Jump
  <2>3. PICK z \in Int : g[i + w] = (1 + 4 * (w * a)) * g[i] + w * (2 * c + 1) + n * z
    BY <2>1, <2>2
  <2>4. g[i] \in Int /\ g[i + w] \in Int /\ w \in Int /\ n \in Int /\ q \in Int /\ y \in Int
    BY <2>1 DEF Orbit
  <2>5. g[i] = y + w * (2 * h + 1)
    BY <1>5, <1>9
  <2> DEFINE t == h + c + 1 + 2 * (a * g[i]) + q * z
  <2>6. g[i + w] = y + (2 * w) * t
    BY <2>3, <2>4, <2>5, HalfJump
  <2>7. t \in Int
    BY <2>4
  <2> HIDE DEF t
  <2> QED BY <2>1, <2>6, <2>7
<1> QED BY <1>7, <1>8, <1>9

\* Powers of two divide each other.
LEMMA PowersDivide ==
  ASSUME NEW m \in Nat, NEW p, Doubles(p, 1, m), NEW l \in 0..m
  PROVE  \A e \in 0..l : \E q \in Nat : p[l] = p[e] * q
<1> DEFINE T == {j \in 0..l : ~ \E q \in Nat : p[l] = p[l - j] * q}
<1>1. T = {}
  <2>1. SUFFICES ASSUME T # {} PROVE FALSE
    OBVIOUS
  <2>2. PICK j \in T : \A x \in T : j <= x
    <3>1. T \subseteq Nat
      OBVIOUS
    <3> HIDE DEF T
    <3> QED BY <2>1, <3>1, LeastNat
  <2>3. p \in [0..m -> Nat] /\ \A i \in 1..m : p[i] = 2 * p[i - 1]
    BY DEF Doubles
  <2>4. j \in 0..l /\ ~ \E q \in Nat : p[l] = p[l - j] * q
    BY <2>2
  <2>5. j # 0
    <3>1. p[l] \in Nat /\ p[l] = p[l] * 1 /\ l - 0 = l
      BY <2>3
    <3> QED BY <2>4, <3>1
  <2>6. j - 1 \in 0..l /\ j - 1 \notin T
    BY <2>2, <2>4, <2>5
  <2>7. PICK q \in Nat : p[l] = p[l - (j - 1)] * q
    BY <2>6
  <2>8. l - (j - 1) \in 1..m /\ (l - (j - 1)) - 1 = l - j /\ l - j \in 0..m
    BY <2>4, <2>5
  <2>9. p[l - (j - 1)] = 2 * p[l - j] /\ p[l - j] \in Nat
    BY <2>3, <2>8
  <2>10. p[l] = p[l - j] * (2 * q) /\ 2 * q \in Nat
    BY <2>7, <2>9
  <2> QED BY <2>4, <2>10
<1>2. ASSUME NEW e \in 0..l PROVE \E q \in Nat : p[l] = p[e] * q
  <2>1. l - e \in 0..l /\ l - (l - e) = e
    OBVIOUS
  <2>2. l - e \notin T
    BY <1>1
  <2>3. \E q \in Nat : p[l] = p[l - (l - e)] * q
    BY <2>1, <2>2
  <2> QED BY <2>1, <2>3
<1> QED BY <1>2

\* So n steps meet all numbers below n.
LEMMA FullPeriod ==
  ASSUME NEW m \in Nat, NEW p, Doubles(p, 1, m), NEW l \in 0..m, NEW n \in Nat, p[l] = n,
         NEW g, NEW lo \in Nat, NEW hi \in Nat, Orbit(g, lo, hi, n),
         lo + n <= hi + 1, \A i \in lo..hi : g[i] < n
  PROVE  \A y \in 0..(n - 1) : \E i \in lo..hi : g[i] = y
<1> SUFFICES ASSUME NEW y \in 0..(n - 1) PROVE \E i \in lo..hi : g[i] = y
  OBVIOUS
<1>1. p \in [0..m -> Nat] /\ p[0] = 1 /\ \A i \in 1..m : p[i] = 2 * p[i - 1]
  BY DEF Doubles
<1>2. n \in Nat
  OBVIOUS
<1> DEFINE T == {e \in 0..l : ~ (p[e] >= 1 /\ Jump(g, lo, hi, n, p[e]) /\ Cover(g, lo, hi, p[e]))}
<1>3. T = {}
  <2>1. SUFFICES ASSUME T # {} PROVE FALSE
    OBVIOUS
  <2>2. PICK e \in T : \A x \in T : e <= x
    <3>1. T \subseteq Nat
      OBVIOUS
    <3> HIDE DEF T
    <3> QED BY <2>1, <3>1, LeastNat
  <2>3. e \in 0..l /\ ~ (p[e] >= 1 /\ Jump(g, lo, hi, n, p[e]) /\ Cover(g, lo, hi, p[e]))
    BY <2>2
  <2>4. Orbit(g, lo, hi, n)
    OBVIOUS
  <2>5. e # 0
    <3>1. Jump(g, lo, hi, n, 1) /\ Cover(g, lo, hi, 1)
      BY <1>2, <2>4, FirstJump
    <3> QED BY <1>1, <2>3, <3>1
  <2>6. e - 1 \in 0..l /\ e \in 1..m /\ e - 1 \notin T
    BY <2>2, <2>3, <2>5
  <2> DEFINE w == p[e - 1]
  <2>7. w >= 1 /\ Jump(g, lo, hi, n, w) /\ Cover(g, lo, hi, w)
    BY <2>6
  <2>8. w \in Nat /\ p[e] = 2 * w
    BY <1>1, <2>6
  <2>9. PICK q \in Nat : n = p[e] * q
    BY <2>3, PowersDivide
  <2> HIDE DEF w, T
  <2>10. n = (2 * w) * q
    BY <2>8, <2>9
  <2>11. Jump(g, lo, hi, n, 2 * w)
    BY <1>2, <2>4, <2>7, <2>8, NextJump
  <2>12. Cover(g, lo, hi, 2 * w)
    BY <1>2, <2>4, <2>7, <2>8, <2>10, NextCover
  <2>13. p[e] >= 1
    BY <2>7, <2>8
  <2> QED BY <2>3, <2>8, <2>11, <2>12, <2>13
<1>4. l \in 0..l /\ l \notin T
  BY <1>3
<1>5. n >= 1 /\ Cover(g, lo, hi, n)
  BY <1>4
<1>6. lo \in lo..hi
  BY <1>2, <1>5
<1>7. PICK i \in lo..hi : \E k \in Int : g[i] = y + n * k
  BY <1>5, <1>6 DEF Cover
<1>8. PICK k \in Int : g[i] = y + n * k
  BY <1>7
<1>9. g[i] \in Nat /\ g[i] < n /\ y \in 0..(n - 1)
  BY DEF Orbit
<1>10. k = 0
  <2>1. n * k < n /\ n * k > - n
    BY <1>2, <1>8, <1>9
  <2>2. CASE k >= 1
    <3>1. n * k >= n
      BY <1>2, <1>5, <2>2
    <3> QED BY <1>2, <2>1, <3>1
  <2>3. CASE k <= -1
    <3>1. n * k <= - n
      BY <1>2, <1>5, <2>3
    <3> QED BY <1>2, <2>1, <3>1
  <2> QED BY <2>2, <2>3
<1> QED BY <1>2, <1>8, <1>9, <1>10

-----------------------------------------------------------------------------
(* The probe sequence. *)

\* perturb is a number.
LEMMA ShiftedNat ==
  ASSUME NEW h \in Nat, NEW i \in Nat
  PROVE  Shifted(h, i) \in Nat /\ (i >= 7 => Shifted(h, i) = 0)
<1>1. CASE i >= 7
  BY <1>1 DEF Shifted
<1>2. CASE i < 7
  <2>1. i = 0 \/ i = 1 \/ i = 2 \/ i = 3 \/ i = 4 \/ i = 5 \/ i = 6
    BY <1>2
  <2>2. /\ 5 * 0 = 0 /\ 5 * 1 = 5 /\ 5 * 2 = 10 /\ 5 * 3 = 15
        /\ 5 * 4 = 20 /\ 5 * 5 = 25 /\ 5 * 6 = 30
    OBVIOUS
  <2>3. /\ 2^0 = 1 /\ 2^5 = 32 /\ 2^10 = 1024 /\ 2^15 = 32768
        /\ 2^20 = 1048576 /\ 2^25 = 33554432 /\ 2^30 = 1073741824
    OBVIOUS
  <2>4. 2^(5 * i) \in {1, 32, 1024, 32768, 1048576, 33554432, 1073741824}
    <3> DEFINE P == {1, 32, 1024, 32768, 1048576, 33554432, 1073741824}
    <3>1. /\ 1 \in P /\ 32 \in P /\ 1024 \in P /\ 32768 \in P
          /\ 1048576 \in P /\ 33554432 \in P /\ 1073741824 \in P
      OBVIOUS
    <3> HIDE DEF P
    <3> DEFINE e == 5 * i
    <3>2. e = 0 \/ e = 5 \/ e = 10 \/ e = 15 \/ e = 20 \/ e = 25 \/ e = 30
      BY <2>1
    <3> DEFINE Two(x) == 2^x
    <3>3. /\ Two(0) = 1 /\ Two(5) = 32 /\ Two(10) = 1024 /\ Two(15) = 32768
          /\ Two(20) = 1048576 /\ Two(25) = 33554432 /\ Two(30) = 1073741824
      BY <2>3
    <3> HIDE DEF e, Two
    <3>4. Two(e) \in P
      BY <3>1, <3>2, <3>3
    <3> QED BY <3>4 DEF P, e, Two
  <2>5. PICK d \in {1, 32, 1024, 32768, 1048576, 33554432, 1073741824} : d = 2^(5 * i)
    BY <2>4
  <2>6. d \in Nat /\ d >= 1
    BY <2>5
  <2>7. h \div d \in Nat
    BY <2>6
  <2>8. Shifted(h, i) = h \div 2^(5 * i)
    BY <1>2 DEF Shifted
  <2>9. Shifted(h, i) = h \div d
    BY <2>5, <2>8
  <2> QED BY <1>2, <2>7, <2>9
<1> QED BY <1>1, <1>2

\* Path is what its definition says.
LEMMA PathDef ==
  ASSUME NEW h \in Nat, NEW n \in Nat, n >= 1
  PROVE  /\ Path(h, n) \in [1..(n + 8) -> 0..(n - 1)]
         /\ \A i \in 2..(n + 8) :
              Path(h, n)[i] = (5 * Path(h, n)[i - 1] + Shifted(h, i - 2) + 1) % n
<1> DEFINE S == 0..(n - 1)
           N == n + 7
           F == [x \in (1..N) \X S |-> (5 * x[2] + Shifted(h, x[1] - 1) + 1) % n]
           Is(f) == f = [i \in 1..(n + 8) |->
                           IF i = 1 THEN h % n
                           ELSE (5 * f[i - 1] + Shifted(h, i - 2) + 1) % n]
<1>1. \A x \in Nat : x % n \in S
  OBVIOUS
<1>2. \A j \in 1..N, y \in S : (5 * y + Shifted(h, j - 1) + 1) % n \in S
  <2>1. SUFFICES ASSUME NEW j \in 1..N, NEW y \in S
                 PROVE  5 * y + Shifted(h, j - 1) + 1 \in Nat
    BY <1>1
  <2>2. Shifted(h, j - 1) \in Nat
    BY ShiftedNat
  <2> QED BY <2>2
<1>3. F \in [(1..N) \X S -> S]
  BY <1>2
<1>4. \A j \in 1..N, y \in S : F[j, y] = (5 * y + Shifted(h, j - 1) + 1) % n
  OBVIOUS
<1>5. N \in Nat /\ h % n \in S
  BY <1>1
<1>6. \E f : Recursive(f, S, h % n, F, N)
  <2> HIDE DEF F, S, N
  <2> QED BY <1>3, <1>5, RecursiveExists
<1>7. PICK f : Recursive(f, S, h % n, F, N)
  BY <1>6
<1> DEFINE g == [i \in 1..(n + 8) |-> f[i - 1]]
<1>8. ASSUME NEW i \in 1..(n + 8)
      PROVE  /\ g[i] \in S
             /\ g[i] = IF i = 1 THEN h % n ELSE (5 * g[i - 1] + Shifted(h, i - 2) + 1) % n
  <2>1. i - 1 \in 0..N /\ g[i] = f[i - 1]
    OBVIOUS
  <2>2. g[i] \in S
    BY <1>7, <2>1 DEF Recursive
  <2>3. i = 1 => g[i] = h % n
    <3>1. 0 \in 0..N
      BY <1>5
    <3> HIDE DEF S, F, N
    <3>2. f[0] = h % n
      BY <1>7, <3>1 DEF Recursive
    <3> QED BY <2>1, <3>2
  <2>4. CASE i # 1
    <3>1. i - 1 \in 1..N /\ i - 1 \in 1..(n + 8) /\ i - 1 # 0 /\ (i - 1) - 1 \in 0..N
          /\ (i - 1) - 1 = i - 2
      BY <2>4
    <3>2. g[i - 1] = f[i - 2] /\ g[i - 1] \in S
      BY <1>7, <3>1 DEF Recursive
    <3>3. f[i - 1] = F[i - 1, f[i - 2]]
      BY <1>7, <2>1, <3>1 DEF Recursive
    <3>4. g[i] = F[i - 1, g[i - 1]]
      BY <2>1, <3>2, <3>3
    <3>5. F[i - 1, g[i - 1]] = (5 * g[i - 1] + Shifted(h, (i - 1) - 1) + 1) % n
      <4> HIDE DEF F, g, S, N
      <4> QED BY <1>4, <3>1, <3>2
    <3> HIDE DEF F, g
    <3> QED BY <2>2, <2>4, <3>1, <3>4, <3>5
  <2> HIDE DEF F, g
  <2> QED BY <2>2, <2>3, <2>4
<1>9. Is(g)
  <2>1. g = [i \in 1..(n + 8) |-> g[i]]
    OBVIOUS
  <2> HIDE DEF g
  <2> QED BY <1>8, <2>1
<1> HIDE DEF g, Is
<1> DEFINE at == CHOOSE x : Is(x)
<1>10. Is(at)
  BY <1>9
<1>11. Path(h, n) = [i \in 1..(n + 8) |-> at[i]]
  BY DEF Path, Is
<1> HIDE DEF at
<1>12. at = [i \in 1..(n + 8) |-> IF i = 1 THEN h % n
                                 ELSE (5 * at[i - 1] + Shifted(h, i - 2) + 1) % n]
  BY <1>10 DEF Is
<1>13. \A i \in 1..(n + 8) : at[i] = IF i = 1 THEN h % n
                                 ELSE (5 * at[i - 1] + Shifted(h, i - 2) + 1) % n
  BY <1>12
<1>14. Path(h, n) = at
  BY <1>11, <1>12
<1> DEFINE T == {i \in 1..(n + 8) : at[i] \notin S}
<1>15. T = {}
  <2>1. SUFFICES ASSUME T # {} PROVE FALSE
    OBVIOUS
  <2>2. PICK i \in T : \A x \in T : i <= x
    <3>1. T \subseteq Nat
      OBVIOUS
    <3> HIDE DEF T
    <3> QED BY <2>1, <3>1, LeastNat
  <2>3. i \in 1..(n + 8) /\ at[i] \notin S
    BY <2>2
  <2>4. i # 1
    BY <1>5, <1>13, <2>3
  <2>5. i - 1 \in 1..(n + 8) /\ i - 1 \notin T
    BY <2>2, <2>3, <2>4
  <2>6. at[i - 1] \in S
    BY <2>5
  <2>7. i - 1 \in 1..N /\ (i - 1) - 1 = i - 2
    BY <2>3, <2>4
  <2>8. (5 * at[i - 1] + Shifted(h, i - 2) + 1) % n \in S
    BY <1>2, <2>6, <2>7
  <2> QED BY <1>13, <2>3, <2>4, <2>8
<1>16. at \in [1..(n + 8) -> S]
  BY <1>12, <1>15
<1>17. \A i \in 2..(n + 8) : i \in 1..(n + 8) /\ i # 1
  OBVIOUS
<1> QED BY <1>13, <1>14, <1>16, <1>17

\* Sizes of tables are not 0.
LEMMA SizeFacts ==
  ASSUME NEW n \in Range(TableSize)
  PROVE  /\ n \in Nat /\ n >= 2
         /\ \E m \in Nat : \E l \in 0..m : \E p : Doubles(p, 1, m) /\ p[l] = n
<1>1. PICK e \in 0..Doublings : n = TableSize[e]
  BY TableSizeDef DEF Range
<1>2. PICK m \in Nat : \E p : /\ Doubles(p, 1, m)
                             /\ \A x \in 0..Doublings : \E i \in 1..m : p[i] = TableSize[x]
  BY SizesArePowers
<1>3. PICK p : /\ Doubles(p, 1, m)
               /\ \A x \in 0..Doublings : \E i \in 1..m : p[i] = TableSize[x]
  BY <1>2
<1>4. PICK i \in 1..m : p[i] = n
  BY <1>1, <1>3
<1>5. p \in [0..m -> Nat] /\ p[0] = 1 /\ \A j \in 1..m : p[j] = 2 * p[j - 1]
  BY <1>3 DEF Doubles
<1>6. \A j \in 0..m : p[j] >= 1
  <2> DEFINE T == {j \in 0..m : ~ (p[j] >= 1)}
  <2>1. SUFFICES ASSUME T # {} PROVE FALSE
    OBVIOUS
  <2>2. PICK j \in T : \A x \in T : j <= x
    <3>1. T \subseteq Nat
      OBVIOUS
    <3> HIDE DEF T
    <3> QED BY <2>1, <3>1, LeastNat
  <2>3. j \in 0..m /\ ~ (p[j] >= 1)
    BY <2>2
  <2>4. j # 0
    BY <1>5, <2>3
  <2>5. j \in 1..m /\ j - 1 \in 0..m /\ j - 1 \notin T
    BY <2>2, <2>3, <2>4
  <2>6. p[j - 1] >= 1 /\ p[j - 1] \in Nat
    BY <1>5, <2>5
  <2> QED BY <1>5, <2>3, <2>5, <2>6
<1>7. n \in Nat /\ n >= 2
  <2>1. i - 1 \in 0..m /\ i \in 0..m
    OBVIOUS
  <2>2. p[i - 1] \in Nat /\ p[i - 1] >= 1 /\ p[i] = 2 * p[i - 1]
    BY <1>5, <1>6, <2>1
  <2> QED BY <1>4, <2>2
<1>8. i \in Nat /\ i \in 0..m
  OBVIOUS
<1> QED BY <1>3, <1>4, <1>7, <1>8

\* hash_lookup looks at slots of the table only, and at all of them: the steps
\* 5 * index + 1 that are left when perturb is 0 miss none.
THEOREM ProbesVisitAll ==
  ASSUME NEW h \in Range(Hash), NEW n \in Range(TableSize)
  PROVE  /\ Probes[h][n] \in [1..(n + 8) -> 0..(n - 1)]
         /\ \A y \in 0..(n - 1) : \E i \in 1..(n + 8) : Probes[h][n][i] = y
<1> DEFINE at == Path(h, n)
<1>1. Probes[h][n] = at
  BY DEF Probes
<1>2. h \in Nat
  BY HashAssumption DEF Range
<1>3. n \in Nat /\ n >= 2 /\ n >= 1
  BY SizeFacts
<1>4. /\ at \in [1..(n + 8) -> 0..(n - 1)]
      /\ \A i \in 2..(n + 8) : at[i] = (5 * at[i - 1] + Shifted(h, i - 2) + 1) % n
  BY <1>2, <1>3, PathDef
<1> HIDE DEF at
<1>5. Orbit(at, 8, n + 8, n)
  <2>1. \A i \in 8..(n + 8) : i \in 1..(n + 8)
    OBVIOUS
  <2>2. \A i \in 8..(n + 8) : at[i] \in Nat
    <3>1. \A i \in 1..(n + 8) : at[i] \in 0..(n - 1)
      BY <1>4
    <3>2. 0..(n - 1) \subseteq Nat
      OBVIOUS
    <3> QED BY <2>1, <3>1, <3>2
  <2>3. ASSUME NEW i \in 8..((n + 8) - 1)
        PROVE  \E z \in Int : at[i + 1] = 5 * at[i] + 1 + n * z
    <3>1. i + 1 \in 2..(n + 8) /\ (i + 1) - 1 = i /\ (i + 1) - 2 \in Nat /\ (i + 1) - 2 >= 7
      BY <1>3
    <3>2. Shifted(h, (i + 1) - 2) = 0
      BY <1>2, <3>1, ShiftedNat
    <3>3. at[i + 1] = (5 * at[i] + Shifted(h, (i + 1) - 2) + 1) % n
      BY <1>4, <3>1
    <3>4. i \in 8..(n + 8)
      BY <1>3
    <3>5. at[i] \in Nat
      BY <2>2, <3>4
    <3>6. at[i + 1] = (5 * at[i] + 1) % n
      BY <3>2, <3>3, <3>5
    <3> DEFINE x == 5 * at[i] + 1
    <3>7. x \in Nat
      BY <3>5
    <3>8. at[i + 1] = x + n * (- (x \div n)) /\ - (x \div n) \in Int
      <4>1. at[i + 1] = x % n
        BY <3>6
      <4> HIDE DEF x
      <4> QED BY <1>3, <3>7, <4>1
    <3> QED BY <3>8
  <2> QED BY <2>2, <2>3 DEF Orbit
<1>6. PICK m \in Nat : \E l \in 0..m : \E p : Doubles(p, 1, m) /\ p[l] = n
  BY SizeFacts
<1>8. PICK l \in 0..m : \E p : Doubles(p, 1, m) /\ p[l] = n
  BY <1>6
<1>9. PICK p : Doubles(p, 1, m) /\ p[l] = n
  BY <1>8
<1>7. ASSUME NEW y \in 0..(n - 1)
      PROVE  \E i \in 1..(n + 8) : at[i] = y
  <2>1. \A i \in 8..(n + 8) : at[i] < n /\ i \in 1..(n + 8)
    <3>1. \A i \in 1..(n + 8) : at[i] \in 0..(n - 1)
      BY <1>4
    <3>2. \A x \in 0..(n - 1) : x < n
      BY <1>3
    <3>3. \A i \in 8..(n + 8) : i \in 1..(n + 8)
      OBVIOUS
    <3> QED BY <3>1, <3>2, <3>3
  <2>2. 8 \in Nat /\ n + 8 \in Nat /\ 8 + n <= (n + 8) + 1
    BY <1>3
  <2> DEFINE lo == 8
             hi == n + 8
  <2>3. lo \in Nat /\ hi \in Nat /\ lo + n <= hi + 1 /\ Orbit(at, lo, hi, n)
        /\ (\A i \in lo..hi : at[i] < n)
    BY <1>5, <2>1, <2>2
  <2> HIDE DEF lo, hi
  <2>4. \E i \in lo..hi : at[i] = y
    BY <1>3, <1>9, <2>3, FullPeriod
  <2> QED BY <2>1, <2>4 DEF lo, hi
<1> QED BY <1>1, <1>4, <1>7

-----------------------------------------------------------------------------
(* Tables. *)

\* The slots of a table with values in V, and the tables.
Slot(V)   == {Empty, Deleted} \cup (Key \X V)
Tables(V) ==
  [slots : UNION {[0..(n - 1) -> Slot(V)] : n \in Range(TableSize)},
   fill : Nat, count : Nat, failed : Nat]

Filled(t) == {i \in DOMAIN t.slots : t.slots[i] # Empty}
Used(t)   == {i \in DOMAIN t.slots : Active(t.slots[i])}
Pairs(t)  == {t.slots[i] : i \in Used(t)}

\* The slots that hash_lookup visits, and what it may pass: slots that were
\* used, of other keys.
Way(t, k) == Probes[Hash[k]][Size(t)]
Passes(t, k, m) == \A l \in 1..(m - 1) : ~ Stops(t, Way(t, k)[l], k)

\* Where a key is, hash_lookup comes by.
Found(t) ==
  \A k \in Key, j \in DOMAIN t.slots :
    Holds(t, j, k) => \E m \in DOMAIN Way(t, k) : Way(t, k)[m] = j /\ Passes(t, k, m)

Counted(t) == t.fill = Cardinality(Filled(t)) /\ t.count = Cardinality(Used(t))

Well(t, V) == t \in Tables(V) /\ Counted(t) /\ Found(t)

\* A search that finds nothing can end.
Gap(t) == \E i \in DOMAIN t.slots : t.slots[i] = Empty

Put(f, i, s)         == [f EXCEPT ![i] = s]
Patch(t, i, s, a, b) == [t EXCEPT !.slots[i] = s, !.fill = a, !.count = b]

Absent(t, k) == \A j \in DOMAIN t.slots : ~ Holds(t, j, k)

\* The three kinds of slots are different.
LEMMA SlotFacts ==
  ASSUME NEW V
  PROVE  /\ ~ Active(Empty) /\ ~ Active(Deleted) /\ Empty # Deleted
         /\ \A k, v : Active(<<k, v>>) /\ <<k, v>>[1] = k /\ <<k, v>>[2] = v /\ <<k, v>> # Empty
         /\ \A s \in Slot(V) : Active(s) => s \in Key \X V /\ s = <<s[1], s[2]>> /\ s[1] \in Key /\ s[2] \in V
<1>1. Len(Empty) = 0 /\ Len(Deleted) = 1 /\ \A k, v : Len(<<k, v>>) = 2
  BY DEF Empty, Deleted
<1>2. ~ Active(Empty) /\ ~ Active(Deleted) /\ Empty # Deleted /\ \A k, v : Active(<<k, v>>) /\ <<k, v>> # Empty
  BY <1>1 DEF Active
<1>3. \A s \in Slot(V) : Active(s) => s \in Key \X V
  BY <1>2 DEF Slot
<1>4. \A s \in Key \X V : s = <<s[1], s[2]>> /\ s[1] \in Key /\ s[2] \in V
  OBVIOUS
<1> QED BY <1>2, <1>3, <1>4

\* The size of a table and its slots.
LEMMA TableFacts ==
  ASSUME NEW V, NEW t \in Tables(V)
  PROVE  /\ Size(t) \in Range(TableSize) /\ Size(t) \in Nat /\ Size(t) >= 2
         /\ DOMAIN t.slots = 0..(Size(t) - 1)
         /\ t.slots \in [0..(Size(t) - 1) -> Slot(V)]
         /\ t.fill \in Nat /\ t.count \in Nat /\ t.failed \in Nat
<1>1. PICK n \in Range(TableSize) : t.slots \in [0..(n - 1) -> Slot(V)]
  BY DEF Tables
<1>2. n \in Nat /\ n >= 2
  BY SizeFacts
<1>3. Cardinality(0..(n - 1)) = n
  <2>1. 0 \in Int /\ n - 1 \in Int /\ ~ (0 > n - 1)
    BY <1>2
  <2>2. Cardinality(0..(n - 1)) = (n - 1) - 0 + 1
    BY <2>1, FS_Interval
  <2> QED BY <1>2, <2>2
<1>4. Size(t) = n
  BY <1>1, <1>3 DEF Size
<1>5. t.fill \in Nat /\ t.count \in Nat /\ t.failed \in Nat
  BY DEF Tables
<1> QED BY <1>1, <1>2, <1>4, <1>5

\* The way of a key is what ProbesVisitAll says.
LEMMA WayFacts ==
  ASSUME NEW V, NEW t \in Tables(V), NEW k \in Key
  PROVE  /\ Way(t, k) \in [1..(Size(t) + 8) -> DOMAIN t.slots]
         /\ \A j \in DOMAIN t.slots : \E m \in 1..(Size(t) + 8) : Way(t, k)[m] = j
<1>1. Hash[k] \in Range(Hash)
  BY HashAssumption DEF Range
<1>2. Size(t) \in Range(TableSize) /\ DOMAIN t.slots = 0..(Size(t) - 1)
  BY TableFacts
<1> DEFINE h == Hash[k]
           n == Size(t)
<1>3. Way(t, k) = Probes[h][n]
  BY DEF Way
<1>4. h \in Range(Hash) /\ n \in Range(TableSize)
  BY <1>1, <1>2
<1> HIDE DEF h, n
<1>5. /\ Probes[h][n] \in [1..(n + 8) -> 0..(n - 1)]
      /\ \A y \in 0..(n - 1) : \E i \in 1..(n + 8) : Probes[h][n][i] = y
  BY <1>4, ProbesVisitAll
<1>6. DOMAIN t.slots = 0..(n - 1)
  BY <1>2 DEF n
<1> QED BY <1>3, <1>5, <1>6 DEF n

\* hash_lookup ends at the first slot on the way that stops it.
LEMMA SearchEnds ==
  ASSUME NEW V, NEW t \in Tables(V), NEW k \in Key, Gap(t)
  PROVE  /\ Ends(t, k)
         /\ Steps(t, k) \in 1..(Size(t) + 8)
         /\ Stops(t, Way(t, k)[Steps(t, k)], k)
         /\ Passes(t, k, Steps(t, k))
<1> DEFINE N == Size(t) + 8
           at == Way(t, k)
           T == {m \in 1..N : Stops(t, at[m], k)}
<1>1. N \in Nat /\ DOMAIN at = 1..N
  BY TableFacts, WayFacts
<1>2. \E m \in 1..N : Stops(t, at[m], k)
  <2>1. PICK j \in DOMAIN t.slots : t.slots[j] = Empty
    BY DEF Gap
  <2>2. PICK m \in 1..N : at[m] = j
    BY WayFacts
  <2> QED BY <2>1, <2>2 DEF Stops
<1>3. PICK m \in T : \A x \in T : m <= x
  <2>1. T \subseteq Nat /\ T # {}
    BY <1>2
  <2> HIDE DEF T
  <2> QED BY <2>1, LeastNat
<1>4. \A l \in 1..(m - 1) : ~ Stops(t, at[l], k)
  <2>1. \A l \in 1..(m - 1) : l \in 1..N /\ ~ (m <= l)
    BY <1>1, <1>3
  <2> QED BY <2>1, <1>3
<1> DEFINE First(i) == Stops(t, at[i], k) /\ \A l \in 1..(i - 1) : ~ Stops(t, at[l], k)
<1>5. m \in 1..N /\ First(m)
  BY <1>3, <1>4
<1>6. Steps(t, k) = CHOOSE i \in 1..N : First(i)
  BY <1>1 DEF Steps, Way
<1>7. Steps(t, k) \in 1..N /\ First(Steps(t, k))
  <2> HIDE DEF First, N
  <2> QED BY <1>5, <1>6
<1>8. Ends(t, k)
  BY <1>1, <1>2 DEF Ends, Way
<1> QED BY <1>7, <1>8 DEF Passes

\* hash_lookup finds the slot of the key if there is one, else a slot that is
\* free, on the way and before the first empty one.
LEMMA LookupFacts ==
  ASSUME NEW V, NEW t \in Tables(V), NEW k \in Key, Found(t), Gap(t)
  PROVE  LET i == Lookup(t, k) IN
         /\ i \in DOMAIN t.slots
         /\ \A j \in DOMAIN t.slots : Holds(t, j, k) => j = i
         /\ Holds(t, i, k) \/ t.slots[i] \in {Empty, Deleted}
         /\ ~ Holds(t, i, k) =>
              \E m \in DOMAIN Way(t, k) : Way(t, k)[m] = i /\ Passes(t, k, m)
<1> DEFINE N == Size(t) + 8
           at == Way(t, k)
           n == Steps(t, k)
           gaps == {i \in 1..n : t.slots[at[i]] = Deleted}
           first == CHOOSE i \in gaps : \A j \in gaps : i <= j
<1>1. N \in Nat /\ at \in [1..N -> DOMAIN t.slots] /\ DOMAIN at = 1..N
  BY TableFacts, WayFacts
<1>2. n \in 1..N /\ Stops(t, at[n], k) /\ Passes(t, k, n)
  BY SearchEnds
<1>3. Lookup(t, k) = IF Holds(t, at[n], k) \/ gaps = {} THEN at[n] ELSE at[first]
  BY DEF Lookup, Way
<1>4. ASSUME NEW j \in DOMAIN t.slots, Holds(t, j, k)
      PROVE  j = at[n] /\ Holds(t, at[n], k)
  <2>1. PICK m \in 1..N : at[m] = j /\ Passes(t, k, m)
    BY <1>1, <1>4 DEF Found
  <2>2. Stops(t, at[m], k)
    BY <1>4, <2>1 DEF Stops
  <2>3. ~ (n < m)
    <3>1. n < m => n \in 1..(m - 1)
      BY <1>2, <2>1
    <3> QED BY <1>2, <2>1, <3>1 DEF Passes
  <2>4. ~ (m < n)
    <3>1. m < n => m \in 1..(n - 1)
      BY <1>2, <2>1
    <3> QED BY <1>2, <2>2, <3>1 DEF Passes
  <2>5. m = n
    <3> HIDE DEF n, N
    <3> QED BY <1>1, <1>2, <2>1, <2>3, <2>4
  <2> QED BY <1>4, <2>1, <2>5
<1>5. CASE Holds(t, at[n], k) \/ gaps = {}
  <2>1. Lookup(t, k) = at[n] /\ at[n] \in DOMAIN t.slots
    BY <1>1, <1>2, <1>3, <1>5
  <2>2. Holds(t, at[n], k) \/ t.slots[at[n]] = Empty
    BY <1>2 DEF Stops
  <2> QED BY <1>1, <1>2, <1>4, <2>1, <2>2
<1>6. CASE ~ (Holds(t, at[n], k) \/ gaps = {})
  <2>1. first \in gaps
    <3>1. gaps \subseteq Nat /\ gaps # {}
      BY <1>2, <1>6
    <3> HIDE DEF gaps
    <3>2. \E i \in gaps : \A j \in gaps : i <= j
      BY <3>1, LeastNat
    <3> QED BY <3>2
  <2>2. first \in 1..n /\ t.slots[at[first]] = Deleted
    <3> HIDE DEF first
    <3> QED BY <2>1
  <2>3. Lookup(t, k) = at[first]
    BY <1>3, <1>6
  <2> HIDE DEF first
  <2>4. first \in 1..N
    <3> HIDE DEF n
    <3> QED BY <1>1, <1>2, <2>2
  <2>5. at[first] \in DOMAIN t.slots
    BY <1>1, <2>4
  <2>6. Passes(t, k, first)
    <3>1. \A l \in 1..(first - 1) : l \in 1..(n - 1)
      <4> HIDE DEF n
      <4> QED BY <1>1, <1>2, <2>2
    <3> QED BY <1>2, <3>1 DEF Passes
  <2>7. \A j \in DOMAIN t.slots : ~ Holds(t, j, k)
    BY <1>4, <1>6
  <2> QED BY <1>1, <2>2, <2>3, <2>4, <2>5, <2>6, <2>7
<1> QED BY <1>5, <1>6

\* A table that is not full has an empty slot; no more slots are in use than
\* are filled.
LEMMA GapFromFill ==
  ASSUME NEW V, NEW t \in Tables(V), Counted(t)
  PROVE  /\ t.fill < Size(t) => Gap(t)
         /\ t.count <= t.fill
         /\ IsFiniteSet(Filled(t)) /\ IsFiniteSet(Used(t))
<1>1. DOMAIN t.slots = 0..(Size(t) - 1) /\ Size(t) \in Nat /\ Size(t) >= 2
  BY TableFacts
<1>2. IsFiniteSet(DOMAIN t.slots)
  <2>1. 0 \in Int /\ Size(t) - 1 \in Int
    BY <1>1
  <2> QED BY <1>1, <2>1, FS_Interval
<1>3. Filled(t) \subseteq DOMAIN t.slots /\ Used(t) \subseteq Filled(t)
  BY SlotFacts DEF Filled, Used
<1>4. IsFiniteSet(Filled(t))
  BY <1>2, <1>3, FS_Subset
<1>5. IsFiniteSet(Used(t)) /\ Cardinality(Used(t)) <= Cardinality(Filled(t))
  BY <1>3, <1>4, FS_Subset
<1>6. ASSUME ~ Gap(t) PROVE ~ (t.fill < Size(t))
  <2>1. Filled(t) = DOMAIN t.slots
    BY <1>6 DEF Gap, Filled
  <2>2. t.fill = Size(t)
    BY <2>1 DEF Counted, Size
  <2> QED BY <1>1, <2>2
<1> QED BY <1>4, <1>5, <1>6 DEF Counted

\* A slot that is filled with s, when searches for the key of s come there,
\* and no other slot has that key: all keys are still found.
LEMMA FoundKept ==
  ASSUME NEW V, NEW t \in Tables(V), NEW u \in Tables(V), NEW i \in DOMAIN t.slots, NEW s,
         u.slots = Put(t.slots, i, s), s # Empty, Found(t),
         \A k \in Key : Holds(u, i, k) =>
           /\ \A j \in DOMAIN t.slots : Holds(t, j, k) => j = i
           /\ \E m \in DOMAIN Way(t, k) : Way(t, k)[m] = i /\ Passes(t, k, m)
  PROVE  Found(u)
<1>1. DOMAIN u.slots = DOMAIN t.slots /\ Size(u) = Size(t)
  BY DEF Size, Put
<1>2. u.slots[i] = s /\ \A j \in DOMAIN t.slots : j # i => u.slots[j] = t.slots[j]
  BY DEF Put
<1>3. SUFFICES ASSUME NEW k \in Key, NEW j \in DOMAIN t.slots, Holds(u, j, k)
               PROVE  \E m \in DOMAIN Way(u, k) : Way(u, k)[m] = j /\ Passes(u, k, m)
  BY <1>1 DEF Found
<1> DEFINE at == Way(t, k)
           N == Size(t) + 8
<1>4. at = Way(u, k) /\ at \in [1..N -> DOMAIN t.slots] /\ N \in Nat /\ DOMAIN at = 1..N
  <2>1. at = Way(u, k)
    BY <1>1 DEF Way
  <2>2. at \in [1..N -> DOMAIN t.slots] /\ N \in Nat
    BY TableFacts, WayFacts
  <2> QED BY <2>1, <2>2
<1>5. CASE j = i
  <2>1. PICK n \in 1..N : at[n] = i /\ Passes(t, k, n)
    BY <1>3, <1>4, <1>5
  <2> DEFINE T == {m \in 1..N : at[m] = i}
  <2>2. PICK m \in T : \A x \in T : m <= x
    <3>1. T \subseteq Nat /\ T # {}
      BY <2>1
    <3> HIDE DEF T
    <3> QED BY <3>1, LeastNat
  <2>3. m \in 1..N /\ at[m] = i /\ m <= n
    BY <2>1, <2>2
  <2>4. ASSUME NEW l \in 1..(m - 1) PROVE ~ Stops(u, at[l], k)
    <3>1. l \in 1..N /\ ~ (m <= l) /\ l \in 1..(n - 1)
      BY <1>4, <2>1, <2>3
    <3>2. at[l] # i /\ at[l] \in DOMAIN t.slots
      BY <1>4, <2>2, <3>1
    <3>3. ~ Stops(t, at[l], k)
      BY <2>1, <3>1 DEF Passes
    <3>4. u.slots[at[l]] = t.slots[at[l]]
      BY <1>2, <3>2
    <3> QED BY <3>3, <3>4 DEF Stops, Holds
  <2>5. Passes(u, k, m)
    BY <1>4, <2>4 DEF Passes
  <2> QED BY <1>4, <1>5, <2>3, <2>5
<1>6. CASE j # i
  <2>1. Holds(t, j, k)
    BY <1>2, <1>3, <1>6 DEF Holds
  <2>2. PICK m \in 1..N : at[m] = j /\ Passes(t, k, m)
    BY <1>4, <2>1 DEF Found
  <2>3. ~ Holds(u, i, k)
    BY <1>6, <2>1
  <2>4. ASSUME NEW l \in 1..(m - 1) PROVE ~ Stops(u, at[l], k)
    <3>1. ~ Stops(t, at[l], k)
      BY <2>2 DEF Passes
    <3>2. l \in 1..N
      BY <1>4, <2>2
    <3>3. at[l] \in DOMAIN t.slots
      BY <1>4, <3>2
    <3>4. CASE at[l] = i
      BY <1>2, <2>3, <3>4 DEF Stops
    <3>5. CASE at[l] # i
      <4>1. u.slots[at[l]] = t.slots[at[l]]
        BY <1>2, <3>3, <3>5
      <4> QED BY <3>1, <4>1 DEF Stops, Holds
    <3> QED BY <3>4, <3>5
  <2>5. Passes(u, k, m)
    BY <1>4, <2>4 DEF Passes
  <2> QED BY <1>4, <2>2, <2>5
<1> QED BY <1>5, <1>6

\* What one slot contributes to the counts and to the pairs.
LEMMA SlotCounts ==
  ASSUME NEW V, NEW t \in Tables(V), NEW u \in Tables(V), NEW i \in DOMAIN t.slots, NEW s,
         u.slots = Put(t.slots, i, s), s # Empty, Counted(t)
  PROVE  /\ Size(u) = Size(t)
         /\ Cardinality(Filled(u)) = IF t.slots[i] = Empty THEN t.fill + 1 ELSE t.fill
         /\ Cardinality(Used(u)) =
              IF Active(s) THEN IF Active(t.slots[i]) THEN t.count ELSE t.count + 1
              ELSE IF Active(t.slots[i]) THEN t.count - 1 ELSE t.count
         /\ Pairs(u) = {t.slots[j] : j \in Used(t) \ {i}} \cup (IF Active(s) THEN {s} ELSE {})
<1>1. DOMAIN u.slots = DOMAIN t.slots /\ Size(u) = Size(t)
  BY DEF Size, Put
<1>2. u.slots[i] = s /\ \A j \in DOMAIN t.slots : j # i => u.slots[j] = t.slots[j]
  BY DEF Put
<1>3. Filled(u) = Filled(t) \cup {i}
  BY <1>1, <1>2 DEF Filled
<1>4. Active(s) => Used(u) = Used(t) \cup {i}
  BY <1>1, <1>2 DEF Used
<1>5. ~ Active(s) => Used(u) = Used(t) \ {i}
  BY <1>1, <1>2 DEF Used
<1>6. /\ t.slots[i] = Empty <=> i \notin Filled(t)
      /\ Active(t.slots[i]) <=> i \in Used(t)
  BY DEF Filled, Used
<1>7. IsFiniteSet(Filled(t)) /\ IsFiniteSet(Used(t))
  BY GapFromFill
<1>8. t.fill = Cardinality(Filled(t)) /\ t.count = Cardinality(Used(t))
  BY DEF Counted
<1>9. Cardinality(Filled(t) \cup {i}) =
        IF i \in Filled(t) THEN Cardinality(Filled(t)) ELSE Cardinality(Filled(t)) + 1
  BY <1>7, FS_AddElement
<1>10. Cardinality(Used(t) \cup {i}) =
        IF i \in Used(t) THEN Cardinality(Used(t)) ELSE Cardinality(Used(t)) + 1
  BY <1>7, FS_AddElement
<1>11. Cardinality(Used(t) \ {i}) =
        IF i \in Used(t) THEN Cardinality(Used(t)) - 1 ELSE Cardinality(Used(t))
  BY <1>7, FS_RemoveElement
<1>12. Cardinality(Filled(u)) = IF t.slots[i] = Empty THEN t.fill + 1 ELSE t.fill
  BY <1>3, <1>6, <1>8, <1>9
<1>13. Cardinality(Used(u)) =
              IF Active(s) THEN IF Active(t.slots[i]) THEN t.count ELSE t.count + 1
              ELSE IF Active(t.slots[i]) THEN t.count - 1 ELSE t.count
  BY <1>4, <1>5, <1>6, <1>8, <1>10, <1>11
<1>14. Used(u) = (Used(t) \ {i}) \cup (IF Active(s) THEN {i} ELSE {})
  BY <1>4, <1>5
<1>15. Used(t) \subseteq DOMAIN t.slots
  BY DEF Used
<1>16. Pairs(u) = {t.slots[j] : j \in Used(t) \ {i}} \cup (IF Active(s) THEN {s} ELSE {})
  <2>1. \A j \in Used(t) \ {i} : u.slots[j] = t.slots[j]
    BY <1>2, <1>15
  <2> QED BY <1>2, <1>14, <2>1 DEF Pairs
<1> QED BY <1>1, <1>12, <1>13, <1>16

\* The pairs of other slots are those of other keys.
LEMMA OtherPairs ==
  ASSUME NEW V, NEW t \in Tables(V), NEW k \in Key, NEW i \in DOMAIN t.slots,
         \A j \in DOMAIN t.slots : Holds(t, j, k) => j = i,
         Holds(t, i, k) \/ ~ Active(t.slots[i])
  PROVE  {t.slots[j] : j \in Used(t) \ {i}} = {x \in Pairs(t) : x[1] # k}
<1>1. \A j \in Used(t) : j \in DOMAIN t.slots /\ Active(t.slots[j]) /\ (Holds(t, j, k) <=> t.slots[j][1] = k)
  BY DEF Used, Holds
<1>2. \A j \in Used(t) \ {i} : t.slots[j] \in Pairs(t) /\ t.slots[j][1] # k
  BY <1>1 DEF Pairs
<1>3. ASSUME NEW x \in Pairs(t), x[1] # k
      PROVE  x \in {t.slots[j] : j \in Used(t) \ {i}}
  <2>1. PICK j \in Used(t) : x = t.slots[j]
    BY DEF Pairs
  <2>2. j # i
    BY <1>1, <1>3, <2>1 DEF Holds
  <2> QED BY <2>1, <2>2
<1> QED BY <1>2, <1>3

\* A table with another slot and other counters is a table.
LEMMA OtherSlot ==
  ASSUME NEW V, NEW t \in Tables(V), NEW i \in DOMAIN t.slots, NEW s \in Slot(V),
         NEW a \in Nat, NEW b \in Nat
  PROVE  LET u == Patch(t, i, s, a, b) IN
         /\ u \in Tables(V)
         /\ u.slots = Put(t.slots, i, s) /\ u.fill = a /\ u.count = b /\ u.failed = t.failed
<1> DEFINE u == Patch(t, i, s, a, b)
           new == Put(t.slots, i, s)
           U == UNION {[0..(n - 1) -> Slot(V)] : n \in Range(TableSize)}
<1>1. PICK n \in Range(TableSize) : t.slots \in [0..(n - 1) -> Slot(V)]
  BY DEF Tables
<1>2. new \in [0..(n - 1) -> Slot(V)]
  BY <1>1 DEF Put
<1>3. new \in U
  <2> HIDE DEF new
  <2> QED BY <1>2
<1>4. t \in [slots : U, fill : Nat, count : Nat, failed : Nat]
  BY DEF Tables
<1> HIDE DEF U
<1>5. /\ t.failed \in Nat
      /\ t = [slots |-> t.slots, fill |-> t.fill, count |-> t.count, failed |-> t.failed]
  BY <1>4
<1>6. u = [slots |-> new, fill |-> a, count |-> b, failed |-> t.failed]
  <2> DEFINE sl == t.slots
             f == t.fill
             c == t.count
             d == t.failed
  <2>1. t = [slots |-> sl, fill |-> f, count |-> c, failed |-> d]
    BY <1>5
  <2> HIDE DEF sl, f, c, d
  <2> DEFINE u1 == [t EXCEPT !.slots = new]
             u2 == [u1 EXCEPT !.fill = a]
             u3 == [u2 EXCEPT !.count = b]
  <2>2. u = u3
    BY DEF Patch, Put
  <2> HIDE DEF new
  <2>3. u1 = [slots |-> new, fill |-> f, count |-> c, failed |-> d]
    BY <2>1
  <2> HIDE DEF u1
  <2>4. u2 = [slots |-> new, fill |-> a, count |-> c, failed |-> d]
    BY <2>3
  <2> HIDE DEF u2
  <2>5. u3 = [slots |-> new, fill |-> a, count |-> b, failed |-> d]
    BY <2>4
  <2> QED BY <2>2, <2>5 DEF d
<1> HIDE DEF u, new
<1>7. u \in [slots : U, fill : Nat, count : Nat, failed : Nat]
  BY <1>3, <1>5, <1>6
<1>8. u.slots = new /\ u.fill = a /\ u.count = b /\ u.failed = t.failed
  BY <1>6
<1> QED BY <1>7, <1>8 DEF Tables, U, u, new

\* The slot that hash_lookup returns is filled with the key.
LEMMA InsertFacts ==
  ASSUME NEW V, NEW t, Well(t, V), Gap(t), NEW k \in Key, NEW v \in V, Absent(t, k)
  PROVE  LET u == Insert(t, k, v) IN
         /\ Well(u, V)
         /\ Size(u) = Size(t) /\ u.failed = t.failed /\ u.count = t.count + 1
         /\ u.fill = t.fill \/ u.fill = t.fill + 1
         /\ Pairs(u) = Pairs(t) \cup {<<k, v>>}
<1> DEFINE i == Lookup(t, k)
           s == <<k, v>>
           a == IF t.slots[i] = Empty THEN t.fill + 1 ELSE t.fill
           b == t.count + 1
           u == Insert(t, k, v)
<1>1. t \in Tables(V) /\ Counted(t) /\ Found(t)
  BY DEF Well
<1>2. /\ i \in DOMAIN t.slots
      /\ ~ Holds(t, i, k)
      /\ t.slots[i] \in {Empty, Deleted}
      /\ \E m \in DOMAIN Way(t, k) : Way(t, k)[m] = i /\ Passes(t, k, m)
  BY <1>1, LookupFacts DEF Absent
<1>3. s \in Slot(V) /\ Active(s) /\ s # Empty /\ s[1] = k /\ ~ Active(t.slots[i])
  BY <1>2, SlotFacts DEF Slot
<1>4. a \in Nat /\ b \in Nat /\ t.fill \in Nat /\ t.count \in Nat
  BY <1>1, TableFacts
<1>5. u = Patch(t, i, s, a, b)
  BY <1>1 DEF Insert, Tables, Patch
<1> HIDE DEF u, s, i, b
<1>6. /\ u \in Tables(V)
      /\ u.slots = Put(t.slots, i, s) /\ u.fill = a /\ u.count = b /\ u.failed = t.failed
  <2> HIDE DEF a
  <2> QED BY <1>1, <1>2, <1>3, <1>4, <1>5, OtherSlot
<1>7. /\ Size(u) = Size(t)
      /\ Cardinality(Filled(u)) = IF t.slots[i] = Empty THEN t.fill + 1 ELSE t.fill
      /\ Cardinality(Used(u)) =
              IF Active(s) THEN IF Active(t.slots[i]) THEN t.count ELSE t.count + 1
              ELSE IF Active(t.slots[i]) THEN t.count - 1 ELSE t.count
      /\ Pairs(u) = {t.slots[j] : j \in Used(t) \ {i}} \cup (IF Active(s) THEN {s} ELSE {})
  BY <1>1, <1>2, <1>3, <1>6, SlotCounts
<1>8. Counted(u)
  BY <1>3, <1>6, <1>7 DEF Counted, b
<1>9. Found(u)
  <2>1. u.slots[i] = s
    BY <1>2, <1>6 DEF Put
  <2>2. ASSUME NEW x \in Key, Holds(u, i, x)
        PROVE  /\ \A j \in DOMAIN t.slots : Holds(t, j, x) => j = i
               /\ \E m \in DOMAIN Way(t, x) : Way(t, x)[m] = i /\ Passes(t, x, m)
    <3>1. x = k
      BY <1>3, <2>1, <2>2 DEF Holds
    <3> QED BY <1>2, <3>1 DEF Absent
  <2> QED BY <1>1, <1>2, <1>3, <1>6, <2>2, FoundKept
<1>10. Pairs(u) = Pairs(t) \cup {s}
  <2>1. i \notin Used(t)
    BY <1>3 DEF Used
  <2>2. {t.slots[j] : j \in Used(t) \ {i}} = Pairs(t)
    BY <2>1 DEF Pairs
  <2> QED BY <1>3, <1>7, <2>2
<1> QED BY <1>1, <1>6, <1>7, <1>8, <1>9, <1>10 DEF Well, u, s, b

Marked(t, k) == [t EXCEPT !.slots[Lookup(t, k)] = Deleted, !.count = @ - 1]

\* The slot of a key is marked as deleted, as hash_del does first.
LEMMA MarkFacts ==
  ASSUME NEW V, NEW t, Well(t, V), Gap(t), NEW k \in Key, IsSet(t, k)
  PROVE  LET u == Marked(t, k) IN
         /\ Well(u, V)
         /\ Size(u) = Size(t) /\ u.failed = t.failed /\ u.count = t.count - 1 /\ u.fill = t.fill
         /\ Pairs(u) = {x \in Pairs(t) : x[1] # k}
<1> DEFINE i == Lookup(t, k)
           a == t.fill
           b == t.count - 1
           u == Marked(t, k)
<1>1. t \in Tables(V) /\ Counted(t) /\ Found(t)
  BY DEF Well
<1>2. /\ i \in DOMAIN t.slots
      /\ \A j \in DOMAIN t.slots : Holds(t, j, k) => j = i
      /\ Holds(t, i, k) /\ Active(t.slots[i]) /\ t.slots[i] # Empty
  BY <1>1, LookupFacts, SlotFacts DEF IsSet
<1>3. Deleted \in Slot(V) /\ ~ Active(Deleted) /\ Deleted # Empty
  BY SlotFacts DEF Slot
<1>4. a \in Nat /\ b \in Nat /\ t.count \in Nat
  <2>1. a \in Nat /\ t.count \in Nat
    BY <1>1, TableFacts
  <2>2. i \in Used(t) /\ IsFiniteSet(Used(t))
    BY <1>1, <1>2, GapFromFill DEF Used
  <2>3. t.count # 0
    BY <1>1, <2>2, FS_EmptySet DEF Counted
  <2> QED BY <2>1, <2>3
<1>5. u = Patch(t, i, Deleted, a, b)
  BY <1>1 DEF Tables, Patch, Marked
<1> HIDE DEF u, i, b
<1>6. /\ u \in Tables(V)
      /\ u.slots = Put(t.slots, i, Deleted) /\ u.fill = a /\ u.count = b /\ u.failed = t.failed
  <2> HIDE DEF a
  <2> QED BY <1>1, <1>2, <1>3, <1>4, <1>5, OtherSlot
<1>7. /\ Size(u) = Size(t)
      /\ Cardinality(Filled(u)) = IF t.slots[i] = Empty THEN t.fill + 1 ELSE t.fill
      /\ Cardinality(Used(u)) =
              IF Active(Deleted) THEN IF Active(t.slots[i]) THEN t.count ELSE t.count + 1
              ELSE IF Active(t.slots[i]) THEN t.count - 1 ELSE t.count
      /\ Pairs(u) = {t.slots[j] : j \in Used(t) \ {i}} \cup (IF Active(Deleted) THEN {Deleted} ELSE {})
  BY <1>1, <1>2, <1>3, <1>6, SlotCounts
<1>8. Counted(u)
  BY <1>2, <1>3, <1>6, <1>7 DEF Counted, b
<1>9. Found(u)
  <2>1. u.slots[i] = Deleted
    BY <1>2, <1>6 DEF Put
  <2>2. \A x \in Key : ~ Holds(u, i, x)
    BY <1>3, <2>1 DEF Holds
  <2> QED BY <1>1, <1>2, <1>3, <1>6, <2>2, FoundKept
<1>10. Pairs(u) = {x \in Pairs(t) : x[1] # k}
  BY <1>1, <1>2, <1>3, <1>7, OtherPairs
<1> QED BY <1>1, <1>6, <1>7, <1>8, <1>9, <1>10 DEF Well, u, i, b

\* The value of a key is replaced.
LEMMA ReplaceFacts ==
  ASSUME NEW V, NEW t, Well(t, V), Gap(t), NEW k \in Key, NEW v \in V, IsSet(t, k)
  PROVE  LET u == [t EXCEPT !.slots[Lookup(t, k)][2] = v] IN
         /\ Well(u, V)
         /\ Size(u) = Size(t) /\ u.failed = t.failed /\ u.count = t.count /\ u.fill = t.fill
         /\ Pairs(u) = {x \in Pairs(t) : x[1] # k} \cup {<<k, v>>}
<1> DEFINE i == Lookup(t, k)
           s == <<k, v>>
           a == t.fill
           b == t.count
           u == [t EXCEPT !.slots[i][2] = v]
<1>1. t \in Tables(V) /\ Counted(t) /\ Found(t)
  BY DEF Well
<1>2. /\ i \in DOMAIN t.slots
      /\ \A j \in DOMAIN t.slots : Holds(t, j, k) => j = i
      /\ Holds(t, i, k) /\ Active(t.slots[i]) /\ t.slots[i] # Empty
  BY <1>1, LookupFacts, SlotFacts DEF IsSet
<1>3. s \in Slot(V) /\ Active(s) /\ s # Empty /\ s[1] = k
  BY SlotFacts DEF Slot
<1>4. a \in Nat /\ b \in Nat
  BY <1>1, TableFacts
<1>5. [t.slots[i] EXCEPT ![2] = v] = s
  <2>1. t.slots[i] \in Slot(V)
    BY <1>1, <1>2, TableFacts
  <2>2. t.slots[i] = <<k, t.slots[i][2]>>
    BY <1>2, <2>1, SlotFacts DEF Holds
  <2> DEFINE w == t.slots[i][2]
  <2>3. [<<k, w>> EXCEPT ![2] = v] = <<k, v>>
    OBVIOUS
  <2> HIDE DEF w
  <2> QED BY <2>2, <2>3 DEF w
<1>6. u = Patch(t, i, s, a, b)
  <2>1. u = [t EXCEPT !.slots[i] = [t.slots[i] EXCEPT ![2] = v]]
    BY <1>1, <1>2 DEF Tables
  <2> HIDE DEF u, s, i
  <2>2. u = [t EXCEPT !.slots[i] = s]
    BY <1>5, <2>1
  <2> QED BY <1>1, <2>2 DEF Tables, Patch
<1> HIDE DEF u, s, i
<1>7. /\ u \in Tables(V)
      /\ u.slots = Put(t.slots, i, s) /\ u.fill = a /\ u.count = b /\ u.failed = t.failed
  <2> HIDE DEF a, b
  <2> QED BY <1>1, <1>2, <1>3, <1>4, <1>6, OtherSlot
<1>8. /\ Size(u) = Size(t)
      /\ Cardinality(Filled(u)) = IF t.slots[i] = Empty THEN t.fill + 1 ELSE t.fill
      /\ Cardinality(Used(u)) =
              IF Active(s) THEN IF Active(t.slots[i]) THEN t.count ELSE t.count + 1
              ELSE IF Active(t.slots[i]) THEN t.count - 1 ELSE t.count
      /\ Pairs(u) = {t.slots[j] : j \in Used(t) \ {i}} \cup (IF Active(s) THEN {s} ELSE {})
  BY <1>1, <1>2, <1>3, <1>7, SlotCounts
<1>9. Counted(u)
  BY <1>2, <1>3, <1>7, <1>8 DEF Counted
<1>10. Found(u)
  <2>1. u.slots[i] = s
    BY <1>2, <1>7 DEF Put
  <2>2. ASSUME NEW x \in Key, Holds(u, i, x)
        PROVE  /\ \A j \in DOMAIN t.slots : Holds(t, j, x) => j = i
               /\ \E m \in DOMAIN Way(t, x) : Way(t, x)[m] = i /\ Passes(t, x, m)
    <3>1. x = k
      BY <1>3, <2>1, <2>2 DEF Holds
    <3> QED BY <1>1, <1>2, <3>1 DEF Found
  <2> QED BY <1>1, <1>2, <1>3, <1>7, <2>2, FoundKept
<1>11. Pairs(u) = {x \in Pairs(t) : x[1] # k} \cup {s}
  BY <1>1, <1>2, <1>3, <1>8, OtherPairs
<1> QED BY <1>1, <1>7, <1>8, <1>9, <1>10, <1>11 DEF Well, u, s, i

\* A key is in one slot at most.
LEMMA OneSlot ==
  ASSUME NEW V, NEW t \in Tables(V), Found(t), NEW k \in Key,
         NEW i \in DOMAIN t.slots, NEW j \in DOMAIN t.slots, Holds(t, i, k), Holds(t, j, k)
  PROVE  i = j
<1> DEFINE at == Way(t, k)
           N == Size(t) + 8
<1>1. at \in [1..N -> DOMAIN t.slots] /\ N \in Nat /\ DOMAIN at = 1..N
  BY TableFacts, WayFacts
<1>2. PICK m \in 1..N : at[m] = i /\ Passes(t, k, m)
  BY <1>1 DEF Found
<1>3. PICK n \in 1..N : at[n] = j /\ Passes(t, k, n)
  BY <1>1 DEF Found
<1>4. Stops(t, at[m], k) /\ Stops(t, at[n], k)
  BY <1>2, <1>3 DEF Stops
<1>5. ~ (m < n)
  <2>1. m < n => m \in 1..(n - 1)
    BY <1>1
  <2> QED BY <1>3, <1>4, <2>1 DEF Passes
<1>6. ~ (n < m)
  <2>1. n < m => n \in 1..(m - 1)
    BY <1>1
  <2> QED BY <1>2, <1>4, <2>1 DEF Passes
<1>7. m = n
  <2> HIDE DEF N
  <2> QED BY <1>1, <1>5, <1>6
<1> QED BY <1>2, <1>3, <1>7

\* A new table has no keys.
LEMMA FreshFacts ==
  ASSUME NEW V, NEW n \in Range(TableSize), NEW f \in Nat
  PROVE  LET u == [Fresh(n) EXCEPT !.failed = f] IN
         /\ Well(u, V) /\ Size(u) = n /\ u.failed = f /\ u.count = 0 /\ u.fill = 0
         /\ Pairs(u) = {}
<1> DEFINE u == [Fresh(n) EXCEPT !.failed = f]
           sl == [i \in 0..(n - 1) |-> Empty]
<1>1. n \in Nat /\ n >= 2
  BY SizeFacts
<1>2. u = [slots |-> sl, fill |-> 0, count |-> 0, failed |-> f]
  <2>1. Fresh(n) = [slots |-> sl, fill |-> 0, count |-> 0, failed |-> 0]
    BY DEF Fresh
  <2> HIDE DEF sl
  <2> QED BY <2>1
<1>3. sl \in [0..(n - 1) -> Slot(V)]
  BY DEF Slot
<1>4. DOMAIN sl = 0..(n - 1) /\ \A i \in 0..(n - 1) : sl[i] = Empty
  OBVIOUS
<1> HIDE DEF u, sl
<1>5. u \in Tables(V)
  <2>1. sl \in UNION {[0..(x - 1) -> Slot(V)] : x \in Range(TableSize)}
    BY <1>3
  <2> QED BY <1>2, <2>1 DEF Tables
<1>6. u.slots = sl /\ u.fill = 0 /\ u.count = 0 /\ u.failed = f
  BY <1>2
<1>7. Filled(u) = {}
  BY <1>4, <1>6 DEF Filled
<1>8. Used(u) = {}
  BY <1>4, <1>6, SlotFacts DEF Used
<1>9. Counted(u)
  BY <1>6, <1>7, <1>8, FS_EmptySet DEF Counted
<1>10. Found(u)
  BY <1>4, <1>6, SlotFacts DEF Found, Holds
<1>11. Size(u) = n
  <2>1. Cardinality(0..(n - 1)) = n
    <3>1. 0 \in Int /\ n - 1 \in Int /\ ~ (0 > n - 1)
      BY <1>1
    <3>2. Cardinality(0..(n - 1)) = (n - 1) - 0 + 1
      BY <3>1, FS_Interval
    <3> QED BY <1>1, <3>2
  <2> QED BY <1>4, <1>6, <2>1 DEF Size
<1>12. Pairs(u) = {}
  BY <1>8 DEF Pairs
<1> QED BY <1>5, <1>6, <1>9, <1>10, <1>11, <1>12 DEF Well, u

-----------------------------------------------------------------------------
(* hash_copy. *)

\* The slots of t before i that are in use, and what a copy of them is.
Before(t, i) == {j \in Used(t) : j < i}

Copies(x, t, i, n, V) ==
  /\ Well(x, V) /\ Size(x) = n /\ x.failed = t.failed
  /\ x.fill = Cardinality(Before(t, i)) /\ x.count = x.fill
  /\ Pairs(x) = {t.slots[j] : j \in Before(t, i)}

\* One slot more is copied.
CopyOne(x, t, i) ==
  IF Active(t.slots[i]) THEN Insert(x, t.slots[i][1], t.slots[i][2]) ELSE x

\* It goes into an empty slot, since none has been deleted in the copy.
LEMMA CopyOneFacts ==
  ASSUME NEW V, NEW t, Well(t, V), NEW n \in Range(TableSize), t.count < n,
         NEW x, NEW i \in DOMAIN t.slots, Copies(x, t, i, n, V)
  PROVE  Copies(CopyOne(x, t, i), t, i + 1, n, V)
<1>1. t \in Tables(V) /\ Counted(t) /\ Found(t)
  BY DEF Well
<1>2. DOMAIN t.slots = 0..(Size(t) - 1) /\ Size(t) \in Nat /\ n \in Nat
  BY <1>1, TableFacts, SizeFacts
<1>3. Used(t) \subseteq DOMAIN t.slots
  BY DEF Used
<1>4. /\ IsFiniteSet(Before(t, i)) /\ Cardinality(Before(t, i)) <= t.count
      /\ Cardinality(Before(t, i)) \in Nat /\ t.count \in Nat
  <2>1. IsFiniteSet(Used(t)) /\ Before(t, i) \subseteq Used(t)
    BY <1>1, GapFromFill DEF Before
  <2>2. IsFiniteSet(Before(t, i)) /\ Cardinality(Before(t, i)) <= Cardinality(Used(t))
    BY <2>1, FS_Subset
  <2>3. Cardinality(Before(t, i)) \in Nat /\ Cardinality(Used(t)) \in Nat
    BY <2>1, <2>2, FS_CardinalityType
  <2> QED BY <1>1, <2>2, <2>3 DEF Counted
<1>5. CASE ~ Active(t.slots[i])
  <2>1. \A j \in Used(t) : j < i + 1 <=> j < i
    BY <1>2, <1>3, <1>5 DEF Used
  <2>2. Before(t, i + 1) = Before(t, i)
    BY <2>1 DEF Before
  <2> QED BY <1>5, <2>2 DEF Copies, CopyOne
<1>6. CASE Active(t.slots[i])
  <2> DEFINE k == t.slots[i][1]
             v == t.slots[i][2]
             u == Insert(x, k, v)
  <2>1. t.slots[i] \in Slot(V)
    BY <1>1, <1>2, TableFacts
  <2>2. k \in Key /\ v \in V /\ t.slots[i] = <<k, v>>
    BY <1>6, <2>1, SlotFacts
  <2>3. Well(x, V) /\ x \in Tables(V) /\ Counted(x) /\ Size(x) = n /\ x.fill < n
    BY <1>2, <1>4 DEF Copies, Well
  <2>4. Gap(x)
    BY <2>3, GapFromFill
  <2>5. Absent(x, k)
    <3>1. SUFFICES ASSUME NEW j \in DOMAIN x.slots, Holds(x, j, k) PROVE FALSE
      BY DEF Absent
    <3>2. x.slots[j] \in Pairs(x)
      BY <3>1 DEF Pairs, Used, Holds
    <3>3. PICK l \in Before(t, i) : x.slots[j] = t.slots[l]
      BY <3>2 DEF Copies
    <3>4. l \in DOMAIN t.slots /\ l < i
      BY <1>3, <3>3 DEF Before
    <3>5. Holds(t, l, k) /\ Holds(t, i, k)
      BY <1>6, <3>1, <3>3 DEF Holds
    <3>6. l = i
      BY <1>1, <2>2, <3>4, <3>5, OneSlot
    <3> QED BY <1>2, <3>4, <3>6
  <2>6. /\ Well(u, V)
        /\ Size(u) = Size(x) /\ u.failed = x.failed /\ u.count = x.count + 1
        /\ u.fill = x.fill \/ u.fill = x.fill + 1
        /\ Pairs(u) = Pairs(x) \cup {<<k, v>>}
    <3> HIDE DEF k, v
    <3> QED BY <2>2, <2>3, <2>4, <2>5, InsertFacts
  <2>7. Before(t, i + 1) = Before(t, i) \cup {i} /\ i \notin Before(t, i)
    <3>1. i \in Used(t)
      BY <1>6 DEF Used
    <3>2. \A j \in Used(t) : j < i + 1 <=> (j < i \/ j = i)
      BY <1>2, <1>3
    <3>3. ~ (i < i)
      BY <1>2
    <3> QED BY <3>1, <3>2, <3>3 DEF Before
  <2>8. Cardinality(Before(t, i + 1)) = Cardinality(Before(t, i)) + 1
    BY <1>4, <2>7, FS_AddElement
  <2>9. u.fill = x.fill + 1
    <3>1. u.count <= u.fill /\ x.count = x.fill /\ u.fill \in Nat /\ x.fill \in Nat
      BY <2>3, <2>6, GapFromFill, TableFacts DEF Well, Copies
    <3> QED BY <2>6, <3>1
  <2>10. Pairs(u) = {t.slots[j] : j \in Before(t, i + 1)}
    BY <2>2, <2>6, <2>7 DEF Copies
  <2>11. CopyOne(x, t, i) = u
    BY <1>6 DEF CopyOne
  <2> HIDE DEF u
  <2> QED BY <2>3, <2>6, <2>8, <2>9, <2>10, <2>11 DEF Copies
<1> QED BY <1>5, <1>6

\* A function that copies one slot after the other, if it does so as long as
\* it has copied well.
LEMMA CopiesAll ==
  ASSUME NEW V, NEW t, Well(t, V), NEW n \in Range(TableSize), t.count < n,
         NEW f, f[0] = [Fresh(n) EXCEPT !.failed = t.failed],
         \A i \in 1..Size(t) : Copies(f[i - 1], t, i - 1, n, V) => f[i] = CopyOne(f[i - 1], t, i - 1)
  PROVE  \A i \in 0..Size(t) : Copies(f[i], t, i, n, V)
<1>1. t \in Tables(V)
  BY DEF Well
<1>2. DOMAIN t.slots = 0..(Size(t) - 1) /\ Size(t) \in Nat /\ t.failed \in Nat
  BY <1>1, TableFacts
<1> DEFINE T == {i \in 0..Size(t) : ~ Copies(f[i], t, i, n, V)}
<1>3. SUFFICES ASSUME T # {} PROVE FALSE
  OBVIOUS
<1>4. PICK m \in T : \A x \in T : m <= x
  <2>1. T \subseteq Nat
    OBVIOUS
  <2> HIDE DEF T
  <2> QED BY <1>3, <2>1, LeastNat
<1>5. m \in 0..Size(t) /\ ~ Copies(f[m], t, m, n, V)
  BY <1>4
<1>6. m # 0
  <2>1. Before(t, 0) = {}
    BY <1>2 DEF Before, Used
  <2> DEFINE u == [Fresh(n) EXCEPT !.failed = t.failed]
  <2>2. /\ Well(u, V) /\ Size(u) = n /\ u.failed = t.failed /\ u.count = 0 /\ u.fill = 0
        /\ Pairs(u) = {}
    <3> DEFINE d == t.failed
    <3>1. d \in Nat
      BY <1>2
    <3> HIDE DEF d
    <3> QED BY <3>1, FreshFacts DEF d
  <2> HIDE DEF u
  <2>3. Copies(u, t, 0, n, V)
    BY <2>1, <2>2, FS_EmptySet DEF Copies
  <2> QED BY <1>5, <2>3 DEF u
<1>7. m \in 1..Size(t) /\ m - 1 \in 0..Size(t) /\ m - 1 \notin T /\ m - 1 \in DOMAIN t.slots
      /\ (m - 1) + 1 = m
  BY <1>2, <1>4, <1>5, <1>6
<1>8. Copies(f[m - 1], t, m - 1, n, V)
  BY <1>7
<1>9. f[m] = CopyOne(f[m - 1], t, m - 1)
  BY <1>7, <1>8
<1> DEFINE x == f[m - 1]
           i == m - 1
<1>10. Copies(x, t, i, n, V) /\ i \in DOMAIN t.slots
  BY <1>7, <1>8
<1> HIDE DEF x, i
<1>11. Copies(CopyOne(x, t, i), t, i + 1, n, V)
  BY <1>10, CopyOneFacts
<1> QED BY <1>5, <1>7, <1>9, <1>11 DEF x, i

\* hash_copy copies all pairs and nothing else.
LEMMA CopiedFacts ==
  ASSUME NEW V, NEW t, Well(t, V), NEW n \in Range(TableSize), t.count < n
  PROVE  LET u == Copied(t, n) IN
         /\ Well(u, V) /\ Size(u) = n /\ u.failed = t.failed
         /\ u.fill = t.count /\ u.count = t.count
         /\ Pairs(u) = Pairs(t)
<1> DEFINE Is(f) == f = [i \in 0..Size(t) |->
                          IF i = 0 THEN [Fresh(n) EXCEPT !.failed = t.failed]
                          ELSE IF Active(t.slots[i - 1])
                            THEN Insert(f[i - 1], t.slots[i - 1][1], t.slots[i - 1][2])
                          ELSE f[i - 1]]
           new == [Fresh(n) EXCEPT !.failed = t.failed]
           N == Size(t)
           S == Tables(V)
           F == [x \in (1..N) \X S |->
                   IF CopyOne(x[2], t, x[1] - 1) \in S THEN CopyOne(x[2], t, x[1] - 1) ELSE x[2]]
<1>1. t \in Tables(V) /\ Counted(t)
  BY DEF Well
<1>2. DOMAIN t.slots = 0..(N - 1) /\ N \in Nat /\ t.failed \in Nat
  BY <1>1, TableFacts
<1>3. new \in S
  <2> DEFINE d == t.failed
  <2>1. d \in Nat
    BY <1>2
  <2> HIDE DEF d
  <2> QED BY <2>1, FreshFacts DEF d, Well
<1>4. F \in [(1..N) \X S -> S]
  OBVIOUS
<1>5. \A j \in 1..N, x \in S : F[j, x] = IF CopyOne(x, t, j - 1) \in S THEN CopyOne(x, t, j - 1) ELSE x
  OBVIOUS
<1>6. \E f : Recursive(f, S, new, F, N)
  <2> HIDE DEF F, S, N, new
  <2> QED BY <1>2, <1>3, <1>4, RecursiveExists
<1>7. PICK f : Recursive(f, S, new, F, N)
  BY <1>6
<1> HIDE DEF F
<1>8. /\ f[0] = new
      /\ \A i \in 1..N : f[i] = F[i, f[i - 1]] /\ f[i - 1] \in S
      /\ f = [i \in 0..N |-> f[i]]
  <2>1. \A i \in 1..N : i \in 0..N /\ i - 1 \in 0..N /\ i # 0
    BY <1>2
  <2>2. 0 \in 0..N
    BY <1>2
  <2> HIDE DEF S, N, new
  <2>3. f = [i \in 0..N |-> IF i = 0 THEN new ELSE F[i, f[i - 1]]] /\ \A i \in 0..N : f[i] \in S
    BY <1>7 DEF Recursive
  <2> QED BY <2>1, <2>2, <2>3
<1>9. \A i \in 1..N : Copies(f[i - 1], t, i - 1, n, V) => f[i] = CopyOne(f[i - 1], t, i - 1)
  <2>1. SUFFICES ASSUME NEW i \in 1..N, Copies(f[i - 1], t, i - 1, n, V)
                 PROVE  f[i] = CopyOne(f[i - 1], t, i - 1)
    OBVIOUS
  <2>2. i - 1 \in DOMAIN t.slots
    BY <1>2
  <2> DEFINE x == f[i - 1]
             j == i - 1
  <2>3. Copies(x, t, j, n, V) /\ j \in DOMAIN t.slots
    BY <2>1, <2>2
  <2> HIDE DEF x, j
  <2>4. Copies(CopyOne(x, t, j), t, j + 1, n, V)
    BY <2>3, CopyOneFacts
  <2>5. CopyOne(x, t, j) \in S
    BY <2>4 DEF Copies, Well
  <2> QED BY <1>5, <1>8, <2>5 DEF x, j
<1>10. \A i \in 0..N : Copies(f[i], t, i, n, V)
  BY <1>8, <1>9, CopiesAll
<1>11. Is(f)
  <2>1. \A i \in 1..N : f[i] = CopyOne(f[i - 1], t, i - 1)
    <3>1. \A i \in 1..N : i - 1 \in 0..N
      BY <1>2
    <3> QED BY <1>9, <1>10, <3>1
  <2>2. \A i \in 0..N : i # 0 => i \in 1..N
    BY <1>2
  <2>3. \A i \in 0..N : f[i] = IF i = 0 THEN [Fresh(n) EXCEPT !.failed = t.failed]
                          ELSE IF Active(t.slots[i - 1])
                            THEN Insert(f[i - 1], t.slots[i - 1][1], t.slots[i - 1][2])
                          ELSE f[i - 1]
    BY <1>8, <2>1, <2>2 DEF CopyOne
  <2> QED BY <1>8, <2>3
<1> DEFINE g == CHOOSE x : Is(x)
<1>12. Is(g)
  <2> HIDE DEF Is
  <2> QED BY <1>11
<1>13. Copied(t, n) = g[N]
  BY DEF Copied
<1> HIDE DEF g
<1>14. \A i \in 0..N : g[i] = IF i = 0 THEN [Fresh(n) EXCEPT !.failed = t.failed]
                          ELSE IF Active(t.slots[i - 1])
                            THEN Insert(g[i - 1], t.slots[i - 1][1], t.slots[i - 1][2])
                          ELSE g[i - 1]
  BY <1>12
<1> HIDE DEF Is
<1>15. g[0] = new /\ \A i \in 1..N : g[i] = CopyOne(g[i - 1], t, i - 1)
  <2>1. 0 \in 0..N /\ \A i \in 1..N : i \in 0..N /\ i # 0
    BY <1>2
  <2> QED BY <1>14, <2>1 DEF CopyOne
<1>16. Copies(g[N], t, N, n, V)
  <2>1. \A i \in 0..N : Copies(g[i], t, i, n, V)
    BY <1>15, CopiesAll
  <2> QED BY <1>2, <2>1
<1>17. Before(t, N) = Used(t)
  <2>1. \A j \in Used(t) : j < N
    BY <1>2 DEF Used
  <2> QED BY <2>1 DEF Before
<1> QED BY <1>1, <1>13, <1>16, <1>17 DEF Copies, Counted, Pairs

-----------------------------------------------------------------------------
(* hash_update. *)

\* The largest table.
Top == TableSize[Doublings]

\* Sizes are between MinSize and Top; the double and the half of a size is one,
\* but for these two.
LEMMA Ladder ==
  ASSUME NEW n \in Range(TableSize)
  PROVE  /\ MinSize \in Nat /\ Top \in Nat /\ n \in Nat
         /\ 2 <= MinSize /\ MinSize <= n /\ n <= Top /\ 2 * MinSize <= Top
         /\ n # Top => 2 * n \in Range(TableSize)
         /\ n # MinSize => n \div 2 \in Range(TableSize) /\ 2 * (n \div 2) = n
<1> DEFINE N == Doublings
<1>1. N \in Nat /\ N >= 1
  BY HashAssumption, RoomAssumption
<1>2. /\ TableSize \in [0..N -> Nat]
      /\ TableSize[0] = MinSize
      /\ \A e \in 1..N : TableSize[e] = 2 * TableSize[e - 1]
  BY TableSizeDef
<1>3. \A e \in 0..N : TableSize[e] \in Range(TableSize) /\ TableSize[e] \in Nat
  BY <1>2 DEF Range
<1>4. PICK e \in 0..N : n = TableSize[e]
  BY <1>2 DEF Range
<1>5. MinSize \in Nat /\ Top \in Nat /\ n \in Nat /\ MinSize \in Range(TableSize)
  BY <1>1, <1>2, <1>3, <1>4 DEF Top
<1>6. 2 <= MinSize
  BY <1>5, SizeFacts
<1> HIDE DEF N
<1>7. \A i \in 0..N : MinSize <= TableSize[i]
  <2> DEFINE T == {i \in 0..N : ~ (MinSize <= TableSize[i])}
  <2>1. SUFFICES ASSUME T # {} PROVE FALSE
    OBVIOUS
  <2>2. PICK m \in T : \A x \in T : m <= x
    <3>1. T \subseteq Nat
      OBVIOUS
    <3> HIDE DEF T
    <3> QED BY <2>1, <3>1, LeastNat
  <2>3. m \in 0..N /\ ~ (MinSize <= TableSize[m])
    BY <2>2
  <2>4. m # 0
    BY <1>2, <1>5, <2>3
  <2>5. m \in 1..N /\ m - 1 \in 0..N /\ m - 1 \notin T
    BY <1>1, <2>2, <2>3, <2>4
  <2>6. MinSize <= TableSize[m - 1] /\ TableSize[m - 1] \in Nat
    BY <1>3, <2>5
  <2>7. TableSize[m] = 2 * TableSize[m - 1]
    BY <1>2, <2>5
  <2> QED BY <1>5, <2>3, <2>6, <2>7
<1>8. \A i \in 0..N : TableSize[i] <= Top
  <2> DEFINE T == {d \in 0..N : ~ (TableSize[N - d] <= Top)}
  <2>1. T = {}
    <3>1. SUFFICES ASSUME T # {} PROVE FALSE
      OBVIOUS
    <3>2. PICK m \in T : \A x \in T : m <= x
      <4>1. T \subseteq Nat
        OBVIOUS
      <4> HIDE DEF T
      <4> QED BY <3>1, <4>1, LeastNat
    <3>3. m \in 0..N /\ ~ (TableSize[N - m] <= Top)
      BY <3>2
    <3>4. m # 0
      BY <1>1, <1>5, <3>3 DEF Top, N
    <3>5. m - 1 \in 0..N /\ m - 1 \notin T
      BY <1>1, <3>2, <3>3, <3>4
    <3>6. N - (m - 1) \in 1..N /\ (N - (m - 1)) - 1 = N - m /\ N - (m - 1) \in 0..N /\ N - m \in 0..N
      BY <1>1, <3>3, <3>4
    <3>7. TableSize[N - (m - 1)] = 2 * TableSize[N - m]
      <4> DEFINE i == N - (m - 1)
      <4>1. i \in 1..N /\ i - 1 = N - m
        BY <3>6
      <4> HIDE DEF i
      <4>2. TableSize[i] = 2 * TableSize[i - 1]
        BY <1>2, <4>1
      <4> QED BY <4>1, <4>2 DEF i
    <3>8. TableSize[N - (m - 1)] <= Top
      BY <3>5
    <3>9. TableSize[N - m] \in Nat
      BY <1>3, <3>6
    <3> QED BY <1>5, <3>3, <3>7, <3>8, <3>9
  <2>2. SUFFICES ASSUME NEW i \in 0..N PROVE TableSize[i] <= Top
    OBVIOUS
  <2>3. N - i \in 0..N /\ N - (N - i) = i
    BY <1>1
  <2>4. TableSize[N - (N - i)] <= Top
    BY <2>1, <2>3
  <2> QED BY <2>3, <2>4
<1>9. n # Top => 2 * n \in Range(TableSize)
  <2>1. SUFFICES ASSUME n # Top PROVE 2 * n \in Range(TableSize)
    OBVIOUS
  <2>2. e # N
    BY <1>4, <2>1 DEF Top, N
  <2>3. e + 1 \in 1..N /\ (e + 1) - 1 = e /\ e + 1 \in 0..N
    BY <1>1, <2>2
  <2> DEFINE i == e + 1
  <2>4. i \in 1..N /\ i - 1 = e /\ i \in 0..N
    BY <2>3
  <2> HIDE DEF i
  <2>5. TableSize[i] = 2 * TableSize[i - 1]
    BY <1>2, <2>4
  <2> QED BY <1>3, <1>4, <2>4, <2>5
<1>10. n # MinSize => n \div 2 \in Range(TableSize) /\ 2 * (n \div 2) = n
  <2>1. SUFFICES ASSUME n # MinSize PROVE n \div 2 \in Range(TableSize) /\ 2 * (n \div 2) = n
    OBVIOUS
  <2>2. e # 0
    BY <1>2, <1>4, <2>1
  <2>3. e \in 1..N /\ e - 1 \in 0..N
    BY <1>1, <2>2
  <2> DEFINE x == TableSize[e - 1]
  <2>4. n = 2 * x /\ x \in Nat /\ x \in Range(TableSize)
    BY <1>2, <1>3, <1>4, <2>3
  <2> HIDE DEF x
  <2>5. n \div 2 = x
    BY <2>4
  <2> QED BY <2>4, <2>5
<1>11. 2 * MinSize <= Top
  <2>1. 1 \in 1..N /\ 1 \in 0..N /\ 1 - 1 = 0
    BY <1>1
  <2>2. TableSize[1] = 2 * TableSize[1 - 1] /\ TableSize[1] <= Top
    BY <1>2, <1>8, <2>1
  <2> QED BY <1>2, <2>1, <2>2
<1>12. MinSize <= n /\ n <= Top
  BY <1>4, <1>7, <1>8
<1> QED BY <1>5, <1>6, <1>9, <1>10, <1>11, <1>12

\* No more slots are in use than there are keys, nor filled than there are
\* slots.
LEMMA KeysBound ==
  ASSUME NEW V, NEW t, Well(t, V)
  PROVE  t.count <= Cardinality(Key) /\ t.fill <= Size(t) /\ Cardinality(Key) \in Nat
<1>1. t \in Tables(V) /\ Counted(t) /\ Found(t)
  BY DEF Well
<1>2. DOMAIN t.slots = 0..(Size(t) - 1) /\ Size(t) \in Nat /\ t.slots \in [0..(Size(t) - 1) -> Slot(V)]
  BY <1>1, TableFacts
<1>3. IsFiniteSet(Used(t)) /\ IsFiniteSet(Key)
  BY <1>1, GapFromFill, RoomAssumption
<1> DEFINE f == [j \in Used(t) |-> t.slots[j][1]]
<1>4. \A j \in Used(t) : j \in DOMAIN t.slots /\ t.slots[j][1] \in Key /\ Holds(t, j, t.slots[j][1])
  <2>1. \A j \in Used(t) : j \in DOMAIN t.slots /\ Active(t.slots[j]) /\ t.slots[j] \in Slot(V)
    BY <1>2 DEF Used
  <2> QED BY <2>1, SlotFacts DEF Holds
<1>5. f \in [Used(t) -> Key]
  BY <1>4
<1>6. ASSUME NEW i \in Used(t), NEW j \in Used(t), f[i] = f[j] PROVE i = j
  <2> DEFINE k == t.slots[i][1]
  <2>1. Holds(t, i, k) /\ Holds(t, j, k) /\ k \in Key /\ i \in DOMAIN t.slots /\ j \in DOMAIN t.slots
    BY <1>4, <1>6
  <2> HIDE DEF k
  <2> QED BY <1>1, <2>1, OneSlot
<1>7. f \in Injection(Used(t), Key)
  BY <1>5, <1>6 DEF Injection, IsInjective
<1>8. Cardinality(Used(t)) <= Cardinality(Key)
  <2> HIDE DEF f
  <2> QED BY <1>3, <1>7, FS_Injection
<1>9. t.fill <= Size(t)
  <2>1. Filled(t) \subseteq DOMAIN t.slots
    BY DEF Filled
  <2>2. IsFiniteSet(DOMAIN t.slots)
    <3>1. 0 \in Int /\ Size(t) - 1 \in Int
      BY <1>2
    <3> QED BY <1>2, <3>1, FS_Interval
  <2>3. Cardinality(Filled(t)) <= Cardinality(DOMAIN t.slots)
    BY <2>1, <2>2, FS_Subset
  <2> QED BY <1>1, <2>3 DEF Counted, Size
<1>10. Cardinality(Key) \in Nat
  BY <1>3, FS_CardinalityType
<1> QED BY <1>1, <1>8, <1>9, <1>10 DEF Counted

\* How full a table may be: each call of hash_update that finds no memory lets
\* one slot more be filled.  A table of the largest size shrinks at the next
\* call that finds memory.
Loaded(t) ==
  /\ 3 * t.fill < 2 * Size(t) + 3 * t.failed
  /\ Size(t) = Top => t.fill <= t.count + t.failed

\* What holds before hash_update, when one slot has been filled or marked.
Strained(t) ==
  /\ 3 * t.failed <= MinSize
  /\ 3 * t.fill < 2 * Size(t) + 3 * t.failed + 3
  /\ Size(t) = Top => t.fill <= t.count + t.failed + 1

\* A call of hash_update that finds no memory changes nothing that matters.
LEMMA FailFacts ==
  ASSUME NEW V, NEW t, Well(t, V)
  PROVE  LET u == [t EXCEPT !.failed = @ + 1] IN
         /\ Well(u, V) /\ Size(u) = Size(t) /\ u.failed = t.failed + 1
         /\ u.fill = t.fill /\ u.count = t.count /\ Pairs(u) = Pairs(t)
<1> DEFINE U == UNION {[0..(n - 1) -> Slot(V)] : n \in Range(TableSize)}
           u == [t EXCEPT !.failed = @ + 1]
<1>1. t \in Tables(V) /\ Counted(t) /\ Found(t)
  BY DEF Well
<1>2. t \in [slots : U, fill : Nat, count : Nat, failed : Nat]
  BY <1>1 DEF Tables
<1> HIDE DEF U
<1>3. u \in [slots : U, fill : Nat, count : Nat, failed : Nat]
  BY <1>2
<1>4. u.slots = t.slots /\ u.fill = t.fill /\ u.count = t.count /\ u.failed = t.failed + 1
  BY <1>2
<1>5. u \in Tables(V)
  BY <1>3 DEF Tables, U
<1> HIDE DEF u
<1>6. Size(u) = Size(t)
  BY <1>4 DEF Size
<1>7. Counted(u) /\ Pairs(u) = Pairs(t)
  <2>1. Filled(u) = Filled(t) /\ Used(u) = Used(t)
    BY <1>4 DEF Filled, Used
  <2> QED BY <1>1, <1>4, <2>1 DEF Counted, Pairs
<1>8. Found(u)
  <2>1. \A k \in Key : Way(u, k) = Way(t, k)
    BY <1>6 DEF Way
  <2>2. \A k, j : Holds(u, j, k) <=> Holds(t, j, k)
    BY <1>4 DEF Holds
  <2>3. \A k, j : Stops(u, j, k) <=> Stops(t, j, k)
    BY <1>4, <2>2 DEF Stops
  <2>4. \A k \in Key : \A m : Passes(u, k, m) <=> Passes(t, k, m)
    BY <2>1, <2>3 DEF Passes
  <2> QED BY <1>1, <1>4, <2>1, <2>2, <2>4 DEF Found
<1> QED BY <1>4, <1>5, <1>6, <1>7, <1>8 DEF Well, u

\* hash_update keeps the pairs and leaves a table that is not too full.
LEMMA UpdateFacts ==
  ASSUME NEW V, NEW t, Well(t, V), Strained(t), NEW mem \in BOOLEAN
  PROVE  LET u == Update(t, mem) IN
         /\ Well(u, V) /\ Loaded(u) /\ Pairs(u) = Pairs(t)
         /\ u.failed = t.failed \/ (~ mem /\ u.failed = t.failed + 1)
<1> DEFINE n == Size(t)
           c == Cardinality(Key)
           u == Update(t, mem)
<1>1. t \in Tables(V) /\ Counted(t)
  BY DEF Well
<1>2. n \in Range(TableSize) /\ n \in Nat /\ n >= 2 /\ t.fill \in Nat /\ t.count \in Nat /\ t.failed \in Nat
  BY <1>1, TableFacts
<1>3. t.count <= t.fill /\ t.count <= c /\ t.fill <= n /\ c \in Nat
  BY <1>1, GapFromFill, KeysBound
<1>4. /\ MinSize \in Nat /\ Top \in Nat
      /\ 2 <= MinSize /\ MinSize <= n /\ n <= Top /\ 2 * MinSize <= Top
      /\ n # Top => 2 * n \in Range(TableSize)
      /\ n # MinSize => n \div 2 \in Range(TableSize) /\ 2 * (n \div 2) = n
  <2> HIDE DEF n
  <2> QED BY <1>2, Ladder
<1>5. 4 * c <= Top
  BY RoomAssumption DEF Top
<1>6. /\ 3 * t.failed <= MinSize
      /\ 3 * t.fill < 2 * n + 3 * t.failed + 3
      /\ n = Top => t.fill <= t.count + t.failed + 1
  BY DEF Strained
<1> HIDE DEF n, c
<1>7. CASE 3 * t.fill >= 2 * n
  <2>1. NewSize(t) = 2 * n /\ 2 * n # n
    BY <1>2, <1>7 DEF NewSize, n
  <2>2. n # Top
    BY <1>2, <1>3, <1>4, <1>5, <1>6, <1>7
  <2>3. CASE mem
    <3> DEFINE N == 2 * n
    <3>1. N \in Range(TableSize) /\ t.count < N /\ N # n
      BY <1>2, <1>3, <1>4, <2>2
    <3>2. u = Copied(t, N)
      BY <2>1, <2>3 DEF Update, n
    <3>3. 3 * t.count < 2 * N /\ t.count <= t.count + t.failed
      BY <1>2, <1>3
    <3> HIDE DEF N, u
    <3>4. /\ Well(u, V) /\ Size(u) = N /\ u.failed = t.failed
          /\ u.fill = t.count /\ u.count = t.count
          /\ Pairs(u) = Pairs(t)
      BY <3>1, <3>2, CopiedFacts
    <3>6. N \in Nat
      BY <3>1, SizeFacts
    <3>5. Loaded(u)
      BY <1>2, <3>3, <3>4, <3>6 DEF Loaded
    <3> QED BY <3>4, <3>5 DEF u
  <2>4. CASE ~ mem
    <3>1. u = [t EXCEPT !.failed = @ + 1]
      BY <2>1, <2>4 DEF Update, n
    <3> HIDE DEF u
    <3>2. /\ Well(u, V) /\ Size(u) = n /\ u.failed = t.failed + 1
          /\ u.fill = t.fill /\ u.count = t.count /\ Pairs(u) = Pairs(t)
      BY <3>1, FailFacts DEF n
    <3>3. Loaded(u)
      BY <1>2, <1>6, <3>2 DEF Loaded
    <3> QED BY <2>4, <3>2, <3>3 DEF u
  <2> QED BY <2>3, <2>4
<1>8. CASE ~ (3 * t.fill >= 2 * n) /\ n > MinSize /\ 4 * t.count <= n
  <2> DEFINE N == n \div 2
  <2>1. NewSize(t) = N
    BY <1>8 DEF NewSize, n
  <2>2. N \in Range(TableSize) /\ 2 * N = n
    BY <1>2, <1>4, <1>8
  <2> HIDE DEF N
  <2>3. N \in Nat /\ N # n /\ t.count < N /\ 3 * t.count < 2 * N
    <3>1. N \in Nat /\ N >= 2
      BY <2>2, SizeFacts
    <3> QED BY <1>2, <1>8, <2>2, <3>1
  <2>4. CASE mem
    <3>1. u = Copied(t, N)
      BY <2>1, <2>3, <2>4 DEF Update, n
    <3> HIDE DEF u
    <3>2. /\ Well(u, V) /\ Size(u) = N /\ u.failed = t.failed
          /\ u.fill = t.count /\ u.count = t.count
          /\ Pairs(u) = Pairs(t)
      BY <2>2, <2>3, <3>1, CopiedFacts
    <3>3. Loaded(u)
      BY <1>2, <2>3, <3>2 DEF Loaded
    <3> QED BY <3>2, <3>3 DEF u
  <2>5. CASE ~ mem
    <3>1. u = [t EXCEPT !.failed = @ + 1]
      BY <2>1, <2>3, <2>5 DEF Update, n
    <3> HIDE DEF u
    <3>2. /\ Well(u, V) /\ Size(u) = n /\ u.failed = t.failed + 1
          /\ u.fill = t.fill /\ u.count = t.count /\ Pairs(u) = Pairs(t)
      BY <3>1, FailFacts DEF n
    <3>3. Loaded(u)
      BY <1>2, <1>6, <3>2 DEF Loaded
    <3> QED BY <2>5, <3>2, <3>3 DEF u
  <2> QED BY <2>4, <2>5
<1>9. CASE ~ (3 * t.fill >= 2 * n) /\ ~ (n > MinSize /\ 4 * t.count <= n)
  <2>1. NewSize(t) = n
    BY <1>9 DEF NewSize, n
  <2>2. u = t
    BY <2>1 DEF Update, n
  <2>3. 3 * t.fill < 2 * n
    BY <1>2, <1>9
  <2>4. n # Top
    BY <1>2, <1>3, <1>4, <1>5, <1>9
  <2>5. Loaded(t)
    BY <1>2, <2>3, <2>4 DEF Loaded, n
  <2> QED BY <2>2, <2>5
<1> QED BY <1>7, <1>8, <1>9

-----------------------------------------------------------------------------
(* hash_set, hash_del, hash_isset and hash_get. *)

\* The tables that the calls lead to.
Sane(t, V) == Well(t, V) /\ Loaded(t) /\ t.failed <= MaxFails

\* Such a table is not full, and searches in it end.
LEMMA SaneGap ==
  ASSUME NEW V, NEW t, Sane(t, V)
  PROVE  /\ Well(t, V) /\ t \in Tables(V) /\ Counted(t) /\ Found(t)
         /\ Gap(t) /\ 3 * t.failed <= MinSize
         /\ t.failed \in Nat /\ t.fill \in Nat /\ t.count \in Nat
         /\ Size(t) \in Nat /\ MinSize \in Nat /\ MinSize <= Size(t)
<1>1. Well(t, V) /\ t \in Tables(V) /\ Counted(t) /\ Found(t)
  BY DEF Sane, Well
<1>2. /\ Size(t) \in Range(TableSize) /\ Size(t) \in Nat
      /\ t.failed \in Nat /\ t.fill \in Nat /\ t.count \in Nat
  BY <1>1, TableFacts
<1> DEFINE n == Size(t)
<1>3. n \in Range(TableSize)
  BY <1>2
<1> HIDE DEF n
<1>4. MinSize \in Nat /\ MinSize <= n
  BY <1>3, Ladder
<1>5. 3 * t.failed <= MinSize
  <2>1. t.failed <= MaxFails /\ MaxFails \in Nat /\ 3 * MaxFails <= MinSize
    BY HashAssumption, RoomAssumption DEF Sane
  <2> QED BY <1>2, <1>4, <2>1
<1>6. t.fill < Size(t)
  <2>1. 3 * t.fill < 2 * Size(t) + 3 * t.failed
    BY DEF Sane, Loaded
  <2> QED BY <1>2, <1>4, <1>5, <2>1 DEF n
<1>7. Gap(t)
  BY <1>1, <1>6, GapFromFill
<1> QED BY <1>1, <1>2, <1>4, <1>5, <1>7 DEF n

\* hash_isset tells whether there is a pair with the key, and hash_get returns
\* its value; there is no other.
LEMMA HasFacts ==
  ASSUME NEW V, NEW t, Sane(t, V), NEW k \in Key
  PROVE  /\ IsSet(t, k) => Get(t, k) \in V /\ <<k, Get(t, k)>> \in Pairs(t)
         /\ \A x \in Pairs(t) : x[1] = k => IsSet(t, k) /\ x = <<k, Get(t, k)>>
         /\ ~ IsSet(t, k) => Absent(t, k)
<1> DEFINE i == Lookup(t, k)
<1>1. t \in Tables(V) /\ Found(t) /\ Gap(t)
  BY SaneGap
<1>2. /\ i \in DOMAIN t.slots
      /\ \A j \in DOMAIN t.slots : Holds(t, j, k) => j = i
      /\ Holds(t, i, k) \/ t.slots[i] \in {Empty, Deleted}
  BY <1>1, LookupFacts
<1>3. IsSet(t, k) <=> Active(t.slots[i])
  BY DEF IsSet
<1>4. Get(t, k) = t.slots[i][2]
  BY DEF Get
<1> HIDE DEF i
<1>5. IsSet(t, k) <=> Holds(t, i, k)
  BY <1>2, <1>3, SlotFacts DEF Holds
<1>6. t.slots[i] \in Slot(V)
  BY <1>1, <1>2, TableFacts
<1>7. IsSet(t, k) => t.slots[i] = <<k, Get(t, k)>> /\ Get(t, k) \in V /\ i \in Used(t)
  BY <1>2, <1>3, <1>4, <1>5, <1>6, SlotFacts DEF Holds, Used
<1>8. ASSUME NEW x \in Pairs(t), x[1] = k PROVE IsSet(t, k) /\ x = <<k, Get(t, k)>>
  <2>1. PICK j \in DOMAIN t.slots : x = t.slots[j] /\ Active(t.slots[j])
    BY DEF Pairs, Used
  <2>2. Holds(t, j, k)
    BY <1>8, <2>1 DEF Holds
  <2>3. j = i
    BY <1>2, <2>2
  <2> QED BY <1>5, <1>7, <2>1, <2>2, <2>3
<1>9. ~ IsSet(t, k) => Absent(t, k)
  BY <1>2, <1>5 DEF Absent
<1>10. IsSet(t, k) => <<k, Get(t, k)>> \in Pairs(t)
  <2>1. IsSet(t, k) => t.slots[i] \in Pairs(t)
    BY <1>7 DEF Pairs
  <2> QED BY <1>7, <2>1
<1> QED BY <1>7, <1>8, <1>9, <1>10

\* hash_set makes the value that of the key, and keeps the other pairs.
LEMMA SetFacts ==
  ASSUME NEW V, NEW t, Sane(t, V), NEW k \in Key, NEW v \in V, NEW mem \in BOOLEAN,
         mem \/ t.failed < MaxFails
  PROVE  LET u == Set(t, k, v, mem) IN
         /\ Sane(u, V)
         /\ Pairs(u) = {x \in Pairs(t) : x[1] # k} \cup {<<k, v>>}
         /\ u.failed = t.failed \/ (~ mem /\ u.failed = t.failed + 1)
<1> DEFINE u == Set(t, k, v, mem)
<1>1. /\ Well(t, V) /\ t \in Tables(V) /\ Counted(t) /\ Found(t)
      /\ Gap(t) /\ 3 * t.failed <= MinSize
      /\ t.failed \in Nat /\ t.fill \in Nat /\ t.count \in Nat
      /\ Size(t) \in Nat /\ MinSize \in Nat /\ MinSize <= Size(t)
  BY SaneGap
<1>2. /\ 3 * t.fill < 2 * Size(t) + 3 * t.failed
      /\ Size(t) = Top => t.fill <= t.count + t.failed
      /\ t.failed <= MaxFails /\ MaxFails \in Nat
  BY HashAssumption DEF Sane, Loaded
<1>3. CASE IsSet(t, k)
  <2>1. u = [t EXCEPT !.slots[Lookup(t, k)][2] = v]
    BY <1>3 DEF Set
  <2>2. /\ Well(u, V)
        /\ Size(u) = Size(t) /\ u.failed = t.failed /\ u.count = t.count /\ u.fill = t.fill
        /\ Pairs(u) = {x \in Pairs(t) : x[1] # k} \cup {<<k, v>>}
    <3> HIDE DEF u
    <3> QED BY <1>1, <1>3, <2>1, ReplaceFacts
  <2> HIDE DEF u
  <2>3. Sane(u, V)
    BY <1>2, <2>2 DEF Sane, Loaded
  <2> QED BY <2>2, <2>3 DEF u
<1>4. CASE ~ IsSet(t, k)
  <2> DEFINE w == Insert(t, k, v)
  <2>1. Absent(t, k)
    BY <1>4, HasFacts
  <2>2. /\ Well(w, V)
        /\ Size(w) = Size(t) /\ w.failed = t.failed /\ w.count = t.count + 1
        /\ w.fill = t.fill \/ w.fill = t.fill + 1
        /\ Pairs(w) = Pairs(t) \cup {<<k, v>>}
    BY <1>1, <2>1, InsertFacts
  <2>3. u = Update(w, mem)
    BY <1>4 DEF Set
  <2> HIDE DEF u, w
  <2>4. Strained(w)
    BY <1>1, <1>2, <2>2 DEF Strained
  <2>5. /\ Well(u, V) /\ Loaded(u) /\ Pairs(u) = Pairs(w)
        /\ u.failed = w.failed \/ (~ mem /\ u.failed = w.failed + 1)
    BY <2>2, <2>3, <2>4, UpdateFacts
  <2>6. \A x \in Pairs(t) : x[1] # k
    BY <2>1 DEF Absent, Pairs, Used, Holds
  <2>7. Pairs(u) = {x \in Pairs(t) : x[1] # k} \cup {<<k, v>>}
    BY <2>2, <2>5, <2>6
  <2>8. u.failed <= MaxFails
    BY <1>1, <1>2, <2>2, <2>5
  <2> QED BY <2>2, <2>5, <2>7, <2>8 DEF Sane, u
<1> QED BY <1>3, <1>4

\* hash_del removes the pair of the key, if there is one, and no other.
LEMMA DelFacts ==
  ASSUME NEW V, NEW t, Sane(t, V), NEW k \in Key, NEW mem \in BOOLEAN,
         mem \/ t.failed < MaxFails
  PROVE  LET u == Del(t, k, mem) IN
         /\ Sane(u, V)
         /\ Pairs(u) = {x \in Pairs(t) : x[1] # k}
         /\ u.failed = t.failed \/ (~ mem /\ u.failed = t.failed + 1)
<1> DEFINE u == Del(t, k, mem)
<1>1. /\ Well(t, V) /\ t \in Tables(V) /\ Counted(t) /\ Found(t)
      /\ Gap(t) /\ 3 * t.failed <= MinSize
      /\ t.failed \in Nat /\ t.fill \in Nat /\ t.count \in Nat
      /\ Size(t) \in Nat /\ MinSize \in Nat /\ MinSize <= Size(t)
  BY SaneGap
<1>2. /\ 3 * t.fill < 2 * Size(t) + 3 * t.failed
      /\ Size(t) = Top => t.fill <= t.count + t.failed
      /\ t.failed <= MaxFails /\ MaxFails \in Nat
  BY HashAssumption DEF Sane, Loaded
<1>3. CASE ~ IsSet(t, k)
  <2>1. u = t
    BY <1>3 DEF Del
  <2>2. \A x \in Pairs(t) : x[1] # k
    BY <1>3, HasFacts
  <2> QED BY <2>1, <2>2
<1>4. CASE IsSet(t, k)
  <2> DEFINE w == Marked(t, k)
  <2>1. u = Update(w, mem)
    BY <1>4 DEF Del, Marked
  <2>2. /\ Well(w, V)
        /\ Size(w) = Size(t) /\ w.failed = t.failed /\ w.count = t.count - 1 /\ w.fill = t.fill
        /\ Pairs(w) = {x \in Pairs(t) : x[1] # k}
    BY <1>1, <1>4, MarkFacts
  <2> HIDE DEF u, w
  <2>4. Strained(w)
    BY <1>1, <1>2, <2>2 DEF Strained
  <2>5. /\ Well(u, V) /\ Loaded(u) /\ Pairs(u) = Pairs(w)
        /\ u.failed = w.failed \/ (~ mem /\ u.failed = w.failed + 1)
    BY <2>1, <2>2, <2>4, UpdateFacts
  <2>6. Pairs(u) = {x \in Pairs(t) : x[1] # k}
    BY <2>2, <2>5
  <2>8. u.failed <= MaxFails
    BY <1>1, <1>2, <2>2, <2>5
  <2> QED BY <2>2, <2>5, <2>6, <2>8 DEF Sane, u
<1> QED BY <1>3, <1>4

-----------------------------------------------------------------------------
(* The structures that files and programs lead to. *)

\* A File structure whose position is in its buffer, and whose buffer is as
\* large as its content.
Structure == [name : Key, pos : Nat, size : Nat, bufSize : Nat, data : Seq(Byte)]
Fits(file) ==
  /\ file \in Structure
  /\ file.pos <= file.size /\ file.size = file.bufSize /\ file.bufSize = Len(file.data)

\* The table is sane, the structures are those that a name or a program leads
\* to, and each name leads to one that bears it.
FInv ==
  /\ Sane(files, File)
  /\ opened \subseteq File
  /\ heap = [f \in Named(files) \cup opened |-> heap[f]]
  /\ \A f \in DOMAIN heap : Fits(heap[f])
  /\ \A x \in Pairs(files) : heap[x[2]].name = x[1]

\* The pointers in a table are the values of its pairs.
LEMMA NamedPairs ==
  ASSUME NEW t
  PROVE  Named(t) = {x[2] : x \in Pairs(t)}
<1>1. Used(t) = {j \in DOMAIN t.slots : Active(t.slots[j])}
  BY DEF Used
<1>2. Named(t) = {t.slots[i][2] : i \in Used(t)}
  BY <1>1 DEF Named
<1>3. {x[2] : x \in Pairs(t)} = {t.slots[i][2] : i \in Used(t)}
  BY DEF Pairs
<1> QED BY <1>2, <1>3

\* Only some of the structures are kept.
LEMMA KeptStructures ==
  ASSUME NEW h, NEW S, S \subseteq DOMAIN h
  PROVE  LET g == Restrict(h, S) IN
         /\ g = [x \in S |-> g[x]]
         /\ DOMAIN g = S
         /\ \A x \in S : g[x] = h[x]
BY DEF Restrict

\* The parts of the invariant make it.
LEMMA FInvParts ==
  ASSUME FInv
  PROVE  /\ Sane(files, File) /\ opened \subseteq File
         /\ DOMAIN heap = Named(files) \cup opened
         /\ heap = [f \in DOMAIN heap |-> heap[f]]
         /\ \A x \in Pairs(files) : x[2] \in DOMAIN heap /\ heap[x[2]].name = x[1]
         /\ \A f \in DOMAIN heap : Fits(heap[f])
<1>1. DOMAIN heap = Named(files) \cup opened
  BY DEF FInv
<1>2. heap = [f \in DOMAIN heap |-> heap[f]]
  BY <1>1 DEF FInv
<1>3. \A x \in Pairs(files) : x[2] \in Named(files)
  BY NamedPairs
<1> QED BY <1>1, <1>2, <1>3 DEF FInv

\* The initial state.
LEMMA FInvInit == Init => FInv
<1> SUFFICES ASSUME Init PROVE FInv
  OBVIOUS
<1>1. files = Fresh(MinSize) /\ heap = <<>> /\ opened = {}
  BY DEF Init
<1>2. MinSize \in Range(TableSize)
  <2>1. 0 \in 0..Doublings
    BY HashAssumption
  <2> QED BY <2>1, TableSizeDef DEF Range
<1>3. /\ Well(files, File) /\ Size(files) = MinSize /\ files.failed = 0
      /\ files.count = 0 /\ files.fill = 0 /\ Pairs(files) = {}
  <2> DEFINE u == Fresh(MinSize)
             z == 0
  <2>1. u = [u EXCEPT !.failed = z]
    <3> DEFINE sl == [i \in 0..(MinSize - 1) |-> Empty]
    <3>1. u = [slots |-> sl, fill |-> 0, count |-> 0, failed |-> 0]
      BY DEF Fresh
    <3> HIDE DEF sl
    <3> QED BY <3>1
  <2>2. z \in Nat
    OBVIOUS
  <2> HIDE DEF u, z
  <2>3. LET w == [Fresh(MinSize) EXCEPT !.failed = z] IN
        /\ Well(w, File) /\ Size(w) = MinSize /\ w.failed = z
        /\ w.count = 0 /\ w.fill = 0 /\ Pairs(w) = {}
    BY <1>2, <2>2, FreshFacts
  <2> QED BY <1>1, <2>1, <2>3 DEF u, z
<1>4. Sane(files, File)
  <2>1. MinSize \in Nat /\ 2 <= MinSize
    BY <1>2, Ladder
  <2> QED BY <1>3, <2>1, HashAssumption DEF Sane, Loaded
<1>5. Named(files) = {}
  BY <1>3, NamedPairs
<1>6. heap = [f \in Named(files) \cup opened |-> heap[f]] /\ DOMAIN heap = {}
  BY <1>1, <1>5
<1> QED BY <1>1, <1>3, <1>4, <1>6 DEF FInv

\* atomicOpen.
LEMMA OpenStep ==
  ASSUME FInv, NEW n \in Name, AtomicOpen(n)
  PROVE  FInv'
<1> DEFINE g == Get(files, n)
<1>1. /\ Sane(files, File) /\ opened \subseteq File
      /\ DOMAIN heap = Named(files) \cup opened
      /\ heap = [f \in DOMAIN heap |-> heap[f]]
      /\ \A x \in Pairs(files) : x[2] \in DOMAIN heap /\ heap[x[2]].name = x[1]
      /\ \A f \in DOMAIN heap : Fits(heap[f])
  BY FInvParts
<1>2. /\ IsSet(files, n) /\ opened' = opened \cup {g} /\ files' = files
      /\ heap' = [heap EXCEPT ![g] = Rewound(heap[g])]
  BY DEF AtomicOpen, Opened
<1>3. g \in File /\ <<n, g>> \in Pairs(files)
  BY <1>1, <1>2, HasFacts DEF Name
<1>4. g \in DOMAIN heap /\ g \in Named(files)
  <2>1. <<n, g>>[2] = g
    OBVIOUS
  <2> HIDE DEF g
  <2> QED BY <1>1, <1>3, <2>1, NamedPairs
<1> HIDE DEF g
<1>5. Fits(Rewound(heap[g])) /\ Rewound(heap[g]).name = heap[g].name
  <2> DEFINE r == heap[g]
  <2>1. Fits(r)
    BY <1>1, <1>4
  <2> HIDE DEF r
  <2> QED BY <2>1 DEF Fits, Structure, Rewound, r
<1>6. \A f \in DOMAIN heap : Fits(heap'[f]) /\ heap'[f].name = heap[f].name
  BY <1>1, <1>2, <1>4, <1>5
<1>7. DOMAIN heap' = DOMAIN heap /\ heap' = [f \in DOMAIN heap |-> heap'[f]]
  BY <1>2
<1>8. Named(files') \cup opened' = DOMAIN heap
  BY <1>1, <1>2, <1>4
<1>9. heap' = [f \in Named(files') \cup opened' |-> heap'[f]]
  BY <1>7, <1>8
<1> QED BY <1>1, <1>2, <1>3, <1>6, <1>7, <1>9 DEF FInv

\* What the system calls have in common that change one structure only.
LEMMA ChangedStructure ==
  ASSUME FInv, NEW g \in DOMAIN heap, NEW r, Fits(r), r.name = heap[g].name,
         heap' = [heap EXCEPT ![g] = r], files' = files, opened' = opened
  PROVE  FInv'
<1>1. /\ Sane(files, File) /\ opened \subseteq File
      /\ DOMAIN heap = Named(files) \cup opened
      /\ \A x \in Pairs(files) : x[2] \in DOMAIN heap /\ heap[x[2]].name = x[1]
      /\ \A f \in DOMAIN heap : Fits(heap[f])
  BY FInvParts
<1>2. \A f \in DOMAIN heap : Fits(heap'[f]) /\ heap'[f].name = heap[f].name
  BY <1>1
<1>3. DOMAIN heap' = DOMAIN heap /\ heap' = [f \in DOMAIN heap |-> heap'[f]]
  OBVIOUS
<1>4. heap' = [f \in Named(files') \cup opened' |-> heap'[f]]
  BY <1>1, <1>3
<1> QED BY <1>1, <1>2, <1>3, <1>4 DEF FInv

\* atomicRead.
LEMMA ReadStep ==
  ASSUME FInv, NEW f \in File, NEW n \in 1..MaxLen, AtomicRead(f, n)
  PROVE  FInv'
<1> DEFINE file == heap[f]
           left == file.size - file.pos
           len  == IF n > left THEN left ELSE n
           r == [file EXCEPT !.pos = @ + len]
<1>1. f \in opened /\ heap' = [heap EXCEPT ![f] = r] /\ files' = files /\ opened' = opened
  BY DEF AtomicRead
<1>2. f \in DOMAIN heap /\ Fits(file)
  BY <1>1, FInvParts
<1>3. n \in Nat
  BY FileAssumption
<1> HIDE DEF file
<1>4. file.size \in Nat /\ file.pos \in Nat /\ file.pos <= file.size
  BY <1>2 DEF Fits, Structure
<1>5. file.pos + len \in Nat /\ file.pos + len <= file.size
  BY <1>3, <1>4
<1> HIDE DEF len
<1>6. Fits(r) /\ r.name = file.name
  BY <1>2, <1>5 DEF Fits, Structure
<1> HIDE DEF r
<1> QED BY <1>1, <1>2, <1>6, ChangedStructure DEF file

\* What atomicWrite leaves: the content before the position and after the end
\* of what is written stays.
LEMMA WrittenFacts ==
  ASSUME NEW file, Fits(file), NEW d \in Seq(Byte)
  PROVE  LET r   == Written(file, d)
             end == file.pos + Len(d)
             max == IF end > Len(file.data) THEN end ELSE Len(file.data)
         IN /\ Fits(r) /\ r.name = file.name /\ r.pos = end /\ Len(r.data) = max
            /\ \A i \in 1..max :
                 r.data[i] = IF i \in (file.pos + 1)..end THEN d[i - file.pos] ELSE file.data[i]
<1> DEFINE new == Grown(file, Len(d))
           end == file.pos + Len(d)
           max == IF end > Len(file.data) THEN end ELSE Len(file.data)
           c   == [i \in 1..new.bufSize |->
                    IF i \in (file.pos + 1)..end THEN d[i - file.pos] ELSE file.data[i]]
           r   == Written(file, d)
<1>1. /\ file \in Structure /\ file.pos \in Nat /\ file.size \in Nat /\ file.bufSize \in Nat
      /\ file.data \in Seq(Byte) /\ Len(file.data) \in Nat
      /\ file.pos <= file.size /\ file.size = file.bufSize /\ file.bufSize = Len(file.data)
  BY DEF Fits, Structure
<1>2. Len(d) \in Nat /\ end \in Nat
  BY <1>1
<1>3. /\ new \in Structure /\ new.name = file.name /\ new.pos = file.pos /\ new.data = file.data
      /\ new.size = max /\ new.bufSize = max
  <2>1. CASE file.bufSize - file.pos < Len(d)
    <3>1. new = [file EXCEPT !.bufSize = end, !.size = end]
      BY <2>1 DEF Grown
    <3>2. max = end
      BY <1>1, <1>2, <2>1
    <3> HIDE DEF new, end, max
    <3>3. /\ new \in Structure /\ new.name = file.name /\ new.pos = file.pos /\ new.data = file.data
          /\ new.size = end /\ new.bufSize = end
      BY <1>1, <1>2, <3>1 DEF Structure
    <3> QED BY <3>2, <3>3
  <2>2. CASE ~ (file.bufSize - file.pos < Len(d))
    <3>1. new = file
      BY <2>2 DEF Grown
    <3>2. max = Len(file.data)
      BY <1>1, <1>2, <2>2
    <3> HIDE DEF new, max
    <3> QED BY <1>1, <3>1, <3>2
  <2> QED BY <2>1, <2>2
<1>4. r = [new EXCEPT !.pos = end, !.data = c]
  BY DEF Written
<1>5. max \in Nat /\ end <= max /\ Len(file.data) <= max
  BY <1>1, <1>2
<1>6. \A i \in 1..max : i \in (file.pos + 1)..end \/ i \in 1..Len(file.data)
  BY <1>1, <1>2
<1>7. \A i \in (file.pos + 1)..end : i - file.pos \in 1..Len(d)
  BY <1>1, <1>2
<1> HIDE DEF new, end, max
<1>8. c = [i \in 1..max |-> IF i \in (file.pos + 1)..end THEN d[i - file.pos] ELSE file.data[i]]
  BY <1>3
<1> HIDE DEF c
<1>9. \A i \in 1..max : c[i] = IF i \in (file.pos + 1)..end THEN d[i - file.pos] ELSE file.data[i]
  BY <1>8
<1>10. \A i \in 1..max : c[i] \in Byte
  <2>1. \A i \in 1..Len(d) : d[i] \in Byte
    OBVIOUS
  <2>2. \A i \in 1..Len(file.data) : file.data[i] \in Byte
    BY <1>1
  <2>3. \A i \in (file.pos + 1)..end : d[i - file.pos] \in Byte
    BY <1>7, <2>1
  <2> QED BY <1>6, <1>9, <2>2, <2>3
<1>11. c \in Seq(Byte) /\ Len(c) = max
  <2>1. c \in [1..max -> Byte]
    BY <1>8, <1>9, <1>10
  <2> QED BY <1>5, <2>1
<1> HIDE DEF r
<1>12. /\ r \in Structure /\ r.name = file.name /\ r.pos = end /\ r.data = c
       /\ r.size = max /\ r.bufSize = max
  BY <1>2, <1>3, <1>4, <1>11 DEF Structure
<1> QED BY <1>5, <1>9, <1>11, <1>12 DEF Fits, r, end, max

\* atomicWrite.
LEMMA WriteStep ==
  ASSUME FInv, NEW f \in File, NEW d \in Seq(Byte), AtomicWrite(f, d)
  PROVE  FInv'
<1> DEFINE file == heap[f]
           r == Written(file, d)
<1>1. f \in opened /\ heap' = [heap EXCEPT ![f] = r] /\ files' = files /\ opened' = opened
  BY DEF AtomicWrite
<1>2. f \in DOMAIN heap /\ Fits(file)
  BY <1>1, FInvParts
<1> HIDE DEF file
<1>3. Fits(r) /\ r.name = file.name
  BY <1>2, WrittenFacts
<1> HIDE DEF r
<1> QED BY <1>1, <1>2, <1>3, ChangedStructure DEF file

\* What the system calls have in common that leave structures behind.
LEMMA ReachStep ==
  ASSUME NEW h, Sane(files', File), opened' \subseteq File,
         Named(files') \cup opened' \subseteq DOMAIN h,
         \A f \in DOMAIN h : Fits(h[f]),
         \A x \in Pairs(files') : h[x[2]].name = x[1],
         Reach(h)
  PROVE  FInv'
<1> DEFINE S == Named(files') \cup opened'
<1>1. heap' = Restrict(h, S)
  BY DEF Reach
<1>2. S \subseteq DOMAIN h
  OBVIOUS
<1>3. \A x \in Pairs(files') : x[2] \in S
  BY NamedPairs
<1> HIDE DEF S
<1>4. heap' = [f \in S |-> heap'[f]] /\ DOMAIN heap' = S /\ \A x \in S : heap'[x] = h[x]
  BY <1>1, <1>2, KeptStructures
<1>5. \A f \in DOMAIN heap' : Fits(heap'[f])
  BY <1>2, <1>4
<1>6. \A x \in Pairs(files') : heap'[x[2]].name = x[1]
  BY <1>3, <1>4
<1> QED BY <1>4, <1>5, <1>6 DEF FInv, S

\* atomicClose.
LEMMA CloseStep ==
  ASSUME FInv, NEW f \in File, AtomicClose(f)
  PROVE  FInv'
<1>1. /\ Sane(files, File) /\ opened \subseteq File
      /\ DOMAIN heap = Named(files) \cup opened
      /\ \A x \in Pairs(files) : x[2] \in DOMAIN heap /\ heap[x[2]].name = x[1]
      /\ \A g \in DOMAIN heap : Fits(heap[g])
  BY FInvParts
<1>2. files' = files /\ opened' = opened \ {f} /\ Reach(heap)
  BY DEF AtomicClose
<1> QED BY <1>1, <1>2, ReachStep

\* Of the calls that a system call makes, one finds no memory at most.
LEMMA OneFails ==
  ASSUME NEW n \in Nat, NEW bad \in Failing(n)
  PROVE  bad \in 0..n /\ (bad # 0 => files.failed < MaxFails)
BY DEF Failing

\* atomicDelete.
LEMMA DeleteStep ==
  ASSUME FInv, NEW n \in Name, NEW bad \in Failing(1), AtomicDelete(n, bad)
  PROVE  FInv'
<1>1. /\ Sane(files, File) /\ opened \subseteq File
      /\ DOMAIN heap = Named(files) \cup opened
      /\ \A x \in Pairs(files) : x[2] \in DOMAIN heap /\ heap[x[2]].name = x[1]
      /\ \A g \in DOMAIN heap : Fits(heap[g])
  BY FInvParts
<1> DEFINE mem == bad # 1
<1>2. files' = Del(files, n, mem) /\ opened' = opened /\ Reach(heap)
  BY DEF AtomicDelete
<1>3. mem \in BOOLEAN /\ (mem \/ files.failed < MaxFails)
  BY OneFails
<1> HIDE DEF mem
<1>4. Sane(files', File) /\ Pairs(files') = {x \in Pairs(files) : x[1] # n}
  BY <1>1, <1>2, <1>3, DelFacts DEF Name
<1>5. Named(files') \subseteq Named(files)
  BY <1>4, NamedPairs
<1> QED BY <1>1, <1>2, <1>4, <1>5, ReachStep

\* atomicOpen of a file that does not exist.
LEMMA CreateStep ==
  ASSUME FInv, NEW n \in Name, NEW bad \in Failing(1), AtomicCreate(n, bad)
  PROVE  FInv'
<1>1. /\ Sane(files, File) /\ opened \subseteq File
      /\ DOMAIN heap = Named(files) \cup opened
      /\ \A x \in Pairs(files) : x[2] \in DOMAIN heap /\ heap[x[2]].name = x[1]
      /\ \A g \in DOMAIN heap : Fits(heap[g])
  BY FInvParts
<1> DEFINE mem == bad # 1
<1>2. PICK f \in File :
        /\ ~ IsSet(files, n) /\ Alloc(f)
        /\ files' = Set(files, n, f, mem)
        /\ heap' = With(heap, f, NewFile(n))
        /\ opened' = opened \cup {f}
  BY DEF AtomicCreate, Opened
<1>3. mem \in BOOLEAN /\ (mem \/ files.failed < MaxFails)
  BY OneFails
<1> HIDE DEF mem
<1>4. Sane(files', File) /\ Pairs(files') = {x \in Pairs(files) : x[1] # n} \cup {<<n, f>>}
  BY <1>1, <1>2, <1>3, SetFacts DEF Name
<1>5. f \notin DOMAIN heap
  BY <1>2 DEF Alloc
<1> DEFINE r == NewFile(n)
<1>6. Fits(r) /\ r.name = n
  BY DEF Fits, Structure, NewFile, Name
<1> HIDE DEF r
<1>7. /\ heap' = [x \in DOMAIN heap \cup {f} |-> heap'[x]]
      /\ DOMAIN heap' = DOMAIN heap \cup {f}
      /\ \A x \in DOMAIN heap : heap'[x] = heap[x]
      /\ heap'[f] = r
  <2> DEFINE g == With(heap, f, r)
  <2>1. /\ g = [x \in DOMAIN heap \cup {f} |-> g[x]]
        /\ DOMAIN g = DOMAIN heap \cup {f}
        /\ \A x \in DOMAIN heap : g[x] = heap[x]
        /\ g[f] = r
    BY <1>5 DEF With
  <2>2. heap' = g
    BY <1>2 DEF r
  <2> HIDE DEF g
  <2> QED BY <2>1, <2>2
<1>8. Pairs(files') = Pairs(files) \cup {<<n, f>>}
  <2>1. \A x \in Pairs(files) : x[1] # n
    BY <1>1, <1>2, HasFacts DEF Name
  <2> QED BY <1>4, <2>1
<1>9. Named(files') = Named(files) \cup {f}
  <2>1. <<n, f>>[2] = f
    OBVIOUS
  <2> QED BY <1>8, <2>1, NamedPairs
<1>10. \A g \in DOMAIN heap' : Fits(heap'[g])
  BY <1>1, <1>6, <1>7
<1>11. \A x \in Pairs(files') : heap'[x[2]].name = x[1]
  <2>1. <<n, f>>[1] = n /\ <<n, f>>[2] = f
    OBVIOUS
  <2> QED BY <1>1, <1>6, <1>7, <1>8, <2>1
<1>12. heap' = [x \in Named(files') \cup opened' |-> heap'[x]]
  <2>1. Named(files') \cup opened' = DOMAIN heap \cup {f}
    BY <1>1, <1>2, <1>9
  <2> QED BY <1>7, <2>1
<1> QED BY <1>1, <1>2, <1>4, <1>10, <1>11, <1>12 DEF FInv

\* The destination of a copy leads to the new file, and no other name to
\* another file than before.
LEMMA RenewedFacts ==
  ASSUME Sane(files, File), NEW n \in Name, NEW f \in File, NEW bad \in Nat,
         bad # 0 => files.failed < MaxFails
  PROVE  LET u == Renewed(n, f, bad) IN
         /\ Sane(u, File)
         /\ Pairs(u) = {x \in Pairs(files) : x[1] # n} \cup {<<n, f>>}
         /\ bad \notin {1, 2} => u.failed = files.failed
<1> DEFINE w == Del(files, n, bad # 1)
           u == Renewed(n, f, bad)
           m1 == bad # 1
           m2 == bad # 2
<1>1. /\ m1 \in BOOLEAN /\ (m1 \/ files.failed < MaxFails) /\ (m1 <=> bad # 1)
      /\ m2 \in BOOLEAN /\ (m2 \/ (m1 /\ files.failed < MaxFails)) /\ (m2 <=> bad # 2)
  OBVIOUS
<1>2. w = Del(files, n, m1)
  OBVIOUS
<1>3. u = Set(w, n, f, m2)
  BY DEF Renewed
<1> HIDE DEF w, u, m1, m2
<1>4. /\ Sane(w, File) /\ Pairs(w) = {x \in Pairs(files) : x[1] # n}
      /\ w.failed = files.failed \/ (~ m1 /\ w.failed = files.failed + 1)
  BY <1>1, <1>2, DelFacts DEF Name
<1>5. m2 \/ w.failed < MaxFails
  BY <1>1, <1>4
<1>6. /\ Sane(u, File) /\ Pairs(u) = {x \in Pairs(w) : x[1] # n} \cup {<<n, f>>}
      /\ u.failed = w.failed \/ (~ m2 /\ u.failed = w.failed + 1)
  BY <1>1, <1>3, <1>4, <1>5, SetFacts DEF Name
<1>7. {x \in Pairs(w) : x[1] # n} = Pairs(w)
  BY <1>4
<1> QED BY <1>1, <1>4, <1>6, <1>7 DEF u

\* The copy of a file bears its new name, and is as long.
LEMMA DuplicateFacts ==
  ASSUME FInv, NEW n1 \in Name, NEW n2 \in Name, IsSet(files, n1)
  PROVE  LET r   == Duplicate(n1, n2)
             old == heap[Get(files, n1)]
         IN /\ Get(files, n1) \in DOMAIN heap
            /\ Fits(r) /\ r.name = n2 /\ r.data = old.data /\ r.pos = old.pos
<1> DEFINE g == Get(files, n1)
           old == heap[g]
           r == Duplicate(n1, n2)
<1>1. <<n1, g>> \in Pairs(files)
  BY FInvParts, HasFacts DEF Name
<1>2. g \in DOMAIN heap
  <2>1. <<n1, g>>[2] = g
    OBVIOUS
  <2> HIDE DEF g
  <2> QED BY <1>1, <2>1, FInvParts
<1>3. Fits(old)
  BY <1>2, FInvParts
<1> DEFINE c == SubSeq(old.data, 1, old.size)
<1>4. r = [old EXCEPT !.name = n2, !.data = c]
  BY DEF Duplicate
<1> HIDE DEF old, r
<1>5. old.data \in Seq(Byte) /\ old.size = Len(old.data)
  BY <1>3 DEF Fits, Structure
<1>6. c = old.data
  BY <1>5
<1> HIDE DEF c
<1>7. Fits(r) /\ r.name = n2 /\ r.data = old.data /\ r.pos = old.pos
  BY <1>3, <1>4, <1>6 DEF Fits, Structure, Name
<1> QED BY <1>2, <1>7 DEF r, old

\* What atomicCopy and atomicRename have in common: the copy is allocated, and
\* each name leads to what it led to or, if it is that of the destination, to
\* the copy.
LEMMA DuplicateStep ==
  ASSUME FInv, NEW n1 \in Name, NEW n2 \in Name, NEW f \in File,
         IsSet(files, n1), Alloc(f), opened' = opened, Sane(files', File),
         \A x \in Pairs(files') : (x \in Pairs(files)) \/ (x = <<n2, f>>),
         Reach(With(heap, f, Duplicate(n1, n2)))
  PROVE  FInv'
<1>1. /\ opened \subseteq File
      /\ DOMAIN heap = Named(files) \cup opened
      /\ \A x \in Pairs(files) : x[2] \in DOMAIN heap /\ heap[x[2]].name = x[1]
      /\ \A g \in DOMAIN heap : Fits(heap[g])
  BY FInvParts
<1> DEFINE r == Duplicate(n1, n2)
           h == With(heap, f, r)
<1>2. Fits(r) /\ r.name = n2
  BY DuplicateFacts
<1>3. f \notin DOMAIN heap
  BY DEF Alloc
<1> HIDE DEF r
<1>4. /\ DOMAIN h = DOMAIN heap \cup {f}
      /\ \A x \in DOMAIN heap : h[x] = heap[x]
      /\ h[f] = r
  BY <1>3 DEF With
<1>5. Reach(h)
  BY DEF r
<1> HIDE DEF h
<1>6. \A g \in DOMAIN h : Fits(h[g])
  BY <1>1, <1>2, <1>4
<1>7. <<n2, f>>[1] = n2 /\ <<n2, f>>[2] = f
  OBVIOUS
<1>8. \A x \in Pairs(files') : h[x[2]].name = x[1] /\ x[2] \in DOMAIN h
  BY <1>1, <1>2, <1>4, <1>7
<1>9. Named(files') \cup opened' \subseteq DOMAIN h
  <2>1. Named(files') = {x[2] : x \in Pairs(files')}
    BY NamedPairs
  <2> QED BY <1>1, <1>4, <1>8, <2>1
<1> QED BY <1>1, <1>5, <1>6, <1>8, <1>9, ReachStep

\* atomicCopy.
LEMMA CopyStep ==
  ASSUME FInv, NEW n1 \in Name, NEW n2 \in Name, NEW bad \in Failing(2), AtomicCopy(n1, n2, bad)
  PROVE  FInv'
<1>1. PICK f \in File :
        /\ IsSet(files, n1) /\ Alloc(f) /\ files' = Renewed(n2, f, bad) /\ opened' = opened
        /\ Reach(With(heap, f, Duplicate(n1, n2)))
  BY DEF AtomicCopy
<1>2. bad \in Nat /\ (bad # 0 => files.failed < MaxFails)
  BY OneFails
<1>3. Sane(files, File)
  BY DEF FInv
<1>4. Sane(files', File) /\ Pairs(files') = {x \in Pairs(files) : x[1] # n2} \cup {<<n2, f>>}
  BY <1>1, <1>2, <1>3, RenewedFacts
<1> QED BY <1>1, <1>4, DuplicateStep

\* atomicRename.
LEMMA RenameStep ==
  ASSUME FInv, NEW n1 \in Name, NEW n2 \in Name, NEW bad \in Failing(3), AtomicRename(n1, n2, bad)
  PROVE  FInv'
<1> DEFINE mem == bad # 3
<1>1. PICK f \in File :
        /\ IsSet(files, n1) /\ Alloc(f) /\ files' = Del(Renewed(n2, f, bad), n1, mem)
        /\ opened' = opened
        /\ Reach(With(heap, f, Duplicate(n1, n2)))
  BY DEF AtomicRename
<1>2. bad \in Nat /\ (bad # 0 => files.failed < MaxFails)
  BY OneFails
<1>3. Sane(files, File)
  BY DEF FInv
<1> DEFINE w == Renewed(n2, f, bad)
<1>4. /\ Sane(w, File) /\ Pairs(w) = {x \in Pairs(files) : x[1] # n2} \cup {<<n2, f>>}
      /\ bad \notin {1, 2} => w.failed = files.failed
  BY <1>2, <1>3, RenewedFacts
<1>5. mem \in BOOLEAN /\ (mem \/ w.failed < MaxFails)
  BY <1>2, <1>4
<1> HIDE DEF mem, w
<1>6. Sane(files', File) /\ Pairs(files') = {x \in Pairs(w) : x[1] # n1}
  <2>1. files' = Del(w, n1, mem)
    BY <1>1 DEF w
  <2> QED BY <1>4, <1>5, <2>1, DelFacts DEF Name
<1>7. \A x \in Pairs(files') : (x \in Pairs(files)) \/ (x = <<n2, f>>)
  BY <1>4, <1>6
<1> QED BY <1>1, <1>6, <1>7, DuplicateStep

\* Every step keeps the invariant.
LEMMA FInvNext == FInv /\ [Next]_vars => FInv'
<1> SUFFICES ASSUME FInv, [Next]_vars PROVE FInv'
  OBVIOUS
<1>1. CASE UNCHANGED vars
  BY <1>1 DEF FInv, vars, Named
<1>2. CASE \E n \in Name : AtomicOpen(n)
  BY <1>2, OpenStep
<1>3. CASE \E n \in Name, bad \in Failing(1) : AtomicCreate(n, bad)
  BY <1>3, CreateStep
<1>4. ASSUME NEW f \in File, AtomicClose(f) PROVE FInv'
  BY <1>4, CloseStep
<1>5. ASSUME NEW f \in File, NEW n \in 1..MaxLen, AtomicRead(f, n) PROVE FInv'
  BY <1>5, ReadStep
<1>6. ASSUME NEW f \in File, NEW b \in Byte, AtomicWrite(f, <<b>>) PROVE FInv'
  <2> DEFINE d == <<b>>
  <2>1. d \in Seq(Byte) /\ AtomicWrite(f, d)
    BY <1>6
  <2> HIDE DEF d
  <2> QED BY <2>1, WriteStep
<1>7. CASE \E n \in Name, bad \in Failing(1) : AtomicDelete(n, bad)
  BY <1>7, DeleteStep
<1>8. CASE \E n1, n2 \in Name, bad \in Failing(2) : AtomicCopy(n1, n2, bad)
  BY <1>8, CopyStep
<1>9. CASE \E n1, n2 \in Name, bad \in Failing(3) : AtomicRename(n1, n2, bad)
  BY <1>9, RenameStep
<1> QED BY <1>1, <1>2, <1>3, <1>4, <1>5, <1>6, <1>7, <1>8, <1>9 DEF Next

\* The structures and the table are always as FInv says.
LEMMA FInvHolds == Spec => []FInv
BY FInvInit, FInvNext, PTL DEF Spec

\* Through every sequence of calls the counters of the table describe its
\* slots, and every search ends and finds the one slot of its name.
THEOREM TableSoundHolds == Spec => []TableSound
<1>1. FInv => TableSound
  <2> SUFFICES ASSUME FInv PROVE TableSound
    OBVIOUS
  <2>1. Sane(files, File)
    BY DEF FInv
  <2>2. files \in Tables(File) /\ Counted(files) /\ Found(files) /\ Gap(files)
    BY <2>1, SaneGap
  <2>3. /\ files.fill = Cardinality({i \in DOMAIN files.slots : files.slots[i] # Empty})
        /\ files.count = Cardinality({i \in DOMAIN files.slots : Active(files.slots[i])})
    BY <2>2 DEF Counted, Filled, Used
  <2>4. \A k \in Key : Ends(files, k)
    BY <2>2, SearchEnds
  <2>5. \A k \in Key : SlotsOf(k) \subseteq {Lookup(files, k)}
    BY <2>2, LookupFacts DEF SlotsOf
  <2> QED BY <2>3, <2>4, <2>5 DEF TableSound
<1> QED BY <1>1, FInvHolds, PTL

\* The position of a file is never behind its end, its size is that of its
\* buffer, and a name leads to a file that bears it.
THEOREM FileBoundsHolds == Spec => []FileBounds
<1>1. FInv => FileBounds
  <2> SUFFICES ASSUME FInv PROVE FileBounds
    OBVIOUS
  <2>1. \A f \in DOMAIN heap :
          LET file == heap[f] IN
            file.pos <= file.size /\ file.size = file.bufSize /\ file.bufSize = Len(file.data)
    BY FInvParts DEF Fits
  <2>2. ASSUME NEW n \in Name, IsSet(files, n) PROVE heap[Get(files, n)].name = n
    <3> DEFINE g == Get(files, n)
    <3>1. <<n, g>> \in Pairs(files)
      BY <2>2, FInvParts, HasFacts DEF Name
    <3>2. <<n, g>>[1] = n /\ <<n, g>>[2] = g
      OBVIOUS
    <3> HIDE DEF g
    <3>3. heap[g].name = n
      BY <3>1, <3>2, FInvParts
    <3> QED BY <3>3 DEF g
  <2> QED BY <2>1, <2>2 DEF FileBounds
<1> QED BY <1>1, FInvHolds, PTL

-----------------------------------------------------------------------------
(* The promise to programs. *)

\* What a table says, as module FileProps reads it, and what the structures
\* are to programs.
Dir(t)   == [n \in {s[1] : s \in Pairs(t)} |-> (CHOOSE s \in Pairs(t) : s[1] = n)[2]]
Store(h) == [f \in DOMAIN h |-> [content |-> h[f].data, offset |-> h[f].pos]]

\* They are the state of module FileContract.
LEMMA DirIsDirectory == Directory = Dir(files) /\ Directory' = Dir(files')
<1> DEFINE A(t) == {t.slots[i] : i \in {j \in DOMAIN t.slots : Active(t.slots[j])}}
           Walk(S) == [n \in {s[1] : s \in S} |-> (CHOOSE s \in S : s[1] = n)[2]]
<1>1. \A t : A(t) = Pairs(t)
  BY DEF Pairs, Used
<1>2. Directory = Walk(A(files)) /\ Directory' = Walk(A(files'))
  BY DEF Directory
<1>3. \A t : Dir(t) = Walk(Pairs(t))
  BY DEF Dir
<1> HIDE DEF A, Walk
<1> QED BY <1>1, <1>2, <1>3

\* Its operators on functions are those of this one.
LEMMA SameOperators ==
  /\ \A f, S : Contract!Restrict(f, S) = Restrict(f, S)
  /\ \A f : Contract!Range(f) = Range(f)
BY DEF Contract!Restrict, Restrict, Contract!Range, Range

\* A function is what the table says, if its pairs are those of the table.
LEMMA DirIs ==
  ASSUME NEW t, NEW d, d = [n \in DOMAIN d |-> d[n]],
         Pairs(t) = {<<n, d[n]>> : n \in DOMAIN d}
  PROVE  Dir(t) = d
<1>1. \A n \in DOMAIN d : <<n, d[n]>> \in Pairs(t) /\ <<n, d[n]>>[1] = n /\ <<n, d[n]>>[2] = d[n]
  OBVIOUS
<1>2. \A s \in Pairs(t) : s[1] \in DOMAIN d /\ s = <<s[1], d[s[1]]>>
  OBVIOUS
<1>3. {s[1] : s \in Pairs(t)} = DOMAIN d
  BY <1>1, <1>2
<1>4. ASSUME NEW n \in DOMAIN d
      PROVE  (CHOOSE s \in Pairs(t) : s[1] = n)[2] = d[n]
  <2> DEFINE s == CHOOSE x \in Pairs(t) : x[1] = n
  <2>1. s \in Pairs(t) /\ s[1] = n
    BY <1>1
  <2> HIDE DEF s
  <2>2. s = <<n, d[n]>>
    BY <1>2, <2>1
  <2>3. s[2] = d[n]
    BY <1>1, <2>2
  <2> QED BY <2>3 DEF s
<1> QED BY <1>3, <1>4 DEF Dir

\* It leads each name to what hash_get returns.
LEMMA DirFacts ==
  ASSUME NEW V, NEW t, Sane(t, V)
  PROVE  /\ DOMAIN Dir(t) = {n \in Key : IsSet(t, n)}
         /\ \A n \in DOMAIN Dir(t) : Dir(t)[n] = Get(t, n)
         /\ Pairs(t) = {<<n, Dir(t)[n]>> : n \in DOMAIN Dir(t)}
         /\ Range(Dir(t)) = Named(t)
         /\ Dir(t) = [n \in DOMAIN Dir(t) |-> Dir(t)[n]]
<1> DEFINE d == [n \in {k \in Key : IsSet(t, k)} |-> Get(t, n)]
<1>1. \A n \in DOMAIN d : <<n, d[n]>> \in Pairs(t)
  BY HasFacts
<1>2. ASSUME NEW x \in Pairs(t) PROVE x[1] \in DOMAIN d /\ x = <<x[1], d[x[1]]>>
  <2>1. PICK j \in DOMAIN t.slots : x = t.slots[j] /\ Active(t.slots[j])
    BY DEF Pairs, Used
  <2>2. t.slots[j] \in Slot(V)
    BY SaneGap, TableFacts
  <2>3. x[1] \in Key
    BY <2>1, <2>2, SlotFacts
  <2> DEFINE k == x[1]
  <2>4. k \in Key /\ x[1] = k
    BY <2>3
  <2> HIDE DEF k
  <2>5. IsSet(t, k) /\ x = <<k, Get(t, k)>>
    BY <2>4, HasFacts
  <2> QED BY <2>4, <2>5
<1>3. Pairs(t) = {<<n, d[n]>> : n \in DOMAIN d}
  <2> HIDE DEF d
  <2> QED BY <1>1, <1>2
<1>4. d = [n \in DOMAIN d |-> d[n]]
  OBVIOUS
<1>5. Dir(t) = d
  <2> HIDE DEF d
  <2> QED BY <1>3, <1>4, DirIs
<1>6. Range(d) = Named(t)
  <2> HIDE DEF d
  <2>1. \A n : <<n, d[n]>>[2] = d[n]
    OBVIOUS
  <2>2. {x[2] : x \in Pairs(t)} = {d[n] : n \in DOMAIN d}
    <3>1. \A x \in Pairs(t) : \E n \in DOMAIN d : x[2] = d[n]
      BY <1>3
    <3>2. ASSUME NEW n \in DOMAIN d PROVE \E x \in Pairs(t) : x[2] = d[n]
      <4>1. <<n, d[n]>> \in Pairs(t)
        BY <1>3
      <4> QED BY <2>1, <4>1
    <3> QED BY <3>1, <3>2
  <2> QED BY <2>2, NamedPairs DEF Range
<1> QED BY <1>3, <1>4, <1>5, <1>6

\* A name gets a file.
LEMMA DirWith ==
  ASSUME NEW V, NEW t, NEW u, Sane(t, V), NEW n, NEW f,
         Pairs(u) = {x \in Pairs(t) : x[1] # n} \cup {<<n, f>>}
  PROVE  Dir(u) = Contract!With(Dir(t), n, f)
<1> DEFINE a == Dir(t)
           d == Contract!With(a, n, f)
<1>1. Pairs(t) = {<<k, a[k]>> : k \in DOMAIN a}
  BY DirFacts
<1> HIDE DEF a
<1>2. /\ d = [k \in DOMAIN d |-> d[k]] /\ DOMAIN d = DOMAIN a \cup {n}
      /\ d[n] = f /\ \A k \in DOMAIN a : k # n => d[k] = a[k]
  BY DEF Contract!With
<1> HIDE DEF d
<1>3. \A k : <<k, a[k]>>[1] = k
  OBVIOUS
<1>4. {x \in Pairs(t) : x[1] # n} = {<<k, a[k]>> : k \in DOMAIN a \ {n}}
  BY <1>1, <1>3
<1>5. {<<k, a[k]>> : k \in DOMAIN a \ {n}} = {<<k, d[k]>> : k \in DOMAIN a \ {n}}
  BY <1>2
<1>6. Pairs(u) = {<<k, d[k]>> : k \in DOMAIN d}
  BY <1>2, <1>4, <1>5
<1>7. Dir(u) = d
  BY <1>2, <1>6, DirIs
<1> QED BY <1>7 DEF a, d

\* A name goes.
LEMMA DirWithout ==
  ASSUME NEW d, NEW t, NEW u, NEW n, d = [k \in DOMAIN d |-> d[k]],
         Pairs(t) = {<<k, d[k]>> : k \in DOMAIN d},
         Pairs(u) = {x \in Pairs(t) : x[1] # n},
         NEW e, e = Restrict(d, DOMAIN d \ {n})
  PROVE  Dir(u) = e
<1>1. e = [k \in DOMAIN e |-> e[k]] /\ DOMAIN e = DOMAIN d \ {n} /\ \A k \in DOMAIN e : e[k] = d[k]
  BY DEF Restrict
<1>2. \A k : <<k, d[k]>>[1] = k
  OBVIOUS
<1>3. Pairs(u) = {<<k, d[k]>> : k \in DOMAIN d \ {n}}
  BY <1>2
<1>4. Pairs(u) = {<<k, e[k]>> : k \in DOMAIN e}
  BY <1>1, <1>3
<1> QED BY <1>1, <1>4, DirIs

\* What changes of the structures are to programs.
LEMMA StoreRestrict ==
  ASSUME NEW h, NEW S, S \subseteq DOMAIN h
  PROVE  Store(Restrict(h, S)) = Restrict(Store(h), S)
BY DEF Store, Restrict

LEMMA StoreWith ==
  ASSUME NEW h, NEW f, NEW r
  PROVE  Store(With(h, f, r)) = Contract!With(Store(h), f, [content |-> r.data, offset |-> r.pos])
BY DEF Store, With, Contract!With

LEMMA StoreChange ==
  ASSUME NEW h, NEW g \in DOMAIN h, NEW r, NEW u, u = Put(h, g, r),
         NEW c, NEW o, r.data = c, r.pos = o
  PROVE  Store(u) = Put(Store(h), g, [content |-> c, offset |-> o])
BY DEF Store, Put

\* Structures are lost to programs when names and pointers do not lead to them.
LEMMA ReachExist ==
  ASSUME NEW h, Sane(files', File), Named(files') \cup opened' \subseteq DOMAIN h, Reach(h)
  PROVE  Store(heap') = Contract!Restrict(Store(h), Contract!Range(Directory') \cup opened')
<1> DEFINE S == Named(files') \cup opened'
<1>1. heap' = Restrict(h, S)
  BY DEF Reach
<1>2. Range(Directory') = Named(files')
  BY DirIsDirectory, DirFacts
<1>4. S = Contract!Range(Directory') \cup opened'
  BY <1>2, SameOperators
<1> HIDE DEF S
<1>3. Store(heap') = Restrict(Store(h), S)
  BY <1>1, StoreRestrict DEF S
<1> QED BY <1>3, <1>4, SameOperators

\* atomicOpen.
LEMMA OpenPromise ==
  ASSUME FInv, NEW n \in Name, AtomicOpen(n)
  PROVE  Contract!Open(n)
<1> DEFINE g == Get(files, n)
           r == Rewound(heap[g])
<1>1. /\ IsSet(files, n) /\ opened' = opened \cup {g} /\ files' = files
      /\ heap' = [heap EXCEPT ![g] = r]
  BY DEF AtomicOpen, Opened
<1>2. Sane(files, File)
  BY FInvParts
<1>3. n \in DOMAIN Directory /\ Directory[n] = g
  BY <1>1, <1>2, DirFacts, DirIsDirectory DEF Name
<1>4. Directory' = Directory
  BY <1>1 DEF Directory
<1>5. g \in DOMAIN heap
  <2>1. <<n, g>> \in Pairs(files) /\ <<n, g>>[2] = g
    BY <1>1, <1>2, HasFacts DEF Name
  <2> HIDE DEF g
  <2> QED BY <2>1, FInvParts
<1> HIDE DEF g
<1>6. r.pos = 0 /\ r.data = heap[g].data
  <2> DEFINE file == heap[g]
  <2>1. file \in Structure
    BY <1>5, FInvParts DEF Fits
  <2> HIDE DEF file
  <2> QED BY <2>1 DEF Structure, Rewound, file
<1> HIDE DEF r
<1> DEFINE c == heap[g].data
           o == 0
           p == heap[g].pos
           st == Store(heap)
<1>7. Store(heap') = [st EXCEPT ![g] = [content |-> c, offset |-> o]]
  <2>1. r.data = c /\ r.pos = o
    BY <1>6
  <2>2. heap' = Put(heap, g, r)
    BY <1>1 DEF Put
  <2> HIDE DEF c, o
  <2> HIDE DEF st, p
  <2>3. st = Store(heap)
    BY DEF st
  <2>4. Store(heap') = Put(Store(heap), g, [content |-> c, offset |-> o])
    BY <1>5, <2>1, <2>2, StoreChange
  <2> QED BY <2>3, <2>4 DEF Put
<1>8. st[g] = [content |-> c, offset |-> p]
  BY <1>5 DEF Store
<1>9. Store(heap') = [st EXCEPT ![g].offset = o]
  <2> HIDE DEF c, o, p, st
  <2>1. [st[g] EXCEPT !.offset = o] = [content |-> c, offset |-> o]
    BY <1>8
  <2> QED BY <1>7, <2>1
<1> QED BY <1>1, <1>3, <1>4, <1>9 DEF Contract!Open, Store

\* atomicOpen of a file that does not exist.
LEMMA CreatePromise ==
  ASSUME FInv, NEW n \in Name, NEW bad \in Failing(1), AtomicCreate(n, bad)
  PROVE  Contract!Create(n)
<1> DEFINE mem == bad # 1
<1>2. PICK f \in File :
        /\ ~ IsSet(files, n) /\ Alloc(f)
        /\ files' = Set(files, n, f, mem)
        /\ heap' = With(heap, f, NewFile(n))
        /\ opened' = opened \cup {f}
  BY DEF AtomicCreate, Opened
<1>3. mem \in BOOLEAN /\ (mem \/ files.failed < MaxFails)
  BY OneFails
<1> HIDE DEF mem
<1>1. Sane(files, File)
  BY FInvParts
<1>4. Sane(files', File) /\ Pairs(files') = {x \in Pairs(files) : x[1] # n} \cup {<<n, f>>}
  BY <1>1, <1>2, <1>3, SetFacts DEF Name
<1>5. Directory' = Contract!With(Directory, n, f)
  BY <1>1, <1>4, DirWith, DirIsDirectory
<1>6. n \notin DOMAIN Directory
  BY <1>1, <1>2, DirFacts, DirIsDirectory DEF Name
<1> DEFINE r == NewFile(n)
           st == Store(heap)
           new == [content |-> <<>>, offset |-> 0]
<1>7. Store(heap') = Contract!With(st, f, new)
  <2>1. Store(With(heap, f, r)) = Contract!With(st, f, [content |-> r.data, offset |-> r.pos])
    BY StoreWith
  <2>2. [content |-> r.data, offset |-> r.pos] = new
    BY DEF NewFile
  <2>3. heap' = With(heap, f, r)
    BY <1>2
  <2> HIDE DEF new, r, st
  <2> QED BY <2>1, <2>2, <2>3
<1>8. DOMAIN st = DOMAIN heap /\ f \in File \ DOMAIN st
  BY <1>2 DEF Store, Alloc
<1> QED BY <1>2, <1>5, <1>6, <1>7, <1>8 DEF Contract!Create, Store

\* atomicClose.
LEMMA ClosePromise ==
  ASSUME FInv, NEW f \in File, AtomicClose(f)
  PROVE  Contract!Close(f)
<1>1. /\ Sane(files, File) /\ opened \subseteq File
      /\ DOMAIN heap = Named(files) \cup opened
  BY FInvParts
<1>2. files' = files /\ f \in opened /\ opened' = opened \ {f} /\ Reach(heap)
  BY DEF AtomicClose
<1>3. Directory' = Directory
  BY <1>2 DEF Directory
<1>4. Store(heap') = Contract!Restrict(Store(heap), Contract!Range(Directory') \cup opened')
  BY <1>1, <1>2, ReachExist
<1> QED BY <1>2, <1>3, <1>4 DEF Contract!Close, Contract!Exist, Store

\* atomicDelete.
LEMMA DeletePromise ==
  ASSUME FInv, NEW n \in Name, NEW bad \in Failing(1), AtomicDelete(n, bad)
  PROVE  Contract!Delete(n)
<1> DEFINE mem == bad # 1
<1>1. Sane(files, File) /\ DOMAIN heap = Named(files) \cup opened
  BY FInvParts
<1>2. files' = Del(files, n, mem) /\ opened' = opened /\ Reach(heap)
  BY DEF AtomicDelete
<1>3. mem \in BOOLEAN /\ (mem \/ files.failed < MaxFails)
  BY OneFails
<1> HIDE DEF mem
<1>4. Sane(files', File) /\ Pairs(files') = {x \in Pairs(files) : x[1] # n}
  BY <1>1, <1>2, <1>3, DelFacts DEF Name
<1>5. Named(files') \subseteq Named(files)
  BY <1>4, NamedPairs
<1>6. Store(heap') = Contract!Restrict(Store(heap), Contract!Range(Directory') \cup opened')
  BY <1>1, <1>2, <1>4, <1>5, ReachExist
<1>7. Directory' = Contract!Restrict(Directory, DOMAIN Directory \ {n})
  <2> DEFINE d == Dir(files)
  <2>1. d = [k \in DOMAIN d |-> d[k]] /\ Pairs(files) = {<<k, d[k]>> : k \in DOMAIN d}
    BY <1>1, DirFacts
  <2> HIDE DEF d
  <2> DEFINE e == Restrict(d, DOMAIN d \ {n})
  <2>2. e = Restrict(d, DOMAIN d \ {n})
    OBVIOUS
  <2> HIDE DEF e
  <2>3. Dir(files') = e
    BY <1>4, <2>1, <2>2, DirWithout
  <2> QED BY <2>2, <2>3, DirIsDirectory, SameOperators DEF d
<1> QED BY <1>2, <1>6, <1>7 DEF Contract!Delete, Contract!Exist, Store

\* atomicRead.
LEMMA ReadPromise ==
  ASSUME FInv, NEW f \in File, NEW n \in 1..MaxLen, AtomicRead(f, n)
  PROVE  Contract!Read(f, n)
<1> DEFINE file == heap[f]
           left == file.size - file.pos
           len  == IF n > left THEN left ELSE n
           r == [file EXCEPT !.pos = @ + len]
           c == file.data
           p == file.pos
           last == IF p + n > Len(c) THEN Len(c) ELSE p + n
           st == Store(heap)
<1>1. f \in opened /\ heap' = [heap EXCEPT ![f] = r] /\ files' = files /\ opened' = opened
  BY DEF AtomicRead
<1>2. f \in DOMAIN heap /\ Fits(file)
  BY <1>1, FInvParts
<1>3. n \in Nat
  BY FileAssumption
<1>4. Directory' = Directory
  BY <1>1 DEF Directory
<1>5. st[f] = [content |-> c, offset |-> p]
  BY <1>2 DEF Store
<1> HIDE DEF file
<1>6. r.data = c /\ r.pos = last
  <2>1. /\ file \in Structure /\ file.size \in Nat /\ file.pos \in Nat /\ file.pos <= file.size
        /\ file.size = Len(file.data)
    BY <1>2 DEF Fits, Structure
  <2>2. p + len = last
    BY <1>3, <2>1
  <2> HIDE DEF len, last, p
  <2>3. r.data = c /\ r.pos = file.pos + len
    BY <2>1 DEF Structure
  <2> QED BY <2>2, <2>3 DEF p
<1>7. Store(heap') = [st EXCEPT ![f] = [content |-> c, offset |-> last]]
  <2>1. heap' = Put(heap, f, r)
    BY <1>1 DEF Put
  <2> HIDE DEF r, c, last
  <2>2. Store(heap') = Put(st, f, [content |-> c, offset |-> last])
    BY <1>2, <1>6, <2>1, StoreChange
  <2> QED BY <2>2 DEF Put
<1> HIDE DEF c, p, last, st
<1>8. [st[f] EXCEPT !.offset = last] = [content |-> c, offset |-> last]
  BY <1>5
<1>9. Store(heap') = [st EXCEPT ![f].offset = last]
  BY <1>7, <1>8
<1>10. st[f].content = c /\ st[f].offset = p
  BY <1>5
<1>11. Store(heap') = [st EXCEPT ![f].offset =
         IF st[f].offset + n > Len(st[f].content) THEN Len(st[f].content) ELSE st[f].offset + n]
  BY <1>9, <1>10 DEF last
<1> QED BY <1>1, <1>4, <1>11 DEF Contract!Read, Store, st

\* Writing leaves the content before the position and after the end of what is
\* written.
LEMMA Spliced ==
  ASSUME NEW c \in Seq(Byte), NEW d \in Seq(Byte), NEW o \in 0..Len(c)
  PROVE  LET end == o + Len(d)
             max == IF end > Len(c) THEN end ELSE Len(c)
             s   == SubSeq(c, 1, o) \o d \o SubSeq(c, end + 1, Len(c))
         IN /\ s \in Seq(Byte) /\ Len(s) = max
            /\ \A i \in 1..max : s[i] = IF i \in (o + 1)..end THEN d[i - o] ELSE c[i]
<1> DEFINE L == Len(c)
           m == Len(d)
           end == o + Len(d)
           max == IF end > Len(c) THEN end ELSE Len(c)
           a == SubSeq(c, 1, o)
           z == SubSeq(c, end + 1, Len(c))
           s == a \o d \o z
<1>1. L \in Nat /\ m \in Nat /\ o \in Nat /\ o <= L /\ end \in Nat /\ end = o + m
  OBVIOUS
<1>2. a \in Seq(Byte) /\ Len(a) = o /\ \A i \in 1..o : a[i] = c[i]
  <2> HIDE DEF end, max, z, s
  <2> QED BY <1>1
<1>3. z \in Seq(Byte) /\ Len(z) = max - end /\ \A i \in 1..(max - end) : z[i] = c[end + i]
  <2> DEFINE e == end + 1
  <2>1. e \in Nat /\ e >= 1
    BY <1>1
  <2>2. z = SubSeq(c, e, L)
    OBVIOUS
  <2>3. max - end = IF e <= L THEN L - e + 1 ELSE 0
    BY <1>1
  <2>4. \A i \in 1..(max - end) : end + i = e + i - 1
    BY <1>1
  <2> HIDE DEF z, e, a, s
  <2>5. z \in Seq(Byte) /\ Len(z) = (IF e <= L THEN L - e + 1 ELSE 0)
        /\ \A i \in 1..(IF e <= L THEN L - e + 1 ELSE 0) : z[i] = c[e + i - 1]
    BY <1>1, <2>1, <2>2
  <2> HIDE DEF end, max
  <2> QED BY <2>3, <2>4, <2>5
<1> DEFINE b == a \o d
<1> HIDE DEF a, z
<1>4. b \in Seq(Byte) /\ Len(b) = end /\ \A i \in 1..end : b[i] = IF i <= o THEN c[i] ELSE d[i - o]
  <2>1. b \in Seq(Byte) /\ Len(b) = o + m
    BY <1>1, <1>2
  <2>2. \A i \in 1..(o + m) : b[i] = IF i <= o THEN a[i] ELSE d[i - o]
    BY <1>1, <1>2
  <2>3. \A i \in 1..(o + m) : i <= o => i \in 1..o
    BY <1>1
  <2> HIDE DEF b
  <2> QED BY <1>1, <1>2, <2>1, <2>2, <2>3
<1>5. s = b \o z
  OBVIOUS
<1> HIDE DEF b, s, m, L
<1>6. max \in Nat /\ max >= end
  BY <1>1
<1> HIDE DEF max, end
<1>10. /\ b \o z \in Seq(Byte) /\ Len(b \o z) = Len(b) + Len(z)
       /\ \A i \in 1..(Len(b) + Len(z)) : (b \o z)[i] = IF i <= Len(b) THEN b[i] ELSE z[i - Len(b)]
  BY <1>3, <1>4, ConcatProperties
<1>11. Len(b) + Len(z) = max
  BY <1>1, <1>3, <1>4, <1>6
<1>7. s \in Seq(Byte) /\ Len(s) = max
  BY <1>5, <1>10, <1>11
<1>8. \A i \in 1..max : s[i] = IF i <= end THEN b[i] ELSE z[i - end]
  BY <1>4, <1>5, <1>10, <1>11
<1>9. ASSUME NEW i \in 1..max
      PROVE  s[i] = IF i \in (o + 1)..end THEN d[i - o] ELSE c[i]
  <2>1. CASE i <= end
    <3>1. i \in 1..end /\ (i \in (o + 1)..end <=> ~ (i <= o))
      BY <1>1, <1>6, <2>1
    <3> QED BY <1>4, <1>8, <2>1, <3>1
  <2>2. CASE ~ (i <= end)
    <3>1. i - end \in 1..(max - end) /\ end + (i - end) = i /\ i \notin (o + 1)..end
      BY <1>1, <1>6, <2>2
    <3>2. z[i - end] = c[end + (i - end)]
      BY <1>3, <3>1
    <3> QED BY <1>8, <2>2, <3>1, <3>2
  <2> QED BY <2>1, <2>2
<1> QED BY <1>7, <1>9 DEF s, a, z, b, max, end

\* atomicWrite.
LEMMA WritePromise ==
  ASSUME FInv, NEW f \in File, NEW d \in Seq(Byte), AtomicWrite(f, d)
  PROVE  Contract!Write(f, d)
<1> DEFINE file == heap[f]
           r == Written(file, d)
           c == file.data
           o == file.pos
           end == o + Len(d)
           max == IF end > Len(c) THEN end ELSE Len(c)
           s == SubSeq(c, 1, o) \o d \o SubSeq(c, end + 1, Len(c))
           st == Store(heap)
<1>1. f \in opened /\ heap' = [heap EXCEPT ![f] = r] /\ files' = files /\ opened' = opened
  BY DEF AtomicWrite
<1>2. f \in DOMAIN heap /\ Fits(file)
  BY <1>1, FInvParts
<1>3. Directory' = Directory
  BY <1>1 DEF Directory
<1>4. st[f] = [content |-> c, offset |-> o]
  BY <1>2 DEF Store
<1> HIDE DEF file
<1>5. /\ Fits(r) /\ r.pos = end /\ Len(r.data) = max
      /\ \A i \in 1..max :
           r.data[i] = IF i \in (o + 1)..end THEN d[i - o] ELSE c[i]
  BY <1>2, WrittenFacts
<1>6. c \in Seq(Byte) /\ o \in 0..Len(c)
  BY <1>2 DEF Fits, Structure
<1>7. /\ s \in Seq(Byte) /\ Len(s) = max
      /\ \A i \in 1..max : s[i] = IF i \in (o + 1)..end THEN d[i - o] ELSE c[i]
  <2> HIDE DEF c, o
  <2> QED BY <1>6, Spliced
<1>8. r.data \in Seq(Byte)
  BY <1>5 DEF Fits, Structure
<1> HIDE DEF r, s, max, end, c, o
<1>9. r.data = s
  <2> DEFINE x == r.data
  <2>1. x \in Seq(Byte) /\ s \in Seq(Byte) /\ Len(x) = Len(s)
    BY <1>5, <1>7, <1>8
  <2>2. \A i \in 1..Len(x) : x[i] = s[i]
    BY <1>5, <1>7
  <2> HIDE DEF x
  <2>3. x = s
    BY <2>1, <2>2, SeqEqual
  <2> QED BY <2>3 DEF x
<1>10. Store(heap') = Put(st, f, [content |-> s, offset |-> end])
  <2>1. heap' = Put(heap, f, r)
    BY <1>1 DEF Put
  <2>2. r.data = s /\ r.pos = end
    BY <1>5, <1>9
  <2> QED BY <1>2, <2>1, <2>2, StoreChange
<1> HIDE DEF st
<1>11. st[f].content = c /\ st[f].offset = o
  BY <1>4
<1>12. Store(heap') = [st EXCEPT ![f] =
         [content |-> SubSeq(st[f].content, 1, st[f].offset) \o d
                        \o SubSeq(st[f].content, st[f].offset + Len(d) + 1, Len(st[f].content)),
          offset  |-> st[f].offset + Len(d)]]
  BY <1>10, <1>11 DEF Put, s, end
<1> QED BY <1>1, <1>3, <1>12 DEF Contract!Write, Store, st

\* What atomicCopy and atomicRename have in common: the copy is to programs
\* what its source is.
LEMMA DuplicatePromise ==
  ASSUME FInv, NEW n1 \in Name, NEW n2 \in Name, NEW f \in File,
         IsSet(files, n1), Alloc(f), opened' = opened, Sane(files', File),
         \A x \in Pairs(files') : (x \in Pairs(files)) \/ (x = <<n2, f>>),
         Reach(With(heap, f, Duplicate(n1, n2)))
  PROVE  /\ f \in File \ DOMAIN Store(heap) /\ n1 \in DOMAIN Directory
         /\ Store(heap') = Contract!Restrict(
              Contract!With(Store(heap), f, Store(heap)[Directory[n1]]),
              Contract!Range(Directory') \cup opened')
<1> DEFINE r == Duplicate(n1, n2)
           h == With(heap, f, r)
           g == Get(files, n1)
           st == Store(heap)
<1>1. Sane(files, File) /\ DOMAIN heap = Named(files) \cup opened
  BY FInvParts
<1>2. n1 \in DOMAIN Directory /\ Directory[n1] = g
  BY <1>1, DirFacts, DirIsDirectory DEF Name
<1>3. g \in DOMAIN heap /\ r.data = heap[g].data /\ r.pos = heap[g].pos
  BY DuplicateFacts
<1>4. [content |-> r.data, offset |-> r.pos] = st[g]
  BY <1>3 DEF Store
<1>5. f \in File \ DOMAIN st
  BY DEF Store, Alloc
<1>6. Store(h) = Contract!With(st, f, [content |-> r.data, offset |-> r.pos])
  BY StoreWith
<1>7. DOMAIN h = DOMAIN heap \cup {f}
  BY DEF With
<1>8. Named(files') \cup opened' \subseteq DOMAIN h
  <2>1. <<n2, f>>[2] = f
    OBVIOUS
  <2>2. \A x \in Pairs(files') : x[2] \in DOMAIN h
    BY <1>7, <2>1, FInvParts
  <2>3. Named(files') = {x[2] : x \in Pairs(files')}
    BY NamedPairs
  <2> HIDE DEF h
  <2> QED BY <1>1, <1>7, <2>2, <2>3
<1>9. Reach(h)
  OBVIOUS
<1> HIDE DEF h
<1>10. Store(heap') = Contract!Restrict(Store(h), Contract!Range(Directory') \cup opened')
  BY <1>8, <1>9, ReachExist
<1> HIDE DEF r, g, st
<1>11. Store(h) = Contract!With(st, f, st[g])
  BY <1>4, <1>6
<1> QED BY <1>2, <1>5, <1>10, <1>11 DEF st

\* atomicCopy.
LEMMA CopyPromise ==
  ASSUME FInv, NEW n1 \in Name, NEW n2 \in Name, NEW bad \in Failing(2), AtomicCopy(n1, n2, bad)
  PROVE  Contract!Copy(n1, n2)
<1>1. PICK f \in File :
        /\ IsSet(files, n1) /\ Alloc(f) /\ files' = Renewed(n2, f, bad) /\ opened' = opened
        /\ Reach(With(heap, f, Duplicate(n1, n2)))
  BY DEF AtomicCopy
<1>2. bad \in Nat /\ (bad # 0 => files.failed < MaxFails)
  BY OneFails
<1>3. Sane(files, File)
  BY DEF FInv
<1>4. Sane(files', File) /\ Pairs(files') = {x \in Pairs(files) : x[1] # n2} \cup {<<n2, f>>}
  BY <1>1, <1>2, <1>3, RenewedFacts
<1>5. /\ f \in File \ DOMAIN Store(heap) /\ n1 \in DOMAIN Directory
      /\ Store(heap') = Contract!Restrict(
           Contract!With(Store(heap), f, Store(heap)[Directory[n1]]),
           Contract!Range(Directory') \cup opened')
  BY <1>1, <1>4, DuplicatePromise
<1>6. Directory' = Contract!With(Directory, n2, f)
  BY <1>3, <1>4, DirWith, DirIsDirectory
<1> QED BY <1>1, <1>5, <1>6 DEF Contract!Copy, Contract!Exist, Store

\* atomicRename.
LEMMA RenamePromise ==
  ASSUME FInv, NEW n1 \in Name, NEW n2 \in Name, NEW bad \in Failing(3), AtomicRename(n1, n2, bad)
  PROVE  Contract!Rename(n1, n2)
<1> DEFINE mem == bad # 3
<1>1. PICK f \in File :
        /\ IsSet(files, n1) /\ Alloc(f) /\ files' = Del(Renewed(n2, f, bad), n1, mem)
        /\ opened' = opened
        /\ Reach(With(heap, f, Duplicate(n1, n2)))
  BY DEF AtomicRename
<1>2. bad \in Nat /\ (bad # 0 => files.failed < MaxFails)
  BY OneFails
<1>3. Sane(files, File)
  BY DEF FInv
<1> DEFINE w == Renewed(n2, f, bad)
<1>4. /\ Sane(w, File) /\ Pairs(w) = {x \in Pairs(files) : x[1] # n2} \cup {<<n2, f>>}
      /\ bad \notin {1, 2} => w.failed = files.failed
  BY <1>2, <1>3, RenewedFacts
<1>5. mem \in BOOLEAN /\ (mem \/ w.failed < MaxFails)
  BY <1>2, <1>4
<1> HIDE DEF mem, w
<1>6. Sane(files', File) /\ Pairs(files') = {x \in Pairs(w) : x[1] # n1}
  <2>1. files' = Del(w, n1, mem)
    BY <1>1 DEF w
  <2> QED BY <1>4, <1>5, <2>1, DelFacts DEF Name
<1>7. \A x \in Pairs(files') : (x \in Pairs(files)) \/ (x = <<n2, f>>)
  BY <1>4, <1>6
<1>8. /\ f \in File \ DOMAIN Store(heap) /\ n1 \in DOMAIN Directory
      /\ Store(heap') = Contract!Restrict(
           Contract!With(Store(heap), f, Store(heap)[Directory[n1]]),
           Contract!Range(Directory') \cup opened')
  BY <1>1, <1>6, <1>7, DuplicatePromise
<1> DEFINE d == Dir(w)
           e == Restrict(d, DOMAIN d \ {n1})
<1>9. d = Contract!With(Directory, n2, f)
  BY <1>3, <1>4, DirWith, DirIsDirectory
<1>10. DOMAIN d = DOMAIN Directory \cup {n2}
  BY <1>9 DEF Contract!With
<1>11. d = [k \in DOMAIN d |-> d[k]] /\ Pairs(w) = {<<k, d[k]>> : k \in DOMAIN d}
  BY <1>4, DirFacts
<1> HIDE DEF d
<1>12. e = Restrict(d, DOMAIN d \ {n1})
  OBVIOUS
<1> HIDE DEF e
<1>13. Dir(files') = e
  BY <1>6, <1>11, <1>12, DirWithout
<1>14. Directory' = Contract!Restrict(Contract!With(Directory, n2, f), (DOMAIN Directory \cup {n2}) \ {n1})
  BY <1>9, <1>10, <1>12, <1>13, DirIsDirectory, SameOperators
<1> QED BY <1>1, <1>8, <1>14 DEF Contract!Rename, Contract!Exist, Store

\* Programs see the files of module FileContract: each step is one of theirs.
THEOREM FilePromiseHolds == Spec => FilePromise
<1>1. Init => Contract!CInit
  <2> SUFFICES ASSUME Init PROVE Contract!CInit
    OBVIOUS
  <2>1. FInv /\ files = Fresh(MinSize) /\ heap = <<>> /\ opened = {}
    BY FInvInit DEF Init
  <2>2. Directory = <<>>
    <3>1. \A i \in DOMAIN files.slots : files.slots[i] = Empty
      BY <2>1 DEF Fresh
    <3>2. Pairs(files) = {}
      BY <3>1, SlotFacts DEF Pairs, Used
    <3> DEFINE d == <<>>
    <3>3. d = [n \in DOMAIN d |-> d[n]] /\ DOMAIN d = {}
      OBVIOUS
    <3> HIDE DEF d
    <3>4. Dir(files) = d
      BY <3>2, <3>3, DirIs
    <3> QED BY <3>4, DirIsDirectory DEF d
  <2>3. [f \in DOMAIN heap |-> [content |-> heap[f].data, offset |-> heap[f].pos]] = <<>>
    BY <2>1
  <2> QED BY <2>1, <2>2, <2>3 DEF Contract!CInit
<1>2. FInv /\ [Next]_vars => [Contract!CNext]_(Contract!cvars)
  <2> SUFFICES ASSUME FInv, [Next]_vars PROVE [Contract!CNext]_(Contract!cvars)
    OBVIOUS
  <2>1. CASE UNCHANGED vars
    BY <2>1 DEF vars, Contract!cvars, Directory
  <2>2. CASE \E n \in Name : AtomicOpen(n)
    BY <2>2, OpenPromise DEF Contract!CNext
  <2>3. CASE \E n \in Name, bad \in Failing(1) : AtomicCreate(n, bad)
    BY <2>3, CreatePromise DEF Contract!CNext
  <2>4. ASSUME NEW f \in File, AtomicClose(f) PROVE Contract!CNext
    BY <2>4, ClosePromise DEF Contract!CNext
  <2>5. ASSUME NEW f \in File, NEW n \in 1..MaxLen, AtomicRead(f, n) PROVE Contract!CNext
    BY <2>5, ReadPromise DEF Contract!CNext
  <2>6. ASSUME NEW f \in File, NEW b \in Byte, AtomicWrite(f, <<b>>) PROVE Contract!CNext
    <3> DEFINE d == <<b>>
    <3>1. d \in Seq(Byte) /\ AtomicWrite(f, d)
      BY <2>6
    <3> HIDE DEF d
    <3>2. Contract!Write(f, d)
      BY <3>1, WritePromise
    <3>3. Contract!Write(f, <<b>>)
      BY <3>2 DEF d
    <3> QED BY <3>3 DEF Contract!CNext
  <2>7. CASE \E n \in Name, bad \in Failing(1) : AtomicDelete(n, bad)
    BY <2>7, DeletePromise DEF Contract!CNext
  <2>8. CASE \E n1, n2 \in Name, bad \in Failing(2) : AtomicCopy(n1, n2, bad)
    BY <2>8, CopyPromise DEF Contract!CNext
  <2>9. CASE \E n1, n2 \in Name, bad \in Failing(3) : AtomicRename(n1, n2, bad)
    BY <2>9, RenamePromise DEF Contract!CNext
  <2> QED BY <2>1, <2>2, <2>3, <2>4, <2>5, <2>6, <2>7, <2>8, <2>9 DEF Next
<1> QED BY <1>1, <1>2, FInvHolds, PTL DEF Spec, FilePromise, Contract!CSpec

-----------------------------------------------------------------------------
(* Address spaces. *)

\* The tables that lead from numbers to pages, and the address spaces.
Maps == UNION {[D -> Page] : D \in SUBSET Nat}
Spaces ==
  [free : SUBSET Page, pdir : Page \cup {NoPage}, kstack : SUBSET Page,
   tables : Maps, entries : Maps, ok : BOOLEAN, panic : BOOLEAN]

\* The addresses in a space that are not those of shared pages.
Low(s) == {v \in DOMAIN s.entries : v < UserStack}

\* The pages that belong to a space alone.
OwnPages(s) ==
  IF s.pdir = NoPage THEN {}
  ELSE {s.pdir} \cup s.kstack \cup {s.tables[d] : d \in DOMAIN s.tables}
         \cup {s.entries[v] : v \in Low(s)}

\* Each of these has one use.
Apart(s) ==
  s.pdir # NoPage =>
    /\ s.pdir \notin s.kstack
    /\ \A d \in DOMAIN s.tables :
         /\ s.tables[d] # s.pdir /\ s.tables[d] \notin s.kstack
         /\ \A e \in DOMAIN s.tables : s.tables[d] = s.tables[e] => d = e
         /\ \A v \in Low(s) : s.entries[v] # s.tables[d]
    /\ \A v \in Low(s) :
         /\ s.entries[v] # s.pdir /\ s.entries[v] \notin s.kstack
         /\ \A w \in Low(s) : s.entries[v] = s.entries[w] => v = w

\* The pages F are either free or in the space, for one use.
Balanced(s, F) ==
  /\ s.pdir # NoPage
  /\ s.free \cup OwnPages(s) = F /\ s.free \cap OwnPages(s) = {}
  /\ Apart(s)

\* Numbers of pages and addresses.
LEMMA AddressFacts ==
  /\ PtSize \in Nat /\ PtSize > 0 /\ SPages \in Nat /\ SPages > 0
  /\ CPages \in Nat /\ CPages > 0 /\ UserCode \in Nat /\ UserCode > 0
  /\ UserStack \in Nat /\ UserCode + CPages <= UserStack - SPages
  /\ NbPages \in Nat /\ Page \subseteq Nat /\ NoPage \notin Page /\ NoPage = 0
  /\ StackPages \subseteq Nat /\ CodePages \subseteq Nat
  /\ \A v \in StackPages \cup CodePages : v < UserStack
  /\ StackPages \cap CodePages = {}
<1>1. /\ PtSize \in Nat /\ PtSize > 0 /\ SPages \in Nat /\ SPages > 0
      /\ CPages \in Nat /\ CPages > 0 /\ NbPages \in Nat
  BY VirtualAssumption
<1>2. UserStack \in Nat /\ UserCode \in Nat /\ UserCode > 0 /\ UserCode + CPages <= UserStack - SPages
  BY VirtualAssumption
<1>3. Page \subseteq Nat /\ NoPage \notin Page /\ NoPage = 0
  BY <1>1 DEF Page, NoPage
<1>4. StackPages \subseteq Nat /\ CodePages \subseteq Nat
  BY <1>1, <1>2 DEF StackPages, CodePages
<1>5. \A v \in StackPages : v < UserStack /\ v >= UserStack - SPages
  BY <1>1, <1>2 DEF StackPages
<1>6. \A v \in CodePages : v < UserStack - SPages
  BY <1>1, <1>2 DEF CodePages
<1>7. \A v \in CodePages : v < UserStack
  BY <1>1, <1>2, <1>4, <1>6
<1>8. StackPages \cap CodePages = {}
  BY <1>1, <1>2, <1>4, <1>5, <1>6
<1> QED BY <1>1, <1>2, <1>3, <1>4, <1>5, <1>7, <1>8

\* alloc_page gives one of the free pages, if there is one.
LEMMA NextPageFacts ==
  ASSUME NEW F \in SUBSET Page
  PROVE  /\ F # {} => NextPage(F) \in F /\ NextPage(F) \in Page /\ NextPage(F) # NoPage
         /\ F = {} => NextPage(F) = NoPage
<1>1. ASSUME F # {} PROVE NextPage(F) \in F
  <2>1. F \subseteq Nat
    BY AddressFacts
  <2>2. \E q \in F : \A r \in F : q <= r
    BY <1>1, <2>1, LeastNat
  <2>3. NextPage(F) = CHOOSE q \in F : \A r \in F : q <= r
    BY <1>1 DEF NextPage
  <2> QED BY <2>2, <2>3
<1>2. F = {} => NextPage(F) = NoPage
  BY DEF NextPage
<1> QED BY <1>1, <1>2, AddressFacts

\* The empty table.
LEMMA EmptyMap == <<>> \in Maps /\ DOMAIN <<>> = {}
<1>1. DOMAIN <<>> = {} /\ <<>> = [i \in {} |-> 0]
  OBVIOUS
<1>2. <<>> \in [{} -> Page]
  BY <1>1
<1> QED BY <1>1, <1>2 DEF Maps

\* A table is a function from numbers to pages.
LEMMA MapFacts ==
  ASSUME NEW f \in Maps
  PROVE  /\ DOMAIN f \subseteq Nat /\ \A d \in DOMAIN f : f[d] \in Page
         /\ f = [d \in DOMAIN f |-> f[d]]
<1>1. PICK D \in SUBSET Nat : f \in [D -> Page]
  BY DEF Maps
<1> QED BY <1>1

\* A function from numbers to pages is a table.
LEMMA MapIs ==
  ASSUME NEW f, f = [d \in DOMAIN f |-> f[d]], DOMAIN f \subseteq Nat,
         \A d \in DOMAIN f : f[d] \in Page
  PROVE  f \in Maps
<1>1. f \in [DOMAIN f -> Page]
  OBVIOUS
<1> QED BY <1>1 DEF Maps

\* A table with one more entry.
LEMMA WithEntryFacts ==
  ASSUME NEW f \in Maps, NEW i \in Nat, NEW q \in Page
  PROVE  LET g == WithEntry(f, i, q) IN
         /\ g \in Maps /\ DOMAIN g = DOMAIN f \cup {i} /\ g[i] = q
         /\ \A d \in DOMAIN f : d # i => g[d] = f[d]
<1> DEFINE g == WithEntry(f, i, q)
<1>1. g = [j \in DOMAIN f \cup {i} |-> IF j = i THEN q ELSE f[j]]
  BY DEF WithEntry
<1>2. DOMAIN f \subseteq Nat /\ \A d \in DOMAIN f : f[d] \in Page
  BY MapFacts
<1> HIDE DEF g
<1>3. /\ DOMAIN g = DOMAIN f \cup {i} /\ g[i] = q
      /\ \A d \in DOMAIN f : d # i => g[d] = f[d]
  BY <1>1
<1>4. g = [d \in DOMAIN g |-> g[d]]
  BY <1>1
<1>5. g \in Maps
  BY <1>2, <1>3, <1>4, MapIs
<1> QED BY <1>3, <1>5 DEF g

\* The fields of a space.
LEMMA SpaceFields ==
  ASSUME NEW s \in Spaces
  PROVE  /\ s.free \in SUBSET Page /\ s.pdir \in Page \cup {NoPage} /\ s.kstack \in SUBSET Page
         /\ s.tables \in Maps /\ s.entries \in Maps /\ s.ok \in BOOLEAN /\ s.panic \in BOOLEAN
BY DEF Spaces

\* A space in which some fields are replaced.
LEMMA SpaceIs ==
  ASSUME NEW a \in SUBSET Page, NEW b \in Page \cup {NoPage}, NEW c \in SUBSET Page,
         NEW d \in Maps, NEW e \in Maps, NEW f \in BOOLEAN, NEW g \in BOOLEAN
  PROVE  [free |-> a, pdir |-> b, kstack |-> c, tables |-> d, entries |-> e,
          ok |-> f, panic |-> g] \in Spaces
BY DEF Spaces

\* Of the pages of a space only the fields but free, ok and panic speak.
LEMMA SamePages ==
  ASSUME NEW s, NEW t, t.pdir = s.pdir, t.kstack = s.kstack, t.tables = s.tables,
         t.entries = s.entries
  PROVE  OwnPages(t) = OwnPages(s) /\ (Apart(t) <=> Apart(s)) /\ Low(t) = Low(s)
<1>1. Low(t) = Low(s)
  BY DEF Low
<1> QED BY <1>1 DEF OwnPages, Apart
\* A space is the record of its fields.
LEMMA SpaceRecord ==
  ASSUME NEW s \in Spaces
  PROVE  s = [free |-> s.free, pdir |-> s.pdir, kstack |-> s.kstack, tables |-> s.tables,
              entries |-> s.entries, ok |-> s.ok, panic |-> s.panic]
BY DEF Spaces

\* A page that is free becomes the page table of d.
LEMMA TableAdded ==
  ASSUME NEW s \in Spaces, NEW t \in Spaces, NEW F, Balanced(s, F), NEW q \in s.free, NEW d,
         d \notin DOMAIN s.tables,
         t.free = s.free \ {q}, t.pdir = s.pdir, t.kstack = s.kstack, t.entries = s.entries,
         DOMAIN t.tables = DOMAIN s.tables \cup {d}, t.tables[d] = q,
         \A e \in DOMAIN s.tables : t.tables[e] = s.tables[e]
  PROVE  Balanced(t, F)
<1>1. Low(t) = Low(s)
  BY DEF Low
<1>2. s.pdir # NoPage /\ t.pdir # NoPage
  BY DEF Balanced
<1>3. {t.tables[e] : e \in DOMAIN t.tables} = {s.tables[e] : e \in DOMAIN s.tables} \cup {q}
  OBVIOUS
<1>4. OwnPages(t) = OwnPages(s) \cup {q}
  BY <1>1, <1>2, <1>3 DEF OwnPages
<1>5. q \notin OwnPages(s) /\ s.free \cup OwnPages(s) = F /\ s.free \cap OwnPages(s) = {}
  BY DEF Balanced
<1>6. t.free \cup OwnPages(t) = F /\ t.free \cap OwnPages(t) = {}
  BY <1>4, <1>5
<1>7. q # s.pdir /\ q \notin s.kstack /\ (\A e \in DOMAIN s.tables : s.tables[e] # q)
      /\ \A v \in Low(s) : s.entries[v] # q
  BY <1>2, <1>5 DEF OwnPages
<1>8. Apart(s)
  BY DEF Balanced
<1>9. Apart(t)
  <2>1. t.pdir \notin t.kstack
    BY <1>2, <1>8 DEF Apart
  <2>2. ASSUME NEW e \in DOMAIN t.tables
        PROVE  /\ t.tables[e] # t.pdir /\ t.tables[e] \notin t.kstack
               /\ \A x \in DOMAIN t.tables : t.tables[e] = t.tables[x] => e = x
               /\ \A v \in Low(t) : t.entries[v] # t.tables[e]
    <3>1. CASE e = d
      BY <3>1, <1>1, <1>7
    <3>2. CASE e \in DOMAIN s.tables
      BY <3>2, <1>1, <1>2, <1>7, <1>8 DEF Apart
    <3> QED BY <3>1, <3>2
  <2>3. ASSUME NEW v \in Low(t)
        PROVE  /\ t.entries[v] # t.pdir /\ t.entries[v] \notin t.kstack
               /\ \A w \in Low(t) : t.entries[v] = t.entries[w] => v = w
    BY <1>1, <1>2, <1>8 DEF Apart
  <2> QED BY <2>1, <2>2, <2>3 DEF Apart
<1> QED BY <1>2, <1>6, <1>9 DEF Balanced

\* map_page finds the page table it needs, or makes one of a free page.
LEMMA WithTableFacts ==
  ASSUME NEW s \in Spaces, NEW v \in Nat
  PROVE  LET t == WithTable(s, v) IN
         /\ t \in Spaces
         /\ t.pdir = s.pdir /\ t.kstack = s.kstack /\ t.entries = s.entries /\ t.ok = s.ok
         /\ t.free \subseteq s.free /\ (s.panic => t.panic)
         /\ \A F : Balanced(s, F) => Balanced(t, F)
<1> DEFINE t == WithTable(s, v)
           d == v \div PtSize
           q == NextPage(s.free)
<1>1. /\ s.free \in SUBSET Page /\ s.pdir \in Page \cup {NoPage} /\ s.kstack \in SUBSET Page
      /\ s.tables \in Maps /\ s.entries \in Maps /\ s.ok \in BOOLEAN /\ s.panic \in BOOLEAN
  BY SpaceFields
<1>2. d \in Nat
  BY AddressFacts
<1>3. CASE d \in DOMAIN s.tables
  BY <1>3, <1>1 DEF WithTable
<1>4. CASE d \notin DOMAIN s.tables /\ s.free = {}
  <2>1. t = [s EXCEPT !.panic = TRUE]
    BY <1>4 DEF WithTable
  <2> HIDE DEF t
  <2>2. /\ t.free = s.free /\ t.pdir = s.pdir /\ t.kstack = s.kstack /\ t.tables = s.tables
        /\ t.entries = s.entries /\ t.ok = s.ok /\ t.panic = TRUE /\ t \in Spaces
    BY <2>1 DEF Spaces
  <2>3. \A F : Balanced(s, F) => Balanced(t, F)
    BY <2>2, SamePages DEF Balanced
  <2> QED BY <2>2, <2>3 DEF t
<1>5. CASE d \notin DOMAIN s.tables /\ s.free # {}
  <2>1. t = [s EXCEPT !.tables = WithEntry(s.tables, d, q), !.free = s.free \ {q}]
    BY <1>5 DEF WithTable
  <2>2. q \in s.free /\ q \in Page
    BY <1>1, <1>5, NextPageFacts
  <2> DEFINE g == WithEntry(s.tables, d, q)
  <2>3. /\ g \in Maps /\ DOMAIN g = DOMAIN s.tables \cup {d} /\ g[d] = q
        /\ \A e \in DOMAIN s.tables : e # d => g[e] = s.tables[e]
    <3> HIDE DEF d, q
    <3> QED BY <1>1, <1>2, <2>2, WithEntryFacts
  <2> HIDE DEF t, d, q, g
  <2>4. /\ t.free = s.free \ {q} /\ t.pdir = s.pdir /\ t.kstack = s.kstack /\ t.tables = g
        /\ t.entries = s.entries /\ t.ok = s.ok /\ t.panic = s.panic
    BY <2>1 DEF Spaces, g
  <2>5. t \in Spaces
    <3>1. s.free \ {q} \in SUBSET Page
      BY <1>1
    <3> QED BY <2>1, <2>3, <3>1 DEF Spaces, g
  <2>6. ASSUME NEW F, Balanced(s, F) PROVE Balanced(t, F)
    BY <1>5, <2>2, <2>3, <2>4, <2>5, <2>6, TableAdded
  <2> QED BY <1>1, <2>4, <2>5, <2>6 DEF t
<1> QED BY <1>3, <1>4, <1>5

\* An entry of the user's own is added, for a page from elsewhere.
LEMMA EntryAdded ==
  ASSUME NEW s \in Spaces, NEW t \in Spaces, NEW F, Balanced(s, F), NEW q, q \notin F, NEW v,
         v \notin DOMAIN s.entries, v < UserStack,
         t.free = s.free, t.pdir = s.pdir, t.kstack = s.kstack, t.tables = s.tables,
         DOMAIN t.entries = DOMAIN s.entries \cup {v}, t.entries[v] = q,
         \A w \in DOMAIN s.entries : t.entries[w] = s.entries[w]
  PROVE  Balanced(t, F \cup {q})
<1>1. Low(t) = Low(s) \cup {v}
  BY DEF Low
<1>2. s.pdir # NoPage /\ t.pdir # NoPage
  BY DEF Balanced
<1>3. {t.entries[w] : w \in Low(t)} = {s.entries[w] : w \in Low(s)} \cup {q}
  <2>1. \A w \in Low(s) : w \in DOMAIN s.entries
    BY DEF Low
  <2> QED BY <1>1, <2>1
<1>4. OwnPages(t) = OwnPages(s) \cup {q}
  BY <1>2, <1>3 DEF OwnPages
<1>5. q \notin OwnPages(s) /\ q \notin s.free /\ s.free \cup OwnPages(s) = F /\ s.free \cap OwnPages(s) = {}
  BY DEF Balanced
<1>6. t.free \cup OwnPages(t) = F \cup {q} /\ t.free \cap OwnPages(t) = {}
  BY <1>4, <1>5
<1>7. q # s.pdir /\ q \notin s.kstack /\ (\A e \in DOMAIN s.tables : s.tables[e] # q)
      /\ \A w \in Low(s) : s.entries[w] # q
  BY <1>2, <1>5 DEF OwnPages
<1>8. Apart(s)
  BY DEF Balanced
<1>9. Apart(t)
  <2>0. \A w \in Low(s) : t.entries[w] = s.entries[w] /\ w # v
    BY DEF Low
  <2>1. t.pdir \notin t.kstack
    BY <1>2, <1>8 DEF Apart
  <2>2. ASSUME NEW e \in DOMAIN t.tables
        PROVE  /\ t.tables[e] # t.pdir /\ t.tables[e] \notin t.kstack
               /\ \A x \in DOMAIN t.tables : t.tables[e] = t.tables[x] => e = x
               /\ \A w \in Low(t) : t.entries[w] # t.tables[e]
    BY <1>1, <1>2, <1>7, <1>8, <2>0 DEF Apart
  <2>3. ASSUME NEW w \in Low(t)
        PROVE  /\ t.entries[w] # t.pdir /\ t.entries[w] \notin t.kstack
               /\ \A x \in Low(t) : t.entries[w] = t.entries[x] => w = x
    <3>1. CASE w = v
      BY <3>1, <1>1, <1>7, <2>0
    <3>2. CASE w \in Low(s)
      BY <3>2, <1>1, <1>2, <1>7, <1>8, <2>0 DEF Apart
    <3> QED BY <3>1, <3>2, <1>1
  <2> QED BY <2>1, <2>2, <2>3 DEF Apart
<1> QED BY <1>2, <1>6, <1>9 DEF Balanced

\* The entries of shared pages may change.
LEMMA HighChanged ==
  ASSUME NEW s, NEW t, t.free = s.free, t.pdir = s.pdir, t.kstack = s.kstack, t.tables = s.tables,
         Low(t) = Low(s), \A w \in Low(s) : t.entries[w] = s.entries[w]
  PROVE  OwnPages(t) = OwnPages(s) /\ (Apart(t) <=> Apart(s))
         /\ \A F : Balanced(t, F) <=> Balanced(s, F)
<1>1. {t.entries[w] : w \in Low(t)} = {s.entries[w] : w \in Low(s)}
  OBVIOUS
<1>2. OwnPages(t) = OwnPages(s)
  BY <1>1 DEF OwnPages
<1>3. Apart(t) <=> Apart(s)
  BY DEF Apart
<1> QED BY <1>2, <1>3 DEF Balanced

\* map_page adds an entry where there is none, unless it panics.
LEMMA MapPageFacts ==
  ASSUME NEW s \in Spaces, NEW v \in Nat, NEW q \in Page
  PROVE  LET t == MapPage(s, q, v) IN
         /\ t \in Spaces
         /\ t.pdir = s.pdir /\ t.kstack = s.kstack /\ t.free \subseteq s.free
         /\ s.panic => t.panic
         /\ t.ok => /\ ~ t.panic /\ v \notin DOMAIN s.entries
                    /\ DOMAIN t.entries = DOMAIN s.entries \cup {v} /\ t.entries[v] = q
                    /\ \A w \in DOMAIN s.entries : t.entries[w] = s.entries[w]
         /\ v \notin DOMAIN s.entries /\ ~ t.panic => t.ok
         /\ \A F : Balanced(s, F) /\ t.ok /\ v < UserStack /\ q \notin F => Balanced(t, F \cup {q})
         /\ \A F : Balanced(s, F) /\ t.ok /\ v >= UserStack => Balanced(t, F)
<1> DEFINE t == MapPage(s, q, v)
           u == WithTable(s, v)
           g == WithEntry(u.entries, v, q)
<1>1. /\ u \in Spaces
      /\ u.pdir = s.pdir /\ u.kstack = s.kstack /\ u.entries = s.entries /\ u.ok = s.ok
      /\ u.free \subseteq s.free /\ (s.panic => u.panic)
      /\ \A F : Balanced(s, F) => Balanced(u, F)
  BY WithTableFacts
<1>2. q # NoPage
  BY AddressFacts
<1>3. t = IF u.panic \/ v \in DOMAIN u.entries THEN [u EXCEPT !.ok = FALSE]
          ELSE [u EXCEPT !.entries = g, !.ok = TRUE]
  <2>1. t = IF q = NoPage THEN [s EXCEPT !.ok = FALSE]
            ELSE IF u.panic \/ v \in DOMAIN s.entries THEN [u EXCEPT !.ok = FALSE]
            ELSE [u EXCEPT !.entries = g, !.ok = TRUE]
    BY DEF MapPage
  <2> HIDE DEF t, u, g
  <2> QED BY <1>1, <1>2, <2>1
<1>4. /\ g \in Maps /\ DOMAIN g = DOMAIN u.entries \cup {v} /\ g[v] = q
      /\ \A w \in DOMAIN u.entries : w # v => g[w] = u.entries[w]
  <2>1. u.entries \in Maps
    BY <1>1, SpaceFields
  <2> HIDE DEF u
  <2> QED BY <2>1, WithEntryFacts
<1> HIDE DEF t, u, g
<1>5. CASE u.panic \/ v \in DOMAIN u.entries
  <2>1. t = [u EXCEPT !.ok = FALSE]
    BY <1>3, <1>5
  <2>2. /\ t.free = u.free /\ t.pdir = u.pdir /\ t.kstack = u.kstack /\ t.panic = u.panic
        /\ ~ t.ok /\ t \in Spaces
    BY <1>1, <2>1 DEF Spaces
  <2> QED BY <1>1, <1>5, <2>2 DEF t
<1>6. CASE ~ (u.panic \/ v \in DOMAIN u.entries)
  <2>1. t = [u EXCEPT !.entries = g, !.ok = TRUE]
    BY <1>3, <1>6
  <2>2. /\ t.free = u.free /\ t.pdir = u.pdir /\ t.kstack = u.kstack /\ t.panic = u.panic
        /\ t.tables = u.tables /\ t.entries = g /\ t.ok = TRUE /\ t \in Spaces
    BY <1>1, <1>4, <2>1 DEF Spaces
  <2>3. \A w \in DOMAIN u.entries : w # v /\ t.entries[w] = u.entries[w]
    BY <1>4, <1>6, <2>2
  <2>4. DOMAIN t.entries = DOMAIN u.entries \cup {v} /\ t.entries[v] = q
    BY <1>4, <2>2
  <2>5. ASSUME NEW F, Balanced(s, F), v < UserStack, q \notin F PROVE Balanced(t, F \cup {q})
    <3>1. Balanced(u, F)
      BY <1>1, <2>5
    <3> QED BY <1>1, <1>6, <2>2, <2>3, <2>4, <2>5, <3>1, EntryAdded
  <2>6. ASSUME NEW F, Balanced(s, F), v >= UserStack PROVE Balanced(t, F)
    <3>1. Balanced(u, F)
      BY <1>1, <2>6
    <3>2. v \in Nat /\ UserStack \in Nat /\ ~ (v < UserStack)
      BY <2>6, AddressFacts
    <3>3. Low(t) = Low(u)
      BY <2>4, <3>2 DEF Low
    <3>4. \A w \in Low(u) : t.entries[w] = u.entries[w]
      BY <2>3 DEF Low
    <3> QED BY <2>2, <3>1, <3>3, <3>4, HighChanged
  <2> QED BY <1>1, <1>6, <2>2, <2>3, <2>4, <2>5, <2>6 DEF t
<1> QED BY <1>5, <1>6
\* t is s after pages of its own have been added at the addresses D, or
\* something has failed.
Fitted(s, t, D) ==
  /\ t \in Spaces /\ t.pdir = s.pdir /\ t.kstack = s.kstack /\ t.free \subseteq s.free
  /\ t.ok /\ ~ t.panic => /\ s.ok /\ ~ s.panic
                          /\ DOMAIN t.entries = DOMAIN s.entries \cup D
                          /\ \A F : Balanced(s, F) => Balanced(t, F)

\* One call after another.
LEMMA FittedBoth ==
  ASSUME NEW s, NEW t, NEW u, NEW D, NEW E, Fitted(s, t, D), Fitted(t, u, E)
  PROVE  Fitted(s, u, D \cup E)
BY DEF Fitted

\* A page more is free, which is not in the space.
LEMMA FreeLess ==
  ASSUME NEW s \in Spaces, NEW t \in Spaces, NEW F, Balanced(s, F), NEW q \in s.free,
         t.free = s.free \ {q}, t.pdir = s.pdir, t.kstack = s.kstack, t.tables = s.tables,
         t.entries = s.entries
  PROVE  Balanced(t, F \ {q})
BY SamePages DEF Balanced

\* A free page is mapped.
LEMMA AllocAndMapFacts ==
  ASSUME NEW s \in Spaces, NEW v \in Nat, v < UserStack
  PROVE  Fitted(s, AllocAndMap(s, v), {v})
<1> DEFINE q == NextPage(s.free)
           r == [s EXCEPT !.free = s.free \ {q}]
           t == MapPage(r, q, v)
           u == AllocAndMap(s, v)
<1>1. u = IF s.panic THEN s ELSE [t EXCEPT !.ok = t.ok /\ s.ok]
  BY DEF AllocAndMap
<1>2. /\ r.free = s.free \ {q} /\ r.pdir = s.pdir /\ r.kstack = s.kstack /\ r.tables = s.tables
      /\ r.entries = s.entries /\ r.ok = s.ok /\ r.panic = s.panic /\ r \in Spaces
  <2>1. s.free \in SUBSET Page
    BY SpaceFields
  <2>2. s.free \ {q} \in SUBSET Page
    BY <2>1
  <2> HIDE DEF q
  <2> QED BY <2>2 DEF Spaces
<1>3. s.free \in SUBSET Page /\ s.ok \in BOOLEAN /\ s.panic \in BOOLEAN
  BY SpaceFields
<1>4. /\ s.free # {} => q \in s.free /\ q \in Page /\ q # NoPage
      /\ s.free = {} => q = NoPage
  BY <1>3, NextPageFacts
<1> HIDE DEF q, r
<1>5. CASE s.panic
  BY <1>1, <1>5 DEF Fitted
<1>6. CASE ~ s.panic /\ s.free = {}
  <2>1. t = [r EXCEPT !.ok = FALSE]
    BY <1>4, <1>6 DEF MapPage
  <2> HIDE DEF t, u
  <2>2. t \in Spaces /\ t.ok = FALSE /\ t.pdir = s.pdir /\ t.kstack = s.kstack /\ t.free \subseteq s.free
    BY <1>2, <2>1 DEF Spaces
  <2>3. u = [t EXCEPT !.ok = FALSE]
    BY <1>1, <1>6, <2>2
  <2>4. u \in Spaces /\ u.ok = FALSE /\ u.pdir = t.pdir /\ u.kstack = t.kstack /\ u.free = t.free
    BY <2>2, <2>3 DEF Spaces
  <2>5. Fitted(s, u, {v})
    BY <2>2, <2>4 DEF Fitted
  <2> QED BY <2>5 DEF u
<1>7. CASE ~ s.panic /\ s.free # {}
  <2>1. /\ t \in Spaces
        /\ t.pdir = r.pdir /\ t.kstack = r.kstack /\ t.free \subseteq r.free
        /\ t.ok => /\ ~ t.panic /\ v \notin DOMAIN r.entries
                   /\ DOMAIN t.entries = DOMAIN r.entries \cup {v} /\ t.entries[v] = q
                   /\ \A w \in DOMAIN r.entries : t.entries[w] = r.entries[w]
        /\ \A F : Balanced(r, F) /\ t.ok /\ v < UserStack /\ q \notin F => Balanced(t, F \cup {q})
    BY <1>2, <1>4, <1>7, MapPageFacts
  <2> HIDE DEF t, u
  <2>2. /\ u.free = t.free /\ u.pdir = t.pdir /\ u.kstack = t.kstack /\ u.tables = t.tables
        /\ u.entries = t.entries /\ u.ok = (t.ok /\ s.ok) /\ u.panic = t.panic /\ u \in Spaces
    <3>1. u = [t EXCEPT !.ok = t.ok /\ s.ok]
      BY <1>1, <1>7
    <3>2. (t.ok /\ s.ok) \in BOOLEAN
      OBVIOUS
    <3> QED BY <2>1, <3>1, <3>2 DEF Spaces
  <2>3. ASSUME u.ok, NEW F, Balanced(s, F) PROVE Balanced(u, F)
    <3>1. Balanced(r, F \ {q})
      BY <1>2, <1>4, <1>7, <2>3, FreeLess
    <3>2. Balanced(t, (F \ {q}) \cup {q})
      BY <2>1, <2>2, <2>3, <3>1
    <3>3. q \in F
      BY <1>4, <1>7, <2>3 DEF Balanced
    <3>4. (F \ {q}) \cup {q} = F
      BY <3>3
    <3>5. Balanced(t, F)
      BY <3>2, <3>4
    <3> QED BY <2>2, <3>5, SamePages DEF Balanced
  <2>4. Fitted(s, u, {v})
    BY <1>2, <1>7, <2>1, <2>2, <2>3 DEF Fitted
  <2> QED BY <2>4 DEF u
<1> QED BY <1>5, <1>6, <1>7

\* A page of the code; without a free one the kernel panics.
LEMMA AllocCodePageFacts ==
  ASSUME NEW s \in Spaces, NEW v \in Nat, v < UserStack
  PROVE  Fitted(s, AllocCodePage(s, v), {v})
<1> DEFINE u == AllocCodePage(s, v)
<1>1. CASE s.panic \/ s.free = {}
  <2>1. u = [s EXCEPT !.panic = TRUE]
    BY <1>1 DEF AllocCodePage
  <2> HIDE DEF u
  <2>2. u \in Spaces /\ u.panic /\ u.pdir = s.pdir /\ u.kstack = s.kstack /\ u.free = s.free
    BY <2>1 DEF Spaces
  <2> QED BY <2>2 DEF Fitted, u
<1>2. CASE ~ (s.panic \/ s.free = {})
  BY <1>2, AllocAndMapFacts DEF AllocCodePage
<1> QED BY <1>1, <1>2

\* The m numbers that follow a.
After(a, m) == {a + i : i \in 1..m}

\* There is one more of them.
LEMMA AfterNext ==
  ASSUME NEW a \in Int
  PROVE  /\ After(a, 0) = {}
         /\ \A m \in Nat : m # 0 => After(a, m) = After(a, m - 1) \cup {a + m}
<1>1. After(a, 0) = {}
  <2>1. \A i \in 1..0 : FALSE
    OBVIOUS
  <2> QED BY <2>1 DEF After
<1>2. ASSUME NEW m \in Nat, m # 0 PROVE After(a, m) = After(a, m - 1) \cup {a + m}
  <2>1. 1..m = (1..(m - 1)) \cup {m}
    BY <1>2
  <2> QED BY <2>1 DEF After
<1> QED BY <1>1, <1>2

\* A loop of such calls, one address after another.
LEMMA FittedLoop ==
  ASSUME NEW s \in Spaces, NEW n \in Nat, NEW a \in Int, NEW G \in [(1..n) \X Spaces -> Spaces],
         \A i \in 1..n, x \in Spaces : Fitted(x, G[<<i, x>>], {a + i}),
         NEW f, Recursive(f, Spaces, s, G, n)
  PROVE  Fitted(s, f[n], After(a, n))
<1> DEFINE T == {m \in 0..n : ~ Fitted(s, f[m], After(a, m))}
<1>1. SUFFICES ASSUME T # {} PROVE FALSE
  <2>1. n \in 0..n
    OBVIOUS
  <2> QED BY <2>1
<1>2. PICK m \in T : \A x \in T : m <= x
  <2>1. T \subseteq Nat
    <3>1. \A x \in 0..n : x \in Nat
      OBVIOUS
    <3> QED BY <3>1
  <2> HIDE DEF T
  <2> QED BY <1>1, <2>1, LeastNat
<1>3. \A i \in 0..n : f[i] = (IF i = 0 THEN s ELSE G[i, f[i - 1]]) /\ f[i] \in Spaces
  BY DEF Recursive
<1>0. m \in 0..n /\ ~ Fitted(s, f[m], After(a, m))
  BY <1>2
<1>4. m # 0
  <2>3. 0 \in 0..n
    OBVIOUS
  <2>1. f[0] = s
    <3> HIDE DEF T
    <3> QED BY <1>3, <2>3
  <2>2. Fitted(s, s, {})
    BY DEF Fitted
  <2> QED BY <1>0, <2>1, <2>2, AfterNext
<1>5. m \in 1..n /\ m \in Nat /\ m - 1 \in 0..n /\ m - 1 \in Nat
  BY <1>0, <1>4
<1>12. m - 1 \notin T
  BY <1>2, <1>5
<1>6. Fitted(s, f[m - 1], After(a, m - 1))
  BY <1>5, <1>12
<1> HIDE DEF T
<1>7. f[m] = G[m, f[m - 1]] /\ f[m - 1] \in Spaces
  BY <1>0, <1>3, <1>4, <1>5
<1>8. Fitted(f[m - 1], f[m], {a + m})
  BY <1>5, <1>7
<1>9. After(a, m) = After(a, m - 1) \cup {a + m}
  BY <1>4, <1>5, AfterNext
<1>10. Fitted(s, f[m], After(a, m - 1) \cup {a + m})
  BY <1>6, <1>8, FittedBoth
<1> QED BY <1>0, <1>9, <1>10

\* alloc_pages maps the user stack.
LEMMA AllocStackFacts ==
  ASSUME NEW s \in Spaces
  PROVE  Fitted(s, AllocStack(s), StackPages)
<1> DEFINE a == UserStack - SPages - 1
           G == [x \in (1..SPages) \X Spaces |-> AllocAndMap(x[2], UserStack - SPages + x[1] - 1)]
<1>1. \A i \in 1..SPages : UserStack - SPages + i - 1 \in Nat /\ UserStack - SPages + i - 1 < UserStack
  BY AddressFacts
<1>2. \A i \in 1..SPages, x \in Spaces :
        /\ Fitted(x, AllocAndMap(x, UserStack - SPages + i - 1), {UserStack - SPages + i - 1})
        /\ AllocAndMap(x, UserStack - SPages + i - 1) \in Spaces
  BY <1>1, AllocAndMapFacts DEF Fitted
<1>3. G \in [(1..SPages) \X Spaces -> Spaces]
  BY <1>2
<1>4. \A i \in 1..SPages, x \in Spaces : G[i, x] = AllocAndMap(x, UserStack - SPages + i - 1)
  OBVIOUS
<1> HIDE DEF G
<1>5. PICK f : Recursive(f, Spaces, s, G, SPages)
  BY <1>3, AddressFacts, RecursiveExists
<1>6. f = [i \in 0..SPages |-> IF i = 0 THEN s ELSE AllocAndMap(f[i - 1], UserStack - SPages + i - 1)]
  <2>1. \A i \in 0..SPages : f[i] \in Spaces
    BY <1>5 DEF Recursive
  <2>2. \A i \in 0..SPages : i # 0 => i \in 1..SPages /\ i - 1 \in 0..SPages
    BY AddressFacts
  <2>3. \A i \in 0..SPages :
          (IF i = 0 THEN s ELSE G[i, f[i - 1]])
            = (IF i = 0 THEN s ELSE AllocAndMap(f[i - 1], UserStack - SPages + i - 1))
    BY <1>4, <2>1, <2>2
  <2>4. f = [i \in 0..SPages |-> IF i = 0 THEN s ELSE G[i, f[i - 1]]]
    BY <1>5 DEF Recursive
  <2> QED BY <2>3, <2>4
<1> DEFINE h == CHOOSE g : g = [i \in 0..SPages |->
                  IF i = 0 THEN s ELSE AllocAndMap(g[i - 1], UserStack - SPages + i - 1)]
<1>7. AllocStack(s) = h[SPages]
  BY DEF AllocStack
<1>8. h = [i \in 0..SPages |-> IF i = 0 THEN s ELSE AllocAndMap(h[i - 1], UserStack - SPages + i - 1)]
  BY <1>6
<1> HIDE DEF h
<1>9. Recursive(h, Spaces, s, G, SPages)
  <2> DEFINE T == {m \in 0..SPages : h[m] \notin Spaces}
  <2>1. T = {}
    <3>1. SUFFICES ASSUME T # {} PROVE FALSE
      OBVIOUS
    <3>2. PICK m \in T : \A x \in T : m <= x
      <4>1. T \subseteq Nat
        OBVIOUS
      <4> HIDE DEF T
      <4> QED BY <3>1, <4>1, LeastNat
    <3>3. h[m] = IF m = 0 THEN s ELSE AllocAndMap(h[m - 1], UserStack - SPages + m - 1)
      BY <1>8, <3>2
    <3>4. m # 0 => m - 1 \in 0..SPages /\ m \in 1..SPages /\ m - 1 \notin T
      BY <3>2, AddressFacts
    <3>5. h[m] \notin Spaces
      BY <3>2
    <3> QED BY <3>3, <3>4, <3>5, <1>2
  <2>2. \A i \in 0..SPages : h[i] \in Spaces
    BY <2>1
  <2>3. \A i \in 0..SPages : i # 0 => i \in 1..SPages /\ i - 1 \in 0..SPages
    BY AddressFacts
  <2>4. \A i \in 0..SPages :
          (IF i = 0 THEN s ELSE G[i, h[i - 1]])
            = (IF i = 0 THEN s ELSE AllocAndMap(h[i - 1], UserStack - SPages + i - 1))
    BY <1>4, <2>2, <2>3
  <2>5. h = [i \in 0..SPages |-> IF i = 0 THEN s ELSE G[i, h[i - 1]]]
    BY <1>8, <2>4
  <2> QED BY <2>2, <2>5 DEF Recursive
<1>10. Fitted(s, h[SPages], After(a, SPages))
  <2>1. \A i \in 1..SPages : UserStack - SPages + i - 1 = a + i
    BY AddressFacts
  <2>2. \A i \in 1..SPages, x \in Spaces : Fitted(x, G[<<i, x>>], {a + i})
    BY <1>2, <1>4, <2>1
  <2>3. a \in Int /\ SPages \in Nat
    BY AddressFacts
  <2> HIDE DEF a
  <2> QED BY <1>3, <1>9, <2>2, <2>3, FittedLoop
<1>11. After(a, SPages) = StackPages
  <2>1. ASSUME NEW v \in StackPages PROVE v - a \in 1..SPages /\ v = a + (v - a)
    BY AddressFacts DEF StackPages
  <2>2. \A i \in 1..SPages : a + i \in StackPages
    BY AddressFacts DEF StackPages
  <2> HIDE DEF a
  <2> QED BY <2>1, <2>2 DEF After
<1> QED BY <1>7, <1>10, <1>11

\* alloc_pages maps the code.
LEMMA AllocCodeFacts ==
  ASSUME NEW s \in Spaces
  PROVE  Fitted(s, AllocCode(s), CodePages)
<1> DEFINE a == UserCode - 1
           G == [x \in (1..CPages) \X Spaces |-> AllocCodePage(x[2], UserCode + x[1] - 1)]
<1>1. \A i \in 1..CPages : UserCode + i - 1 \in Nat /\ UserCode + i - 1 < UserStack
  BY AddressFacts
<1>2. \A i \in 1..CPages, x \in Spaces :
        /\ Fitted(x, AllocCodePage(x, UserCode + i - 1), {UserCode + i - 1})
        /\ AllocCodePage(x, UserCode + i - 1) \in Spaces
  BY <1>1, AllocCodePageFacts DEF Fitted
<1>3. G \in [(1..CPages) \X Spaces -> Spaces]
  BY <1>2
<1>4. \A i \in 1..CPages, x \in Spaces : G[i, x] = AllocCodePage(x, UserCode + i - 1)
  OBVIOUS
<1> HIDE DEF G
<1>5. PICK f : Recursive(f, Spaces, s, G, CPages)
  BY <1>3, AddressFacts, RecursiveExists
<1>6. f = [i \in 0..CPages |-> IF i = 0 THEN s ELSE AllocCodePage(f[i - 1], UserCode + i - 1)]
  <2>1. \A i \in 0..CPages : f[i] \in Spaces
    BY <1>5 DEF Recursive
  <2>2. \A i \in 0..CPages : i # 0 => i \in 1..CPages /\ i - 1 \in 0..CPages
    BY AddressFacts
  <2>3. \A i \in 0..CPages :
          (IF i = 0 THEN s ELSE G[i, f[i - 1]])
            = (IF i = 0 THEN s ELSE AllocCodePage(f[i - 1], UserCode + i - 1))
    BY <1>4, <2>1, <2>2
  <2>4. f = [i \in 0..CPages |-> IF i = 0 THEN s ELSE G[i, f[i - 1]]]
    BY <1>5 DEF Recursive
  <2> QED BY <2>3, <2>4
<1> DEFINE h == CHOOSE g : g = [i \in 0..CPages |->
                  IF i = 0 THEN s ELSE AllocCodePage(g[i - 1], UserCode + i - 1)]
<1>7. AllocCode(s) = h[CPages]
  BY DEF AllocCode
<1>8. h = [i \in 0..CPages |-> IF i = 0 THEN s ELSE AllocCodePage(h[i - 1], UserCode + i - 1)]
  BY <1>6
<1> HIDE DEF h
<1>9. Recursive(h, Spaces, s, G, CPages)
  <2> DEFINE T == {m \in 0..CPages : h[m] \notin Spaces}
  <2>1. T = {}
    <3>1. SUFFICES ASSUME T # {} PROVE FALSE
      OBVIOUS
    <3>2. PICK m \in T : \A x \in T : m <= x
      <4>1. T \subseteq Nat
        OBVIOUS
      <4> HIDE DEF T
      <4> QED BY <3>1, <4>1, LeastNat
    <3>3. h[m] = IF m = 0 THEN s ELSE AllocCodePage(h[m - 1], UserCode + m - 1)
      BY <1>8, <3>2
    <3>4. m # 0 => m - 1 \in 0..CPages /\ m \in 1..CPages /\ m - 1 \notin T
      BY <3>2, AddressFacts
    <3>5. h[m] \notin Spaces
      BY <3>2
    <3> QED BY <3>3, <3>4, <3>5, <1>2
  <2>2. \A i \in 0..CPages : h[i] \in Spaces
    BY <2>1
  <2>3. \A i \in 0..CPages : i # 0 => i \in 1..CPages /\ i - 1 \in 0..CPages
    BY AddressFacts
  <2>4. \A i \in 0..CPages :
          (IF i = 0 THEN s ELSE G[i, h[i - 1]])
            = (IF i = 0 THEN s ELSE AllocCodePage(h[i - 1], UserCode + i - 1))
    BY <1>4, <2>2, <2>3
  <2>5. h = [i \in 0..CPages |-> IF i = 0 THEN s ELSE G[i, h[i - 1]]]
    BY <1>8, <2>4
  <2> QED BY <2>2, <2>5 DEF Recursive
<1>10. Fitted(s, h[CPages], After(a, CPages))
  <2>1. \A i \in 1..CPages : UserCode + i - 1 = a + i
    BY AddressFacts
  <2>2. \A i \in 1..CPages, x \in Spaces : Fitted(x, G[<<i, x>>], {a + i})
    BY <1>2, <1>4, <2>1
  <2>3. a \in Int /\ CPages \in Nat
    BY AddressFacts
  <2> HIDE DEF a
  <2> QED BY <1>3, <1>9, <2>2, <2>3, FittedLoop
<1>11. After(a, CPages) = CodePages
  <2>1. ASSUME NEW v \in CodePages PROVE v - a \in 1..CPages /\ v = a + (v - a)
    BY AddressFacts DEF CodePages
  <2>2. \A i \in 1..CPages : a + i \in CodePages
    BY AddressFacts DEF CodePages
  <2> HIDE DEF a
  <2> QED BY <2>1, <2>2 DEF After
<1> QED BY <1>7, <1>10, <1>11

\* alloc_pages, where it succeeds: the pages that it took from F are in the
\* space, each for one use, and stack and code are mapped.
LEMMA AllocPagesFacts ==
  ASSUME NEW F \in SUBSET Page
  PROVE  LET s == AllocPages(F) IN
         /\ s \in Spaces /\ s.free \subseteq F
         /\ s.ok /\ ~ s.panic => Balanced(s, F) /\ DOMAIN s.entries = StackPages \cup CodePages
<1> DEFINE none   == NoSpace(F)
           dir    == AllocDir(none)
           stack  == AllocStack(dir)
           kstack == AllocKernelStack(stack)
           code   == AllocCode(kstack)
           s      == AllocPages(F)
<1>1. s = IF dir.pdir = NoPage THEN [dir EXCEPT !.ok = FALSE]
          ELSE IF stack.panic THEN stack
          ELSE IF kstack.kstack = {} THEN [kstack EXCEPT !.ok = FALSE]
          ELSE code
  BY DEF AllocPages
<1>2. /\ none \in Spaces /\ none.free = F /\ none.pdir = NoPage /\ none.kstack = {}
      /\ none.tables = <<>> /\ none.entries = <<>> /\ none.ok /\ ~ none.panic
  BY EmptyMap DEF NoSpace, Spaces
<1>3. /\ F # {} => NextPage(F) \in F /\ NextPage(F) \in Page /\ NextPage(F) # NoPage
      /\ F = {} => NextPage(F) = NoPage
  BY NextPageFacts
<1>4. /\ dir \in Spaces /\ dir.free = F \ {NextPage(F)} /\ dir.pdir = NextPage(F)
      /\ dir.kstack = {} /\ dir.tables = <<>> /\ dir.entries = <<>> /\ dir.ok /\ ~ dir.panic
  <2>1. dir = [none EXCEPT !.pdir = NextPage(F), !.free = F \ {NextPage(F)}]
    BY <1>2 DEF AllocDir
  <2> HIDE DEF none, dir
  <2>2. F \ {NextPage(F)} \in SUBSET Page /\ NextPage(F) \in Page \cup {NoPage}
    BY <1>3
  <2> QED BY <1>2, <2>1, <2>2 DEF Spaces
<1>5. Fitted(dir, stack, StackPages)
  <2> HIDE DEF dir
  <2> QED BY <1>4, AllocStackFacts
<1>6. F # {} => Balanced(dir, F)
  <2> HIDE DEF dir
  <2>1. SUFFICES ASSUME F # {} PROVE Balanced(dir, F)
    OBVIOUS
  <2>2. Low(dir) = {} /\ DOMAIN dir.tables = {} /\ dir.pdir # NoPage
    BY <1>3, <1>4, <2>1, EmptyMap DEF Low
  <2>3. OwnPages(dir) = {NextPage(F)}
    BY <1>4, <2>2 DEF OwnPages
  <2>4. Apart(dir)
    BY <1>4, <2>2 DEF Apart
  <2> QED BY <1>3, <1>4, <2>1, <2>2, <2>3, <2>4 DEF Balanced
<1> HIDE DEF none, dir, stack, kstack, code, s
<1>7. /\ stack \in Spaces /\ stack.pdir = dir.pdir /\ stack.kstack = {} /\ stack.free \subseteq F
      /\ stack.ok /\ ~ stack.panic => /\ DOMAIN stack.entries = StackPages
                                      /\ F # {} => Balanced(stack, F)
  BY <1>4, <1>5, <1>6, EmptyMap DEF Fitted
<1> DEFINE K == Lowest(KPages, stack.free)
<1>8. K \subseteq stack.free
  BY DEF Lowest
<1>9. \/ kstack = stack
      \/ kstack = [stack EXCEPT !.kstack = K, !.free = stack.free \ K]
  BY DEF AllocKernelStack, kstack
<1> HIDE DEF K
<1>10. /\ kstack \in Spaces /\ kstack.pdir = dir.pdir /\ kstack.free \subseteq F
       /\ kstack.kstack # {} =>
            /\ kstack.kstack = K /\ kstack.free = stack.free \ K /\ kstack.tables = stack.tables
            /\ kstack.entries = stack.entries /\ kstack.ok = stack.ok /\ kstack.panic = stack.panic
  <2>1. CASE kstack = stack
    BY <2>1, <1>7
  <2>2. CASE kstack = [stack EXCEPT !.kstack = K, !.free = stack.free \ K]
    <3>1. K \in SUBSET Page /\ stack.free \ K \in SUBSET Page
      BY <1>7, <1>8
    <3> QED BY <2>2, <3>1, <1>7 DEF Spaces
  <2> QED BY <1>9, <2>1, <2>2
<1>11. ASSUME kstack.kstack # {}, kstack.ok, ~ kstack.panic, dir.pdir # NoPage
       PROVE  Balanced(kstack, F) /\ DOMAIN kstack.entries = StackPages
  <2>1. Balanced(stack, F) /\ DOMAIN kstack.entries = StackPages
    BY <1>3, <1>4, <1>7, <1>10, <1>11
  <2>2. Low(kstack) = Low(stack)
    BY <1>10, <1>11 DEF Low
  <2>3. stack.pdir # NoPage /\ kstack.pdir = stack.pdir
    BY <1>7, <1>10, <1>11
  <2>4. OwnPages(kstack) = OwnPages(stack) \cup K
    BY <1>7, <1>10, <1>11, <2>2, <2>3 DEF OwnPages
  <2>5. K \cap OwnPages(stack) = {}
    BY <1>8, <2>1 DEF Balanced
  <2>6. stack.pdir \notin K /\ (\A d \in DOMAIN stack.tables : stack.tables[d] \notin K)
        /\ \A v \in Low(stack) : stack.entries[v] \notin K
    BY <2>3, <2>5 DEF OwnPages
  <2>7. Apart(stack)
    BY <2>1 DEF Balanced
  <2>8. Apart(kstack)
    <3>1. kstack.tables = stack.tables /\ kstack.entries = stack.entries /\ kstack.kstack = K
      BY <1>10, <1>11
    <3> QED BY <2>2, <2>3, <2>6, <2>7, <3>1 DEF Apart
  <2>9. kstack.free \cup OwnPages(kstack) = F /\ kstack.free \cap OwnPages(kstack) = {}
    BY <1>8, <1>10, <1>11, <2>1, <2>4 DEF Balanced
  <2> QED BY <2>1, <2>3, <2>8, <2>9 DEF Balanced
<1>12. Fitted(kstack, code, CodePages)
  BY <1>10, AllocCodeFacts DEF code
<1>13. CASE dir.pdir = NoPage
  <2>1. s = [dir EXCEPT !.ok = FALSE]
    BY <1>1, <1>13
  <2> QED BY <1>4, <2>1 DEF Spaces, s
<1>14. CASE dir.pdir # NoPage /\ stack.panic
  <2>1. s = stack
    BY <1>1, <1>14
  <2> QED BY <1>7, <1>14, <2>1 DEF s
<1>15. CASE dir.pdir # NoPage /\ ~ stack.panic /\ kstack.kstack = {}
  <2>1. s = [kstack EXCEPT !.ok = FALSE]
    BY <1>1, <1>15
  <2> QED BY <1>10, <2>1 DEF Spaces, s
<1>16. CASE dir.pdir # NoPage /\ ~ stack.panic /\ kstack.kstack # {}
  <2>1. s = code
    BY <1>1, <1>16
  <2>2. code \in Spaces /\ code.free \subseteq F
    BY <1>10, <1>12 DEF Fitted
  <2>3. ASSUME code.ok, ~ code.panic
        PROVE  Balanced(code, F) /\ DOMAIN code.entries = StackPages \cup CodePages
    <3>1. /\ kstack.ok /\ ~ kstack.panic
          /\ DOMAIN code.entries = DOMAIN kstack.entries \cup CodePages
          /\ Balanced(kstack, F) => Balanced(code, F)
      BY <1>12, <2>3 DEF Fitted
    <3> QED BY <3>1, <1>11, <1>16
  <2> QED BY <2>1, <2>2, <2>3 DEF s
<1> QED BY <1>13, <1>14, <1>15, <1>16
-----------------------------------------------------------------------------
(* The pages of all processes. *)

\* The descriptors of shared pages, and the pages that a table names.
Descriptor == [page : Page, nrefs : Nat]
PagesOf(t) == {x[2].page : x \in Pairs(t)}
OneName(t) == \A x, y \in Pairs(t) : x[2].page = y[2].page => x = y

\* The entries of a space for shared pages are those its table h of addresses
\* says, and each leads to the page that table t has under the same name.
Leads(h, s, t) ==
  /\ \A x \in Pairs(h) :
       /\ x[2] \in DOMAIN s.entries /\ x[2] >= UserStack
       /\ \E y \in Pairs(t) : y[1] = x[1] /\ s.entries[x[2]] = y[2].page
  /\ \A x, y \in Pairs(h) : x[2] = y[2] => x = y
  /\ \A v \in DOMAIN s.entries : v >= UserStack => \E x \in Pairs(h) : x[2] = v

\* The processes that have mapped the page k.  Its count is at least their
\* number, or exactly that.
Users(k, H) == {p \in Proc : \E x \in Pairs(H[p]) : x[1] = k}
Covered(t, H) == \A y \in Pairs(t) : y[2].nrefs >= 1 /\ y[2].nrefs >= Cardinality(Users(y[1], H))
Exact(t, H)   == \A y \in Pairs(t) : y[2].nrefs = Cardinality(Users(y[1], H))

\* Each page is free, lost, shared, or in one of the spaces.
Parted(F, L, P, S) ==
  /\ F \cup L \cup P \cup UNION {OwnPages(S[p]) : p \in Proc} = Page
  /\ F \cap L = {} /\ F \cap P = {} /\ L \cap P = {}
  /\ \A p \in Proc : /\ OwnPages(S[p]) \cap (F \cup L \cup P) = {}
                     /\ \A q \in Proc : p # q => OwnPages(S[p]) \cap OwnPages(S[q]) = {}

\* All this, for the free and the lost pages, the table of shared pages, and
\* the spaces and tables of the processes.
World(F, L, t, S, H) ==
  /\ F \subseteq Page /\ L \subseteq Page
  /\ Sane(t, Descriptor) /\ t.failed = 0 /\ OneName(t)
  /\ S \in [Proc -> Spaces] /\ H = [p \in Proc |-> H[p]]
  /\ \A p \in Proc : /\ Sane(H[p], Nat) /\ H[p].failed = 0
                     /\ Apart(S[p]) /\ Leads(H[p], S[p], t)
  /\ Covered(t, H)
  /\ Parted(F, L, PagesOf(t), S)

\* The pairs of a table: a key has one value.
LEMMA PairFacts ==
  ASSUME NEW V, NEW t, Sane(t, V)
  PROVE  /\ \A x \in Pairs(t) : x = <<x[1], x[2]>> /\ x[1] \in Key /\ x[2] \in V
         /\ \A x, y \in Pairs(t) : x[1] = y[1] => x = y
         /\ \A k \in Key : IsSet(t, k) <=> \E x \in Pairs(t) : x[1] = k
         /\ \A k \in Key : IsSet(t, k) => <<k, Get(t, k)>> \in Pairs(t) /\ Get(t, k) \in V
<1>1. t \in Tables(V)
  BY SaneGap
<1>2. \A i \in DOMAIN t.slots : t.slots[i] \in Slot(V)
  BY <1>1, TableFacts
<1>3. ASSUME NEW x \in Pairs(t) PROVE x = <<x[1], x[2]>> /\ x[1] \in Key /\ x[2] \in V
  <2>1. PICK i \in DOMAIN t.slots : x = t.slots[i] /\ Active(t.slots[i])
    BY DEF Pairs, Used
  <2> QED BY <2>1, <1>2, SlotFacts
<1>4. ASSUME NEW x \in Pairs(t), NEW y \in Pairs(t), x[1] = y[1] PROVE x = y
  <2>1. x[1] \in Key
    BY <1>3
  <2>2. x = <<x[1], Get(t, x[1])>> /\ y = <<x[1], Get(t, x[1])>>
    BY <1>4, <2>1, HasFacts
  <2> QED BY <2>2
<1>5. ASSUME NEW k \in Key
      PROVE  /\ IsSet(t, k) <=> \E x \in Pairs(t) : x[1] = k
             /\ IsSet(t, k) => <<k, Get(t, k)>> \in Pairs(t) /\ Get(t, k) \in V
  <2>1. IsSet(t, k) => Get(t, k) \in V /\ <<k, Get(t, k)>> \in Pairs(t)
    BY HasFacts
  <2>2. \A x \in Pairs(t) : x[1] = k => IsSet(t, k)
    BY HasFacts
  <2>3. <<k, Get(t, k)>>[1] = k
    OBVIOUS
  <2> QED BY <2>1, <2>2, <2>3
<1> QED BY <1>3, <1>4, <1>5

\* The pages change hands between the free ones, the shared ones and one space.
LEMMA PartedStep ==
  ASSUME NEW F, NEW L, NEW P, NEW S \in [Proc -> Spaces], Parted(F, L, P, S),
         NEW p \in Proc, NEW F2, NEW P2, NEW s \in Spaces,
         F2 \cup P2 \cup OwnPages(s) = F \cup P \cup OwnPages(S[p]),
         F2 \cap P2 = {}, F2 \cap OwnPages(s) = {}, P2 \cap OwnPages(s) = {}
  PROVE  Parted(F2, L, P2, [S EXCEPT ![p] = s])
<1> DEFINE S2 == [S EXCEPT ![p] = s]
           O(q) == OwnPages(S[q])
           O2(q) == OwnPages(S2[q])
           X == F \cup P \cup O(p)
<1>1. O2(p) = OwnPages(s) /\ \A q \in Proc : q # p => O2(q) = O(q)
  OBVIOUS
<1>2. /\ F \cup L \cup P \cup UNION {O(q) : q \in Proc} = Page
      /\ F \cap L = {} /\ F \cap P = {} /\ L \cap P = {}
      /\ \A q \in Proc : /\ O(q) \cap (F \cup L \cup P) = {}
                         /\ \A r \in Proc : q # r => O(q) \cap O(r) = {}
  BY DEF Parted
<1>3. /\ F2 \cup P2 \cup O2(p) = F \cup P \cup O(p)
      /\ F2 \cap P2 = {} /\ F2 \cap O2(p) = {} /\ P2 \cap O2(p) = {}
  BY <1>1
<1> HIDE DEF O, O2, S2
<1>4. F2 \cup L \cup P2 \cup UNION {O2(q) : q \in Proc} = Page
  <2>1. UNION {O(q) : q \in Proc} = O(p) \cup UNION {O(q) : q \in Proc \ {p}}
    OBVIOUS
  <2>2. UNION {O2(q) : q \in Proc} = O2(p) \cup UNION {O2(q) : q \in Proc \ {p}}
    OBVIOUS
  <2>3. UNION {O2(q) : q \in Proc \ {p}} = UNION {O(q) : q \in Proc \ {p}}
    BY <1>1
  <2> DEFINE R == UNION {O(q) : q \in Proc \ {p}}
  <2>4. UNION {O(q) : q \in Proc} = O(p) \cup R /\ UNION {O2(q) : q \in Proc} = O2(p) \cup R
    BY <2>1, <2>2, <2>3
  <2> HIDE DEF R
  <2> QED BY <1>2, <1>3, <2>4
<1>5. F2 \cap L = {} /\ L \cap P2 = {} /\ L \cap O2(p) = {}
  BY <1>2, <1>3
<1>6. ASSUME NEW q \in Proc
      PROVE  /\ O2(q) \cap (F2 \cup L \cup P2) = {}
             /\ \A r \in Proc : q # r => O2(q) \cap O2(r) = {}
  <2>1. CASE q = p
    <3>1. ASSUME NEW r \in Proc, p # r PROVE O2(p) \cap O2(r) = {}
      <4>1. O2(r) = O(r) /\ O(r) \cap (F \cup P \cup O(p)) = {}
        BY <1>1, <1>2, <3>1
      <4> QED BY <4>1, <1>3
    <3> QED BY <2>1, <3>1, <1>3, <1>5
  <2>2. CASE q # p
    <3>1. O2(q) = O(q) /\ O(q) \cap (F \cup P \cup O(p)) = {} /\ O(q) \cap L = {}
      BY <1>1, <1>2, <2>2
    <3>2. ASSUME NEW r \in Proc, q # r PROVE O2(q) \cap O2(r) = {}
      <4>1. CASE r = p
        BY <4>1, <3>1, <1>3
      <4>2. CASE r # p
        BY <4>2, <3>1, <1>1, <1>2, <3>2
      <4> QED BY <4>1, <4>2
    <3> QED BY <3>1, <3>2, <1>3
  <2> QED BY <2>1, <2>2
<1> QED BY <1>3, <1>4, <1>5, <1>6 DEF Parted, O2, S2

\* A step of one process on its space, its table, the table of shared pages
\* and the free pages.
LEMMA WorldStep ==
  ASSUME NEW F, NEW L, NEW t, NEW S, NEW H, World(F, L, t, S, H), NEW p \in Proc,
         NEW F2 \in SUBSET Page, NEW t2, Sane(t2, Descriptor), t2.failed = 0, OneName(t2),
         NEW s \in Spaces, Apart(s), NEW h, Sane(h, Nat), h.failed = 0, Leads(h, s, t2),
         \A q \in Proc : q # p => \A x \in Pairs(H[q]), y \in Pairs(t) : y[1] = x[1] =>
           \E z \in Pairs(t2) : z[1] = y[1] /\ z[2].page = y[2].page,
         F2 \cup PagesOf(t2) \cup OwnPages(s) = F \cup PagesOf(t) \cup OwnPages(S[p]),
         F2 \cap PagesOf(t2) = {}, F2 \cap OwnPages(s) = {}, PagesOf(t2) \cap OwnPages(s) = {},
         Covered(t2, [H EXCEPT ![p] = h])
  PROVE  World(F2, L, t2, [S EXCEPT ![p] = s], [H EXCEPT ![p] = h])
<1> DEFINE S2 == [S EXCEPT ![p] = s]
           H2 == [H EXCEPT ![p] = h]
<1>1. S \in [Proc -> Spaces] /\ H = [q \in Proc |-> H[q]]
  BY DEF World
<1>2. /\ S2 \in [Proc -> Spaces] /\ S2[p] = s /\ \A q \in Proc : q # p => S2[q] = S[q]
  BY <1>1
<1>3. /\ H2 = [q \in Proc |-> H2[q]] /\ H2[p] = h /\ \A q \in Proc : q # p => H2[q] = H[q]
  BY <1>1
<1>4. Parted(F2, L, PagesOf(t2), S2)
  <2>1. Parted(F, L, PagesOf(t), S)
    BY DEF World
  <2> QED BY <2>1, <1>1, PartedStep
<1> HIDE DEF S2, H2
<1>5. ASSUME NEW q \in Proc
      PROVE  /\ Sane(H2[q], Nat) /\ H2[q].failed = 0
             /\ Apart(S2[q]) /\ Leads(H2[q], S2[q], t2)
  <2>1. CASE q = p
    BY <2>1, <1>2, <1>3
  <2>2. CASE q # p
    <3>1. /\ Sane(H[q], Nat) /\ H[q].failed = 0 /\ Apart(S[q]) /\ Leads(H[q], S[q], t)
      BY DEF World
    <3>2. Leads(H[q], S[q], t2)
      <4>1. ASSUME NEW x \in Pairs(H[q])
            PROVE  \E z \in Pairs(t2) : z[1] = x[1] /\ S[q].entries[x[2]] = z[2].page
        <5>1. PICK y \in Pairs(t) : y[1] = x[1] /\ S[q].entries[x[2]] = y[2].page
          BY <3>1 DEF Leads
        <5>2. PICK z \in Pairs(t2) : z[1] = y[1] /\ z[2].page = y[2].page
          BY <2>2, <5>1
        <5> QED BY <5>1, <5>2
      <4> QED BY <3>1, <4>1 DEF Leads
    <3> QED BY <2>2, <3>1, <3>2, <1>2, <1>3
  <2> QED BY <2>1, <2>2
<1>6. L \subseteq Page
  BY DEF World
<1>7. Covered(t2, H2)
  BY DEF H2
<1>8. World(F2, L, t2, S2, H2)
  BY <1>2, <1>3, <1>4, <1>5, <1>6, <1>7 DEF World
<1> QED BY <1>8 DEF S2, H2

\* The users of a name, when the table of one process has changed.
LEMMA UsersStep ==
  ASSUME NEW H, H = [p \in Proc |-> H[p]], NEW p \in Proc, NEW h, NEW k
  PROVE  LET H2 == [H EXCEPT ![p] = h] IN
         /\ IsFiniteSet(Users(k, H)) /\ Cardinality(Users(k, H)) \in Nat
         /\ ((\E x \in Pairs(h) : x[1] = k) <=> (\E x \in Pairs(H[p]) : x[1] = k)) =>
              Users(k, H2) = Users(k, H)
         /\ (\E x \in Pairs(h) : x[1] = k) /\ ~ (\E x \in Pairs(H[p]) : x[1] = k) =>
              Cardinality(Users(k, H2)) = Cardinality(Users(k, H)) + 1
         /\ ~ (\E x \in Pairs(h) : x[1] = k) /\ (\E x \in Pairs(H[p]) : x[1] = k) =>
              /\ Cardinality(Users(k, H2)) = Cardinality(Users(k, H)) - 1
              /\ p \in Users(k, H)
<1> DEFINE H2 == [H EXCEPT ![p] = h]
           U == Users(k, H)
           U2 == Users(k, H2)
<1>1. H2[p] = h /\ \A q \in Proc : q # p => H2[q] = H[q]
  OBVIOUS
<1> HIDE DEF H2
<1>2. /\ \A q \in Proc : q # p => (q \in U2 <=> q \in U)
      /\ p \in U2 <=> \E x \in Pairs(h) : x[1] = k
      /\ p \in U <=> \E x \in Pairs(H[p]) : x[1] = k
      /\ U \subseteq Proc /\ U2 \subseteq Proc
  BY <1>1 DEF Users
<1> HIDE DEF U, U2
<1>3. IsFiniteSet(U) /\ IsFiniteSet(U2)
  BY <1>2, SharedAssumption, FS_Subset
<1>4. Cardinality(U) \in Nat
  BY <1>3, FS_CardinalityType
<1>5. ASSUME p \in U2, p \notin U PROVE Cardinality(U2) = Cardinality(U) + 1
  <2>1. U2 = U \cup {p}
    BY <1>2, <1>5
  <2> QED BY <2>1, <1>3, <1>5, FS_AddElement
<1>6. ASSUME p \notin U2, p \in U PROVE Cardinality(U2) = Cardinality(U) - 1
  <2>1. U2 = U \ {p}
    BY <1>2, <1>6
  <2> QED BY <2>1, <1>3, <1>6, FS_RemoveElement
<1>7. ((p \in U2) <=> (p \in U)) => U2 = U
  BY <1>2
<1> QED BY <1>2, <1>3, <1>4, <1>5, <1>6, <1>7 DEF H2, U, U2
\* Only the pages of a space matter.
LEMMA WorldSame ==
  ASSUME NEW F, NEW L, NEW t, NEW S, NEW H, World(F, L, t, S, H), NEW p \in Proc, NEW s \in Spaces,
         s.pdir = S[p].pdir, s.kstack = S[p].kstack, s.tables = S[p].tables,
         s.entries = S[p].entries
  PROVE  World(F, L, t, [S EXCEPT ![p] = s], H)
<1> DEFINE S2 == [S EXCEPT ![p] = s]
<1>1. S \in [Proc -> Spaces]
  BY DEF World
<1>2. S2 \in [Proc -> Spaces] /\ S2[p] = s /\ \A q \in Proc : q # p => S2[q] = S[q]
  BY <1>1
<1> HIDE DEF S2
<1>3. OwnPages(s) = OwnPages(S[p]) /\ (Apart(s) <=> Apart(S[p]))
  BY SamePages
<1>4. \A q \in Proc : OwnPages(S2[q]) = OwnPages(S[q]) /\ (Apart(S2[q]) <=> Apart(S[q]))
                      /\ (Leads(H[q], S2[q], t) <=> Leads(H[q], S[q], t))
  BY <1>2, <1>3 DEF Leads
<1>5. Parted(F, L, PagesOf(t), S) => Parted(F, L, PagesOf(t), S2)
  BY <1>4 DEF Parted
<1>6. World(F, L, t, S2, H)
  BY <1>2, <1>4, <1>5 DEF World
<1> QED BY <1>6 DEF S2

\* unmap_vpage takes out one entry.
LEMMA UnmapFacts ==
  ASSUME NEW s \in Spaces, NEW v
  PROVE  LET t == UnmapVpage(s, v) IN
         /\ t \in Spaces /\ t.free = s.free /\ t.pdir = s.pdir /\ t.kstack = s.kstack
         /\ t.tables = s.tables /\ t.panic = s.panic
         /\ DOMAIN t.entries = DOMAIN s.entries \ {v}
         /\ \A w \in DOMAIN t.entries : t.entries[w] = s.entries[w]
<1> DEFINE t == UnmapVpage(s, v)
           g == Restrict(s.entries, DOMAIN s.entries \ {v})
           b == v \in DOMAIN s.entries
<1>1. t = [s EXCEPT !.entries = g, !.ok = b]
  BY DEF UnmapVpage
<1>2. g = [w \in DOMAIN s.entries \ {v} |-> s.entries[w]]
  BY DEF Restrict
<1>3. s.entries \in Maps
  BY SpaceFields
<1>4. DOMAIN s.entries \subseteq Nat /\ \A w \in DOMAIN s.entries : s.entries[w] \in Page
  BY <1>3, MapFacts
<1>5. DOMAIN g = DOMAIN s.entries \ {v} /\ (\A w \in DOMAIN g : g[w] = s.entries[w])
      /\ g = [w \in DOMAIN g |-> g[w]]
  BY <1>2
<1> HIDE DEF g
<1>6. g \in Maps
  BY <1>4, <1>5, MapIs
<1>7. b \in BOOLEAN
  OBVIOUS
<1> HIDE DEF t, b
<1>8. /\ t \in Spaces /\ t.free = s.free /\ t.pdir = s.pdir /\ t.kstack = s.kstack
      /\ t.tables = s.tables /\ t.panic = s.panic /\ t.entries = g
  BY <1>1, <1>6, <1>7 DEF Spaces
<1> QED BY <1>5, <1>8 DEF t

\* What shm_release_proc does, when the process has mapped the page.
LEMMA ReleasedIs ==
  ASSUME NEW a, NEW b, NEW c, NEW k, IsSet(a, k), IsSet(b, k), c \in Spaces
  PROVE  LET n   == Released([table |-> a, shmem |-> b, space |-> c], k)
             shp == Get(a, k)
             u   == UnmapVpage(c, Get(b, k))
         IN n = IF shp.nrefs > 1
                THEN [table |-> Set(a, k, Shared(shp.page, shp.nrefs - 1), TRUE),
                      shmem |-> Del(b, k, TRUE), space |-> u]
                ELSE [table |-> Del(a, k, TRUE), shmem |-> Del(b, k, TRUE),
                      space |-> [u EXCEPT !.free = u.free \cup {shp.page}]]
<1> DEFINE m   == [table |-> a, shmem |-> b, space |-> c]
           shp == Get(a, k)
           u   == UnmapVpage(c, Get(b, k))
           h   == Del(b, k, TRUE)
           f   == [table |-> a, shmem |-> h, space |-> u]
<1>1. m.table = a /\ m.shmem = b /\ m.space = c
  OBVIOUS
<1>2. Forgotten(m, k) = f
  <2>1. Forgotten(m, k) = [m EXCEPT !.space = UnmapVpage(m.space, Get(m.shmem, k)),
                                    !.shmem = Del(m.shmem, k, TRUE)]
    BY DEF Forgotten, Unmapped
  <2>2. Forgotten(m, k) = [m EXCEPT !.space = u, !.shmem = h]
    BY <1>1, <2>1
  <2> HIDE DEF u, h
  <2> QED BY <2>2
<1>3. Released(m, k) = Dropped(f, k, shp)
  <2> HIDE DEF m, f
  <2> QED BY <1>1, <1>2 DEF Released
<1>4. f.table = a /\ f.shmem = h /\ f.space = u
  OBVIOUS
<1> DEFINE t1 == Set(a, k, Shared(shp.page, shp.nrefs - 1), TRUE)
           t2 == Del(a, k, TRUE)
<1>5. Dropped(f, k, shp) = IF shp.nrefs > 1 THEN [f EXCEPT !.table = t1]
                           ELSE [f EXCEPT !.table = t2, !.space.free = u.free \cup {shp.page}]
  <2>1. Dropped(f, k, shp) =
          IF shp.nrefs > 1 THEN [f EXCEPT !.table = Set(f.table, k, Shared(shp.page, shp.nrefs - 1), TRUE)]
          ELSE [f EXCEPT !.table = Del(f.table, k, TRUE), !.space.free = f.space.free \cup {shp.page}]
    BY DEF Dropped
  <2> HIDE DEF f, u, h, shp
  <2> QED BY <1>4, <2>1
<1> HIDE DEF u, h, t1, t2, shp
<1>6. [f EXCEPT !.table = t1] = [table |-> t1, shmem |-> h, space |-> u]
  OBVIOUS
<1>7. [f EXCEPT !.table = t2, !.space.free = u.free \cup {shp.page}]
        = [table |-> t2, shmem |-> h, space |-> [u EXCEPT !.free = u.free \cup {shp.page}]]
  <2> DEFINE X == u.free \cup {shp.page}
             g == [f EXCEPT !.table = t2]
             w == [u EXCEPT !.free = X]
  <2>1. g = [table |-> t2, shmem |-> h, space |-> u]
    OBVIOUS
  <2>2. [f EXCEPT !.table = t2, !.space.free = X] = [g EXCEPT !.space = [g.space EXCEPT !.free = X]]
    OBVIOUS
  <2> HIDE DEF g, X
  <2>3. [g.space EXCEPT !.free = X] = w
    BY <2>1
  <2> HIDE DEF w
  <2>4. [g EXCEPT !.space = w] = [table |-> t2, shmem |-> h, space |-> w]
    BY <2>1
  <2> QED BY <2>2, <2>3, <2>4 DEF g, w, X
<1> HIDE DEF m, f
<1> QED BY <1>3, <1>5, <1>6, <1>7 DEF m, t1, t2, u, h, shp

\* The pairs P without those of the key k, and with another value for it.
Others(P, k)   == {x \in P : x[1] # k}
Bound(P, k, v) == Others(P, k) \cup {<<k, v>>}

\* What Others and Bound consist of, for steps that cannot expand them.
LEMMA BoundFacts ==
  ASSUME NEW P, NEW k, NEW v
  PROVE  /\ <<k, v>>[1] = k /\ <<k, v>>[2] = v
         /\ \A x : x \in Others(P, k) <=> x \in P /\ x[1] # k
         /\ \A x : x \in Bound(P, k, v) <=> (x \in P /\ x[1] # k) \/ x = <<k, v>>
BY DEF Others, Bound

\* The table of shared pages, when the count of the page k changes.
LEMMA CountChanged ==
  ASSUME NEW t, Sane(t, Descriptor), OneName(t), NEW k, NEW d, NEW e, <<k, e>> \in Pairs(t),
         d.page = e.page, NEW u, Pairs(u) = Bound(Pairs(t), k, d)
  PROVE  /\ PagesOf(u) = PagesOf(t) /\ OneName(u)
         /\ \A y \in Pairs(t) : \E z \in Pairs(u) : z[1] = y[1] /\ z[2].page = y[2].page
<1> DEFINE w == <<k, d>>
           y0 == <<k, e>>
<1>1. w[1] = k /\ w[2] = d /\ y0[1] = k /\ y0[2] = e
  OBVIOUS
<1>2. \A x, y \in Pairs(t) : x[1] = y[1] => x = y
  BY PairFacts
<1>3. y0 \in Pairs(t) /\ (\A x \in Pairs(t) : x[1] = k => x = y0)
  BY <1>1, <1>2
<1>4. \A z \in Pairs(u) : z = w \/ (z \in Pairs(t) /\ z[1] # k)
  BY DEF Bound, Others
<1>5. w \in Pairs(u) /\ \A x \in Pairs(t) : x[1] # k => x \in Pairs(u)
  BY DEF Bound, Others
<1> HIDE DEF w, y0
<1>6. ASSUME NEW z \in Pairs(u) PROVE \E y \in Pairs(t) : y[1] = z[1] /\ y[2].page = z[2].page
  BY <1>1, <1>3, <1>4
<1>7. ASSUME NEW y \in Pairs(t) PROVE \E z \in Pairs(u) : z[1] = y[1] /\ z[2].page = y[2].page
  BY <1>1, <1>3, <1>5
<1>8. \A q : q \in PagesOf(u) <=> \E z \in Pairs(u) : z[2].page = q
  BY DEF PagesOf
<1>9. \A q : q \in PagesOf(t) <=> \E y \in Pairs(t) : y[2].page = q
  BY DEF PagesOf
<1>10. PagesOf(u) = PagesOf(t)
  <2>1. ASSUME NEW q PROVE q \in PagesOf(u) <=> q \in PagesOf(t)
    BY <1>6, <1>7, <1>8, <1>9
  <2> QED BY <2>1
<1>11. ASSUME NEW x \in Pairs(u), NEW y \in Pairs(u), x[2].page = y[2].page PROVE x = y
  <2>1. PICK f \in Pairs(t) : f[1] = x[1] /\ f[2].page = x[2].page /\ (x[1] # k => f = x)
    BY <1>1, <1>3, <1>4
  <2>2. PICK g \in Pairs(t) : g[1] = y[1] /\ g[2].page = y[2].page /\ (y[1] # k => g = y)
    BY <1>1, <1>3, <1>4
  <2>3. f = g
    BY <1>11, <2>1, <2>2 DEF OneName
  <2> QED BY <2>1, <2>2, <2>3, <1>1, <1>4
<1> QED BY <1>7, <1>10, <1>11 DEF OneName

\* It gets one page more.
LEMMA PageAdded ==
  ASSUME NEW t, OneName(t), NEW k, \A x \in Pairs(t) : x[1] # k,
         NEW d, d.page \notin PagesOf(t),
         NEW u, Pairs(u) = Bound(Pairs(t), k, d)
  PROVE  PagesOf(u) = PagesOf(t) \cup {d.page} /\ OneName(u)
<1> DEFINE w == <<k, d>>
<1>1. w[1] = k /\ w[2] = d /\ Pairs(u) = Pairs(t) \cup {w}
  BY DEF Bound, Others
<1> HIDE DEF w
<1>2. \A y \in Pairs(t) : y[2].page \in PagesOf(t)
  BY DEF PagesOf
<1> QED BY <1>1, <1>2 DEF PagesOf, OneName

\* It loses a page.
LEMMA PageDropped ==
  ASSUME NEW t, Sane(t, Descriptor), OneName(t), NEW k, NEW e, <<k, e>> \in Pairs(t),
         NEW u, Pairs(u) = Others(Pairs(t), k)
  PROVE  PagesOf(u) = PagesOf(t) \ {e.page} /\ e.page \in PagesOf(t) /\ OneName(u)
<1> DEFINE y0 == <<k, e>>
<1>1. y0[1] = k /\ y0[2] = e /\ y0 \in Pairs(t)
  OBVIOUS
<1>2. \A x, y \in Pairs(t) : x[1] = y[1] => x = y
  BY PairFacts
<1> HIDE DEF y0
<1>3. \A x \in Pairs(t) : x[2].page = e.page <=> x = y0
  BY <1>1 DEF OneName
<1>4. \A x \in Pairs(t) : x[1] = k <=> x = y0
  BY <1>1, <1>2
<1>5. \A q : q \in PagesOf(u) <=> \E z \in Pairs(u) : z[2].page = q
  BY DEF PagesOf
<1>6. \A q : q \in PagesOf(t) <=> \E y \in Pairs(t) : y[2].page = q
  BY DEF PagesOf
<1>7. Pairs(u) \subseteq Pairs(t) /\ \A x \in Pairs(t) : x \in Pairs(u) <=> x # y0
  BY <1>4 DEF Bound, Others
<1> QED BY <1>1, <1>3, <1>5, <1>6, <1>7 DEF OneName

\* The tables and the space of process p, in a world of the others.
Held(m, L, S, H, p) ==
  /\ m = [table |-> m.table, shmem |-> m.shmem, space |-> m.space]
  /\ S = [q \in Proc |-> S[q]] /\ H = [q \in Proc |-> H[q]]
  /\ World(m.space.free, L, m.table, [S EXCEPT ![p] = m.space], [H EXCEPT ![p] = m.shmem])

HeldExact(m, H, p) == Exact(m.table, [H EXCEPT ![p] = m.shmem])

\* The parts of it.
LEMMA HeldFacts ==
  ASSUME NEW m, NEW L, NEW S, NEW H, NEW p \in Proc, Held(m, L, S, H, p)
  PROVE  /\ m.space \in Spaces /\ Apart(m.space)
         /\ Sane(m.table, Descriptor) /\ m.table.failed = 0 /\ OneName(m.table)
         /\ Sane(m.shmem, Nat) /\ m.shmem.failed = 0
         /\ Leads(m.shmem, m.space, m.table)
         /\ Covered(m.table, [H EXCEPT ![p] = m.shmem])
         /\ m.space.free \cap PagesOf(m.table) = {} /\ m.space.free \cap OwnPages(m.space) = {}
         /\ PagesOf(m.table) \cap OwnPages(m.space) = {}
         /\ m.space.free \cap L = {} /\ m.space.free \subseteq Page
<1> DEFINE S1 == [S EXCEPT ![p] = m.space]
           H1 == [H EXCEPT ![p] = m.shmem]
<1>1. S1[p] = m.space /\ H1[p] = m.shmem
  BY DEF Held
<1>2. World(m.space.free, L, m.table, S1, H1)
  BY DEF Held
<1> HIDE DEF S1, H1
<1>3. /\ Sane(m.table, Descriptor) /\ m.table.failed = 0 /\ OneName(m.table)
      /\ Covered(m.table, H1) /\ S1[p] \in Spaces
      /\ Sane(H1[p], Nat) /\ H1[p].failed = 0
      /\ Apart(S1[p]) /\ Leads(H1[p], S1[p], m.table)
      /\ Parted(m.space.free, L, PagesOf(m.table), S1) /\ m.space.free \subseteq Page
  BY <1>2 DEF World
<1>4. /\ m.space.free \cap PagesOf(m.table) = {} /\ m.space.free \cap L = {}
      /\ OwnPages(S1[p]) \cap (m.space.free \cup L \cup PagesOf(m.table)) = {}
  BY <1>3 DEF Parted
<1> QED BY <1>1, <1>3, <1>4 DEF H1

\* A page is unmapped: the pages that are the space's own stay, and the entries
\* for other shared pages lead where they did.
LEMMA Forgets ==
  ASSUME NEW t, Sane(t, Descriptor), NEW h, Sane(h, Nat), NEW s \in Spaces, Leads(h, s, t),
         NEW k, NEW v, <<k, v>> \in Pairs(h),
         NEW g, Pairs(g) = Others(Pairs(h), k),
         NEW u, \A y \in Pairs(t) : y[1] # k => \E z \in Pairs(u) : z[1] = y[1] /\ z[2].page = y[2].page
  PROVE  LET c == UnmapVpage(s, v) IN
         /\ OwnPages(c) = OwnPages(s) /\ (Apart(c) <=> Apart(s)) /\ Low(c) = Low(s)
         /\ Leads(g, c, u)
<1> DEFINE c == UnmapVpage(s, v)
           x0 == <<k, v>>
<1>1. x0 \in Pairs(h) /\ x0[1] = k /\ x0[2] = v
  OBVIOUS
<1>2. \A x, y \in Pairs(h) : x[1] = y[1] => x = y
  BY PairFacts
<1> HIDE DEF x0, c
<1>3. /\ c \in Spaces /\ c.free = s.free /\ c.pdir = s.pdir /\ c.kstack = s.kstack
      /\ c.tables = s.tables
      /\ DOMAIN c.entries = DOMAIN s.entries \ {v}
      /\ \A w \in DOMAIN c.entries : c.entries[w] = s.entries[w]
  BY UnmapFacts DEF c
<1>4. v \in DOMAIN s.entries /\ v >= UserStack
  BY <1>1 DEF Leads
<1>5. v \in Nat /\ UserStack \in Nat
  <2>1. s.entries \in Maps
    BY SpaceFields
  <2> QED BY <1>4, <2>1, MapFacts, AddressFacts
<1>6. Low(c) = Low(s)
  BY <1>3, <1>4, <1>5 DEF Low
<1>7. \A w \in Low(s) : c.entries[w] = s.entries[w]
  BY <1>3, <1>6 DEF Low
<1>8. OwnPages(c) = OwnPages(s) /\ (Apart(c) <=> Apart(s))
  BY <1>3, <1>6, <1>7, HighChanged
<1>9. Leads(g, c, u)
  <2>1. ASSUME NEW x \in Pairs(g)
        PROVE  /\ x[2] \in DOMAIN c.entries /\ x[2] >= UserStack
               /\ \E y \in Pairs(u) : y[1] = x[1] /\ c.entries[x[2]] = y[2].page
    <3>1. x \in Pairs(h) /\ x[1] # k
      BY DEF Bound, Others
    <3>2. x[2] \in DOMAIN s.entries /\ x[2] >= UserStack
          /\ \E y \in Pairs(t) : y[1] = x[1] /\ s.entries[x[2]] = y[2].page
      BY <3>1 DEF Leads
    <3>3. x[2] # v
      BY <3>1, <1>1 DEF Leads
    <3> QED BY <3>1, <3>2, <3>3, <1>3
  <2>2. ASSUME NEW x \in Pairs(g), NEW y \in Pairs(g), x[2] = y[2] PROVE x = y
    BY <2>2 DEF Leads, Bound, Others
  <2>3. ASSUME NEW w \in DOMAIN c.entries, w >= UserStack PROVE \E x \in Pairs(g) : x[2] = w
    <3>1. w \in DOMAIN s.entries /\ w # v
      BY <1>3, <2>3
    <3>2. PICK x \in Pairs(h) : x[2] = w
      BY <3>1, <2>3 DEF Leads
    <3>3. x[1] # k
      BY <3>1, <3>2, <1>1, <1>2
    <3> QED BY <3>2, <3>3 DEF Bound, Others
  <2> QED BY <2>1, <2>2, <2>3 DEF Leads
<1> QED BY <1>6, <1>8, <1>9 DEF c

\* hash_set and hash_del, when there is memory for another table.
LEMMA SetMemory ==
  ASSUME NEW V, NEW t, Sane(t, V), t.failed = 0, NEW k \in Key, NEW v \in V
  PROVE  LET u == Set(t, k, v, TRUE) IN
         Sane(u, V) /\ Pairs(u) = Bound(Pairs(t), k, v) /\ u.failed = 0
<1>1. ASSUME NEW mem \in BOOLEAN, mem
      PROVE  LET u == Set(t, k, v, mem) IN
             Sane(u, V) /\ Pairs(u) = Bound(Pairs(t), k, v) /\ u.failed = 0
  <2> DEFINE u == Set(t, k, v, mem)
  <2>1. mem \/ t.failed < MaxFails
    BY <1>1
  <2>2. /\ Sane(u, V) /\ Pairs(u) = Bound(Pairs(t), k, v)
        /\ u.failed = t.failed \/ ~ mem
    BY <2>1, SetFacts DEF Bound, Others
  <2> QED BY <1>1, <2>2
<1>2. TRUE \in BOOLEAN
  OBVIOUS
<1> QED BY <1>1, <1>2

\* SetMemory for the table of shared pages.
LEMMA SetPage ==
  ASSUME NEW t, Sane(t, Descriptor), t.failed = 0, NEW k \in Key, NEW d \in Descriptor
  PROVE  LET u == Set(t, k, d, TRUE) IN
         Sane(u, Descriptor) /\ Pairs(u) = Bound(Pairs(t), k, d) /\ u.failed = 0
<1> DEFINE V == Descriptor
<1>1. Sane(t, V) /\ d \in V
  OBVIOUS
<1> HIDE DEF V
<1>2. LET u == Set(t, k, d, TRUE) IN
        Sane(u, V) /\ Pairs(u) = Bound(Pairs(t), k, d) /\ u.failed = 0
  BY <1>1, SetMemory
<1> QED BY <1>2 DEF V

\* SetMemory for the table of addresses of a process.
LEMMA SetAddress ==
  ASSUME NEW t, Sane(t, Nat), t.failed = 0, NEW k \in Key, NEW v \in Nat
  PROVE  LET u == Set(t, k, v, TRUE) IN
         Sane(u, Nat) /\ Pairs(u) = Bound(Pairs(t), k, v) /\ u.failed = 0
<1> DEFINE V == Nat
<1>1. Sane(t, V) /\ v \in V
  OBVIOUS
<1> HIDE DEF V
<1>2. LET u == Set(t, k, v, TRUE) IN
        Sane(u, V) /\ Pairs(u) = Bound(Pairs(t), k, v) /\ u.failed = 0
  BY <1>1, SetMemory
<1> QED BY <1>2 DEF V

\* Deletion with memory in the heap, from the table of shared pages.
LEMMA DelPage ==
  ASSUME NEW t, Sane(t, Descriptor), t.failed = 0, NEW k \in Key
  PROVE  LET u == Del(t, k, TRUE) IN
         Sane(u, Descriptor) /\ Pairs(u) = Others(Pairs(t), k) /\ u.failed = 0
<1>1. ASSUME NEW mem \in BOOLEAN, mem
      PROVE  LET u == Del(t, k, mem) IN
             Sane(u, Descriptor) /\ Pairs(u) = Others(Pairs(t), k) /\ u.failed = 0
  <2> DEFINE u == Del(t, k, mem)
             V == Descriptor
  <2>1. (mem \/ t.failed < MaxFails) /\ Sane(t, V)
    BY <1>1
  <2> HIDE DEF V
  <2>2. Sane(u, V) /\ Pairs(u) = Others(Pairs(t), k) /\ (u.failed = t.failed \/ ~ mem)
    BY <2>1, DelFacts DEF Others
  <2> QED BY <1>1, <2>2 DEF V
<1>2. TRUE \in BOOLEAN
  OBVIOUS
<1> QED BY <1>1, <1>2

\* Deletion with memory in the heap, from the table of a process.
LEMMA DelAddress ==
  ASSUME NEW t, Sane(t, Nat), t.failed = 0, NEW k \in Key
  PROVE  LET u == Del(t, k, TRUE) IN
         Sane(u, Nat) /\ Pairs(u) = Others(Pairs(t), k) /\ u.failed = 0
<1>1. ASSUME NEW mem \in BOOLEAN, mem
      PROVE  LET u == Del(t, k, mem) IN
             Sane(u, Nat) /\ Pairs(u) = Others(Pairs(t), k) /\ u.failed = 0
  <2> DEFINE u == Del(t, k, mem)
             V == Nat
  <2>1. (mem \/ t.failed < MaxFails) /\ Sane(t, V)
    BY <1>1
  <2> HIDE DEF V
  <2>2. Sane(u, V) /\ Pairs(u) = Others(Pairs(t), k) /\ (u.failed = t.failed \/ ~ mem)
    BY <2>1, DelFacts DEF Others
  <2> QED BY <1>1, <2>2 DEF V
<1>2. TRUE \in BOOLEAN
  OBVIOUS
<1> QED BY <1>1, <1>2

\* shm_release_proc, for a process that has mapped the page or has not.
Releases(n, m, k, L, S, H, p) ==
  /\ Held(n, L, S, H, p)
  /\ n.space.pdir = m.space.pdir /\ Low(n.space) = Low(m.space)
  /\ DOMAIN n.space.entries \subseteq DOMAIN m.space.entries
  /\ Pairs(n.shmem) = Others(Pairs(m.shmem), k)
  /\ n.shmem = m.shmem \/ (IsSet(m.shmem, k) /\ n.shmem = Del(m.shmem, k, TRUE))
  /\ HeldExact(m, H, p) => HeldExact(n, H, p)

\* shm_release_proc is such a release.
LEMMA ReleasedFacts ==
  ASSUME NEW m, NEW L, NEW S, NEW H, NEW p \in Proc, Held(m, L, S, H, p), NEW k \in Key
  PROVE  Releases(Released(m, k), m, k, L, S, H, p)
<1> DEFINE a == m.table
           b == m.shmem
           c == m.space
           n == Released(m, k)
           S1 == [S EXCEPT ![p] = c]
           H1 == [H EXCEPT ![p] = b]
<1>1. m = [table |-> a, shmem |-> b, space |-> c]
  BY DEF Held
<1>2. /\ c \in Spaces /\ Apart(c)
      /\ Sane(a, Descriptor) /\ a.failed = 0 /\ OneName(a)
      /\ Sane(b, Nat) /\ b.failed = 0
      /\ Leads(b, c, a) /\ Covered(a, H1)
      /\ c.free \cap PagesOf(a) = {} /\ c.free \cap OwnPages(c) = {}
      /\ PagesOf(a) \cap OwnPages(c) = {} /\ c.free \subseteq Page
  BY HeldFacts
<1>3. /\ World(c.free, L, a, S1, H1) /\ S1[p] = c /\ H1[p] = b
      /\ S = [q \in Proc |-> S[q]] /\ H = [q \in Proc |-> H[q]]
  BY DEF Held
<1>4. H1 = [q \in Proc |-> H1[q]] /\ S1 = [q \in Proc |-> S1[q]]
  BY <1>3
<1>5. IsSet(b, k) => IsSet(a, k)
  <2>1. IsSet(b, k) => \E x \in Pairs(b) : x[1] = k
    BY <1>2, PairFacts
  <2>2. (\E x \in Pairs(b) : x[1] = k) => \E y \in Pairs(a) : y[1] = k
    BY <1>2 DEF Leads
  <2>3. (\E y \in Pairs(a) : y[1] = k) => IsSet(a, k)
    BY <1>2, PairFacts
  <2> QED BY <2>1, <2>2, <2>3
<1>6. CASE ~ IsSet(b, k)
  <2>1. n = m
    BY <1>6 DEF Released
  <2>2. ~ \E x \in Pairs(b) : x[1] = k
    BY <1>2, <1>6, PairFacts
  <2> QED BY <2>1, <2>2 DEF Releases, Bound, Others
<1>7. CASE IsSet(b, k)
  <2> DEFINE shp == Get(a, k)
             v == Get(b, k)
             u == UnmapVpage(c, v)
             h == Del(b, k, TRUE)
             H2 == [H1 EXCEPT ![p] = h]
  <2>1. /\ IsSet(a, k) /\ <<k, shp>> \in Pairs(a) /\ shp \in Descriptor
        /\ <<k, v>> \in Pairs(b) /\ v \in Nat
    BY <1>2, <1>5, <1>7, PairFacts
  <2>2. Sane(h, Nat) /\ Pairs(h) = Others(Pairs(b), k) /\ h.failed = 0
    <3> HIDE DEF b
    <3> QED BY <1>2, DelAddress
  <2>3. /\ u \in Spaces /\ u.free = c.free /\ u.pdir = c.pdir /\ u.kstack = c.kstack
        /\ u.tables = c.tables /\ DOMAIN u.entries = DOMAIN c.entries \ {v}
    BY <1>2, UnmapFacts
  <2>4. n = IF shp.nrefs > 1
            THEN [table |-> Set(a, k, Shared(shp.page, shp.nrefs - 1), TRUE), shmem |-> h, space |-> u]
            ELSE [table |-> Del(a, k, TRUE), shmem |-> h, space |-> [u EXCEPT !.free = u.free \cup {shp.page}]]
    <3> HIDE DEF a, b, c
    <3> QED BY <1>1, <1>2, <1>7, <2>1, ReleasedIs
  <2>5. shp.page \in Page /\ shp.nrefs \in Nat
    BY <2>1 DEF Descriptor
  <2>6. (\E x \in Pairs(H1[p]) : x[1] = k) /\ ~ (\E x \in Pairs(h) : x[1] = k)
        /\ \A j : j # k => ((\E x \in Pairs(H1[p]) : x[1] = j) <=> (\E x \in Pairs(h) : x[1] = j))
    <3>1. <<k, v>>[1] = k
      OBVIOUS
    <3> QED BY <1>3, <2>1, <2>2, <3>1 DEF Bound, Others
  <2> HIDE DEF a, b, c, n, S1, H1, shp, v, u, h
  <2>7. /\ Cardinality(Users(k, H2)) = Cardinality(Users(k, H1)) - 1
        /\ Cardinality(Users(k, H1)) \in Nat /\ p \in Users(k, H1)
        /\ IsFiniteSet(Users(k, H1))
        /\ \A j : j # k => Users(j, H2) = Users(j, H1)
    <3>1. /\ Cardinality(Users(k, H2)) = Cardinality(Users(k, H1)) - 1
          /\ Cardinality(Users(k, H1)) \in Nat /\ p \in Users(k, H1)
          /\ IsFiniteSet(Users(k, H1))
      BY <1>4, <2>6, UsersStep
    <3>2. ASSUME NEW j, j # k PROVE Users(j, H2) = Users(j, H1)
      <4>1. (\E x \in Pairs(H1[p]) : x[1] = j) <=> (\E x \in Pairs(h) : x[1] = j)
        BY <2>6, <3>2
      <4> QED BY <1>4, <4>1, UsersStep
    <3> QED BY <3>1, <3>2
  <2>8. H2 = [H EXCEPT ![p] = h]
    BY <1>3 DEF H1
  <2>9. ASSUME NEW F2 \in SUBSET Page, NEW t2, NEW s \in Spaces, n = [table |-> t2, shmem |-> h, space |-> s],
              s.free = F2, s.pdir = u.pdir, Low(s) = Low(u), s.entries = u.entries, Low(u) = Low(c),
              World(F2, L, t2, [S1 EXCEPT ![p] = s], H2), Exact(a, H1) => Exact(t2, H2)
        PROVE  Releases(n, m, k, L, S, H, p)
    <3>1. n.table = t2 /\ n.shmem = h /\ n.space = s
      BY <2>9
    <3>2. [S1 EXCEPT ![p] = s] = [S EXCEPT ![p] = s]
      BY <1>3 DEF S1
    <3>3. Held(n, L, S, H, p)
      BY <1>3, <2>8, <2>9, <3>1, <3>2 DEF Held
    <3>4. HeldExact(m, H, p) => HeldExact(n, H, p)
      BY <2>8, <2>9, <3>1 DEF HeldExact, H1, a, b
    <3>5. /\ n.space.pdir = m.space.pdir /\ Low(n.space) = Low(m.space)
          /\ DOMAIN n.space.entries \subseteq DOMAIN m.space.entries
      BY <2>3, <2>9, <3>1 DEF c
    <3>6. /\ Pairs(n.shmem) = Others(Pairs(m.shmem), k)
          /\ n.shmem = Del(m.shmem, k, TRUE) /\ IsSet(m.shmem, k)
      BY <1>7, <2>2, <3>1 DEF h, b
    <3> QED BY <3>3, <3>4, <3>5, <3>6 DEF Releases
  <2>10. CASE shp.nrefs > 1
    <3> DEFINE d == Shared(shp.page, shp.nrefs - 1)
               t2 == Set(a, k, d, TRUE)
    <3>1. d \in Descriptor /\ d.page = shp.page /\ d.nrefs = shp.nrefs - 1
      BY <2>5, <2>10 DEF Shared, Descriptor
    <3>2. n = [table |-> t2, shmem |-> h, space |-> u]
      BY <2>4, <2>10
    <3> HIDE DEF d
    <3>3. Sane(t2, Descriptor) /\ Pairs(t2) = Bound(Pairs(a), k, d) /\ t2.failed = 0
      BY <1>2, <3>1, SetPage
    <3> HIDE DEF t2, H2
    <3>4. /\ PagesOf(t2) = PagesOf(a) /\ OneName(t2)
          /\ \A y \in Pairs(a) : \E z \in Pairs(t2) : z[1] = y[1] /\ z[2].page = y[2].page
      BY <1>2, <2>1, <3>1, <3>3, CountChanged
    <3>5. /\ OwnPages(u) = OwnPages(c) /\ (Apart(u) <=> Apart(c)) /\ Low(u) = Low(c)
          /\ Leads(h, u, t2)
      BY <1>2, <2>1, <2>2, <3>4, Forgets DEF u
    <3>6. ASSUME NEW y \in Pairs(t2)
          PROVE  \/ y[1] # k /\ y \in Pairs(a)
                 \/ y[1] = k /\ y[2] = d
      <4>1. <<k, d>>[1] = k /\ <<k, d>>[2] = d
        OBVIOUS
      <4> QED BY <3>3, <4>1 DEF Bound, Others
    <3>7. <<k, shp>>[1] = k /\ <<k, shp>>[2] = shp
      OBVIOUS
    <3>8. Covered(t2, H2)
      <4>1. ASSUME NEW y \in Pairs(t2) PROVE y[2].nrefs >= 1 /\ y[2].nrefs >= Cardinality(Users(y[1], H2))
        <5>1. CASE y[1] # k /\ y \in Pairs(a)
          BY <5>1, <1>2, <2>7 DEF Covered
        <5>2. CASE y[1] = k /\ y[2] = d
          <6>1. shp.nrefs >= Cardinality(Users(k, H1))
            BY <1>2, <2>1, <3>7 DEF Covered
          <6> QED BY <5>2, <6>1, <2>5, <2>7, <2>10, <3>1
        <5> QED BY <3>6, <5>1, <5>2
      <4> QED BY <4>1 DEF Covered
    <3>9. Exact(a, H1) => Exact(t2, H2)
      <4>1. ASSUME Exact(a, H1), NEW y \in Pairs(t2) PROVE y[2].nrefs = Cardinality(Users(y[1], H2))
        <5>1. CASE y[1] # k /\ y \in Pairs(a)
          BY <4>1, <5>1, <2>7 DEF Exact
        <5>2. CASE y[1] = k /\ y[2] = d
          <6>1. shp.nrefs = Cardinality(Users(k, H1))
            BY <4>1, <2>1, <3>7 DEF Exact
          <6> QED BY <5>2, <6>1, <2>5, <2>7, <3>1
        <5> QED BY <3>6, <5>1, <5>2
      <4> QED BY <4>1 DEF Exact
    <3>10. World(c.free, L, t2, [S1 EXCEPT ![p] = u], H2)
      <4>1. \A q \in Proc : q # p => \A x \in Pairs(H1[q]), y \in Pairs(a) : y[1] = x[1] =>
               \E z \in Pairs(t2) : z[1] = y[1] /\ z[2].page = y[2].page
        BY <3>4
      <4>2. /\ c.free \cup PagesOf(t2) \cup OwnPages(u) = c.free \cup PagesOf(a) \cup OwnPages(S1[p])
            /\ c.free \cap PagesOf(t2) = {} /\ c.free \cap OwnPages(u) = {}
            /\ PagesOf(t2) \cap OwnPages(u) = {}
        BY <1>2, <1>3, <3>4, <3>5
      <4>3. Covered(t2, [H1 EXCEPT ![p] = h])
        BY <3>8 DEF H2
      <4>4. World(c.free, L, t2, [S1 EXCEPT ![p] = u], [H1 EXCEPT ![p] = h])
        BY <1>2, <1>3, <2>2, <2>3, <3>3, <3>4, <3>5, <4>1, <4>2, <4>3, WorldStep
      <4> QED BY <4>4 DEF H2
    <3> QED BY <1>2, <2>3, <2>9, <3>2, <3>5, <3>9, <3>10 DEF n
  <2>11. CASE ~ (shp.nrefs > 1)
    <3> DEFINE t2 == Del(a, k, TRUE)
               F2 == u.free \cup {shp.page}
               s  == [u EXCEPT !.free = F2]
    <3>1. n = [table |-> t2, shmem |-> h, space |-> s]
      BY <2>4, <2>11
    <3>2. F2 \in SUBSET Page
      BY <1>2, <2>3, <2>5
    <3>3. /\ s \in Spaces /\ s.free = F2 /\ s.pdir = u.pdir /\ s.kstack = u.kstack
          /\ s.tables = u.tables /\ s.entries = u.entries
      <4> HIDE DEF F2
      <4> QED BY <2>3, <3>2 DEF Spaces
    <3>4. Sane(t2, Descriptor) /\ Pairs(t2) = Others(Pairs(a), k) /\ t2.failed = 0
      BY <1>2, DelPage
    <3> HIDE DEF t2, H2, s
    <3>5. PagesOf(t2) = PagesOf(a) \ {shp.page} /\ shp.page \in PagesOf(a) /\ OneName(t2)
      BY <1>2, <2>1, <3>4, PageDropped
    <3>6. \A y \in Pairs(a) : y[1] # k => \E z \in Pairs(t2) : z[1] = y[1] /\ z[2].page = y[2].page
      BY <3>4 DEF Bound, Others
    <3>7. /\ OwnPages(u) = OwnPages(c) /\ (Apart(u) <=> Apart(c)) /\ Low(u) = Low(c)
          /\ Leads(h, u, t2)
      BY <1>2, <2>1, <2>2, <3>6, Forgets DEF u
    <3>8. OwnPages(s) = OwnPages(u) /\ (Apart(s) <=> Apart(u)) /\ Low(s) = Low(u)
      BY <3>3, SamePages
    <3>9. Leads(h, s, t2)
      BY <3>3, <3>7 DEF Leads
    <3>10. \A q \in Proc : q # p => \A x \in Pairs(H1[q]) : x[1] # k
      <4>1. <<k, shp>>[1] = k /\ <<k, shp>>[2] = shp
        OBVIOUS
      <4>2. shp.nrefs >= Cardinality(Users(k, H1))
        BY <1>2, <2>1, <4>1 DEF Covered
      <4>3. Cardinality(Users(k, H1)) = 1
        <5>1. Cardinality(Users(k, H1)) # 0
          BY <2>7, FS_EmptySet
        <5> QED BY <2>5, <2>7, <2>11, <4>2, <5>1
      <4>4. Users(k, H1) = {p}
        BY <2>7, <4>3, FS_Singleton
      <4> QED BY <4>4 DEF Users
    <3>11. \A y \in Pairs(t2) : y[1] # k /\ y \in Pairs(a)
      BY <3>4 DEF Bound, Others
    <3>12. Covered(t2, H2)
      BY <1>2, <2>7, <3>11 DEF Covered
    <3>13. Exact(a, H1) => Exact(t2, H2)
      BY <2>7, <3>11 DEF Exact
    <3>14. World(F2, L, t2, [S1 EXCEPT ![p] = s], H2)
      <4>1. \A q \in Proc : q # p => \A x \in Pairs(H1[q]), y \in Pairs(a) : y[1] = x[1] =>
               \E z \in Pairs(t2) : z[1] = y[1] /\ z[2].page = y[2].page
        BY <3>6, <3>10
      <4>2. /\ F2 \cup PagesOf(t2) \cup OwnPages(s) = c.free \cup PagesOf(a) \cup OwnPages(S1[p])
            /\ F2 \cap PagesOf(t2) = {} /\ F2 \cap OwnPages(s) = {}
            /\ PagesOf(t2) \cap OwnPages(s) = {}
        BY <1>2, <1>3, <2>3, <3>5, <3>7, <3>8
      <4>3. Covered(t2, [H1 EXCEPT ![p] = h]) /\ Apart(s)
        BY <1>2, <3>7, <3>8, <3>12 DEF H2
      <4> HIDE DEF F2
      <4>4. World(F2, L, t2, [S1 EXCEPT ![p] = s], [H1 EXCEPT ![p] = h])
        <5>1. World(c.free, L, a, S1, H1) /\ F2 \in SUBSET Page /\ s \in Spaces
          BY <1>3, <3>2, <3>3
        <5>2. Sane(t2, Descriptor) /\ t2.failed = 0 /\ OneName(t2)
          BY <3>4, <3>5
        <5>3. Sane(h, Nat) /\ h.failed = 0 /\ Leads(h, s, t2)
          BY <2>2, <3>9
        <5> QED BY <4>1, <4>2, <4>3, <5>1, <5>2, <5>3, WorldStep
      <4> QED BY <4>4 DEF H2
    <3> HIDE DEF F2
    <3> QED BY <2>9, <3>1, <3>2, <3>3, <3>7, <3>8, <3>13, <3>14 DEF n
  <2> QED BY <2>10, <2>11 DEF n
<1> QED BY <1>6, <1>7

-----------------------------------------------------------------------------
(* free_process_shmem, for all slots of a table. *)

\* A deletion from a table of the smallest size leaves it that size.
LEMMA DelSmall ==
  ASSUME NEW V, NEW t, Sane(t, V), t.failed = 0, Size(t) = MinSize, NEW k \in Key, IsSet(t, k),
         NEW u, u = Del(t, k, TRUE)
  PROVE  Size(u) = MinSize /\ u.fill = t.fill
<1> DEFINE w == Marked(t, k)
<1>1. /\ Well(t, V) /\ Gap(t) /\ t.fill \in Nat /\ MinSize \in Nat
  BY SaneGap
<1>2. Size(w) = MinSize /\ w.fill = t.fill
  BY <1>1, MarkFacts
<1>3. 3 * t.fill < 2 * MinSize
  BY <1>1 DEF Sane, Loaded
<1>4. Del(t, k, TRUE) = Update(w, TRUE)
  BY DEF Del, Marked
<1> HIDE DEF w
<1>5. NewSize(w) = Size(w)
  BY <1>1, <1>2, <1>3 DEF NewSize
<1> QED BY <1>2, <1>4, <1>5 DEF Update

\* Where the table had the smallest size, the pairs that are left after the
\* first i slots are in later ones.
Walked(n, m, i, L, S, H, p) ==
  /\ Held(n, L, S, H, p)
  /\ n.space.pdir = m.space.pdir /\ Low(n.space) = Low(m.space)
  /\ DOMAIN n.space.entries \subseteq DOMAIN m.space.entries
  /\ HeldExact(m, H, p) => HeldExact(n, H, p)
  /\ Size(m.shmem) = MinSize =>
       /\ Size(n.shmem) = MinSize
       /\ \A x \in Pairs(n.shmem) : \E j \in DOMAIN m.shmem.slots : j >= i /\ m.shmem.slots[j] = x

\* One slot more.
LEMMA WalkedOne ==
  ASSUME NEW m, NEW L, NEW S, NEW H, NEW p \in Proc, Held(m, L, S, H, p),
         NEW i \in DOMAIN m.shmem.slots, NEW n, Walked(n, m, i, L, S, H, p)
  PROVE  Walked(Visited(n, m.shmem.slots, i), m, i + 1, L, S, H, p)
<1> DEFINE sl == m.shmem.slots
           s  == sl[i]
           u  == Visited(n, sl, i)
<1>1. Sane(m.shmem, Nat)
  BY HeldFacts
<1>2. Held(n, L, S, H, p)
  BY DEF Walked
<1>3. Sane(n.shmem, Nat) /\ n.shmem.failed = 0
  BY <1>2, HeldFacts
<1>4. m.shmem \in Tables(Nat) /\ n.shmem \in Tables(Nat)
  BY <1>1, <1>3, SaneGap
<1>5. /\ DOMAIN sl = 0..(Size(m.shmem) - 1) /\ s \in Slot(Nat) /\ i \in Nat
      /\ Size(m.shmem) \in Nat /\ (\A j \in DOMAIN sl : j \in Nat) /\ i < Size(m.shmem)
  BY <1>4, TableFacts
<1>6. \A x \in Pairs(n.shmem) : Active(x)
  BY DEF Pairs, Used
<1> HIDE DEF sl, s, u
<1>7. CASE i < Size(n.shmem) /\ Active(s)
  <2> DEFINE k == s[1]
  <2>1. k \in Key
    BY <1>5, <1>7, SlotFacts
  <2>2. u = Released(n, k)
    BY <1>7 DEF u, s, Visited
  <2>3. Releases(u, n, k, L, S, H, p)
    <3> HIDE DEF k
    <3> QED BY <1>2, <2>1, <2>2, ReleasedFacts
  <2> HIDE DEF k
  <2>4. /\ Held(u, L, S, H, p)
        /\ u.space.pdir = m.space.pdir /\ Low(u.space) = Low(m.space)
        /\ DOMAIN u.space.entries \subseteq DOMAIN m.space.entries
        /\ HeldExact(m, H, p) => HeldExact(u, H, p)
    BY <2>3 DEF Releases, Walked
  <2>5. ASSUME Size(m.shmem) = MinSize PROVE Size(u.shmem) = MinSize
    <3>1. Size(n.shmem) = MinSize
      BY <2>5 DEF Walked
    <3>2. u.shmem = n.shmem \/ (IsSet(n.shmem, k) /\ u.shmem = Del(n.shmem, k, TRUE))
      BY <2>3 DEF Releases
    <3> DEFINE t == n.shmem
               d == u.shmem
    <3>3. ASSUME IsSet(t, k), d = Del(t, k, TRUE) PROVE Size(d) = MinSize
      <4>1. Sane(t, Nat) /\ t.failed = 0 /\ Size(t) = MinSize
        BY <1>3, <3>1
      <4> HIDE DEF t, d
      <4> QED BY <4>1, <3>3, <2>1, DelSmall
    <3> QED BY <3>1, <3>2, <3>3
  <2>6. ASSUME Size(m.shmem) = MinSize, NEW x \in Pairs(u.shmem)
        PROVE  \E j \in DOMAIN sl : j >= i + 1 /\ sl[j] = x
    <3>1. x \in Pairs(n.shmem) /\ x[1] # k
      BY <2>3 DEF Releases, Bound, Others
    <3>2. PICK j \in DOMAIN sl : j >= i /\ sl[j] = x
      BY <2>6, <3>1 DEF Walked, sl
    <3>3. j # i
      BY <3>1, <3>2 DEF k, s
    <3> QED BY <3>2, <3>3, <1>5
  <2> QED BY <2>4, <2>5, <2>6 DEF Walked, u, sl
<1>8. CASE ~ (i < Size(n.shmem) /\ Active(s))
  <2>1. u = n
    BY <1>8 DEF u, s, Visited
  <2>2. ASSUME Size(m.shmem) = MinSize, NEW x \in Pairs(n.shmem)
        PROVE  \E j \in DOMAIN sl : j >= i + 1 /\ sl[j] = x
    <3>1. ~ Active(s)
      <4>1. Size(n.shmem) = Size(m.shmem)
        BY <2>2 DEF Walked
      <4> QED BY <1>5, <1>8, <4>1
    <3>2. PICK j \in DOMAIN sl : j >= i /\ sl[j] = x
      BY <2>2 DEF Walked, sl
    <3>3. j # i
      BY <3>1, <3>2, <1>6 DEF s
    <3> QED BY <3>2, <3>3, <1>5
  <2> QED BY <2>1, <2>2 DEF Walked, u, sl
<1> QED BY <1>7, <1>8

\* All of them.
LEMMA WalkedAll ==
  ASSUME NEW m, NEW L, NEW S, NEW H, NEW p \in Proc, Held(m, L, S, H, p)
  PROVE  Walked(ReleasedAll(m), m, Size(m.shmem), L, S, H, p)
<1> DEFINE N == Size(m.shmem)
           sl == m.shmem.slots
           X == {x \in [table : Tables(Descriptor), shmem : Tables(Nat), space : Spaces] :
                   Held(x, L, S, H, p)}
           G == [y \in (1..N) \X X |-> Visited(y[2], sl, y[1] - 1)]
<1>1. /\ N \in Nat /\ N >= 2 /\ DOMAIN sl = 0..(N - 1) /\ sl \in [0..(N - 1) -> Slot(Nat)]
      /\ m.shmem \in Tables(Nat)
  <2>1. m.shmem \in Tables(Nat)
    BY HeldFacts, SaneGap
  <2> QED BY <2>1, TableFacts
<1>2. ASSUME NEW x, Held(x, L, S, H, p) PROVE x \in X
  <2>1. x.space \in Spaces /\ x.table \in Tables(Descriptor) /\ x.shmem \in Tables(Nat)
    BY <1>2, HeldFacts, SaneGap
  <2>2. x = [table |-> x.table, shmem |-> x.shmem, space |-> x.space]
    BY <1>2 DEF Held
  <2> QED BY <1>2, <2>1, <2>2
<1>3. \A x \in X : Held(x, L, S, H, p)
  OBVIOUS
<1> HIDE DEF X
<1>4. ASSUME NEW i \in 1..N, NEW x \in X PROVE Visited(x, sl, i - 1) \in X
  <2>1. i - 1 \in 0..(N - 1)
    BY <1>1
  <2>2. CASE i - 1 < Size(x.shmem) /\ Active(sl[i - 1])
    <3> DEFINE k == sl[i - 1][1]
    <3>1. sl[i - 1] \in Slot(Nat)
      BY <1>1, <2>1
    <3>2. k \in Key
      BY <2>2, <3>1, SlotFacts
    <3>3. Visited(x, sl, i - 1) = Released(x, k)
      BY <2>2 DEF Visited
    <3> HIDE DEF k
    <3>4. Releases(Released(x, k), x, k, L, S, H, p)
      BY <1>3, <3>2, ReleasedFacts
    <3> QED BY <1>2, <3>3, <3>4 DEF Releases
  <2>3. CASE ~ (i - 1 < Size(x.shmem) /\ Active(sl[i - 1]))
    BY <2>3 DEF Visited
  <2> QED BY <2>2, <2>3
<1>5. G \in [(1..N) \X X -> X]
  BY <1>4
<1>6. \A i \in 1..N, x \in X : G[i, x] = Visited(x, sl, i - 1)
  OBVIOUS
<1>7. m \in X
  BY <1>2
<1> HIDE DEF G, N, sl
<1>8. PICK f : Recursive(f, X, m, G, N)
  BY <1>1, <1>5, <1>7, RecursiveExists
<1>9. f = [i \in 0..N |-> IF i = 0 THEN m ELSE Visited(f[i - 1], sl, i - 1)]
  <2>1. \A i \in 0..N : f[i] \in X
    BY <1>8 DEF Recursive
  <2>2. \A i \in 0..N : i # 0 => i \in 1..N /\ i - 1 \in 0..N
    BY <1>1
  <2>3. \A i \in 0..N :
          (IF i = 0 THEN m ELSE G[i, f[i - 1]]) = (IF i = 0 THEN m ELSE Visited(f[i - 1], sl, i - 1))
    BY <1>6, <2>1, <2>2
  <2>4. f = [i \in 0..N |-> IF i = 0 THEN m ELSE G[i, f[i - 1]]]
    BY <1>8 DEF Recursive
  <2> QED BY <2>3, <2>4
<1> DEFINE h == CHOOSE g : g = [i \in 0..N |-> IF i = 0 THEN m ELSE Visited(g[i - 1], sl, i - 1)]
<1>10. ReleasedAll(m) = h[N]
  BY DEF ReleasedAll, N, sl
<1>11. h = [i \in 0..N |-> IF i = 0 THEN m ELSE Visited(h[i - 1], sl, i - 1)]
  BY <1>9
<1> HIDE DEF h
<1> DEFINE T == {i \in 0..N : ~ Walked(h[i], m, i, L, S, H, p)}
<1>12. T = {}
  <2>1. SUFFICES ASSUME T # {} PROVE FALSE
    OBVIOUS
  <2>2. PICK i \in T : \A x \in T : i <= x
    <3>1. T \subseteq Nat
      OBVIOUS
    <3> HIDE DEF T
    <3> QED BY <2>1, <3>1, LeastNat
  <2>3. i \in 0..N /\ ~ Walked(h[i], m, i, L, S, H, p)
    BY <2>2
  <2>4. i # 0
    <3>1. h[0] = m
      <4>1. 0 \in 0..N
        BY <1>1
      <4> QED BY <1>11, <4>1
    <3>2. Walked(m, m, 0, L, S, H, p)
      <4>1. \A x \in Pairs(m.shmem) : \E j \in DOMAIN m.shmem.slots : j >= 0 /\ m.shmem.slots[j] = x
        <5>1. \A j \in DOMAIN m.shmem.slots : j >= 0
          BY <1>1 DEF sl
        <5> QED BY <5>1 DEF Pairs, Used
      <4> QED BY <4>1 DEF Walked
    <3> QED BY <2>3, <3>1, <3>2
  <2>5. i - 1 \in 0..N /\ i - 1 \notin T /\ i - 1 \in DOMAIN sl /\ (i - 1) + 1 = i
    BY <1>1, <2>2, <2>3, <2>4
  <2>6. Walked(h[i - 1], m, i - 1, L, S, H, p)
    BY <2>5
  <2>7. h[i] = Visited(h[i - 1], sl, i - 1)
    BY <1>11, <2>3, <2>4
  <2> DEFINE j == i - 1
  <2> HIDE DEF j
  <2>8. Walked(Visited(h[j], sl, j), m, j + 1, L, S, H, p)
    BY <2>5, <2>6, WalkedOne DEF j, sl
  <2> QED BY <2>3, <2>5, <2>7, <2>8 DEF j
<1>13. N \in 0..N
  BY <1>1
<1> QED BY <1>10, <1>12, <1>13 DEF N

-----------------------------------------------------------------------------
(* The invariant. *)

\* A process that there is not has nothing.  One that there is has its stack
\* and its code mapped, and its shared pages at addresses it has been given.
Placed(st, s, h, n) ==
  /\ st = "NONE" => s = NoSpace({}) /\ h = Fresh(MinSize) /\ n = 0
  /\ st \in {"ALIVE", "ENDED"} =>
       /\ s.pdir # NoPage /\ Low(s) = StackPages \cup CodePages
       /\ \A v \in DOMAIN s.entries : v < UserStack + n

SInv ==
  /\ World(free, lost, table, space, shmem)
  /\ state = [p \in Proc |-> state[p]] /\ shmIdx \in [Proc -> Nat]
  /\ \A p \in Proc : Placed(state[p], space[p], shmem[p], shmIdx[p])

\* A new table of the smallest size.
LEMMA NewTable ==
  ASSUME NEW V
  PROVE  LET t == Fresh(MinSize) IN
         Sane(t, V) /\ t.failed = 0 /\ Pairs(t) = {} /\ Size(t) = MinSize /\ t.fill = 0
<1> DEFINE n == MinSize
           t == Fresh(n)
           sl == [i \in 0..(n - 1) |-> Empty]
<1>1. n \in Range(TableSize) /\ n \in Nat /\ n >= 2
  <2>1. 0 \in 0..Doublings
    BY HashAssumption
  <2>2. MinSize \in Range(TableSize)
    BY <2>1, TableSizeDef DEF Range
  <2> QED BY <2>2, SizeFacts
<1>2. t = [Fresh(n) EXCEPT !.failed = 0]
  <2>1. Fresh(n) = [slots |-> sl, fill |-> 0, count |-> 0, failed |-> 0]
    BY DEF Fresh
  <2> HIDE DEF sl
  <2> QED BY <2>1
<1> HIDE DEF t
<1>3. Well(t, V) /\ Size(t) = n /\ t.failed = 0 /\ t.count = 0 /\ t.fill = 0 /\ Pairs(t) = {}
  <2>1. 0 \in Nat
    OBVIOUS
  <2> HIDE DEF n
  <2> QED BY <1>1, <1>2, <2>1, FreshFacts
<1>4. Sane(t, V)
  <2>1. 0 <= MaxFails
    BY HashAssumption
  <2> QED BY <1>1, <1>3, <2>1 DEF Sane, Loaded
<1> QED BY <1>3, <1>4 DEF t

\* A space without pages.
LEMMA NoSpaceFacts ==
  LET s == NoSpace({}) IN
  /\ s \in Spaces /\ s.pdir = NoPage /\ DOMAIN s.entries = {}
  /\ OwnPages(s) = {} /\ Apart(s)
<1> DEFINE s == NoSpace({})
<1>1. /\ s \in Spaces /\ s.pdir = NoPage /\ s.entries = <<>>
  BY EmptyMap DEF NoSpace, Spaces
<1> HIDE DEF s
<1>2. OwnPages(s) = {} /\ Apart(s)
  BY <1>1 DEF OwnPages, Apart
<1> QED BY <1>1, <1>2, EmptyMap DEF s

\* What is kept of a space between two steps, and what a step begins with.
LEMMA HoldingFacts ==
  ASSUME NEW s \in Spaces
  PROVE  LET u == Holding(s) IN
         /\ u \in Spaces /\ u.pdir = s.pdir /\ u.kstack = s.kstack /\ u.tables = s.tables
         /\ u.entries = s.entries
         /\ OwnPages(u) = OwnPages(s) /\ (Apart(u) <=> Apart(s)) /\ Low(u) = Low(s)
<1> DEFINE u == Holding(s)
<1>1. u = [s EXCEPT !.free = {}, !.ok = TRUE]
  BY DEF Holding
<1> HIDE DEF u
<1>2. /\ u \in Spaces /\ u.pdir = s.pdir /\ u.kstack = s.kstack /\ u.tables = s.tables
      /\ u.entries = s.entries
  BY <1>1 DEF Spaces
<1> QED BY <1>2, SamePages DEF u

\* A space keeps its own pages when it is handed other free ones.
LEMMA FreeGiven ==
  ASSUME NEW s \in Spaces, NEW F \in SUBSET Page
  PROVE  LET u == [s EXCEPT !.free = F] IN
         /\ u \in Spaces /\ u.free = F /\ u.pdir = s.pdir /\ u.kstack = s.kstack
         /\ u.tables = s.tables /\ u.entries = s.entries /\ u.panic = s.panic /\ u.ok = s.ok
         /\ OwnPages(u) = OwnPages(s) /\ (Apart(u) <=> Apart(s)) /\ Low(u) = Low(s)
<1> DEFINE u == [s EXCEPT !.free = F]
<1>1. /\ u \in Spaces /\ u.free = F /\ u.pdir = s.pdir /\ u.kstack = s.kstack
      /\ u.tables = s.tables /\ u.entries = s.entries /\ u.panic = s.panic /\ u.ok = s.ok
  BY DEF Spaces
<1> HIDE DEF u
<1> QED BY <1>1, SamePages DEF u

\* The parts of it, for one process.
LEMMA SInvFacts ==
  ASSUME SInv, NEW p \in Proc
  PROVE  /\ free \in SUBSET Page /\ lost \subseteq Page
         /\ Sane(table, Descriptor) /\ table.failed = 0 /\ OneName(table)
         /\ space[p] \in Spaces /\ Apart(space[p])
         /\ Sane(shmem[p], Nat) /\ shmem[p].failed = 0
         /\ Leads(shmem[p], space[p], table)
         /\ Covered(table, shmem)
         /\ free \cap PagesOf(table) = {} /\ free \cap OwnPages(space[p]) = {}
         /\ PagesOf(table) \cap OwnPages(space[p]) = {}
         /\ space = [q \in Proc |-> space[q]] /\ shmem = [q \in Proc |-> shmem[q]]
         /\ state = [q \in Proc |-> state[q]] /\ shmIdx = [q \in Proc |-> shmIdx[q]]
         /\ shmIdx[p] \in Nat
         /\ Placed(state[p], space[p], shmem[p], shmIdx[p])
         /\ Parted(free, lost, PagesOf(table), space)
<1>1. World(free, lost, table, space, shmem)
  BY DEF SInv
<1>2. /\ free \in SUBSET Page /\ lost \subseteq Page
      /\ Sane(table, Descriptor) /\ table.failed = 0 /\ OneName(table)
      /\ space \in [Proc -> Spaces] /\ shmem = [q \in Proc |-> shmem[q]]
      /\ Sane(shmem[p], Nat) /\ shmem[p].failed = 0
      /\ Apart(space[p]) /\ Leads(shmem[p], space[p], table)
      /\ Covered(table, shmem) /\ Parted(free, lost, PagesOf(table), space)
  BY <1>1 DEF World
<1>3. /\ free \cap PagesOf(table) = {}
      /\ OwnPages(space[p]) \cap (free \cup lost \cup PagesOf(table)) = {}
  BY <1>2 DEF Parted
<1>4. /\ state = [q \in Proc |-> state[q]] /\ shmIdx \in [Proc -> Nat]
      /\ Placed(state[p], space[p], shmem[p], shmIdx[p])
  BY DEF SInv
<1> QED BY <1>2, <1>3, <1>4

\* A step of one process, from its parts.
LEMMA SInvStep ==
  ASSUME SInv, NEW p \in Proc, NEW st, NEW s, NEW h, NEW n \in Nat, Placed(st, s, h, n),
         state' = [state EXCEPT ![p] = st], space' = [space EXCEPT ![p] = s],
         shmem' = [shmem EXCEPT ![p] = h], shmIdx' = [shmIdx EXCEPT ![p] = n],
         World(free', lost', table', space', shmem')
  PROVE  SInv'
<1>1. /\ space = [q \in Proc |-> space[q]] /\ shmem = [q \in Proc |-> shmem[q]]
      /\ state = [q \in Proc |-> state[q]] /\ shmIdx \in [Proc -> Nat]
      /\ \A q \in Proc : Placed(state[q], space[q], shmem[q], shmIdx[q])
  BY DEF SInv, World
<1>2. /\ state'[p] = st /\ space'[p] = s /\ shmem'[p] = h /\ shmIdx'[p] = n
      /\ \A q \in Proc : q # p => /\ state'[q] = state[q] /\ space'[q] = space[q]
                                  /\ shmem'[q] = shmem[q] /\ shmIdx'[q] = shmIdx[q]
  BY <1>1
<1>3. state' = [q \in Proc |-> state'[q]] /\ shmIdx' \in [Proc -> Nat]
  BY <1>1
<1>4. \A q \in Proc : Placed(state'[q], space'[q], shmem'[q], shmIdx'[q])
  BY <1>1, <1>2
<1> QED BY <1>3, <1>4 DEF SInv

\* The initial states.
LEMMA SInvInit == ShmInit => SInv /\ Exact(table, shmem)
<1> SUFFICES ASSUME ShmInit PROVE SInv /\ Exact(table, shmem)
  OBVIOUS
<1> DEFINE z == NoSpace({})
           e == Fresh(MinSize)
<1>1. /\ free = Page /\ table = e /\ lost = {}
      /\ state = [p \in Proc |-> "NONE"] /\ shmIdx = [p \in Proc |-> 0]
      /\ space = [p \in Proc |-> z] /\ shmem = [p \in Proc |-> e]
  BY DEF ShmInit
<1>2. z \in Spaces /\ z.pdir = NoPage /\ DOMAIN z.entries = {} /\ OwnPages(z) = {} /\ Apart(z)
  BY NoSpaceFacts
<1>3. \A V : Sane(e, V) /\ e.failed = 0 /\ Pairs(e) = {}
  BY NewTable
<1>4. \A p \in Proc : Placed(state[p], space[p], shmem[p], shmIdx[p])
  <2>1. "NONE" \notin {"ALIVE", "ENDED"}
    OBVIOUS
  <2> QED BY <1>1, <2>1 DEF Placed
<1> HIDE DEF z, e
<1>5. OneName(table) /\ PagesOf(table) = {} /\ Covered(table, shmem) /\ Exact(table, shmem)
  BY <1>1, <1>3 DEF OneName, PagesOf, Covered, Exact
<1>6. \A p \in Proc : Leads(shmem[p], space[p], table)
  BY <1>1, <1>2, <1>3 DEF Leads
<1>7. Parted(free, lost, PagesOf(table), space)
  BY <1>1, <1>2, <1>5 DEF Parted
<1>8. World(free, lost, table, space, shmem)
  BY <1>1, <1>2, <1>3, <1>5, <1>6, <1>7 DEF World
<1> QED BY <1>1, <1>4, <1>5, <1>8 DEF SInv

\* start, which succeeds.
LEMMA StartStep ==
  ASSUME SInv, NEW p \in Proc, Start(p)
  PROVE  SInv' /\ table' = table /\ shmem' = shmem
<1> DEFINE a == AllocPages(free)
           s == Holding(a)
           e == Fresh(MinSize)
<1>1. /\ state[p] = "NONE" /\ a.ok /\ ~ a.panic
      /\ state' = [state EXCEPT ![p] = "ALIVE"] /\ space' = [space EXCEPT ![p] = s]
      /\ shmem' = [shmem EXCEPT ![p] = e] /\ shmIdx' = [shmIdx EXCEPT ![p] = 0]
      /\ free' = a.free /\ table' = table /\ lost' = lost
  BY DEF Start
<1>2. /\ free \in SUBSET Page
      /\ Sane(table, Descriptor) /\ table.failed = 0 /\ OneName(table)
      /\ Covered(table, shmem)
      /\ free \cap PagesOf(table) = {} /\ PagesOf(table) \cap OwnPages(space[p]) = {}
      /\ shmem = [q \in Proc |-> shmem[q]]
      /\ Placed(state[p], space[p], shmem[p], shmIdx[p])
  BY SInvFacts
<1>3. a \in Spaces /\ a.free \subseteq free /\ Balanced(a, free)
      /\ DOMAIN a.entries = StackPages \cup CodePages
  BY <1>1, <1>2, AllocPagesFacts
<1>4. space[p] = NoSpace({}) /\ shmem[p] = e
  BY <1>1, <1>2 DEF Placed
<1>5. shmem' = shmem
  BY <1>1, <1>2, <1>4
<1>6. OwnPages(space[p]) = {}
  BY <1>4, NoSpaceFacts
<1> HIDE DEF a
<1>7. /\ s \in Spaces /\ s.pdir = a.pdir /\ s.entries = a.entries
      /\ OwnPages(s) = OwnPages(a) /\ (Apart(s) <=> Apart(a)) /\ Low(s) = Low(a)
  BY <1>3, HoldingFacts
<1>8. Sane(e, Nat) /\ e.failed = 0 /\ Pairs(e) = {}
  BY NewTable
<1> HIDE DEF s, e
<1>9. \A v \in DOMAIN s.entries : v \in Nat /\ v < UserStack
  BY <1>3, <1>7, AddressFacts
<1>10. Leads(e, s, table)
  BY <1>8, <1>9, AddressFacts DEF Leads
<1>11. /\ a.free \cup OwnPages(s) = free /\ a.free \cap OwnPages(s) = {} /\ Apart(s) /\ s.pdir # NoPage
  BY <1>3, <1>7 DEF Balanced
<1>12. World(a.free, lost, table, space', shmem')
  <2>1. World(free, lost, table, space, shmem)
    BY DEF SInv
  <2>2. Covered(table, [shmem EXCEPT ![p] = e])
    BY <1>1, <1>2, <1>5
  <2>3. /\ a.free \cup PagesOf(table) \cup OwnPages(s) = free \cup PagesOf(table) \cup OwnPages(space[p])
        /\ a.free \cap PagesOf(table) = {} /\ a.free \cap OwnPages(s) = {}
        /\ PagesOf(table) \cap OwnPages(s) = {}
    BY <1>2, <1>6, <1>11
  <2>4. \A q \in Proc : q # p => \A x \in Pairs(shmem[q]), y \in Pairs(table) : y[1] = x[1] =>
               \E w \in Pairs(table) : w[1] = y[1] /\ w[2].page = y[2].page
    OBVIOUS
  <2>5. a.free \in SUBSET Page
    BY <1>2, <1>3
  <2>6. World(a.free, lost, table, [space EXCEPT ![p] = s], [shmem EXCEPT ![p] = e])
    BY <1>2, <1>7, <1>8, <1>10, <1>11, <2>1, <2>2, <2>3, <2>4, <2>5, WorldStep
  <2> QED BY <1>1, <2>6
<1>13. Placed("ALIVE", s, e, 0)
  <2>1. Low(s) = StackPages \cup CodePages
    BY <1>3, <1>7, <1>9 DEF Low
  <2>2. \A v \in DOMAIN s.entries : v < UserStack + 0
    BY <1>9, AddressFacts
  <2> QED BY <1>11, <2>1, <2>2 DEF Placed
<1>14. SInv'
  <2>1. World(free', lost', table', space', shmem')
    BY <1>1, <1>12
  <2>2. 0 \in Nat
    OBVIOUS
  <2> QED BY <1>1, <1>13, <2>1, <2>2, SInvStep
<1> QED BY <1>1, <1>5, <1>14

\* start, which fails: the pages it took are lost.
LEMMA StartFailsStep ==
  ASSUME SInv, NEW p \in Proc, StartFails(p)
  PROVE  SInv' /\ table' = table /\ shmem' = shmem
<1> DEFINE F == AllocPages(free).free
<1>1. /\ lost' = lost \cup (free \ F) /\ free' = F /\ table' = table
      /\ state' = state /\ space' = space /\ shmem' = shmem /\ shmIdx' = shmIdx
  BY DEF StartFails, procs
<1>2. World(free, lost, table, space, shmem)
  BY DEF SInv
<1>3. free \subseteq Page /\ lost \subseteq Page /\ Parted(free, lost, PagesOf(table), space)
  BY <1>2 DEF World
<1>4. F \subseteq free
  BY <1>3, AllocPagesFacts
<1> HIDE DEF F
<1>5. Parted(F, lost \cup (free \ F), PagesOf(table), space)
  <2>1. F \cup (lost \cup (free \ F)) \cup PagesOf(table) = free \cup lost \cup PagesOf(table)
    BY <1>4
  <2> QED BY <1>3, <1>4, <2>1 DEF Parted
<1>6. World(F, lost \cup (free \ F), table, space, shmem)
  BY <1>2, <1>3, <1>4, <1>5 DEF World
<1>7. SInv'
  BY <1>1, <1>6 DEF SInv
<1> QED BY <1>1, <1>7

\* Only states of processes change.
LEMMA EndStep ==
  ASSUME SInv, NEW p \in Proc, End(p)
  PROVE  SInv' /\ table' = table /\ shmem' = shmem
<1>1. /\ state[p] = "ALIVE" /\ state' = [state EXCEPT ![p] = "ENDED"] /\ free' = free
      /\ table' = table /\ space' = space /\ shmem' = shmem /\ shmIdx' = shmIdx /\ lost' = lost
  BY DEF End
<1>2. /\ World(free, lost, table, space, shmem)
      /\ state = [q \in Proc |-> state[q]] /\ shmIdx \in [Proc -> Nat]
      /\ \A q \in Proc : Placed(state[q], space[q], shmem[q], shmIdx[q])
  BY DEF SInv
<1>3. state' = [q \in Proc |-> state'[q]] /\ state'[p] = "ENDED"
      /\ \A q \in Proc : q # p => state'[q] = state[q]
  BY <1>1, <1>2
<1>4. Placed("ENDED", space[p], shmem[p], shmIdx[p])
  BY <1>1, <1>2 DEF Placed
<1>5. \A q \in Proc : Placed(state'[q], space[q], shmem[q], shmIdx[q])
  BY <1>2, <1>3, <1>4
<1> QED BY <1>1, <1>2, <1>3, <1>5 DEF SInv

\* A failed assertion ends the caller, which may have been given an address,
\* and the pages that leave free are lost.
LEMMA FaultStep ==
  ASSUME SInv, NEW p \in Proc, state[p] = "ALIVE", NEW F, F \subseteq free,
         NEW n \in Nat, n >= shmIdx[p],
         Killed(p), shmIdx' = [shmIdx EXCEPT ![p] = n],
         free' = F, lost' = lost \cup (free \ F), UNCHANGED <<table, space, shmem>>
  PROVE  SInv' /\ table' = table /\ shmem' = shmem
<1>1. /\ World(free, lost, table, space, shmem)
      /\ state = [q \in Proc |-> state[q]] /\ shmIdx \in [Proc -> Nat]
      /\ \A q \in Proc : Placed(state[q], space[q], shmem[q], shmIdx[q])
  BY DEF SInv
<1>2. /\ state'[p] = "ENDED" /\ shmIdx'[p] = n
      /\ \A q \in Proc : q # p => state'[q] = state[q] /\ shmIdx'[q] = shmIdx[q]
      /\ state' = [q \in Proc |-> state'[q]] /\ shmIdx' \in [Proc -> Nat]
  BY <1>1 DEF Killed
<1>3. free \subseteq Page /\ lost \subseteq Page /\ Parted(free, lost, PagesOf(table), space)
  BY <1>1 DEF World
<1>4. Parted(F, lost \cup (free \ F), PagesOf(table), space)
  <2>1. F \cup (lost \cup (free \ F)) \cup PagesOf(table) = free \cup lost \cup PagesOf(table)
    OBVIOUS
  <2> QED BY <1>3, <2>1 DEF Parted
<1>5. World(F, lost \cup (free \ F), table, space, shmem)
  BY <1>1, <1>3, <1>4 DEF World
<1>6. Placed("ENDED", space[p], shmem[p], n)
  <2>1. /\ space[p].pdir # NoPage /\ Low(space[p]) = StackPages \cup CodePages
        /\ \A v \in DOMAIN space[p].entries : v < UserStack + shmIdx[p]
    BY <1>1 DEF Placed
  <2>2. space[p].entries \in Maps
    BY SInvFacts, SpaceFields
  <2>3. \A v \in DOMAIN space[p].entries : v \in Nat
    BY <2>2, MapFacts
  <2>4. \A v \in DOMAIN space[p].entries : v < UserStack + n
    BY <1>1, <2>1, <2>3, AddressFacts
  <2> QED BY <2>1, <2>4 DEF Placed
<1>7. \A q \in Proc : Placed(state'[q], space[q], shmem[q], shmIdx'[q])
  BY <1>1, <1>2, <1>6
<1> QED BY <1>2, <1>5, <1>7 DEF SInv

LEMMA StartPanicsStep ==
  ASSUME SInv, NEW p \in Proc, NEW q \in Proc, StartPanics(p, q)
  PROVE  SInv' /\ table' = table /\ shmem' = shmem
<1> DEFINE F == AllocPages(free).free
<1>1. /\ state[q] = "ALIVE" /\ Killed(q) /\ free' = F /\ lost' = lost \cup (free \ F)
      /\ shmIdx' = shmIdx /\ UNCHANGED <<table, space, shmem>>
  BY DEF StartPanics
<1>2. free \in SUBSET Page /\ shmIdx[q] \in Nat /\ shmIdx = [r \in Proc |-> shmIdx[r]]
  BY SInvFacts
<1>3. F \subseteq free
  BY <1>2, AllocPagesFacts
<1> HIDE DEF F
<1>4. shmIdx' = [shmIdx EXCEPT ![q] = shmIdx[q]] /\ shmIdx[q] >= shmIdx[q]
  BY <1>1, <1>2
<1> QED BY <1>1, <1>2, <1>3, <1>4, FaultStep

LEMMA ShmPanicsStep ==
  ASSUME SInv, NEW p \in Proc, NEW k \in Key, ShmPanics(p, k)
  PROVE  SInv' /\ table' = table /\ shmem' = shmem
<1> DEFINE n == shmIdx[p] + 1
<1>1. /\ state[p] = "ALIVE" /\ Killed(p) /\ shmIdx' = [shmIdx EXCEPT ![p] = n]
      /\ free' = {} /\ lost' = lost \cup free /\ UNCHANGED <<table, space, shmem>>
  BY DEF ShmPanics
<1>2. n \in Nat /\ n >= shmIdx[p]
  BY SInvFacts
<1> HIDE DEF n
<1>3. lost' = lost \cup (free \ {}) /\ {} \subseteq free
  BY <1>1
<1> QED BY <1>1, <1>2, <1>3, FaultStep

-----------------------------------------------------------------------------
(* Pages are mapped and unmapped. *)

\* The space s is c with the page q mapped at v, the next address after n others,
\* and the free pages X less those of a new page table.
Mapped(s, c, X, q, v, n) ==
  /\ s \in Spaces /\ s.pdir # NoPage /\ Apart(s)
  /\ s.free \cup OwnPages(s) = X \cup OwnPages(c) /\ s.free \cap OwnPages(s) = {}
  /\ s.free \subseteq X
  /\ v \in Nat /\ v >= UserStack /\ v \notin DOMAIN c.entries
  /\ Low(s) = Low(c) /\ Low(s) = StackPages \cup CodePages
  /\ DOMAIN s.entries = DOMAIN c.entries \cup {v} /\ s.entries[v] = q
  /\ \A w \in DOMAIN c.entries : s.entries[w] = c.entries[w]
  /\ \A w \in DOMAIN s.entries : w < UserStack + (n + 1)

\* A page is mapped at the next address of a process.
LEMMA MapShared ==
  ASSUME SInv, NEW p \in Proc, state[p] = "ALIVE", NEW X \in SUBSET free, NEW q \in Page,
         NEW s, s = MapPage([space[p] EXCEPT !.free = X], q, NextVpage(p)), ~ s.panic
  PROVE  Mapped(s, space[p], X, q, NextVpage(p), shmIdx[p])
<1> DEFINE v == NextVpage(p)
           c == space[p]
           b == [c EXCEPT !.free = X]
<1>1. /\ free \in SUBSET Page /\ c \in Spaces /\ Apart(c) /\ free \cap OwnPages(c) = {}
      /\ shmIdx[p] \in Nat /\ Placed(state[p], c, shmem[p], shmIdx[p])
  BY SInvFacts
<1>2. c.pdir # NoPage /\ Low(c) = StackPages \cup CodePages
      /\ \A w \in DOMAIN c.entries : w < UserStack + shmIdx[p]
  BY <1>1 DEF Placed
<1>3. v = UserStack + shmIdx[p] /\ UserStack \in Nat
  BY AddressFacts DEF NextVpage
<1> HIDE DEF c, v
<1>4. v \in Nat /\ v >= UserStack /\ v \notin DOMAIN c.entries
  BY <1>1, <1>2, <1>3
<1>5. /\ b \in Spaces /\ b.free = X /\ b.pdir = c.pdir /\ b.entries = c.entries
      /\ OwnPages(b) = OwnPages(c) /\ (Apart(b) <=> Apart(c)) /\ Low(b) = Low(c)
  <2>1. X \in SUBSET Page
    BY <1>1
  <2> QED BY <1>1, <2>1, FreeGiven
<1>6. s = MapPage(b, q, v)
  BY DEF c, v
<1> HIDE DEF b
<1>7. Balanced(b, X \cup OwnPages(c))
  <2>1. X \cap OwnPages(c) = {}
    BY <1>1
  <2> QED BY <1>1, <1>2, <1>5, <2>1 DEF Balanced
<1>8. /\ s \in Spaces /\ s.pdir = b.pdir /\ s.ok /\ s.free \subseteq b.free
      /\ DOMAIN s.entries = DOMAIN b.entries \cup {v} /\ s.entries[v] = q
      /\ \A w \in DOMAIN b.entries : s.entries[w] = b.entries[w]
      /\ Balanced(s, X \cup OwnPages(c))
  <2>1. s \in Spaces /\ s.ok
    BY <1>4, <1>5, <1>6, MapPageFacts
  <2> DEFINE F == X \cup OwnPages(c)
  <2>2. Balanced(b, F)
    BY <1>7
  <2> HIDE DEF F
  <2>3. Balanced(s, F)
    BY <1>4, <1>5, <1>6, <2>1, <2>2, MapPageFacts
  <2>4. s.pdir = b.pdir /\ s.free \subseteq b.free
    <3>1. LET t == MapPage(b, q, v) IN t.pdir = b.pdir /\ t.free \subseteq b.free
      BY <1>4, <1>5, MapPageFacts
    <3> QED BY <3>1, <1>6
  <2>5. DOMAIN s.entries = DOMAIN b.entries \cup {v} /\ s.entries[v] = q
    BY <1>4, <1>5, <1>6, <2>1, MapPageFacts
  <2>6. \A w \in DOMAIN b.entries : s.entries[w] = b.entries[w]
    BY <1>4, <1>5, <1>6, <2>1, MapPageFacts
  <2> QED BY <2>1, <2>3, <2>4, <2>5, <2>6 DEF F
<1>9. /\ s.free \cup OwnPages(s) = X \cup OwnPages(c) /\ s.free \cap OwnPages(s) = {} /\ Apart(s)
  BY <1>8 DEF Balanced
<1>10. Low(s) = Low(c)
  BY <1>3, <1>4, <1>5, <1>8 DEF Low
<1>11. \A w \in DOMAIN s.entries : w < UserStack + (shmIdx[p] + 1)
  <2>1. \A w \in DOMAIN c.entries : w \in Nat
    <3>1. c.entries \in Maps
      BY <1>1, SpaceFields
    <3> QED BY <3>1, MapFacts
  <2> QED BY <1>1, <1>2, <1>3, <1>5, <1>8, <2>1
<1> QED BY <1>2, <1>4, <1>5, <1>8, <1>9, <1>10, <1>11 DEF v, c, Mapped

\* It is there under its name.
LEMMA LeadsMore ==
  ASSUME NEW h, NEW c, NEW t, Leads(h, c, t), NEW k, NEW v, v >= UserStack,
         NEW g, Pairs(g) = Bound(Pairs(h), k, v),
         \A x \in Pairs(h) : x[1] # k,
         NEW s, v \notin DOMAIN c.entries, DOMAIN s.entries = DOMAIN c.entries \cup {v},
         \A w \in DOMAIN c.entries : s.entries[w] = c.entries[w],
         NEW u, \A y \in Pairs(t) : \E z \in Pairs(u) : z[1] = y[1] /\ z[2].page = y[2].page,
         \E z \in Pairs(u) : z[1] = k /\ z[2].page = s.entries[v]
  PROVE  Leads(g, s, u)
<1> DEFINE x0 == <<k, v>>
<1>1. x0[1] = k /\ x0[2] = v /\ Pairs(g) = Pairs(h) \cup {x0}
  BY DEF Bound, Others
<1> HIDE DEF x0
<1>2. ASSUME NEW x \in Pairs(h)
      PROVE  /\ x[2] \in DOMAIN c.entries /\ x[2] # v /\ x[2] >= UserStack
             /\ \E z \in Pairs(u) : z[1] = x[1] /\ s.entries[x[2]] = z[2].page
  <2>1. /\ x[2] \in DOMAIN c.entries /\ x[2] >= UserStack
        /\ \E y \in Pairs(t) : y[1] = x[1] /\ c.entries[x[2]] = y[2].page
    BY DEF Leads
  <2> QED BY <2>1
<1>3. ASSUME NEW x \in Pairs(g)
      PROVE  /\ x[2] \in DOMAIN s.entries /\ x[2] >= UserStack
             /\ \E z \in Pairs(u) : z[1] = x[1] /\ s.entries[x[2]] = z[2].page
  BY <1>1, <1>2
<1>4. ASSUME NEW x \in Pairs(g), NEW y \in Pairs(g), x[2] = y[2] PROVE x = y
  <2>1. x \in Pairs(h) /\ y \in Pairs(h) => x = y
    BY <1>4 DEF Leads
  <2> QED BY <1>1, <1>2, <1>4, <2>1
<1>5. ASSUME NEW w \in DOMAIN s.entries, w >= UserStack PROVE \E x \in Pairs(g) : x[2] = w
  BY <1>1, <1>5 DEF Leads
<1> QED BY <1>3, <1>4, <1>5 DEF Leads

\* How the counts change when a process maps the page k.
LEMMA CountMore ==
  ASSUME NEW t, NEW H, H = [q \in Proc |-> H[q]], NEW p \in Proc, NEW h, NEW k, NEW d,
         ~ \E x \in Pairs(H[p]) : x[1] = k,
         NEW v, Pairs(h) = Bound(Pairs(H[p]), k, v),
         NEW u, Pairs(u) = Bound(Pairs(t), k, d),
         d.nrefs >= 1, d.nrefs \in Nat, Covered(t, H),
         d.nrefs >= Cardinality(Users(k, H)) + 1
  PROVE  LET H2 == [H EXCEPT ![p] = h] IN
         /\ Covered(u, H2)
         /\ Exact(t, H) /\ d.nrefs = Cardinality(Users(k, H)) + 1 => Exact(u, H2)
<1> DEFINE H2 == [H EXCEPT ![p] = h]
<1>1. \E x \in Pairs(h) : x[1] = k
  <2>1. <<k, v>>[1] = k
    OBVIOUS
  <2> QED BY <2>1 DEF Bound, Others
<1>2. \A j : j # k => ((\E x \in Pairs(h) : x[1] = j) <=> (\E x \in Pairs(H[p]) : x[1] = j))
  <2>1. <<k, v>>[1] = k
    OBVIOUS
  <2> QED BY <2>1 DEF Bound, Others
<1>3. Cardinality(Users(k, H2)) = Cardinality(Users(k, H)) + 1
  BY <1>1, UsersStep
<1>4. ASSUME NEW j, j # k PROVE Users(j, H2) = Users(j, H)
  <2>1. (\E x \in Pairs(h) : x[1] = j) <=> (\E x \in Pairs(H[p]) : x[1] = j)
    BY <1>2, <1>4
  <2> QED BY <2>1, UsersStep
<1> HIDE DEF H2
<1>5. ASSUME NEW y \in Pairs(u)
      PROVE  \/ y \in Pairs(t) /\ y[1] # k
             \/ y[1] = k /\ y[2] = d
  <2>1. <<k, d>>[1] = k /\ <<k, d>>[2] = d
    OBVIOUS
  <2> QED BY <2>1 DEF Bound, Others
<1>6. Covered(u, H2)
  <2>1. ASSUME NEW y \in Pairs(u) PROVE y[2].nrefs >= 1 /\ y[2].nrefs >= Cardinality(Users(y[1], H2))
    <3>1. CASE y \in Pairs(t) /\ y[1] # k
      BY <3>1, <1>4 DEF Covered
    <3>2. CASE y[1] = k /\ y[2] = d
      BY <3>2, <1>3
    <3> QED BY <3>1, <3>2, <1>5
  <2> QED BY <2>1 DEF Covered
<1>7. ASSUME Exact(t, H), d.nrefs = Cardinality(Users(k, H)) + 1 PROVE Exact(u, H2)
  <2>1. ASSUME NEW y \in Pairs(u) PROVE y[2].nrefs = Cardinality(Users(y[1], H2))
    <3>1. CASE y \in Pairs(t) /\ y[1] # k
      BY <3>1, <1>4, <1>7 DEF Exact
    <3>2. CASE y[1] = k /\ y[2] = d
      BY <3>2, <1>3, <1>7
    <3> QED BY <3>1, <3>2, <1>5
  <2> QED BY <2>1 DEF Exact
<1> QED BY <1>6, <1>7 DEF H2

\* shm_create.
LEMMA ShmCreateStep ==
  ASSUME SInv, NEW p \in Proc, NEW k \in Key, NEW mem \in BOOLEAN, mem, ShmCreate(p, k, mem)
  PROVE  SInv' /\ (Exact(table, shmem) => Exact(table', shmem'))
<1> DEFINE q == NextPage(free)
           v == NextVpage(p)
           c == space[p]
           X == free \ {q}
           s == MapPage([c EXCEPT !.free = X], q, v)
           d == Shared(q, 1)
           u == Set(table, k, d, TRUE)
           o == shmem[p]
           h == Set(o, k, v, TRUE)
           n == shmIdx[p] + 1
           w == Holding(s)
<1>1. /\ state[p] = "ALIVE" /\ ~ IsSet(table, k) /\ q # NoPage /\ ~ s.panic
      /\ shmIdx' = [shmIdx EXCEPT ![p] = shmIdx[p] + 1]
      /\ free' = s.free
      /\ space' = [space EXCEPT ![p] = w]
      /\ table' = u
      /\ shmem' = [shmem EXCEPT ![p] = Set(shmem[p], k, v, TRUE)]
      /\ state' = state /\ lost' = lost
  BY DEF ShmCreate
<1>2. /\ free \in SUBSET Page
      /\ Sane(table, Descriptor) /\ table.failed = 0 /\ OneName(table)
      /\ Sane(o, Nat) /\ o.failed = 0
      /\ Leads(o, c, table) /\ Covered(table, shmem)
      /\ free \cap PagesOf(table) = {} /\ free \cap OwnPages(c) = {}
      /\ PagesOf(table) \cap OwnPages(c) = {}
      /\ shmem = [r \in Proc |-> shmem[r]]
      /\ shmIdx[p] \in Nat
      /\ World(free, lost, table, space, shmem)
      /\ state = [r \in Proc |-> state[r]]
  BY SInvFacts DEF SInv
<1>3. q \in free /\ q \in Page
  BY <1>1, <1>2, NextPageFacts
<1> HIDE DEF q, v, c, s
<1>4. /\ s \in Spaces /\ s.pdir # NoPage /\ Apart(s)
      /\ s.free \cup OwnPages(s) = X \cup OwnPages(c) /\ s.free \cap OwnPages(s) = {}
      /\ s.free \subseteq X
      /\ v \in Nat /\ v >= UserStack /\ v \notin DOMAIN c.entries
      /\ Low(s) = StackPages \cup CodePages
      /\ DOMAIN s.entries = DOMAIN c.entries \cup {v} /\ s.entries[v] = q
      /\ \A x \in DOMAIN c.entries : s.entries[x] = c.entries[x]
      /\ \A x \in DOMAIN s.entries : x < UserStack + (shmIdx[p] + 1)
  <2>1. X \in SUBSET free
    OBVIOUS
  <2>2. s = MapPage([space[p] EXCEPT !.free = X], q, NextVpage(p))
    BY DEF s, v, c
  <2> HIDE DEF X
  <2>3. state[p] = "ALIVE" /\ ~ s.panic
    BY <1>1
  <2>4. Mapped(s, space[p], X, q, NextVpage(p), shmIdx[p])
    BY <1>3, <2>1, <2>2, <2>3, MapShared
  <2> QED BY <2>4 DEF v, c, Mapped
<1>5. d \in Descriptor /\ d.page = q /\ d.nrefs = 1
  BY <1>3 DEF Shared, Descriptor
<1> HIDE DEF d
<1>6. Sane(u, Descriptor) /\ Pairs(u) = Bound(Pairs(table), k, d) /\ u.failed = 0
  BY <1>2, <1>5, SetPage
<1>7. Sane(h, Nat) /\ Pairs(h) = Bound(Pairs(o), k, v) /\ h.failed = 0
  <2> HIDE DEF o
  <2> QED BY <1>2, <1>4, SetAddress
<1> HIDE DEF u, h, o
<1>8. \A y \in Pairs(table) : y[1] # k
  BY <1>1, <1>2, PairFacts
<1>9. q \notin PagesOf(table)
  BY <1>2, <1>3
<1>10. PagesOf(u) = PagesOf(table) \cup {q} /\ OneName(u)
  BY <1>2, <1>5, <1>6, <1>8, <1>9, PageAdded
<1>11. \A y \in Pairs(table) : \E z \in Pairs(u) : z[1] = y[1] /\ z[2].page = y[2].page
  BY <1>6, <1>8 DEF Bound, Others
<1>12. \A r \in Proc : \A x \in Pairs(shmem[r]) : x[1] # k
  <2>1. \A r \in Proc : Leads(shmem[r], space[r], table)
    BY SInvFacts
  <2> QED BY <2>1, <1>8 DEF Leads
<1>13. /\ w \in Spaces /\ w.pdir = s.pdir /\ w.entries = s.entries
       /\ OwnPages(w) = OwnPages(s) /\ (Apart(w) <=> Apart(s)) /\ Low(w) = Low(s)
  BY <1>4, HoldingFacts
<1> HIDE DEF w
<1>14. Leads(h, w, u)
  <2>1. \E z \in Pairs(u) : z[1] = k /\ z[2].page = w.entries[v]
    <3>1. <<k, d>> \in Pairs(u) /\ <<k, d>>[1] = k /\ <<k, d>>[2] = d
      BY <1>6 DEF Bound, Others
    <3> QED BY <3>1, <1>4, <1>5, <1>13
  <2>2. \A x \in Pairs(o) : x[1] # k
    BY <1>12 DEF o
  <2>3. /\ DOMAIN w.entries = DOMAIN c.entries \cup {v}
        /\ \A x \in DOMAIN c.entries : w.entries[x] = c.entries[x]
    BY <1>4, <1>13
  <2>4. v >= UserStack /\ v \notin DOMAIN c.entries /\ Leads(o, c, table)
    BY <1>2, <1>4
  <2>5. Pairs(h) = Bound(Pairs(o), k, v)
    BY <1>7
  <2> QED BY <1>11, <2>1, <2>2, <2>3, <2>4, <2>5, LeadsMore
<1>15. /\ Covered(u, [shmem EXCEPT ![p] = h])
       /\ Exact(table, shmem) => Exact(u, [shmem EXCEPT ![p] = h])
  <2>1. Users(k, shmem) = {}
    BY <1>12 DEF Users
  <2>2. Cardinality(Users(k, shmem)) = 0
    BY <2>1, FS_EmptySet
  <2>3. ~ \E x \in Pairs(shmem[p]) : x[1] = k
    BY <1>12
  <2>4. d.nrefs = Cardinality(Users(k, shmem)) + 1
    BY <1>5, <2>2
  <2>5. Pairs(h) = Bound(Pairs(shmem[p]), k, v)
    BY <1>7 DEF o
  <2>6. d.nrefs >= 1 /\ d.nrefs \in Nat /\ d.nrefs >= Cardinality(Users(k, shmem)) + 1
    BY <1>5, <2>2
  <2> QED BY <1>2, <1>6, <2>3, <2>4, <2>5, <2>6, CountMore
<1>16. World(s.free, lost, u, [space EXCEPT ![p] = w], [shmem EXCEPT ![p] = h])
  <2>1. /\ s.free \cup PagesOf(u) \cup OwnPages(w) = free \cup PagesOf(table) \cup OwnPages(space[p])
        /\ s.free \cap PagesOf(u) = {} /\ s.free \cap OwnPages(w) = {}
        /\ PagesOf(u) \cap OwnPages(w) = {}
    BY <1>2, <1>3, <1>4, <1>10, <1>13 DEF c
  <2>2. \A r \in Proc : r # p => \A x \in Pairs(shmem[r]), y \in Pairs(table) : y[1] = x[1] =>
               \E z \in Pairs(u) : z[1] = y[1] /\ z[2].page = y[2].page
    BY <1>11
  <2>3. s.free \in SUBSET Page
    BY <1>2, <1>4
  <2>4. World(free, lost, table, space, shmem) /\ w \in Spaces /\ Apart(w)
    BY <1>2, <1>4, <1>13
  <2>5. Sane(u, Descriptor) /\ u.failed = 0 /\ OneName(u)
    BY <1>6, <1>10
  <2>6. Sane(h, Nat) /\ h.failed = 0 /\ Leads(h, w, u)
    BY <1>7, <1>14
  <2>7. Covered(u, [shmem EXCEPT ![p] = h])
    BY <1>15
  <2> QED BY <2>1, <2>2, <2>3, <2>4, <2>5, <2>6, <2>7, WorldStep
<1>17. Placed("ALIVE", w, h, n)
  BY <1>4, <1>13 DEF Placed
<1>18. SInv'
  <2>1. n \in Nat
    BY <1>2
  <2>2. state' = [state EXCEPT ![p] = "ALIVE"]
    BY <1>1, <1>2
  <2>3. World(free', lost', table', space', shmem')
    BY <1>1, <1>16 DEF h, o
  <2> QED BY <1>1, <1>17, <2>1, <2>2, <2>3, SInvStep DEF h, o
<1> QED BY <1>1, <1>15, <1>18 DEF h, o

\* shm_create, without memory for the descriptor or the name.
LEMMA ShmCreateFailsStep ==
  ASSUME SInv, NEW p \in Proc, NEW k \in Key, NEW mem \in BOOLEAN, ~ mem, ShmCreate(p, k, mem)
  PROVE  SInv' /\ table' = table /\ shmem' = shmem
<1> DEFINE q == NextPage(free)
           v == NextVpage(p)
           c == space[p]
           X == free \ {q}
           s == MapPage([c EXCEPT !.free = X], q, v)
           r == UnmapVpage(s, v)
           F == r.free \cup {q}
           d == [r EXCEPT !.free = F]
           o == shmem[p]
           n == shmIdx[p] + 1
           w == Holding(d)
<1>1. /\ state[p] = "ALIVE" /\ ~ IsSet(table, k) /\ q # NoPage /\ ~ s.panic
      /\ shmIdx' = [shmIdx EXCEPT ![p] = shmIdx[p] + 1]
      /\ free' = d.free
      /\ space' = [space EXCEPT ![p] = w]
      /\ table' = table /\ shmem' = shmem /\ state' = state /\ lost' = lost
  BY DEF ShmCreate
<1>2. /\ free \in SUBSET Page
      /\ Sane(table, Descriptor) /\ table.failed = 0 /\ OneName(table)
      /\ c \in Spaces
      /\ Sane(o, Nat) /\ o.failed = 0
      /\ Leads(o, c, table) /\ Covered(table, shmem)
      /\ free \cap PagesOf(table) = {} /\ free \cap OwnPages(c) = {}
      /\ PagesOf(table) \cap OwnPages(c) = {}
      /\ shmem = [x \in Proc |-> shmem[x]]
      /\ shmIdx[p] \in Nat
      /\ World(free, lost, table, space, shmem)
      /\ state = [x \in Proc |-> state[x]]
  BY SInvFacts DEF SInv
<1>3. q \in free /\ q \in Page
  BY <1>1, <1>2, NextPageFacts
<1> HIDE DEF q, v, c, s
<1>4. /\ s \in Spaces /\ s.pdir # NoPage /\ Apart(s)
      /\ s.free \cup OwnPages(s) = X \cup OwnPages(c) /\ s.free \cap OwnPages(s) = {}
      /\ s.free \subseteq X
      /\ v \in Nat /\ v >= UserStack /\ v \notin DOMAIN c.entries
      /\ Low(s) = StackPages \cup CodePages
      /\ DOMAIN s.entries = DOMAIN c.entries \cup {v} /\ s.entries[v] = q
      /\ \A x \in DOMAIN c.entries : s.entries[x] = c.entries[x]
      /\ \A x \in DOMAIN s.entries : x < UserStack + (shmIdx[p] + 1)
  <2>1. X \in SUBSET free
    OBVIOUS
  <2>2. s = MapPage([space[p] EXCEPT !.free = X], q, NextVpage(p))
    BY DEF s, v, c
  <2> HIDE DEF X
  <2>3. state[p] = "ALIVE" /\ ~ s.panic
    BY <1>1
  <2>4. Mapped(s, space[p], X, q, NextVpage(p), shmIdx[p])
    BY <1>3, <2>1, <2>2, <2>3, MapShared
  <2> QED BY <2>4 DEF v, c, Mapped
<1>5. /\ r \in Spaces /\ r.free = s.free /\ r.pdir = s.pdir /\ r.kstack = s.kstack
      /\ r.tables = s.tables /\ DOMAIN r.entries = DOMAIN c.entries
      /\ \A x \in DOMAIN r.entries : r.entries[x] = s.entries[x] /\ r.entries[x] = c.entries[x]
  <2>1. /\ r \in Spaces /\ r.free = s.free /\ r.pdir = s.pdir /\ r.kstack = s.kstack
        /\ r.tables = s.tables /\ DOMAIN r.entries = DOMAIN s.entries \ {v}
        /\ \A x \in DOMAIN r.entries : r.entries[x] = s.entries[x]
    BY <1>4, UnmapFacts
  <2> QED BY <2>1, <1>4
<1> HIDE DEF r
<1>6. Low(r) = Low(s)
  <2>1. UserStack \in Nat
    BY AddressFacts
  <2> QED BY <2>1, <1>4, <1>5 DEF Low
<1>7. OwnPages(r) = OwnPages(s) /\ (Apart(r) <=> Apart(s))
  <2>1. \A x \in Low(s) : r.entries[x] = s.entries[x]
    BY <1>5, <1>6 DEF Low
  <2> QED BY <2>1, <1>4, <1>5, <1>6, HighChanged
<1>8. F \in SUBSET Page
  BY <1>2, <1>3, <1>4, <1>5
<1>9. /\ d \in Spaces /\ d.free = F /\ d.pdir = r.pdir /\ d.entries = r.entries
      /\ OwnPages(d) = OwnPages(r) /\ (Apart(d) <=> Apart(r)) /\ Low(d) = Low(r)
  <2> HIDE DEF F
  <2> QED BY <1>5, <1>8, FreeGiven
<1> HIDE DEF d
<1>10. /\ w \in Spaces /\ w.pdir = d.pdir /\ w.entries = d.entries
       /\ OwnPages(w) = OwnPages(d) /\ (Apart(w) <=> Apart(d)) /\ Low(w) = Low(d)
  BY <1>9, HoldingFacts
<1> HIDE DEF w
<1>11. /\ DOMAIN w.entries = DOMAIN c.entries
       /\ \A x \in DOMAIN c.entries : w.entries[x] = c.entries[x]
  BY <1>5, <1>9, <1>10
<1>12. Leads(o, w, table)
  BY <1>2, <1>11 DEF Leads
<1>13. World(F, lost, table, [space EXCEPT ![p] = w], [shmem EXCEPT ![p] = o])
  <2>1. /\ F \cup PagesOf(table) \cup OwnPages(w) = free \cup PagesOf(table) \cup OwnPages(space[p])
        /\ F \cap PagesOf(table) = {} /\ F \cap OwnPages(w) = {}
        /\ PagesOf(table) \cap OwnPages(w) = {}
    <3>1. OwnPages(w) = OwnPages(s) /\ F = s.free \cup {q}
      BY <1>5, <1>7, <1>9, <1>10
    <3> HIDE DEF F
    <3> QED BY <1>2, <1>3, <1>4, <3>1 DEF c
  <2>2. \A x \in Proc : x # p => \A y \in Pairs(shmem[x]), z \in Pairs(table) : z[1] = y[1] =>
               \E a \in Pairs(table) : a[1] = z[1] /\ a[2].page = z[2].page
    OBVIOUS
  <2>3. [shmem EXCEPT ![p] = o] = shmem
    BY <1>2 DEF o
  <2>4. World(free, lost, table, space, shmem) /\ w \in Spaces /\ Apart(w) /\ F \in SUBSET Page
    BY <1>2, <1>4, <1>7, <1>8, <1>9, <1>10
  <2>5. Sane(table, Descriptor) /\ table.failed = 0 /\ OneName(table)
    BY <1>2
  <2>6. Sane(o, Nat) /\ o.failed = 0
    BY <1>2
  <2>7. Covered(table, [shmem EXCEPT ![p] = o])
    BY <1>2, <2>3
  <2> HIDE DEF F, o
  <2> QED BY <1>12, <2>1, <2>2, <2>4, <2>5, <2>6, <2>7, WorldStep
<1>14. Placed("ALIVE", w, o, n)
  <2>1. \A x \in DOMAIN w.entries : x < UserStack + n
    BY <1>4, <1>11
  <2>2. w.pdir # NoPage /\ Low(w) = StackPages \cup CodePages
    BY <1>4, <1>5, <1>6, <1>9, <1>10
  <2> QED BY <2>1, <2>2 DEF Placed
<1>15. SInv'
  <2>1. n \in Nat
    BY <1>2
  <2>2. state' = [state EXCEPT ![p] = "ALIVE"] /\ shmem' = [shmem EXCEPT ![p] = o]
    BY <1>1, <1>2
  <2>3. World(free', lost', table', space', shmem')
    BY <1>1, <1>9, <1>13, <2>2
  <2> QED BY <1>1, <1>14, <2>1, <2>2, <2>3, SInvStep
<1> QED BY <1>1, <1>15

\* shm_acquire.
LEMMA ShmAcquireStep ==
  ASSUME SInv, NEW p \in Proc, NEW k \in Key, ShmAcquire(p, k)
  PROVE  SInv' /\ (Exact(table, shmem) => Exact(table', shmem'))
<1> DEFINE e == Get(table, k)
           q == e.page
           v == NextVpage(p)
           c == space[p]
           s == MapPage([c EXCEPT !.free = free], q, v)
           d == Acquired(e)
           u == Set(table, k, d, TRUE)
           o == shmem[p]
           h == Set(o, k, v, TRUE)
           n == shmIdx[p] + 1
           w == Holding(s)
<1>1. /\ state[p] = "ALIVE" /\ IsSet(table, k) /\ ~ IsSet(o, k) /\ ~ s.panic
      /\ shmIdx' = [shmIdx EXCEPT ![p] = shmIdx[p] + 1]
      /\ free' = s.free
      /\ space' = [space EXCEPT ![p] = w]
      /\ table' = u
      /\ shmem' = [shmem EXCEPT ![p] = Set(shmem[p], k, v, TRUE)]
      /\ state' = state /\ lost' = lost
  BY DEF ShmAcquire
<1>2. /\ free \in SUBSET Page
      /\ Sane(table, Descriptor) /\ table.failed = 0 /\ OneName(table)
      /\ Sane(o, Nat) /\ o.failed = 0
      /\ Leads(o, c, table) /\ Covered(table, shmem)
      /\ free \cap PagesOf(table) = {} /\ free \cap OwnPages(c) = {}
      /\ PagesOf(table) \cap OwnPages(c) = {}
      /\ shmem = [r \in Proc |-> shmem[r]]
      /\ shmIdx[p] \in Nat
      /\ World(free, lost, table, space, shmem)
      /\ state = [r \in Proc |-> state[r]]
  BY SInvFacts DEF SInv
<1>3. <<k, e>> \in Pairs(table) /\ e \in Descriptor
  BY <1>1, <1>2, PairFacts
<1>4. q \in Page /\ e.nrefs \in Nat
  BY <1>3 DEF Descriptor
<1>5. d \in Descriptor /\ d.page = q /\ d.nrefs = e.nrefs + 1
  BY <1>3, <1>4 DEF Acquired, Descriptor
<1> HIDE DEF v, c, s, e
<1>6. /\ s \in Spaces /\ s.pdir # NoPage /\ Apart(s)
      /\ s.free \cup OwnPages(s) = free \cup OwnPages(c) /\ s.free \cap OwnPages(s) = {}
      /\ s.free \subseteq free
      /\ v \in Nat /\ v >= UserStack /\ v \notin DOMAIN c.entries
      /\ Low(s) = StackPages \cup CodePages
      /\ DOMAIN s.entries = DOMAIN c.entries \cup {v} /\ s.entries[v] = q
      /\ \A x \in DOMAIN c.entries : s.entries[x] = c.entries[x]
      /\ \A x \in DOMAIN s.entries : x < UserStack + (shmIdx[p] + 1)
  <2>1. free \in SUBSET free
    OBVIOUS
  <2>2. s = MapPage([space[p] EXCEPT !.free = free], q, NextVpage(p))
    BY DEF s, v, c
  <2>3. state[p] = "ALIVE" /\ ~ s.panic
    BY <1>1
  <2>4. Mapped(s, space[p], free, q, NextVpage(p), shmIdx[p])
    BY <1>4, <2>1, <2>2, <2>3, MapShared
  <2> QED BY <2>4 DEF v, c, Mapped
<1> HIDE DEF d
<1>7. Sane(u, Descriptor) /\ Pairs(u) = Bound(Pairs(table), k, d) /\ u.failed = 0
  BY <1>2, <1>5, SetPage
<1>8. Sane(h, Nat) /\ Pairs(h) = Bound(Pairs(o), k, v) /\ h.failed = 0
  <2> HIDE DEF o
  <2> QED BY <1>2, <1>6, SetAddress
<1> HIDE DEF u, h
<1>9. /\ PagesOf(u) = PagesOf(table) /\ OneName(u)
      /\ \A y \in Pairs(table) : \E z \in Pairs(u) : z[1] = y[1] /\ z[2].page = y[2].page
  BY <1>2, <1>3, <1>5, <1>7, CountChanged
<1>10. \A x \in Pairs(o) : x[1] # k
  BY <1>1, <1>2, PairFacts
<1>11. /\ w \in Spaces /\ w.pdir = s.pdir /\ w.entries = s.entries
       /\ OwnPages(w) = OwnPages(s) /\ (Apart(w) <=> Apart(s)) /\ Low(w) = Low(s)
  BY <1>6, HoldingFacts
<1> HIDE DEF w, o
<1>12. Leads(h, w, u)
  <2>1. \E z \in Pairs(u) : z[1] = k /\ z[2].page = w.entries[v]
    <3>1. <<k, d>> \in Pairs(u) /\ <<k, d>>[1] = k /\ <<k, d>>[2] = d
      BY <1>7 DEF Bound
    <3> QED BY <3>1, <1>5, <1>6, <1>11
  <2>2. /\ DOMAIN w.entries = DOMAIN c.entries \cup {v}
        /\ \A x \in DOMAIN c.entries : w.entries[x] = c.entries[x]
    BY <1>6, <1>11
  <2>3. v >= UserStack /\ v \notin DOMAIN c.entries /\ Leads(o, c, table)
    BY <1>2, <1>6
  <2>4. Pairs(h) = Bound(Pairs(o), k, v)
    BY <1>8
  <2> QED BY <1>9, <1>10, <2>1, <2>2, <2>3, <2>4, LeadsMore
<1>13. /\ Covered(u, [shmem EXCEPT ![p] = h])
       /\ Exact(table, shmem) => Exact(u, [shmem EXCEPT ![p] = h])
  <2> DEFINE N == Cardinality(Users(k, shmem))
  <2>1. <<k, e>>[1] = k /\ <<k, e>>[2] = e
    OBVIOUS
  <2>2. N \in Nat /\ e.nrefs >= N /\ (Exact(table, shmem) => e.nrefs = N)
    <3>1. N \in Nat
      BY <1>2, UsersStep
    <3> QED BY <1>2, <1>3, <2>1, <3>1 DEF Covered, Exact
  <2>3. ~ \E x \in Pairs(shmem[p]) : x[1] = k
    BY <1>10 DEF o
  <2>4. Pairs(h) = Bound(Pairs(shmem[p]), k, v)
    BY <1>8 DEF o
  <2>5. /\ d.nrefs >= 1 /\ d.nrefs \in Nat /\ d.nrefs >= N + 1
        /\ Exact(table, shmem) => d.nrefs = N + 1
    <3> HIDE DEF N
    <3> QED BY <1>4, <1>5, <2>2
  <2> QED BY <1>2, <1>7, <2>3, <2>4, <2>5, CountMore
<1>14. World(s.free, lost, u, [space EXCEPT ![p] = w], [shmem EXCEPT ![p] = h])
  <2>1. /\ s.free \cup PagesOf(u) \cup OwnPages(w) = free \cup PagesOf(table) \cup OwnPages(space[p])
        /\ s.free \cap PagesOf(u) = {} /\ s.free \cap OwnPages(w) = {}
        /\ PagesOf(u) \cap OwnPages(w) = {}
    BY <1>2, <1>6, <1>9, <1>11 DEF c
  <2>2. \A r \in Proc : r # p => \A x \in Pairs(shmem[r]), y \in Pairs(table) : y[1] = x[1] =>
               \E z \in Pairs(u) : z[1] = y[1] /\ z[2].page = y[2].page
    BY <1>9
  <2>3. s.free \in SUBSET Page
    BY <1>2, <1>6
  <2>4. World(free, lost, table, space, shmem) /\ w \in Spaces /\ Apart(w)
    BY <1>2, <1>6, <1>11
  <2>5. Sane(u, Descriptor) /\ u.failed = 0 /\ OneName(u)
    BY <1>7, <1>9
  <2>6. Sane(h, Nat) /\ h.failed = 0 /\ Leads(h, w, u)
    BY <1>8, <1>12
  <2>7. Covered(u, [shmem EXCEPT ![p] = h])
    BY <1>13
  <2> QED BY <2>1, <2>2, <2>3, <2>4, <2>5, <2>6, <2>7, WorldStep
<1>15. Placed("ALIVE", w, h, n)
  BY <1>6, <1>11 DEF Placed
<1>16. SInv'
  <2>1. n \in Nat
    BY <1>2
  <2>2. state' = [state EXCEPT ![p] = "ALIVE"]
    BY <1>1, <1>2
  <2>3. World(free', lost', table', space', shmem')
    BY <1>1, <1>14 DEF h, o
  <2> QED BY <1>1, <1>15, <2>1, <2>2, <2>3, SInvStep DEF h, o
<1> QED BY <1>1, <1>13, <1>16 DEF h, o

-----------------------------------------------------------------------------
(* Pages are released, and processes freed. *)

\* What a process has, as release and free_process take it.
LEMMA MappingsFacts ==
  ASSUME SInv, NEW p \in Proc
  PROVE  LET m == Mappings(p) IN
         /\ Held(m, lost, space, shmem, p)
         /\ HeldExact(m, shmem, p) <=> Exact(table, shmem)
         /\ m.table = table /\ m.shmem = shmem[p] /\ m.space.free = free
         /\ m.space.pdir = space[p].pdir /\ Low(m.space) = Low(space[p])
         /\ m.space.entries = space[p].entries
<1> DEFINE m == Mappings(p)
           c == space[p]
           b == [c EXCEPT !.free = free]
<1>1. /\ c \in Spaces /\ free \in SUBSET Page
      /\ space = [q \in Proc |-> space[q]] /\ shmem = [q \in Proc |-> shmem[q]]
      /\ World(free, lost, table, space, shmem)
  BY SInvFacts DEF SInv
<1>2. m = [table |-> table, shmem |-> shmem[p], space |-> b]
  BY DEF Mappings
<1>3. /\ b \in Spaces /\ b.free = free /\ b.pdir = c.pdir /\ b.kstack = c.kstack
      /\ b.tables = c.tables /\ b.entries = c.entries /\ Low(b) = Low(c)
  <2> HIDE DEF c
  <2> QED BY <1>1, FreeGiven
<1> HIDE DEF m, b
<1>4. /\ m = [table |-> m.table, shmem |-> m.shmem, space |-> m.space]
      /\ m.table = table /\ m.shmem = shmem[p] /\ m.space = b
  BY <1>2
<1>5. World(free, lost, table, [space EXCEPT ![p] = b], shmem)
  BY <1>1, <1>3, WorldSame DEF c
<1>6. [shmem EXCEPT ![p] = m.shmem] = shmem
  BY <1>1, <1>4
<1>7. Held(m, lost, space, shmem, p) /\ (HeldExact(m, shmem, p) <=> Exact(table, shmem))
  BY <1>1, <1>3, <1>4, <1>5, <1>6 DEF Held, HeldExact
<1> QED BY <1>3, <1>4, <1>7 DEF m, c

\* shm_release.
LEMMA ShmReleaseStep ==
  ASSUME SInv, NEW p \in Proc, NEW k \in Key, ShmRelease(p, k)
  PROVE  SInv' /\ (Exact(table, shmem) => Exact(table', shmem'))
<1> DEFINE a == Mappings(p)
           m == Released(a, k)
           w == Holding(m.space)
           h == m.shmem
<1>1. /\ state[p] = "ALIVE"
      /\ table' = m.table /\ free' = m.space.free
      /\ shmem' = [shmem EXCEPT ![p] = h]
      /\ space' = [space EXCEPT ![p] = w]
      /\ state' = state /\ shmIdx' = shmIdx /\ lost' = lost
  BY DEF ShmRelease
<1>2. /\ Held(a, lost, space, shmem, p)
      /\ HeldExact(a, shmem, p) <=> Exact(table, shmem)
      /\ a.space.pdir = space[p].pdir /\ Low(a.space) = Low(space[p])
      /\ a.space.entries = space[p].entries
  BY MappingsFacts
<1> HIDE DEF a
<1>3. Releases(m, a, k, lost, space, shmem, p)
  BY <1>2, ReleasedFacts
<1> HIDE DEF m
<1>4. /\ Held(m, lost, space, shmem, p)
      /\ m.space.pdir = space[p].pdir /\ Low(m.space) = Low(space[p])
      /\ DOMAIN m.space.entries \subseteq DOMAIN space[p].entries
      /\ Exact(table, shmem) => HeldExact(m, shmem, p)
  BY <1>2, <1>3 DEF Releases
<1>5. m.space \in Spaces
  BY <1>4, HeldFacts
<1>6. /\ w \in Spaces /\ w.pdir = m.space.pdir /\ w.kstack = m.space.kstack
      /\ w.tables = m.space.tables /\ w.entries = m.space.entries /\ Low(w) = Low(m.space)
  BY <1>5, HoldingFacts
<1> HIDE DEF w
<1>7. World(m.space.free, lost, m.table, [space EXCEPT ![p] = w], [shmem EXCEPT ![p] = h])
  <2> DEFINE S == [space EXCEPT ![p] = m.space]
  <2>1. World(m.space.free, lost, m.table, S, [shmem EXCEPT ![p] = h])
    BY <1>4 DEF Held
  <2>2. space = [q \in Proc |-> space[q]]
    BY SInvFacts
  <2>3. S[p] = m.space /\ [S EXCEPT ![p] = w] = [space EXCEPT ![p] = w]
    BY <2>2
  <2> HIDE DEF S, h
  <2>4. World(m.space.free, lost, m.table, [S EXCEPT ![p] = w], [shmem EXCEPT ![p] = h])
    BY <1>6, <2>1, <2>3, WorldSame
  <2> QED BY <2>3, <2>4
<1>8. /\ state = [q \in Proc |-> state[q]] /\ shmIdx = [q \in Proc |-> shmIdx[q]]
      /\ shmIdx[p] \in Nat /\ Placed("ALIVE", space[p], shmem[p], shmIdx[p])
  BY <1>1, SInvFacts
<1>9. Placed("ALIVE", w, h, shmIdx[p])
  BY <1>4, <1>6, <1>8 DEF Placed
<1>10. SInv'
  <2>1. state' = [state EXCEPT ![p] = "ALIVE"] /\ shmIdx' = [shmIdx EXCEPT ![p] = shmIdx[p]]
    BY <1>1, <1>8
  <2>2. World(free', lost', table', space', shmem')
    BY <1>1, <1>7
  <2> DEFINE n == shmIdx[p]
  <2>3. n \in Nat /\ Placed("ALIVE", w, h, n) /\ shmIdx' = [shmIdx EXCEPT ![p] = n]
    BY <1>8, <1>9, <2>1
  <2> HIDE DEF n, h
  <2> QED BY <1>1, <2>1, <2>2, <2>3, SInvStep
<1>11. Exact(table, shmem) => Exact(table', shmem')
  BY <1>1, <1>4 DEF HeldExact
<1> QED BY <1>10, <1>11

\* free_process gives back the free pages of the space and those it owns.
LEMMA FreeSpaceFacts ==
  ASSUME NEW s, s.pdir # NoPage, Low(s) = StackPages \cup CodePages
  PROVE  FreeSpace(s) = s.free \cup OwnPages(s)
<1>1. {s.entries[v] : v \in StackPages \cup CodePages} = {s.entries[v] : v \in Low(s)}
  OBVIOUS
<1>2. PageTables(s) = {s.tables[d] : d \in DOMAIN s.tables}
  BY DEF PageTables, Range
<1> QED BY <1>1, <1>2 DEF FreeSpace, OwnPages

\* Nobody counts a process that has nothing.
LEMMA UsersLess ==
  ASSUME NEW t, NEW H, H = [q \in Proc |-> H[q]], NEW p \in Proc, NEW h, Pairs(h) = {}, Covered(t, H),
         \A y \in Pairs(t) : y[2].nrefs \in Nat
  PROVE  LET H2 == [H EXCEPT ![p] = h] IN
         /\ Covered(t, H2)
         /\ Pairs(H[p]) = {} /\ Exact(t, H) => Exact(t, H2)
<1> DEFINE H2 == [H EXCEPT ![p] = h]
<1>1. H2[p] = h /\ \A q \in Proc : q # p => H2[q] = H[q]
  OBVIOUS
<1> HIDE DEF H2
<1>2. ASSUME NEW k
      PROVE  /\ Cardinality(Users(k, H2)) <= Cardinality(Users(k, H))
             /\ Cardinality(Users(k, H2)) \in Nat /\ Cardinality(Users(k, H)) \in Nat
  <2>1. IsFiniteSet(Users(k, H)) /\ Users(k, H2) \subseteq Users(k, H)
    <3>1. IsFiniteSet(Users(k, H))
      BY UsersStep
    <3> QED BY <3>1, <1>1 DEF Users
  <2>2. IsFiniteSet(Users(k, H2)) /\ Cardinality(Users(k, H2)) <= Cardinality(Users(k, H))
    BY <2>1, FS_Subset
  <2> QED BY <2>1, <2>2, FS_CardinalityType
<1>3. Covered(t, H2)
  <2>1. ASSUME NEW y \in Pairs(t) PROVE y[2].nrefs >= 1 /\ y[2].nrefs >= Cardinality(Users(y[1], H2))
    <3>1. /\ y[2].nrefs >= 1 /\ y[2].nrefs >= Cardinality(Users(y[1], H)) /\ y[2].nrefs \in Nat
      BY DEF Covered
    <3> DEFINE k == y[1]
    <3> HIDE DEF k
    <3>2. /\ Cardinality(Users(k, H2)) <= Cardinality(Users(k, H))
          /\ Cardinality(Users(k, H2)) \in Nat /\ Cardinality(Users(k, H)) \in Nat
      BY <1>2
    <3> QED BY <3>1, <3>2 DEF k
  <2> QED BY <2>1 DEF Covered
<1>4. ASSUME Pairs(H[p]) = {}, Exact(t, H) PROVE Exact(t, H2)
  <2>1. \A k : Users(k, H2) = Users(k, H)
    BY <1>1, <1>4 DEF Users
  <2> QED BY <2>1, <1>4 DEF Exact
<1> QED BY <1>3, <1>4 DEF H2

\* free_process.
LEMMA FreeProcessStep ==
  ASSUME SInv, NEW p \in Proc, FreeProcess(p)
  PROVE  /\ SInv'
         /\ Exact(table, shmem) /\ Size(shmem[p]) = MinSize => Exact(table', shmem')
<1> DEFINE a == Mappings(p)
           m == ReleasedAll(a)
           F == FreeSpace(m.space)
           w == NoSpace({})
           e == Fresh(MinSize)
<1>1. /\ state[p] = "ENDED"
      /\ table' = m.table /\ free' = F
      /\ state' = [state EXCEPT ![p] = "NONE"]
      /\ space' = [space EXCEPT ![p] = w]
      /\ shmem' = [shmem EXCEPT ![p] = e]
      /\ shmIdx' = [shmIdx EXCEPT ![p] = 0] /\ lost' = lost
  BY DEF FreeProcess
<1>2. /\ Held(a, lost, space, shmem, p)
      /\ HeldExact(a, shmem, p) <=> Exact(table, shmem)
      /\ a.space.pdir = space[p].pdir /\ Low(a.space) = Low(space[p])
      /\ a.shmem = shmem[p]
  BY MappingsFacts
<1> HIDE DEF a
<1>3. Walked(m, a, Size(a.shmem), lost, space, shmem, p)
  BY <1>2, WalkedAll
<1> HIDE DEF m
<1>4. /\ Held(m, lost, space, shmem, p)
      /\ m.space.pdir = space[p].pdir /\ Low(m.space) = Low(space[p])
      /\ Exact(table, shmem) => HeldExact(m, shmem, p)
  BY <1>2, <1>3 DEF Walked
<1>5. Size(shmem[p]) = MinSize => Pairs(m.shmem) = {}
  <2>1. a.shmem \in Tables(Nat)
    BY <1>2, HeldFacts, SaneGap
  <2>2. DOMAIN a.shmem.slots = 0..(Size(a.shmem) - 1) /\ Size(a.shmem) \in Nat
    BY <2>1, TableFacts
  <2>3. \A j \in DOMAIN a.shmem.slots : ~ (j >= Size(a.shmem))
    BY <2>2
  <2> QED BY <1>2, <1>3, <2>3 DEF Walked
<1>6. /\ m.space \in Spaces /\ Apart(m.space)
      /\ Sane(m.table, Descriptor) /\ m.table.failed = 0 /\ OneName(m.table)
      /\ Covered(m.table, [shmem EXCEPT ![p] = m.shmem])
      /\ m.space.free \cap PagesOf(m.table) = {} /\ m.space.free \cap OwnPages(m.space) = {}
      /\ PagesOf(m.table) \cap OwnPages(m.space) = {}
      /\ m.space.free \subseteq Page
  BY <1>4, HeldFacts
<1>7. Placed("ENDED", space[p], shmem[p], shmIdx[p])
  BY <1>1, SInvFacts
<1>8. F = m.space.free \cup OwnPages(m.space)
  <2>1. m.space.pdir # NoPage /\ Low(m.space) = StackPages \cup CodePages
    BY <1>4, <1>7 DEF Placed
  <2> QED BY <2>1, FreeSpaceFacts
<1> HIDE DEF F
<1>9. Sane(e, Nat) /\ e.failed = 0 /\ Pairs(e) = {}
  BY NewTable
<1>10. w \in Spaces /\ w.pdir = NoPage /\ DOMAIN w.entries = {} /\ OwnPages(w) = {} /\ Apart(w)
  BY NoSpaceFacts
<1>11. Placed("NONE", w, e, 0)
  BY DEF Placed
<1> HIDE DEF w, e
<1> DEFINE S == [space EXCEPT ![p] = m.space]
           H == [shmem EXCEPT ![p] = m.shmem]
<1>12. /\ space = [q \in Proc |-> space[q]] /\ shmem = [q \in Proc |-> shmem[q]]
  BY SInvFacts
<1>13. /\ S[p] = m.space /\ H[p] = m.shmem /\ H = [q \in Proc |-> H[q]]
       /\ [S EXCEPT ![p] = w] = space' /\ [H EXCEPT ![p] = e] = shmem'
  BY <1>1, <1>12
<1>14. World(m.space.free, lost, m.table, S, H)
  BY <1>4 DEF Held
<1>15. Covered(m.table, H) /\ (Exact(table, shmem) => Exact(m.table, H))
  BY <1>4, <1>6 DEF HeldExact
<1> HIDE DEF S, H
<1>16. /\ Covered(m.table, [H EXCEPT ![p] = e])
       /\ Pairs(H[p]) = {} /\ Exact(m.table, H) => Exact(m.table, [H EXCEPT ![p] = e])
  <2>1. \A y \in Pairs(m.table) : y[2].nrefs \in Nat
    <3> DEFINE V == Descriptor
    <3>1. Sane(m.table, V)
      BY <1>6
    <3> HIDE DEF V
    <3>2. \A y \in Pairs(m.table) : y[2] \in V
      BY <3>1, PairFacts
    <3> QED BY <3>2 DEF V, Descriptor
  <2> QED BY <1>9, <1>13, <1>15, <2>1, UsersLess
<1>17. World(F, lost, m.table, [S EXCEPT ![p] = w], [H EXCEPT ![p] = e])
  <2>1. F \in SUBSET Page
    <3>1. Parted(m.space.free, lost, PagesOf(m.table), S)
      BY <1>14 DEF World
    <3>2. OwnPages(m.space) \subseteq Page
      BY <3>1, <1>13 DEF Parted
    <3> QED BY <1>6, <1>8, <3>2
  <2>2. /\ F \cup PagesOf(m.table) \cup OwnPages(w) = m.space.free \cup PagesOf(m.table) \cup OwnPages(S[p])
        /\ F \cap PagesOf(m.table) = {} /\ F \cap OwnPages(w) = {}
        /\ PagesOf(m.table) \cap OwnPages(w) = {}
    BY <1>6, <1>8, <1>10, <1>13
  <2>3. Leads(e, w, m.table)
    BY <1>9, <1>10 DEF Leads
  <2>4. \A q \in Proc : q # p => \A x \in Pairs(H[q]), y \in Pairs(m.table) : y[1] = x[1] =>
               \E z \in Pairs(m.table) : z[1] = y[1] /\ z[2].page = y[2].page
    OBVIOUS
  <2>5. Sane(m.table, Descriptor) /\ m.table.failed = 0 /\ OneName(m.table)
    BY <1>6
  <2>6. Covered(m.table, [H EXCEPT ![p] = e])
    BY <1>16
  <2> QED BY <1>9, <1>10, <1>14, <2>1, <2>2, <2>3, <2>4, <2>5, <2>6, WorldStep
<1>18. SInv'
  <2>1. 0 \in Nat
    OBVIOUS
  <2>2. World(free', lost', table', space', shmem')
    BY <1>1, <1>13, <1>17
  <2> QED BY <1>1, <1>11, <2>1, <2>2, SInvStep
<1>19. ASSUME Exact(table, shmem), Size(shmem[p]) = MinSize PROVE Exact(table', shmem')
  BY <1>1, <1>5, <1>13, <1>15, <1>16, <1>19
<1> QED BY <1>18, <1>19

\* Every step.
LEMMA SInvNext ==
  ASSUME SInv, [ShmNext]_shmVars
  PROVE  /\ SInv'
         /\ Exact(table, shmem) /\ (\A p \in Proc : state[p] = "ENDED" => Size(shmem[p]) = MinSize)
              => Exact(table', shmem')
<1> DEFINE Goal == /\ SInv'
                   /\ Exact(table, shmem)
                        /\ (\A p \in Proc : state[p] = "ENDED" => Size(shmem[p]) = MinSize)
                        => Exact(table', shmem')
<1>1. CASE UNCHANGED shmVars
  <2>1. /\ free' = free /\ table' = table /\ state' = state /\ space' = space
        /\ shmem' = shmem /\ shmIdx' = shmIdx /\ lost' = lost
    BY <1>1 DEF shmVars, procs
  <2>2. SInv'
    BY <2>1 DEF SInv
  <2> QED BY <2>1, <2>2
<1>2. ASSUME NEW p \in Proc, Start(p) \/ StartFails(p) \/ End(p) PROVE Goal
  <2>1. SInv' /\ table' = table /\ shmem' = shmem
    BY <1>2, StartStep, StartFailsStep, EndStep
  <2> QED BY <2>1
<1>3. ASSUME NEW p \in Proc, FreeProcess(p) PROVE Goal
  <2>1. state[p] = "ENDED"
    BY <1>3 DEF FreeProcess
  <2> QED BY <1>3, <2>1, FreeProcessStep
<1>4. ASSUME NEW p \in Proc, NEW k \in Key, NEW mem \in BOOLEAN, ShmCreate(p, k, mem) PROVE Goal
  <2>1. CASE mem
    BY <1>4, <2>1, ShmCreateStep
  <2>2. CASE ~ mem
    <3>1. SInv' /\ table' = table /\ shmem' = shmem
      BY <1>4, <2>2, ShmCreateFailsStep
    <3> QED BY <3>1
  <2> QED BY <2>1, <2>2
<1>5. ASSUME NEW p \in Proc, NEW k \in Key, ShmAcquire(p, k) PROVE Goal
  BY <1>5, ShmAcquireStep
<1>6. ASSUME NEW p \in Proc, NEW k \in Key, ShmRelease(p, k) PROVE Goal
  BY <1>6, ShmReleaseStep
<1>7. ASSUME NEW p \in Proc, NEW k \in Key, ShmPanics(p, k) PROVE Goal
  <2>1. SInv' /\ table' = table /\ shmem' = shmem
    BY <1>7, ShmPanicsStep
  <2> QED BY <2>1
<1>8. ASSUME NEW p \in Proc, NEW q \in Proc, StartPanics(p, q) PROVE Goal
  <2>1. SInv' /\ table' = table /\ shmem' = shmem
    BY <1>8, StartPanicsStep
  <2> QED BY <2>1
<1>9. CASE ShmNext
  BY <1>2, <1>3, <1>4, <1>5, <1>6, <1>7, <1>8, <1>9 DEF ShmNext
<1> QED BY <1>1, <1>9

\* The invariant holds.
LEMMA SInvHolds == ShmSpec => []SInv
<1>1. ShmInit => SInv
  BY SInvInit
<1>2. SInv /\ [ShmNext]_shmVars => SInv'
  BY SInvNext
<1> QED BY <1>1, <1>2, PTL DEF ShmSpec

-----------------------------------------------------------------------------
(* What the invariant says of the properties of module SharedProps. *)

\* The names in a table, and what it has for them.
LEMMA NamesFacts ==
  ASSUME NEW V, NEW t, Sane(t, V)
  PROVE  /\ \A k : k \in Names(t) <=> \E x \in Pairs(t) : x[1] = k
         /\ \A k \in Names(t) : k \in Key /\ Get(t, k) \in V /\ <<k, Get(t, k)>> \in Pairs(t)
         /\ \A x \in Pairs(t) : x[2] = Get(t, x[1])
         /\ \A k \in Key : k \in Names(t) <=> IsSet(t, k)
<1>1. \A x : x \in Pairs(t) <=> x \in Range(t.slots) /\ Active(x)
  BY DEF Pairs, Used, Range
<1>2. \A k : k \in Names(t) <=> \E x \in Pairs(t) : x[1] = k
  BY <1>1 DEF Names
<1>3. /\ \A x \in Pairs(t) : x[1] \in Key
      /\ \A x, y \in Pairs(t) : x[1] = y[1] => x = y
      /\ \A k \in Key : IsSet(t, k) <=> \E x \in Pairs(t) : x[1] = k
      /\ \A k \in Key : IsSet(t, k) => <<k, Get(t, k)>> \in Pairs(t) /\ Get(t, k) \in V
  BY PairFacts
<1>4. \A k \in Names(t) : k \in Key /\ Get(t, k) \in V /\ <<k, Get(t, k)>> \in Pairs(t)
  BY <1>2, <1>3
<1>5. ASSUME NEW x \in Pairs(t) PROVE x[2] = Get(t, x[1])
  <2> DEFINE k == x[1]
             y == <<k, Get(t, k)>>
  <2>1. y \in Pairs(t)
    BY <1>3
  <2>2. y[1] = x[1] /\ y[2] = Get(t, k)
    OBVIOUS
  <2> HIDE DEF y
  <2>3. x = y
    BY <1>3, <2>1, <2>2
  <2> QED BY <2>2, <2>3
<1> QED BY <1>2, <1>3, <1>4, <1>5

\* A use is one of the page that it names first.
LEMMA UseIs ==
  ASSUME NEW q, NEW a, NEW b, NEW c, NEW S, <<q, a, b, c>> \in S
  PROVE  \E u \in S : u[1] = q
<1> DEFINE u == <<q, a, b, c>>
<1>1. u \in S /\ u[1] = q
  OBVIOUS
<1> QED BY <1>1

\* Each page that a space owns has one use there.
LEMMA UsesOfFacts ==
  ASSUME SInv, NEW p \in Proc
  PROVE  /\ \A u \in UsesOf(p) : u[1] \in OwnPages(space[p])
         /\ \A q \in OwnPages(space[p]) : \E u \in UsesOf(p) : u[1] = q
         /\ \A u, w \in UsesOf(p) : u[1] = w[1] => u = w
<1> DEFINE s == space[p]
<1>1. s \in Spaces /\ Apart(s)
  BY SInvFacts
<1>2. DOMAIN s.entries \ Addresses(p) = Low(s)
  <2>1. s.entries \in Maps
    BY <1>1, SpaceFields
  <2>2. \A v \in DOMAIN s.entries : v \in Nat
    BY <2>1, MapFacts
  <2>3. UserStack \in Nat
    BY AddressFacts
  <2> QED BY <2>2, <2>3 DEF Addresses, Low
<1>3. CASE s.pdir = NoPage
  BY <1>3 DEF UsesOf, OwnPages
<1>4. CASE s.pdir # NoPage
  <2> DEFINE A == {<<q, p, "kstack", 0>> : q \in s.kstack}
             B == {<<s.tables[d], p, "table", d>> : d \in DOMAIN s.tables}
             C == {<<s.entries[v], p, "page", v>> : v \in Low(s)}
             e == <<s.pdir, p, "directory", 0>>
  <2>1. UsesOf(p) = {e} \cup A \cup B \cup C
    BY <1>2, <1>4 DEF UsesOf
  <2>2. OwnPages(s) = {s.pdir} \cup s.kstack \cup {s.tables[d] : d \in DOMAIN s.tables}
                        \cup {s.entries[v] : v \in Low(s)}
    BY <1>4 DEF OwnPages
  <2>3. e[1] = s.pdir
    OBVIOUS
  <2>4. /\ \A u \in A : u[1] \in s.kstack /\ u = <<u[1], p, "kstack", 0>>
        /\ \A q \in s.kstack : \E u \in A : u[1] = q
    <3>1. \A u \in A : u[1] \in s.kstack /\ u = <<u[1], p, "kstack", 0>>
      OBVIOUS
    <3>2. ASSUME NEW q \in s.kstack PROVE \E u \in A : u[1] = q
      <4>1. <<q, p, "kstack", 0>> \in A
        OBVIOUS
      <4> QED BY <4>1, UseIs
    <3> QED BY <3>1, <3>2
  <2>5. /\ \A u \in B : \E d \in DOMAIN s.tables : u[1] = s.tables[d] /\ u = <<s.tables[d], p, "table", d>>
        /\ \A d \in DOMAIN s.tables : \E u \in B : u[1] = s.tables[d]
    <3>1. \A u \in B : \E d \in DOMAIN s.tables : u[1] = s.tables[d] /\ u = <<s.tables[d], p, "table", d>>
      OBVIOUS
    <3>2. ASSUME NEW d \in DOMAIN s.tables PROVE \E u \in B : u[1] = s.tables[d]
      <4>1. <<s.tables[d], p, "table", d>> \in B
        OBVIOUS
      <4> QED BY <4>1, UseIs
    <3> QED BY <3>1, <3>2
  <2>6. /\ \A u \in C : \E v \in Low(s) : u[1] = s.entries[v] /\ u = <<s.entries[v], p, "page", v>>
        /\ \A v \in Low(s) : \E u \in C : u[1] = s.entries[v]
    <3>1. \A u \in C : \E v \in Low(s) : u[1] = s.entries[v] /\ u = <<s.entries[v], p, "page", v>>
      OBVIOUS
    <3>2. ASSUME NEW v \in Low(s) PROVE \E u \in C : u[1] = s.entries[v]
      <4>1. <<s.entries[v], p, "page", v>> \in C
        OBVIOUS
      <4> QED BY <4>1, UseIs
    <3> QED BY <3>1, <3>2
  <2>7. /\ s.pdir \notin s.kstack
        /\ \A d \in DOMAIN s.tables :
             /\ s.tables[d] # s.pdir /\ s.tables[d] \notin s.kstack
             /\ \A f \in DOMAIN s.tables : s.tables[d] = s.tables[f] => d = f
             /\ \A v \in Low(s) : s.entries[v] # s.tables[d]
        /\ \A v \in Low(s) :
             /\ s.entries[v] # s.pdir /\ s.entries[v] \notin s.kstack
             /\ \A w \in Low(s) : s.entries[v] = s.entries[w] => v = w
    BY <1>1, <1>4 DEF Apart
  <2> HIDE DEF A, B, C, e
  <2>8. \A u \in UsesOf(p) : u[1] \in OwnPages(s)
    BY <2>1, <2>2, <2>3, <2>4, <2>5, <2>6
  <2>9. \A q \in OwnPages(s) : \E u \in UsesOf(p) : u[1] = q
    BY <2>1, <2>2, <2>3, <2>4, <2>5, <2>6
  <2>10. ASSUME NEW u \in UsesOf(p), NEW w \in UsesOf(p), u[1] = w[1] PROVE u = w
    <3>1. CASE u = e
      BY <3>1, <2>1, <2>3, <2>4, <2>5, <2>6, <2>7, <2>10
    <3>2. CASE u \in A
      BY <3>2, <2>1, <2>3, <2>4, <2>5, <2>6, <2>7, <2>10
    <3>3. CASE u \in B
      BY <3>3, <2>1, <2>3, <2>4, <2>5, <2>6, <2>7, <2>10
    <3>4. CASE u \in C
      BY <3>4, <2>1, <2>3, <2>4, <2>5, <2>6, <2>7, <2>10
    <3> QED BY <2>1, <3>1, <3>2, <3>3, <3>4
  <2> QED BY <2>8, <2>9, <2>10
<1> QED BY <1>3, <1>4

\* So each page of the memory has one use.
LEMMA PagesCounted ==
  ASSUME SInv
  PROVE  PagesAccounted
<1> DEFINE A == {<<q, 0, "free", 0>> : q \in free}
           B == {<<q, 0, "lost", 0>> : q \in lost}
           C == {<<SharedPage(k), 0, k, 0>> : k \in Names(table)}
           D == UNION {UsesOf(p) : p \in Proc}
           P == PagesOf(table)
<1>1. Uses = A \cup B \cup C \cup D
  BY DEF Uses
<1>2. /\ Sane(table, Descriptor) /\ OneName(table)
      /\ free \cup lost \cup P \cup UNION {OwnPages(space[p]) : p \in Proc} = Page
      /\ free \cap lost = {} /\ free \cap P = {} /\ lost \cap P = {}
      /\ \A p \in Proc : OwnPages(space[p]) \cap (free \cup lost \cup P) = {}
      /\ \A p \in Proc : \A q \in Proc : p # q => OwnPages(space[p]) \cap OwnPages(space[q]) = {}
  <2>1. World(free, lost, table, space, shmem)
    BY DEF SInv
  <2>2. Parted(free, lost, PagesOf(table), space)
    BY <2>1 DEF World
  <2> QED BY <2>1, <2>2 DEF World, Parted
<1>3. /\ \A u \in A : u[1] \in free /\ u = <<u[1], 0, "free", 0>>
      /\ \A q \in free : \E u \in A : u[1] = q
  <2>1. \A u \in A : u[1] \in free /\ u = <<u[1], 0, "free", 0>>
    OBVIOUS
  <2>2. ASSUME NEW q \in free PROVE \E u \in A : u[1] = q
    <3>1. <<q, 0, "free", 0>> \in A
      OBVIOUS
    <3> QED BY <3>1, UseIs
  <2> QED BY <2>1, <2>2
<1>4. /\ \A u \in B : u[1] \in lost /\ u = <<u[1], 0, "lost", 0>>
      /\ \A q \in lost : \E u \in B : u[1] = q
  <2>1. \A u \in B : u[1] \in lost /\ u = <<u[1], 0, "lost", 0>>
    OBVIOUS
  <2>2. ASSUME NEW q \in lost PROVE \E u \in B : u[1] = q
    <3>1. <<q, 0, "lost", 0>> \in B
      OBVIOUS
    <3> QED BY <3>1, UseIs
  <2> QED BY <2>1, <2>2
<1>5. /\ \A k : k \in Names(table) <=> \E x \in Pairs(table) : x[1] = k
      /\ \A k \in Names(table) : <<k, Get(table, k)>> \in Pairs(table)
      /\ \A x \in Pairs(table) : x[2] = Get(table, x[1])
  <2> DEFINE V == Descriptor
  <2>1. Sane(table, V)
    BY <1>2
  <2> HIDE DEF V
  <2> QED BY <2>1, NamesFacts
<1>6. /\ \A u \in C : \E x \in Pairs(table) : u[1] = x[2].page /\ u = <<x[2].page, 0, x[1], 0>>
      /\ \A x \in Pairs(table) : \E u \in C : u[1] = x[2].page
  <2>1. ASSUME NEW u \in C
        PROVE  \E x \in Pairs(table) : u[1] = x[2].page /\ u = <<x[2].page, 0, x[1], 0>>
    <3>1. PICK k \in Names(table) : u = <<SharedPage(k), 0, k, 0>>
      OBVIOUS
    <3>2. PICK x \in Pairs(table) : x[1] = k
      BY <1>5
    <3>3. x[2].page = SharedPage(k)
      BY <1>5, <3>2 DEF SharedPage
    <3> QED BY <3>1, <3>2, <3>3
  <2>2. ASSUME NEW x \in Pairs(table) PROVE \E u \in C : u[1] = x[2].page
    <3>1. x[1] \in Names(table) /\ x[2].page = SharedPage(x[1])
      BY <1>5 DEF SharedPage
    <3>2. <<SharedPage(x[1]), 0, x[1], 0>> \in C
      BY <3>1
    <3> HIDE DEF C
    <3> QED BY <3>1, <3>2, UseIs
  <2> QED BY <2>1, <2>2
<1>7. \A q : q \in P <=> \E x \in Pairs(table) : x[2].page = q
  BY DEF PagesOf
<1>8. /\ \A u \in D : \E p \in Proc : u \in UsesOf(p) /\ u[1] \in OwnPages(space[p])
      /\ \A p \in Proc : \A q \in OwnPages(space[p]) : \E u \in D : u[1] = q
  BY UsesOfFacts
<1> HIDE DEF A, B, C, D, P
<1>9. \A u \in Uses : u[1] \in Page
  BY <1>1, <1>2, <1>3, <1>4, <1>6, <1>7, <1>8
<1>10. ASSUME NEW q \in Page PROVE \E u \in Uses : u[1] = q
  <2>1. CASE q \in free \cup lost \cup P
    BY <2>1, <1>1, <1>3, <1>4, <1>6, <1>7
  <2>2. CASE q \in UNION {OwnPages(space[p]) : p \in Proc}
    BY <2>2, <1>1, <1>8
  <2> QED BY <2>1, <2>2, <1>2
<1>11. ASSUME NEW u \in Uses, NEW w \in Uses, u[1] = w[1] PROVE u = w
  <2>1. CASE u[1] \in free
    <3>1. ASSUME NEW z \in Uses, z[1] \in free PROVE z = <<z[1], 0, "free", 0>>
      BY <3>1, <1>1, <1>2, <1>3, <1>4, <1>6, <1>7, <1>8
    <3> QED BY <2>1, <3>1, <1>11
  <2>2. CASE u[1] \in lost
    <3>1. ASSUME NEW z \in Uses, z[1] \in lost PROVE z = <<z[1], 0, "lost", 0>>
      BY <3>1, <1>1, <1>2, <1>3, <1>4, <1>6, <1>7, <1>8
    <3> QED BY <2>2, <3>1, <1>11
  <2>3. CASE u[1] \in P
    <3>1. ASSUME NEW z \in Uses, z[1] \in P
          PROVE  \E x \in Pairs(table) : z[1] = x[2].page /\ z = <<x[2].page, 0, x[1], 0>>
      BY <3>1, <1>1, <1>2, <1>3, <1>4, <1>6, <1>7, <1>8
    <3>2. PICK x \in Pairs(table) : u[1] = x[2].page /\ u = <<x[2].page, 0, x[1], 0>>
      BY <2>3, <3>1
    <3>3. PICK y \in Pairs(table) : w[1] = y[2].page /\ w = <<y[2].page, 0, y[1], 0>>
      BY <2>3, <3>1, <1>11
    <3>4. x = y
      BY <3>2, <3>3, <1>2, <1>11 DEF OneName
    <3> QED BY <3>2, <3>3, <3>4
  <2>4. CASE u[1] \notin free \cup lost \cup P
    <3>1. u \in D /\ w \in D
      BY <2>4, <1>1, <1>3, <1>4, <1>6, <1>7, <1>11
    <3>2. PICK p \in Proc : u \in UsesOf(p) /\ u[1] \in OwnPages(space[p])
      BY <3>1, <1>8
    <3>3. PICK q \in Proc : w \in UsesOf(q) /\ w[1] \in OwnPages(space[q])
      BY <3>1, <1>8
    <3>4. p = q
      BY <3>2, <3>3, <1>2, <1>11
    <3> QED BY <3>2, <3>3, <3>4, <1>11, UsesOfFacts
  <2> QED BY <2>1, <2>2, <2>3, <2>4
<1>12. Page = {u[1] : u \in Uses}
  BY <1>9, <1>10
<1>13. Cardinality(Uses) = NbPages
  <2> DEFINE U == Uses
             Q == Page
             f == [u \in U |-> u[1]]
  <2>1. f \in Injection(U, Q) /\ f \in Surjection(U, Q)
    BY <1>9, <1>10, <1>11 DEF Injection, Surjection, IsInjective
  <2>2. IsFiniteSet(Q) /\ Cardinality(Q) = NbPages
    <3>1. NbPages \in Nat \ {0}
      BY VirtualAssumption
    <3> QED BY <3>1, FS_Interval DEF Page
  <2> HIDE DEF U, Q, f
  <2>3. Cardinality(U) = Cardinality(Q)
    BY <2>1, <2>2, FS_Injection
  <2> QED BY <2>2, <2>3 DEF U, Q
<1> QED BY <1>12, <1>13 DEF PagesAccounted

\* Every page of physical memory is free, lost, shared or in one process, for
\* one use, whatever processes are started, map pages and are freed, and
\* whatever calls of start, shm_create and shm_acquire end their caller by a
\* page fault.  The layout may be any where stack and code do not overlap;
\* stacks and programs have one size for all processes.
THEOREM PagesAccountedHolds == ShmSpec => []PagesAccounted
BY PagesCounted, SInvHolds, PTL

\* The page tables of a process lead from the addresses in its table to the
\* pages of the same names, and nowhere else above its stack.
AddressesLead ==
  \A p \in Proc :
    /\ Names(shmem[p]) \subseteq Names(table)
    /\ Addresses(p) = {Get(shmem[p], k) : k \in Names(shmem[p])}
    /\ \A k \in Names(shmem[p]) : space[p].entries[Get(shmem[p], k)] = SharedPage(k)

\* What is known of the names in the table of shared pages.
LEMMA SharedNames ==
  ASSUME SInv
  PROVE  /\ \A k : k \in Names(table) <=> \E x \in Pairs(table) : x[1] = k
         /\ \A k \in Names(table) : <<k, Get(table, k)>> \in Pairs(table)
         /\ \A x \in Pairs(table) : x[2] = Get(table, x[1])
         /\ \A k \in Key : k \in Names(table) <=> IsSet(table, k)
<1> DEFINE V == Descriptor
<1>1. Sane(table, V)
  BY DEF SInv, World
<1> HIDE DEF V
<1> QED BY <1>1, NamesFacts

\* And of those in the table of a process.
LEMMA OwnNames ==
  ASSUME SInv, NEW p \in Proc
  PROVE  /\ \A k : k \in Names(shmem[p]) <=> \E x \in Pairs(shmem[p]) : x[1] = k
         /\ \A k \in Names(shmem[p]) : k \in Key /\ <<k, Get(shmem[p], k)>> \in Pairs(shmem[p])
         /\ \A x \in Pairs(shmem[p]) : x[2] = Get(shmem[p], x[1])
         /\ \A k \in Key : k \in Names(shmem[p]) <=> IsSet(shmem[p], k)
<1> DEFINE V == Nat
           t == shmem[p]
<1>1. Sane(t, V)
  BY SInvFacts
<1> HIDE DEF V, t
<1> QED BY <1>1, NamesFacts DEF t

\* Placed, for every process, is AddressesLead.
LEMMA LeadsFacts ==
  ASSUME SInv
  PROVE  AddressesLead
<1>1. SUFFICES ASSUME NEW p \in Proc
               PROVE  /\ Names(shmem[p]) \subseteq Names(table)
                      /\ Addresses(p) = {Get(shmem[p], k) : k \in Names(shmem[p])}
                      /\ \A k \in Names(shmem[p]) :
                           space[p].entries[Get(shmem[p], k)] = SharedPage(k)
  BY DEF AddressesLead
<1> DEFINE h == shmem[p]
           s == space[p]
<1>2. Leads(h, s, table)
  BY SInvFacts
<1>3. /\ \A k : k \in Names(table) <=> \E x \in Pairs(table) : x[1] = k
      /\ \A x \in Pairs(table) : x[2] = Get(table, x[1])
  BY SharedNames
<1>4. /\ \A k : k \in Names(h) <=> \E x \in Pairs(h) : x[1] = k
      /\ \A x \in Pairs(h) : x[2] = Get(h, x[1])
  BY OwnNames
<1> HIDE DEF h, s
<1>5. ASSUME NEW x \in Pairs(h)
      PROVE  /\ x[2] \in DOMAIN s.entries /\ x[2] >= UserStack
             /\ x[1] \in Names(table) /\ s.entries[x[2]] = SharedPage(x[1])
  <2>1. /\ x[2] \in DOMAIN s.entries /\ x[2] >= UserStack
        /\ \E y \in Pairs(table) : y[1] = x[1] /\ s.entries[x[2]] = y[2].page
    BY <1>2 DEF Leads
  <2> QED BY <2>1, <1>3 DEF SharedPage
<1>6. Names(h) \subseteq Names(table)
  BY <1>4, <1>5
<1>7. \A k \in Names(h) : s.entries[Get(h, k)] = SharedPage(k)
  BY <1>4, <1>5
<1>8. \A v : v \in Addresses(p) <=> v \in DOMAIN s.entries /\ v >= UserStack
  BY DEF Addresses, s
<1>9. \A v \in Addresses(p) : \E k \in Names(h) : Get(h, k) = v
  BY <1>2, <1>4, <1>8 DEF Leads
<1>10. \A k \in Names(h) : Get(h, k) \in Addresses(p)
  BY <1>4, <1>5, <1>8
<1>11. Addresses(p) = {Get(h, k) : k \in Names(h)}
  BY <1>9, <1>10
<1> QED BY <1>6, <1>7, <1>11 DEF h, s

\* The counts are those of the users.
LEMMA RefsFacts ==
  ASSUME SInv, Exact(table, shmem)
  PROVE  RefsCounted
<1>1. ASSUME NEW k \in Names(table)
      PROVE  Get(table, k).nrefs = Cardinality({p \in Proc : k \in Names(shmem[p])})
  <2> DEFINE y == <<k, Get(table, k)>>
  <2>1. y \in Pairs(table) /\ y[1] = k /\ y[2] = Get(table, k)
    BY SharedNames
  <2> HIDE DEF y
  <2>2. Get(table, k).nrefs = Cardinality(Users(k, shmem))
    BY <2>1 DEF Exact
  <2>3. \A p \in Proc : k \in Names(shmem[p]) <=> \E x \in Pairs(shmem[p]) : x[1] = k
    BY OwnNames
  <2>4. Users(k, shmem) = {p \in Proc : k \in Names(shmem[p])}
    BY <2>3 DEF Users
  <2> QED BY <2>2, <2>4
<1>2. AddressesLead
  BY LeadsFacts
<1> QED BY <1>1, <1>2 DEF RefsCounted, AddressesLead

\* The second half of RefsCounted, however large the tables of the processes
\* grow: the table of the kernel, those of the processes and their page tables
\* agree.
THEOREM AddressesLeadHolds == ShmSpec => []AddressesLead
BY LeadsFacts, SInvHolds, PTL

\* free_process_shmem misses slots when a deletion halves the table it walks.
\* That cannot happen when the table of a process that ends never grew.
EndsSmall == \A p \in Proc : state[p] = "ENDED" => Size(shmem[p]) = MinSize

\* A page is counted once for each process that has it mapped, in every
\* behaviour where the tables of the processes that end have the smallest size.
THEOREM RefsWhileSmall == ShmSpec /\ []EndsSmall => []RefsCounted
<1> DEFINE I == SInv /\ Exact(table, shmem)
<1>1. ShmInit => I
  BY SInvInit
<1>2. I /\ EndsSmall /\ [ShmNext]_shmVars => I'
  BY SInvNext DEF EndsSmall
<1>3. I => RefsCounted
  BY RefsFacts
<1> QED BY <1>1, <1>2, <1>3, PTL DEF ShmSpec

\* A table stays that small while two thirds of it are not filled.
LEMMA SetSmall ==
  ASSUME NEW V, NEW t, Sane(t, V), NEW k \in Key, NEW v \in V, ~ IsSet(t, k),
         Size(t) = MinSize, 3 * (t.fill + 1) < 2 * MinSize, NEW mem \in BOOLEAN
  PROVE  LET u == Set(t, k, v, mem) IN
         Size(u) = MinSize /\ (u.fill = t.fill \/ u.fill = t.fill + 1)
<1> DEFINE w == Insert(t, k, v)
           u == Set(t, k, v, mem)
<1>1. /\ Well(t, V) /\ Gap(t) /\ t.fill \in Nat /\ MinSize \in Nat
  BY SaneGap
<1>2. Absent(t, k)
  BY HasFacts
<1>3. Size(w) = MinSize /\ (w.fill = t.fill \/ w.fill = t.fill + 1)
  BY <1>1, <1>2, InsertFacts
<1>4. u = Update(w, mem)
  BY DEF Set
<1> HIDE DEF w
<1>5. NewSize(w) = Size(w)
  BY <1>1, <1>3 DEF NewSize
<1> QED BY <1>3, <1>4, <1>5 DEF Update

\* The tables of the processes are small, and a slot of them was filled only
\* for an address that the process was given.
Small == \A p \in Proc : Size(shmem[p]) = MinSize /\ shmem[p].fill <= shmIdx[p]

\* No process is given so many addresses that its table grows.
FewShared == \A p \in Proc : 3 * shmIdx[p] < 2 * MinSize

\* Such a step of one process.
LEMMA SmallStep ==
  ASSUME SInv, Small, NEW p \in Proc, NEW h, NEW n, Size(h) = MinSize, h.fill <= n,
         shmem' = [shmem EXCEPT ![p] = h], shmIdx' = [shmIdx EXCEPT ![p] = n]
  PROVE  Small'
<1>1. /\ shmem = [q \in Proc |-> shmem[q]] /\ shmIdx = [q \in Proc |-> shmIdx[q]]
  BY SInvFacts
<1>2. /\ shmem'[p] = h /\ shmIdx'[p] = n
      /\ \A q \in Proc : q # p => shmem'[q] = shmem[q] /\ shmIdx'[q] = shmIdx[q]
  BY <1>1
<1> QED BY <1>2 DEF Small

\* A page is mapped at the next address.
LEMMA SmallMore ==
  ASSUME SInv, Small, FewShared', NEW p \in Proc, NEW k \in Key, ~ IsSet(shmem[p], k), NEW v \in Nat,
         shmem' = [shmem EXCEPT ![p] = Set(shmem[p], k, v, TRUE)],
         shmIdx' = [shmIdx EXCEPT ![p] = shmIdx[p] + 1]
  PROVE  Small'
<1> DEFINE t == shmem[p]
           i == shmIdx[p]
           V == Nat
           n == i + 1
           u == Set(t, k, v, TRUE)
<1>1. /\ Sane(t, V) /\ i \in Nat /\ shmIdx = [q \in Proc |-> shmIdx[q]]
  BY SInvFacts
<1>2. Size(t) = MinSize /\ t.fill <= i /\ ~ IsSet(t, k) /\ v \in V
  BY DEF Small
<1>3. 3 * n < 2 * MinSize
  BY <1>1 DEF FewShared
<1>4. u = Set(t, k, v, TRUE)
  OBVIOUS
<1> HIDE DEF t, i, V, u
<1>5. t.fill \in Nat /\ MinSize \in Nat
  BY <1>1, SaneGap
<1>6. 3 * (t.fill + 1) < 2 * MinSize
  BY <1>1, <1>2, <1>3, <1>5
<1>7. Size(u) = MinSize /\ (u.fill = t.fill \/ u.fill = t.fill + 1)
  <2>1. ASSUME NEW mem \in BOOLEAN
        PROVE  LET w == Set(t, k, v, mem) IN
               Size(w) = MinSize /\ (w.fill = t.fill \/ w.fill = t.fill + 1)
    BY <1>1, <1>2, <1>6, SetSmall
  <2>2. TRUE \in BOOLEAN
    OBVIOUS
  <2> QED BY <1>4, <2>1, <2>2
<1>8. u.fill <= n
  BY <1>1, <1>2, <1>5, <1>7
<1>9. shmem' = [shmem EXCEPT ![p] = u] /\ shmIdx' = [shmIdx EXCEPT ![p] = n]
  BY DEF u, t, i
<1> HIDE DEF n
<1> QED BY <1>7, <1>8, <1>9, SmallStep

\* Every step.
LEMMA SmallNext ==
  ASSUME SInv, Small, FewShared', [ShmNext]_shmVars
  PROVE  Small'
<1>1. CASE UNCHANGED shmVars
  BY <1>1 DEF shmVars, procs, Small
<1>2. ASSUME NEW p \in Proc, Start(p) \/ FreeProcess(p) PROVE Small'
  <2> DEFINE e == Fresh(MinSize)
  <2>1. Size(e) = MinSize /\ e.fill <= 0
    BY NewTable
  <2>2. shmem' = [shmem EXCEPT ![p] = e] /\ shmIdx' = [shmIdx EXCEPT ![p] = 0]
    BY <1>2 DEF Start, FreeProcess
  <2> HIDE DEF e
  <2> QED BY <2>1, <2>2, SmallStep
<1>3. ASSUME NEW p \in Proc, NEW q \in Proc, StartFails(p) \/ End(p) \/ StartPanics(p, q)
      PROVE  Small'
  <2>1. shmem' = shmem /\ shmIdx' = shmIdx
    BY <1>3 DEF StartFails, End, StartPanics, procs
  <2> QED BY <2>1 DEF Small
<1>4. ASSUME NEW p \in Proc, NEW k \in Key, NEW mem \in BOOLEAN, ShmCreate(p, k, mem) PROVE Small'
  <2>1. shmIdx' = [shmIdx EXCEPT ![p] = shmIdx[p] + 1] /\ ~ IsSet(table, k)
    BY <1>4 DEF ShmCreate
  <2>2. CASE mem
    <3> DEFINE v == NextVpage(p)
    <3>1. shmem' = [shmem EXCEPT ![p] = Set(shmem[p], k, v, TRUE)]
      BY <1>4, <2>2 DEF ShmCreate
    <3>2. v \in Nat
      BY SInvFacts, AddressFacts DEF NextVpage
    <3>3. ~ IsSet(shmem[p], k)
      <4>1. k \notin Names(table) /\ Names(shmem[p]) \subseteq Names(table)
        BY <2>1, SharedNames, LeadsFacts DEF AddressesLead
      <4> QED BY <4>1, OwnNames
    <3> HIDE DEF v
    <3> QED BY <2>1, <3>1, <3>2, <3>3, SmallMore
  <2>3. CASE ~ mem
    <3> DEFINE t == shmem[p]
               n == shmIdx[p] + 1
    <3>1. shmem' = shmem
      BY <1>4, <2>3 DEF ShmCreate
    <3>2. /\ shmem = [q \in Proc |-> shmem[q]] /\ shmIdx[p] \in Nat
          /\ t.fill \in Nat /\ Size(t) = MinSize /\ t.fill <= shmIdx[p]
      BY SInvFacts, SaneGap DEF Small
    <3>3. t.fill <= n /\ shmem' = [shmem EXCEPT ![p] = t]
      BY <3>1, <3>2
    <3> HIDE DEF t
    <3> QED BY <2>1, <3>2, <3>3, SmallStep
  <2> QED BY <2>2, <2>3
<1>5. ASSUME NEW p \in Proc, NEW k \in Key, ShmAcquire(p, k) PROVE Small'
  <2> DEFINE v == NextVpage(p)
  <2>1. /\ shmIdx' = [shmIdx EXCEPT ![p] = shmIdx[p] + 1] /\ ~ IsSet(shmem[p], k)
        /\ shmem' = [shmem EXCEPT ![p] = Set(shmem[p], k, v, TRUE)]
    BY <1>5 DEF ShmAcquire
  <2>2. v \in Nat
    BY SInvFacts, AddressFacts DEF NextVpage
  <2> HIDE DEF v
  <2> QED BY <2>1, <2>2, SmallMore
<1>6. ASSUME NEW p \in Proc, NEW k \in Key, ShmRelease(p, k) PROVE Small'
  <2> DEFINE a == Mappings(p)
             m == Released(a, k)
             t == shmem[p]
             h == m.shmem
             n == shmIdx[p]
  <2>1. Held(a, lost, space, shmem, p) /\ a.shmem = t
    BY MappingsFacts
  <2>2. /\ shmem' = [shmem EXCEPT ![p] = h] /\ shmIdx' = shmIdx
    BY <1>6 DEF ShmRelease
  <2> HIDE DEF a
  <2>3. h = t \/ (IsSet(t, k) /\ h = Del(t, k, TRUE))
    BY <2>1, ReleasedFacts DEF Releases
  <2>4. /\ shmIdx = [q \in Proc |-> shmIdx[q]] /\ Sane(t, Nat) /\ t.failed = 0
        /\ Size(t) = MinSize /\ t.fill <= n
    BY SInvFacts DEF Small
  <2>5. shmIdx' = [shmIdx EXCEPT ![p] = n]
    BY <2>2, <2>4
  <2> HIDE DEF t, h, n, m
  <2>6. Size(h) = MinSize /\ h.fill = t.fill
    <3>1. CASE h = t
      BY <3>1, <2>4
    <3>2. CASE IsSet(t, k) /\ h = Del(t, k, TRUE)
      BY <3>2, <2>4, DelSmall
    <3> QED BY <2>3, <3>1, <3>2
  <2> QED BY <2>2, <2>4, <2>5, <2>6, SmallStep
<1>7. ASSUME NEW p \in Proc, NEW k \in Key, ShmPanics(p, k) PROVE Small'
  <2> DEFINE t == shmem[p]
             n == shmIdx[p] + 1
  <2>1. shmem' = shmem /\ shmIdx' = [shmIdx EXCEPT ![p] = n]
    BY <1>7 DEF ShmPanics
  <2>2. /\ Sane(t, Nat) /\ shmem = [q \in Proc |-> shmem[q]]
        /\ shmIdx[p] \in Nat
    BY SInvFacts
  <2>3. Size(t) = MinSize /\ t.fill <= shmIdx[p] /\ t.fill \in Nat
    BY <2>2, SaneGap DEF Small
  <2>4. t.fill <= n
    BY <2>2, <2>3
  <2>5. shmem' = [shmem EXCEPT ![p] = t]
    BY <2>1, <2>2
  <2> HIDE DEF t, n
  <2> QED BY <2>1, <2>3, <2>4, <2>5, SmallStep
<1>8. CASE ShmNext
  BY <1>2, <1>3, <1>4, <1>5, <1>6, <1>7, <1>8 DEF ShmNext
<1> QED BY <1>1, <1>8

\* A process that has been given fewer addresses than two thirds of
\* HASH_MINSIZE has a table that never grew; so, where that is all that processes
\* ask for, as on the instance that is checked, references are counted.
THEOREM RefsWhileFew == ShmSpec /\ []FewShared => []RefsCounted
<1> DEFINE I == SInv /\ Small
<1>1. ShmInit => I
  <2> SUFFICES ASSUME ShmInit PROVE Small
    BY SInvInit
  <2>1. \A p \in Proc : shmem[p] = Fresh(MinSize) /\ shmIdx[p] = 0
    BY DEF ShmInit
  <2>2. Size(Fresh(MinSize)) = MinSize /\ Fresh(MinSize).fill <= 0
    BY NewTable
  <2> QED BY <2>1, <2>2 DEF Small
<1>2. I /\ FewShared' /\ [ShmNext]_shmVars => I'
  BY SInvNext, SmallNext
<1>3. I => EndsSmall
  BY DEF Small, EndsSmall
<1>4. ShmSpec /\ []FewShared => []EndsSmall
  BY <1>1, <1>2, <1>3, PTL DEF ShmSpec
<1> QED BY <1>4, RefsWhileSmall, PTL

-----------------------------------------------------------------------------
(* The promise to programs. *)

\* A table of addresses, read backwards, and what processes see.
Flip(P) == [v \in {x[2] : x \in P} |-> (CHOOSE x \in P : x[2] = v)[1]]
Flips   == [p \in Proc |-> Flip(Pairs(shmem[p]))]

OneAddress(P) == \A x, y \in P : x[2] = y[2] => x = y

\* A function is that table read backwards if it leads from each address to its name.
LEMMA FlipIs ==
  ASSUME NEW P, OneAddress(P), NEW d, d = [v \in DOMAIN d |-> d[v]],
         DOMAIN d = {x[2] : x \in P}, \A x \in P : d[x[2]] = x[1]
  PROVE  Flip(P) = d
<1>1. ASSUME NEW v \in DOMAIN d PROVE (CHOOSE x \in P : x[2] = v)[1] = d[v]
  <2> DEFINE x == CHOOSE y \in P : y[2] = v
  <2>1. x \in P /\ x[2] = v
    <3>1. \E y \in P : y[2] = v
      OBVIOUS
    <3> QED BY <3>1
  <2> HIDE DEF x
  <2>2. x[1] = d[v]
    BY <2>1
  <2> QED BY <2>2 DEF x
<1> QED BY <1>1 DEF Flip

\* As the table itself read backwards does.
LEMMA FlipFacts ==
  ASSUME NEW P, OneAddress(P)
  PROVE  /\ Flip(P) = [v \in DOMAIN Flip(P) |-> Flip(P)[v]]
         /\ DOMAIN Flip(P) = {x[2] : x \in P}
         /\ \A x \in P : Flip(P)[x[2]] = x[1]
         /\ \A k : k \in Sharing!Range(Flip(P)) <=> \E x \in P : x[1] = k
<1> DEFINE f == Flip(P)
<1>1. f = [v \in DOMAIN f |-> f[v]] /\ DOMAIN f = {x[2] : x \in P}
  BY DEF Flip
<1>2. ASSUME NEW x \in P PROVE f[x[2]] = x[1]
  <2> DEFINE y == CHOOSE z \in P : z[2] = x[2]
  <2>1. y \in P /\ y[2] = x[2]
    OBVIOUS
  <2>2. f[x[2]] = y[1]
    BY DEF Flip
  <2> HIDE DEF y
  <2>3. y = x
    BY <2>1 DEF OneAddress
  <2> QED BY <2>2, <2>3
<1> HIDE DEF f
<1>3. \A k : k \in Sharing!Range(f) <=> \E x \in P : x[1] = k
  <2>1. \A k : k \in Sharing!Range(f) <=> \E v \in DOMAIN f : f[v] = k
    BY DEF Sharing!Range
  <2>2. \A v \in DOMAIN f : \E x \in P : x[2] = v
    BY <1>1
  <2> QED BY <1>1, <1>2, <2>1, <2>2
<1> QED BY <1>1, <1>2, <1>3 DEF f

\* What processes see is what their tables say.
ViewsKept == Views = Flips /\ \A p \in Proc : OneAddress(Pairs(shmem[p]))

\* ViewsKept follows from the invariant.
LEMMA ViewsAre ==
  ASSUME SInv
  PROVE  ViewsKept
<1>1. ASSUME NEW p \in Proc
      PROVE  /\ OneAddress(Pairs(shmem[p]))
             /\ [v \in Addresses(p) |-> KeyOf(space[p].entries[v])] = Flip(Pairs(shmem[p]))
  <2> DEFINE P == Pairs(shmem[p])
             s == space[p]
             d == [v \in Addresses(p) |-> KeyOf(s.entries[v])]
  <2>1. Leads(shmem[p], s, table) /\ OneName(table)
    BY SInvFacts
  <2>2. OneAddress(P)
    BY <2>1 DEF Leads, OneAddress
  <2>3. /\ \A x \in P : x[1] \in Names(shmem[p]) /\ x[2] = Get(shmem[p], x[1])
        /\ \A k \in Names(shmem[p]) : \E x \in P : x[1] = k
    BY OwnNames
  <2>4. /\ Names(shmem[p]) \subseteq Names(table)
        /\ Addresses(p) = {Get(shmem[p], k) : k \in Names(shmem[p])}
        /\ \A k \in Names(shmem[p]) : s.entries[Get(shmem[p], k)] = SharedPage(k)
    BY LeadsFacts DEF AddressesLead
  <2>5. ASSUME NEW k \in Names(table) PROVE KeyOf(SharedPage(k)) = k
    <3>1. ASSUME NEW i \in Names(table), NEW j \in Names(table), SharedPage(i) = SharedPage(j)
          PROVE  i = j
      <4>1. PICK x \in Pairs(table) : x[1] = i /\ x[2] = Get(table, i)
        BY SharedNames
      <4>2. PICK y \in Pairs(table) : y[1] = j /\ y[2] = Get(table, j)
        BY SharedNames
      <4> QED BY <2>1, <3>1, <4>1, <4>2 DEF OneName, SharedPage
    <3> QED BY <3>1 DEF KeyOf
  <2>6. DOMAIN d = {x[2] : x \in P}
    <3>1. {Get(shmem[p], k) : k \in Names(shmem[p])} = {x[2] : x \in P}
      BY <2>3
    <3> QED BY <2>4, <3>1
  <2>7. ASSUME NEW x \in P PROVE d[x[2]] = x[1]
    <3>1. x[2] \in Addresses(p) /\ x[1] \in Names(table) /\ s.entries[x[2]] = SharedPage(x[1])
      BY <2>3, <2>4
    <3> QED BY <2>5, <3>1
  <2>8. d = [v \in DOMAIN d |-> d[v]]
    OBVIOUS
  <2> HIDE DEF d, P
  <2>9. Flip(P) = d
    BY <2>2, <2>6, <2>7, <2>8, FlipIs
  <2> QED BY <2>2, <2>9 DEF d, P
<1> QED BY <1>1 DEF ViewsKept, Views, Flips

\* The names that a process sees are those in its table.
LEMMA SeesIs ==
  ASSUME SInv, NEW p \in Proc, NEW k \in Key
  PROVE  Sharing!Sees(p, k) <=> IsSet(shmem[p], k)
<1>1. Views[p] = Flip(Pairs(shmem[p])) /\ OneAddress(Pairs(shmem[p]))
  BY ViewsAre DEF ViewsKept, Flips
<1>2. k \in Sharing!Range(Views[p]) <=> \E x \in Pairs(shmem[p]) : x[1] = k
  BY <1>1, FlipFacts
<1>3. (\E x \in Pairs(shmem[p]) : x[1] = k) <=> IsSet(shmem[p], k)
  BY OwnNames
<1> QED BY <1>2, <1>3 DEF Sharing!Sees

\* The same after a step.
LEMMA ViewsAfter == SInv' => ViewsKept'
<1>1. SInv => ViewsKept
  BY ViewsAre
<1> QED BY <1>1, PTL

\* What they see after a step of one process.
LEMMA ViewsStep ==
  ASSUME SInv, SInv', NEW p \in Proc, NEW h, shmem' = [shmem EXCEPT ![p] = h]
  PROVE  /\ Views' = [Views EXCEPT ![p] = Flip(Pairs(h))]
         /\ Views[p] = Flip(Pairs(shmem[p]))
         /\ OneAddress(Pairs(shmem[p])) /\ OneAddress(Pairs(h))
<1>1. /\ Views = [q \in Proc |-> Flip(Pairs(shmem[q]))]
      /\ \A q \in Proc : OneAddress(Pairs(shmem[q]))
  BY ViewsAre DEF ViewsKept, Flips
<1>2. /\ Views' = [q \in Proc |-> Flip(Pairs(shmem'[q]))]
      /\ \A q \in Proc : OneAddress(Pairs(shmem'[q]))
  <2>1. ViewsKept'
    BY ViewsAfter
  <2> QED BY <2>1 DEF ViewsKept, Flips
<1>3. shmem = [q \in Proc |-> shmem[q]]
  BY SInvFacts
<1>4. shmem'[p] = h /\ \A q \in Proc : q # p => shmem'[q] = shmem[q]
  BY <1>3
<1>5. Views' = [Views EXCEPT ![p] = Flip(Pairs(h))]
  BY <1>1, <1>2, <1>4
<1> QED BY <1>1, <1>2, <1>4, <1>5

\* An address is given.
LEMMA GivenNext ==
  ASSUME SInv, NEW p \in Proc, shmIdx[p] < MaxPages,
         shmIdx' = [shmIdx EXCEPT ![p] = shmIdx[p] + 1]
  PROVE  Sharing!Given(p, NextVpage(p)) /\ NextVpage(p) \in UserStack..(UserStack + MaxPages - 1)
<1> DEFINE n == shmIdx[p]
           a == NextVpage(p)
           Past(i) == {UserStack + j : j \in 0..(i - 1)}
<1>1. /\ n \in Nat /\ shmIdx = [q \in Proc |-> shmIdx[q]]
      /\ UserStack \in Nat /\ MaxPages \in Nat
  BY SInvFacts, AddressFacts, SharedAssumption
<1>2. a = UserStack + n
  BY DEF NextVpage
<1>3. a \in UserStack..(UserStack + MaxPages - 1)
  BY <1>1, <1>2
<1>4. a \notin Past(n)
  BY <1>1, <1>2
<1>5. Past(n + 1) = Past(n) \cup {a}
  <2>1. 0..((n + 1) - 1) = 0..(n - 1) \cup {n}
    BY <1>1
  <2> QED BY <2>1, <1>2
<1>6. shmIdx'[p] = n + 1 /\ \A q \in Proc : q # p => shmIdx'[q] = shmIdx[q]
  BY <1>1
<1>7. Spent = [q \in Proc |-> Past(shmIdx[q])] /\ Spent' = [q \in Proc |-> Past(shmIdx'[q])]
  BY DEF Spent
<1> HIDE DEF a, Past
<1>8. Spent[p] = Past(n) /\ Spent' = [Spent EXCEPT ![p] = Spent[p] \cup {a}]
  BY <1>5, <1>6, <1>7
<1> QED BY <1>3, <1>4, <1>8 DEF Sharing!Given, a

\* A process sees one page more, or one less.
LEMMA FlipMore ==
  ASSUME NEW P, OneAddress(P), NEW k, NEW a, \A x \in P : x[1] # k, OneAddress(Bound(P, k, a))
  PROVE  Flip(Bound(P, k, a)) = Sharing!With(Flip(P), a, k)
<1> DEFINE f == Flip(P)
           Q == Bound(P, k, a)
           x0 == <<k, a>>
           d == Sharing!With(f, a, k)
<1>1. x0[1] = k /\ x0[2] = a /\ Q = P \cup {x0}
  BY DEF Bound, Others
<1> HIDE DEF x0, Q
<1>2. /\ DOMAIN f = {x[2] : x \in P}
      /\ \A x \in P : f[x[2]] = x[1]
  BY FlipFacts
<1> HIDE DEF f
<1>3. /\ d = [b \in DOMAIN d |-> d[b]] /\ DOMAIN d = DOMAIN f \cup {a}
      /\ d[a] = k /\ \A b \in DOMAIN f : b # a => d[b] = f[b]
  BY DEF Sharing!With
<1>4. OneAddress(Q)
  BY DEF Q
<1>5. \A x \in P : x[2] # a
  <2>1. ASSUME NEW x \in P, x[2] = a PROVE FALSE
    <3>1. x = x0
      BY <1>1, <1>4, <2>1 DEF OneAddress
    <3> QED BY <1>1, <3>1
  <2> QED BY <2>1
<1>6. DOMAIN d = {x[2] : x \in Q}
  BY <1>1, <1>2, <1>3
<1>7. \A x \in Q : d[x[2]] = x[1]
  BY <1>1, <1>2, <1>3, <1>5
<1> HIDE DEF d
<1>8. Flip(Q) = d
  BY <1>3, <1>4, <1>6, <1>7, FlipIs
<1> QED BY <1>8 DEF d, f, Q

\* Without a key, the pairs are those that Without leaves.
LEMMA FlipLess ==
  ASSUME NEW P, OneAddress(P), NEW k
  PROVE  Flip(Others(P, k)) = Sharing!Without(Flip(P), k)
<1> DEFINE f == Flip(P)
           Q == Others(P, k)
           d == Sharing!Without(f, k)
<1>1. Q = {x \in P : x[1] # k}
  BY DEF Others
<1>2. /\ DOMAIN f = {x[2] : x \in P}
      /\ \A x \in P : f[x[2]] = x[1]
  BY FlipFacts
<1> HIDE DEF f
<1>3. /\ d = [b \in DOMAIN d |-> d[b]] /\ DOMAIN d = {b \in DOMAIN f : f[b] # k}
      /\ \A b \in DOMAIN d : d[b] = f[b]
  BY DEF Sharing!Without, Sharing!Restrict
<1> HIDE DEF Q, d
<1>4. OneAddress(Q)
  BY <1>1 DEF OneAddress
<1>5. DOMAIN d = {x[2] : x \in Q}
  BY <1>1, <1>2, <1>3
<1>6. \A x \in Q : d[x[2]] = x[1]
  BY <1>1, <1>2, <1>3, <1>5
<1>7. Flip(Q) = d
  BY <1>3, <1>4, <1>5, <1>6, FlipIs
<1> QED BY <1>7 DEF d, f, Q

\* Of an empty table.
LEMMA FlipEmpty == Flip({}) = <<>>
<1> DEFINE d == <<>>
<1>1. d = [v \in DOMAIN d |-> d[v]] /\ DOMAIN d = {}
  OBVIOUS
<1> HIDE DEF d
<1>2. OneAddress({}) /\ DOMAIN d = {x[2] : x \in {}} /\ \A x \in {} : d[x[2]] = x[1]
  BY <1>1 DEF OneAddress
<1>3. Flip({}) = d
  BY <1>1, <1>2, FlipIs
<1> QED BY <1>3 DEF d

\* shm_create: nobody sees the name, since it is in no table.
LEMMA CreateShared ==
  ASSUME SInv, SInv', NEW p \in Proc, NEW k \in Key, NEW mem \in BOOLEAN, ShmCreate(p, k, mem)
  PROVE  Sharing!CNext
<1> DEFINE a == NextVpage(p)
           A == UserStack..(UserStack + MaxPages - 1)
<1>1. /\ ~ IsSet(table, k) /\ shmIdx[p] < MaxPages
      /\ shmIdx' = [shmIdx EXCEPT ![p] = shmIdx[p] + 1]
  BY DEF ShmCreate
<1>2. Sharing!Given(p, a) /\ a \in A
  BY <1>1, GivenNext
<1>3. \A q \in Proc : ~ IsSet(shmem[q], k)
  <2>1. k \notin Names(table)
    BY <1>1, SharedNames
  <2>2. \A q \in Proc : k \notin Names(shmem[q])
    BY <2>1, LeadsFacts DEF AddressesLead
  <2> QED BY <2>2, OwnNames
<1>4. CASE mem
  <2> DEFINE o == shmem[p]
             h == Set(o, k, a, TRUE)
  <2>1. shmem' = [shmem EXCEPT ![p] = h]
    BY <1>4 DEF ShmCreate
  <2>2. Pairs(h) = Bound(Pairs(o), k, a)
    <3>1. Sane(o, Nat) /\ o.failed = 0 /\ a \in Nat
      BY SInvFacts, AddressFacts DEF NextVpage
    <3> HIDE DEF o, a
    <3> QED BY <3>1, SetAddress
  <2>3. \A x \in Pairs(o) : x[1] # k
    BY <1>3, OwnNames
  <2> HIDE DEF h
  <2>4. /\ Views' = [Views EXCEPT ![p] = Flip(Pairs(h))] /\ Views[p] = Flip(Pairs(o))
        /\ OneAddress(Pairs(o)) /\ OneAddress(Pairs(h))
    BY <2>1, ViewsStep
  <2> HIDE DEF o, a
  <2>5. Flip(Pairs(h)) = Sharing!With(Flip(Pairs(o)), a, k)
    BY <2>2, <2>3, <2>4, FlipMore
  <2>6. Views' = [Views EXCEPT ![p] = Sharing!With(Views[p], a, k)]
    BY <2>4, <2>5
  <2>7. \A q \in Proc : ~ Sharing!Sees(q, k)
    BY <1>3, SeesIs
  <2>8. Sharing!Create(p, k, a)
    BY <1>2, <2>6, <2>7 DEF Sharing!Create
  <2> QED BY <1>2, <2>8 DEF Sharing!CNext
<1>5. CASE ~ mem
  <2>1. shmem' = shmem
    BY <1>5 DEF ShmCreate
  <2>2. Views' = Views
    <3>1. Views = Flips /\ Views' = Flips'
      BY ViewsAre, ViewsAfter DEF ViewsKept
    <3> QED BY <2>1, <3>1 DEF Flips
  <2> HIDE DEF a
  <2>3. Sharing!Refuse(p, a)
    BY <1>2, <2>2 DEF Sharing!Refuse
  <2> QED BY <1>2, <2>3 DEF Sharing!CNext
<1> QED BY <1>4, <1>5

\* shm_acquire: a page that is counted is seen.
LEMMA AcquireShared ==
  ASSUME SInv, Exact(table, shmem), SInv', NEW p \in Proc, NEW k \in Key, ShmAcquire(p, k)
  PROVE  Sharing!CNext
<1> DEFINE a == NextVpage(p)
           A == UserStack..(UserStack + MaxPages - 1)
           o == shmem[p]
           h == Set(o, k, a, TRUE)
<1>1. /\ IsSet(table, k) /\ ~ IsSet(o, k) /\ shmIdx[p] < MaxPages
      /\ shmIdx' = [shmIdx EXCEPT ![p] = shmIdx[p] + 1]
      /\ shmem' = [shmem EXCEPT ![p] = h]
  BY DEF ShmAcquire
<1>2. Sharing!Given(p, a) /\ a \in A
  BY <1>1, GivenNext
<1>3. Pairs(h) = Bound(Pairs(o), k, a)
  <2>1. Sane(o, Nat) /\ o.failed = 0 /\ a \in Nat
    BY SInvFacts, AddressFacts DEF NextVpage
  <2> HIDE DEF o, a
  <2> QED BY <2>1, SetAddress
<1>4. \A x \in Pairs(o) : x[1] # k
  BY <1>1, OwnNames
<1> HIDE DEF h
<1>5. /\ Views' = [Views EXCEPT ![p] = Flip(Pairs(h))] /\ Views[p] = Flip(Pairs(o))
      /\ OneAddress(Pairs(o)) /\ OneAddress(Pairs(h))
  BY <1>1, ViewsStep
<1>6. ~ Sharing!Sees(p, k)
  BY <1>1, SeesIs
<1>7. \E q \in Proc : Sharing!Sees(q, k)
  <2> DEFINE y == <<k, Get(table, k)>>
             U == Users(k, shmem)
  <2>1. k \in Names(table)
    BY <1>1, SharedNames
  <2>2. y \in Pairs(table) /\ y[1] = k
    BY <2>1, SharedNames
  <2> HIDE DEF y
  <2>3. y[2].nrefs = Cardinality(U) /\ y[2].nrefs >= 1
    BY <2>2, SInvFacts DEF Exact, Covered
  <2>4. U # {}
    <3>1. Cardinality({}) = 0
      BY FS_EmptySet
    <3> HIDE DEF U
    <3> QED BY <2>3, <3>1
  <2>5. PICK q \in Proc : \E x \in Pairs(shmem[q]) : x[1] = k
    BY <2>4 DEF Users
  <2>6. IsSet(shmem[q], k)
    BY <2>5, OwnNames
  <2> QED BY <2>6, SeesIs
<1> HIDE DEF o, a
<1>8. Flip(Pairs(h)) = Sharing!With(Flip(Pairs(o)), a, k)
  BY <1>3, <1>4, <1>5, FlipMore
<1>9. Views' = [Views EXCEPT ![p] = Sharing!With(Views[p], a, k)]
  BY <1>5, <1>8
<1>10. Sharing!Acquire(p, k, a)
  BY <1>2, <1>6, <1>7, <1>9 DEF Sharing!Acquire
<1> QED BY <1>2, <1>10 DEF Sharing!CNext

\* shm_release.
LEMMA ReleaseShared ==
  ASSUME SInv, SInv', NEW p \in Proc, NEW k \in Key, ShmRelease(p, k)
  PROVE  Sharing!CNext
<1> DEFINE b == Mappings(p)
           m == Released(b, k)
           h == m.shmem
           o == shmem[p]
<1>1. IsSet(o, k) /\ shmem' = [shmem EXCEPT ![p] = h] /\ shmIdx' = shmIdx
  BY DEF ShmRelease
<1>2. Held(b, lost, space, shmem, p) /\ b.shmem = o
  BY MappingsFacts
<1> HIDE DEF b
<1>3. Pairs(h) = Others(Pairs(o), k)
  BY <1>2, ReleasedFacts DEF Releases
<1> HIDE DEF h, m
<1>4. /\ Views' = [Views EXCEPT ![p] = Flip(Pairs(h))] /\ Views[p] = Flip(Pairs(o))
      /\ OneAddress(Pairs(o))
  BY <1>1, ViewsStep
<1>5. Sharing!Sees(p, k)
  BY <1>1, SeesIs
<1> HIDE DEF o
<1>6. Views' = [Views EXCEPT ![p] = Sharing!Without(Views[p], k)]
  BY <1>3, <1>4, FlipLess
<1>7. Spent' = Spent
  BY <1>1 DEF Spent
<1> QED BY <1>5, <1>6, <1>7 DEF Sharing!CNext, Sharing!Release

\* A process begins, or is freed.
LEMMA LeaveShared ==
  ASSUME SInv, SInv', NEW p \in Proc, Start(p) \/ FreeProcess(p)
  PROVE  Sharing!CNext
<1> DEFINE e == Fresh(MinSize)
<1>1. shmem' = [shmem EXCEPT ![p] = e] /\ shmIdx' = [shmIdx EXCEPT ![p] = 0]
  BY DEF Start, FreeProcess
<1>2. Pairs(e) = {}
  BY NewTable
<1> HIDE DEF e
<1>3. Views' = [Views EXCEPT ![p] = Flip({})]
  BY <1>1, <1>2, ViewsStep
<1>4. Views' = [Views EXCEPT ![p] = <<>>]
  BY <1>3, FlipEmpty
<1>5. Spent' = [Spent EXCEPT ![p] = {}]
  <2>1. shmIdx = [q \in Proc |-> shmIdx[q]]
    BY SInvFacts
  <2>2. shmIdx'[p] = 0 /\ \A q \in Proc : q # p => shmIdx'[q] = shmIdx[q]
    BY <1>1, <2>1
  <2>3. {UserStack + i : i \in 0..(0 - 1)} = {}
    OBVIOUS
  <2> QED BY <2>2, <2>3 DEF Spent
<1> QED BY <1>4, <1>5 DEF Sharing!CNext, Sharing!Leave

\* Nothing that processes see changes.
LEMMA StutterShared ==
  ASSUME SInv, SInv', shmem' = shmem, shmIdx' = shmIdx
  PROVE  UNCHANGED Sharing!cvars
<1>1. Views = Flips /\ Views' = Flips'
  BY ViewsAre, ViewsAfter DEF ViewsKept
<1>2. Views' = Views
  BY <1>1 DEF Flips
<1>3. Spent' = Spent
  BY DEF Spent
<1> QED BY <1>2, <1>3 DEF Sharing!cvars

\* A call for a shared page that faults, which uses an address up.
LEMMA FaultShared ==
  ASSUME SInv, SInv', NEW p \in Proc, NEW k \in Key, ShmPanics(p, k)
  PROVE  Sharing!CNext
<1> DEFINE a == NextVpage(p)
           A == UserStack..(UserStack + MaxPages - 1)
<1>1. /\ shmIdx[p] < MaxPages /\ shmem' = shmem
      /\ shmIdx' = [shmIdx EXCEPT ![p] = shmIdx[p] + 1]
  BY DEF ShmPanics
<1>2. Sharing!Given(p, a) /\ a \in A
  BY <1>1, GivenNext
<1>3. Views' = Views
  <2>1. Views = Flips /\ Views' = Flips'
    BY ViewsAre, ViewsAfter DEF ViewsKept
  <2> QED BY <1>1, <2>1 DEF Flips
<1> HIDE DEF a
<1>4. Sharing!Refuse(p, a)
  BY <1>2, <1>3 DEF Sharing!Refuse
<1> QED BY <1>2, <1>4 DEF Sharing!CNext

\* Every step is one of module SharedContract, or changes nothing there.
LEMMA NextShared ==
  ASSUME SInv, Exact(table, shmem), SInv', [ShmNext]_shmVars
  PROVE  [Sharing!CNext]_(Sharing!cvars)
<1>1. CASE UNCHANGED shmVars
  BY <1>1, StutterShared DEF shmVars, procs
<1>2. ASSUME NEW p \in Proc, Start(p) \/ FreeProcess(p) PROVE Sharing!CNext
  BY <1>2, LeaveShared
<1>3. ASSUME NEW p \in Proc, NEW q \in Proc, StartFails(p) \/ End(p) \/ StartPanics(p, q)
      PROVE  UNCHANGED Sharing!cvars
  <2>1. shmem' = shmem /\ shmIdx' = shmIdx
    BY <1>3 DEF StartFails, End, StartPanics, procs
  <2> QED BY <2>1, StutterShared
<1>4. ASSUME NEW p \in Proc, NEW k \in Key, NEW mem \in BOOLEAN, ShmCreate(p, k, mem)
      PROVE  Sharing!CNext
  BY <1>4, CreateShared
<1>5. ASSUME NEW p \in Proc, NEW k \in Key, ShmAcquire(p, k) PROVE Sharing!CNext
  BY <1>5, AcquireShared
<1>6. ASSUME NEW p \in Proc, NEW k \in Key, ShmRelease(p, k) PROVE Sharing!CNext
  BY <1>6, ReleaseShared
<1>7. ASSUME NEW p \in Proc, NEW k \in Key, ShmPanics(p, k) PROVE Sharing!CNext
  BY <1>7, FaultShared
<1>8. CASE ShmNext
  BY <1>2, <1>3, <1>4, <1>5, <1>6, <1>7, <1>8 DEF ShmNext
<1> QED BY <1>1, <1>8

\* Shared memory implements module SharedContract: a name is taken while a
\* process has its page, and no address of a process ever leads to a second
\* page, in every behaviour where the tables of the processes that end have the
\* smallest size.
THEOREM SharedPromiseWhileSmall == ShmSpec /\ []EndsSmall => SharedPromise
<1> DEFINE I == SInv /\ Exact(table, shmem)
<1>1. ShmInit => I
  BY SInvInit
<1>2. I /\ EndsSmall /\ [ShmNext]_shmVars => I'
  BY SInvNext DEF EndsSmall
<1>3. ShmInit => Sharing!CInit
  <2> SUFFICES ASSUME ShmInit PROVE Sharing!CInit
    OBVIOUS
  <2>1. SInv /\ \A p \in Proc : shmem[p] = Fresh(MinSize) /\ shmIdx[p] = 0
    BY SInvInit DEF ShmInit
  <2>2. Pairs(Fresh(MinSize)) = {}
    BY NewTable
  <2>3. Views = [p \in Proc |-> <<>>]
    <3>1. Views = [p \in Proc |-> Flip(Pairs(shmem[p]))]
      BY <2>1, ViewsAre DEF ViewsKept, Flips
    <3>2. \A p \in Proc : Flip(Pairs(shmem[p])) = <<>>
      BY <2>1, <2>2, FlipEmpty
    <3> QED BY <3>1, <3>2
  <2>4. Spent = [p \in Proc |-> {}]
    <3>1. {UserStack + i : i \in 0..(0 - 1)} = {}
      OBVIOUS
    <3> QED BY <2>1, <3>1 DEF Spent
  <2> QED BY <2>3, <2>4 DEF Sharing!CInit
<1>4. I /\ I' /\ [ShmNext]_shmVars => [Sharing!CNext]_(Sharing!cvars)
  BY NextShared
<1> QED BY <1>1, <1>2, <1>3, <1>4, PTL DEF ShmSpec, SharedPromise, Sharing!CSpec
=============================================================================

---------------------------- MODULE BuddyProofs ----------------------------
(***************************************************************************)
(* For every size of the memory: blocks never overlap and nothing is lost, *)
(* free buddies are always merged, and all that was allocated can be had   *)
(* in one piece again.                                                     *)
(***************************************************************************)
EXTENDS BuddyProps, PrioQueueProofs, FiniteSetTheorems

-----------------------------------------------------------------------------
(* Sizes. *)

\* A function on 0..n that doubles.
Doubles(s, n) == s = [i \in 0..n |-> IF i = 0 THEN 1 ELSE 2 * s[i - 1]]

\* There is one for every n.
LEMMA DoublesExist == \A n \in Nat : \E s : Doubles(s, n)
<1> DEFINE T == {n \in Nat : ~ \E s : Doubles(s, n)}
<1>1. SUFFICES ASSUME T # {} PROVE FALSE
  OBVIOUS
<1>2. PICK m \in T : \A x \in T : m <= x
  <2>1. T \subseteq Nat
    OBVIOUS
  <2> HIDE DEF T
  <2> QED BY <1>1, <2>1, LeastNat
<1>3. m # 0
  <2> DEFINE s == [i \in 0..0 |-> 1]
  <2>1. \A i \in 0..0 : s[i] = IF i = 0 THEN 1 ELSE 2 * s[i - 1]
    OBVIOUS
  <2>2. s = [i \in 0..0 |-> s[i]]
    OBVIOUS
  <2> HIDE DEF s
  <2>3. Doubles(s, 0)
    BY <2>1, <2>2 DEF Doubles
  <2> QED BY <2>3, <1>2
<1>4. m \in Nat /\ m - 1 \in Nat /\ m - 1 \notin T
  BY <1>2, <1>3
<1>5. PICK g : Doubles(g, m - 1)
  BY <1>4
<1> DEFINE h == [i \in 0..m |-> IF i = m THEN 2 * g[m - 1] ELSE g[i]]
<1>6. ASSUME NEW i \in 0..m
      PROVE  h[i] = IF i = 0 THEN 1 ELSE 2 * h[i - 1]
  <2>1. CASE i = m
    <3>1. h[i] = 2 * g[m - 1] /\ h[m - 1] = g[m - 1]
      BY <2>1, <1>3, <1>4
    <3> HIDE DEF h
    <3> QED BY <2>1, <3>1, <1>3
  <2>2. CASE i # m
    <3>1. i \in 0..(m - 1)
      BY <2>2, <1>4
    <3>2. h[i] = g[i] /\ (i # 0 => h[i - 1] = g[i - 1])
      BY <2>2, <3>1, <1>4
    <3>3. g[i] = IF i = 0 THEN 1 ELSE 2 * g[i - 1]
      BY <1>5, <3>1 DEF Doubles
    <3> HIDE DEF h
    <3> QED BY <3>2, <3>3
  <2> QED BY <2>1, <2>2
<1>7. h = [i \in 0..m |-> h[i]]
  OBVIOUS
<1> HIDE DEF h
<1>8. Doubles(h, m)
  BY <1>6, <1>7 DEF Doubles
<1> QED BY <1>2, <1>8

\* So Size is what its definition says.
LEMMA SizeDef == /\ Size[0] = 1
                 /\ \A i \in Index : i # 0 => i - 1 \in Index /\ Size[i] = 2 * Size[i - 1]
<1>1. MaxIndex \in Nat
  BY BuddyAssumption
<1>2. \E s : s = [i \in Index |-> IF i = 0 THEN 1 ELSE 2 * s[i - 1]]
  BY <1>1, DoublesExist DEF Doubles, Index
<1>3. Size = [i \in Index |-> IF i = 0 THEN 1 ELSE 2 * Size[i - 1]]
  BY <1>2 DEF Size
<1>4. \A i \in Index : Size[i] = IF i = 0 THEN 1 ELSE 2 * Size[i - 1]
  BY <1>3
<1>5. 0 \in Index /\ \A i \in Index : i # 0 => i - 1 \in Index
  BY <1>1 DEF Index
<1> QED BY <1>4, <1>5

\* Sizes are positive and grow.
LEMMA SizeNat == \A i \in Index : Size[i] \in Nat \ {0}
<1> DEFINE T == {i \in Index : ~ (Size[i] \in Nat \ {0})}
<1>1. SUFFICES ASSUME T # {} PROVE FALSE
  OBVIOUS
<1>2. PICK m \in T : \A x \in T : m <= x
  <2>1. T \subseteq Nat
    BY BuddyAssumption DEF Index
  <2> HIDE DEF T
  <2> QED BY <1>1, <2>1, LeastNat
<1>3. m # 0
  BY <1>2, SizeDef
<1>4. m \in Index /\ m - 1 \in Index /\ Size[m] = 2 * Size[m - 1]
  BY <1>2, <1>3, SizeDef
<1>5. m - 1 \notin T
  BY <1>2, <1>4, BuddyAssumption DEF Index
<1>6. Size[m - 1] \in Nat \ {0}
  BY <1>4, <1>5
<1>7. Size[m] \in Nat \ {0}
  BY <1>4, <1>6
<1> QED BY <1>2, <1>7

\* A block of a higher index is at least as large as two of a lower one.
LEMMA SizeGrows == \A j \in Index : \A i \in Index : i < j => 2 * Size[i] <= Size[j]
<1> DEFINE T == {j \in Index : ~ \A i \in Index : i < j => 2 * Size[i] <= Size[j]}
<1>1. SUFFICES ASSUME T # {} PROVE FALSE
  OBVIOUS
<1>2. PICK m \in T : \A x \in T : m <= x
  <2>1. T \subseteq Nat
    BY BuddyAssumption DEF Index
  <2> HIDE DEF T
  <2> QED BY <1>1, <2>1, LeastNat
<1>3. m \in Index /\ m # 0
  BY <1>2, BuddyAssumption DEF Index
<1>4. m - 1 \in Index /\ Size[m] = 2 * Size[m - 1] /\ m - 1 \notin T
  BY <1>2, <1>3, SizeDef, BuddyAssumption DEF Index
<1>5. ASSUME NEW i \in Index, i < m
      PROVE  2 * Size[i] <= Size[m]
  <2>1. i = m - 1 \/ i < m - 1
    BY <1>3, <1>5, BuddyAssumption DEF Index
  <2>2. CASE i = m - 1
    BY <2>2, <1>4, SizeNat
  <2>3. CASE i < m - 1
    <3>1. 2 * Size[i] <= Size[m - 1]
      BY <2>3, <1>4
    <3> QED BY <3>1, <1>4, SizeNat
  <2> QED BY <2>1, <2>2, <2>3
<1> QED BY <1>2, <1>3, <1>5

-----------------------------------------------------------------------------
(* Alignment. *)

\* p is a multiple of the size of index i.
Aligned(p, i) == \E k \in Nat : p = k * Size[i]

\* Multiples of a size are a size apart.
LEMMA Multiples ==
  /\ \A s \in Nat \ {0} : \A k, m \in Nat : k * s < m * s => k * s + s <= m * s
  /\ \A s \in Nat \ {0} : \A k \in Nat : (k * s) \div s = k /\ k * s \in Nat
  /\ \A k \in Nat : \E m \in Nat : \/ k = 2 * m /\ k % 2 = 0
                                   \/ k = 2 * m + 1 /\ k % 2 = 1
<1>1. ASSUME NEW s \in Nat \ {0}, NEW k \in Nat, NEW m \in Nat, k * s < m * s
      PROVE  k * s + s <= m * s
  <2>1. k < m
    <3>1. SUFFICES ASSUME m <= k PROVE FALSE
      OBVIOUS
    <3> QED BY <3>1, <1>1
  <2>2. PICK d \in Nat : m = k + 1 + d
    BY <2>1
  <2>3. m * s = k * s + s + d * s /\ d * s >= 0
    BY <2>2
  <2> QED BY <2>3
<1>2. ASSUME NEW s \in Nat \ {0}, NEW k \in Nat
      PROVE  (k * s) \div s = k /\ k * s \in Nat
  BY <1>2
<1>3. ASSUME NEW k \in Nat
      PROVE  \E m \in Nat : \/ k = 2 * m /\ k % 2 = 0
                            \/ k = 2 * m + 1 /\ k % 2 = 1
  <2>1. k \div 2 \in Nat
    OBVIOUS
  <2>2. \/ k = 2 * (k \div 2) /\ k % 2 = 0
        \/ k = 2 * (k \div 2) + 1 /\ k % 2 = 1
    OBVIOUS
  <2> QED BY <2>1, <2>2
<1> QED BY <1>1, <1>2, <1>3

\* The blocks of one index do not overlap, and follow each other.
LEMMA Apart ==
  ASSUME NEW i \in Index, NEW p \in Nat, Aligned(p, i)
  PROVE  /\ Aligned(p + Size[i], i)
         /\ \A q \in Nat : Aligned(q, i) /\ p < q => p + Size[i] <= q
<1> DEFINE s == Size[i]
<1>1. s \in Nat \ {0}
  BY SizeNat
<1>2. PICK k \in Nat : p = k * s
  BY DEF Aligned
<1> HIDE DEF s
<1>3. p + s = (k + 1) * s /\ k + 1 \in Nat
  BY <1>1, <1>2
<1>4. ASSUME NEW q \in Nat, NEW m \in Nat, q = m * s, p < q
      PROVE  p + s <= q
  BY <1>1, <1>2, <1>4, Multiples
<1> QED BY <1>3, <1>4 DEF Aligned, s

\* A block of a higher index begins where one of a lower index may.
LEMMA AlignedDown ==
  ASSUME NEW j \in Index, NEW i \in Index, i <= j, NEW p \in Nat, Aligned(p, j)
  PROVE  Aligned(p, i)
<1> DEFINE T == {x \in Index : i <= x /\ \E y \in Nat : Aligned(y, x) /\ ~ Aligned(y, i)}
<1>1. SUFFICES ASSUME ~ Aligned(p, i) PROVE FALSE
  OBVIOUS
<1>2. PICK m \in T : \A x \in T : m <= x
  <2>1. T \subseteq Nat /\ j \in T
    BY <1>1, BuddyAssumption DEF Index
  <2> HIDE DEF T
  <2> QED BY <2>1, LeastNat
<1>3. PICK y \in Nat : Aligned(y, m) /\ ~ Aligned(y, i)
  BY <1>2
<1>4. m \in Index /\ i <= m /\ m # i
  BY <1>2, <1>3
<1>5. m # 0 /\ m - 1 \in Index /\ i <= m - 1 /\ m - 1 \notin T
  BY <1>2, <1>4, BuddyAssumption DEF Index
<1>6. Size[m] = 2 * Size[m - 1] /\ Size[m - 1] \in Nat
  BY <1>4, <1>5, SizeDef, SizeNat
<1>7. PICK k \in Nat : y = k * Size[m]
  BY <1>3 DEF Aligned
<1>8. y = (2 * k) * Size[m - 1] /\ 2 * k \in Nat
  BY <1>6, <1>7
<1>9. Aligned(y, m - 1)
  BY <1>8 DEF Aligned
<1> QED BY <1>3, <1>5, <1>9

\* get_buddy finds the other half of the block of the next index.
LEMMA Buddies ==
  ASSUME NEW i \in Index, i < MaxIndex, NEW p \in Nat, Aligned(p, i)
  PROVE  /\ \/ Aligned(p, i + 1) /\ BuddyOf(p, i) = p + Size[i]
            \/ /\ p - Size[i] \in Nat /\ Aligned(p - Size[i], i + 1)
               /\ BuddyOf(p, i) = p - Size[i]
         /\ BuddyOf(p, i) \in Nat /\ BuddyOf(p, i) # p
         /\ BuddyOf(BuddyOf(p, i), i) = p
         /\ i + 1 \in Index /\ Size[i + 1] = 2 * Size[i]
<1> DEFINE s == Size[i]
<1>1. /\ s \in Nat \ {0} /\ i + 1 \in Index /\ Size[i + 1] = 2 * s
  <2>1. i + 1 \in Index /\ i + 1 # 0 /\ (i + 1) - 1 = i
    BY BuddyAssumption DEF Index
  <2> QED BY <2>1, SizeDef, SizeNat
<1>2. PICK k \in Nat : p = k * s
  BY DEF Aligned
<1>3. \A x \in Nat : BuddyOf(x * s, i) = IF x % 2 = 0 THEN x * s + s ELSE x * s - s
  BY <1>1, Multiples DEF BuddyOf
<1> HIDE DEF s
<1>4. PICK m \in Nat : \/ k = 2 * m /\ k % 2 = 0
                       \/ k = 2 * m + 1 /\ k % 2 = 1
  BY Multiples
<1>5. /\ (2 * m) * s = m * Size[i + 1] /\ (2 * m + 1) * s = (2 * m) * s + s
      /\ (2 * m) * s \in Nat /\ (2 * m) % 2 = 0 /\ (2 * m + 1) % 2 = 1
      /\ 2 * m \in Nat /\ 2 * m + 1 \in Nat
  BY <1>1
<1>6. CASE k = 2 * m /\ k % 2 = 0
  <2>1. Aligned(p, i + 1)
    BY <1>2, <1>5, <1>6 DEF Aligned
  <2>2. BuddyOf(p, i) = p + s
    BY <1>2, <1>3, <1>6
  <2>3. p + s = (2 * m + 1) * s
    BY <1>2, <1>5, <1>6
  <2>4. BuddyOf(p + s, i) = p
    <3>1. BuddyOf((2 * m + 1) * s, i) = (2 * m + 1) * s - s
      BY <1>3, <1>5
    <3>2. p \in Nat /\ s \in Nat
      BY <1>1
    <3> QED BY <2>3, <3>1, <3>2
  <2> QED BY <1>1, <2>1, <2>2, <2>4 DEF s
<1>7. CASE k = 2 * m + 1 /\ k % 2 = 1
  <2>1. BuddyOf(p, i) = p - s
    BY <1>2, <1>3, <1>7
  <2>2. p - s = (2 * m) * s
    BY <1>1, <1>2, <1>5, <1>7
  <2>3. p - s \in Nat /\ Aligned(p - s, i + 1)
    BY <1>5, <2>2 DEF Aligned
  <2>4. BuddyOf(p - s, i) = p
    <3>1. BuddyOf((2 * m) * s, i) = (2 * m) * s + s
      BY <1>3, <1>5
    <3> QED BY <1>1, <2>2, <3>1
  <2> QED BY <1>1, <2>1, <2>3, <2>4 DEF s
<1> QED BY <1>4, <1>6, <1>7

\* The size of the memory, and the index on whose size the blocks of an index
\* are aligned: the block of index MaxIndex that phys_init makes is not
\* aligned on its own size.
Total == Size[MaxIndex - 1] + Size[MaxIndex]
Low(i) == IF i = MaxIndex THEN MaxIndex - 1 ELSE i

\* Where a block of index i may be.
Placed(p, i) == p \in Nat /\ i \in Index /\ Aligned(p, Low(i)) /\ p + Size[i] <= Total

LEMMA TotalFacts ==
  /\ MaxIndex \in Index /\ MaxIndex - 1 \in Index
  /\ Size[MaxIndex] = 2 * Size[MaxIndex - 1]
  /\ Size[MaxIndex - 1] \in Nat \ {0} /\ Total = 3 * Size[MaxIndex - 1] /\ Total \in Nat
  /\ Unit = 0..(Total - 1)
  /\ \A i \in Index : Low(i) \in Index /\ Low(i) <= i /\ Low(i) <= MaxIndex - 1
  /\ \A i \in Index : i < MaxIndex => Low(i) = i /\ Aligned(Total, i)
<1>1. MaxIndex \in Index /\ MaxIndex - 1 \in Index /\ MaxIndex # 0
  BY BuddyAssumption DEF Index
<1>2. /\ Size[MaxIndex] = 2 * Size[MaxIndex - 1] /\ Size[MaxIndex - 1] \in Nat \ {0}
  BY <1>1, SizeDef, SizeNat
<1>3. Total = 3 * Size[MaxIndex - 1] /\ Total \in Nat
  BY <1>2 DEF Total
<1>4. \A i \in Index : Low(i) \in Index /\ Low(i) <= i /\ Low(i) <= MaxIndex - 1
  BY <1>1, BuddyAssumption DEF Low, Index
<1>5. ASSUME NEW i \in Index, i < MaxIndex PROVE Aligned(Total, i)
  <2>1. Aligned(Total, MaxIndex - 1)
    BY <1>3 DEF Aligned
  <2>2. i <= MaxIndex - 1
    BY <1>5, BuddyAssumption DEF Index
  <2> QED BY <1>1, <1>3, <2>1, <2>2, AlignedDown
<1>6. \A i \in Index : i < MaxIndex => Low(i) = i
  BY BuddyAssumption DEF Low, Index
<1> QED BY <1>1, <1>2, <1>3, <1>4, <1>5, <1>6 DEF Unit, Total

-----------------------------------------------------------------------------
(* The inductive invariant. *)

\* The blocks of B cover the memory and do not overlap.
Tiled(B) ==
  /\ \A u \in Unit : \E b \in B : u \in UnitsOf(b)
  /\ \A b, c \in B : \A u \in UnitsOf(b) : u \in UnitsOf(c) => b = c

Lists == tzl \in [Index -> Seq(Unit)] /\ \A i \in Index : NoDup(tzl[i])

\* Why it is needed: Partition alone does not say that blocks begin where
\* get_buddy looks for them.
BInv ==
  /\ Lists
  /\ held \subseteq Unit \X Index
  /\ Free \cap held = {}
  /\ \A b \in Blocks : Placed(b[1], b[2])
  /\ Tiled(Blocks)
  /\ Coalesced

\* A block is a pair, and its units are in the memory.
LEMMA FreeBlocks ==
  ASSUME Lists, held \subseteq Unit \X Index
  PROVE  /\ \A b \in Blocks : b = <<b[1], b[2]>> /\ b[1] \in Unit /\ b[2] \in Index
         /\ \A x, i : <<x, i>> \in Free <=> i \in Index /\ x \in Elems(tzl[i])
<1>1. \A i \in Index : \A x \in Elems(tzl[i]) : x \in Unit
  BY ElementOfSeq, LenProperties DEF Lists, Elems
<1>2. \A b \in Unit \X Index : b = <<b[1], b[2]>> /\ b[1] \in Unit /\ b[2] \in Index
  OBVIOUS
<1>3. Blocks \subseteq Unit \X Index
  BY DEF Blocks, Free
<1>4. \A x, i : <<x, i>> \in Free <=> i \in Index /\ x \in Elems(tzl[i])
  BY <1>1 DEF Free
<1> QED BY <1>2, <1>3, <1>4

\* The same of the lists that a step leaves.
LEMMA NextFree ==
  ASSUME Lists'
  PROVE  /\ Free' \subseteq Unit \X Index
         /\ \A x, i : <<x, i>> \in Free' <=> i \in Index /\ x \in Elems(tzl'[i])
<1>1. \A i \in Index : \A x \in Elems(tzl'[i]) : x \in Unit
  BY ElementOfSeq, LenProperties DEF Lists, Elems
<1> QED BY <1>1 DEF Free

\* The units of a block that is placed.
LEMMA UnitFacts ==
  ASSUME NEW p, NEW i, Placed(p, i)
  PROVE  /\ p \in Unit /\ i \in Index /\ Size[i] \in Nat \ {0} /\ p \in Nat
         /\ \A u : u \in UnitsOf(<<p, i>>) <=> u \in Nat /\ p <= u /\ u < p + Size[i]
         /\ UnitsOf(<<p, i>>) \subseteq Unit
         /\ p \in UnitsOf(<<p, i>>)
<1>1. p \in Nat /\ i \in Index /\ p + Size[i] <= Total
  BY DEF Placed
<1>2. Size[i] \in Nat \ {0} /\ Total \in Nat /\ Unit = 0..(Total - 1)
  BY <1>1, SizeNat, TotalFacts
<1>3. UnitsOf(<<p, i>>) = p..(p + Size[i] - 1)
  BY DEF UnitsOf
<1> QED BY <1>1, <1>2, <1>3

\* Blocks give way to blocks of the same units.
LEMMA Exchange ==
  ASSUME NEW B, NEW O, NEW N, O \subseteq B, Tiled(B),
         \A b \in O : \A u \in UnitsOf(b) : \E c \in N : u \in UnitsOf(c),
         \A c \in N : \A u \in UnitsOf(c) : \E b \in O : u \in UnitsOf(b),
         \A b, c \in N : \A u \in UnitsOf(b) : u \in UnitsOf(c) => b = c
  PROVE  /\ Tiled((B \ O) \cup N)
         /\ \A c \in N : UnitsOf(c) # {} => c \notin B \ O
<1> DEFINE R == (B \ O) \cup N
<1>1. \A u \in Unit : \E b \in R : u \in UnitsOf(b)
  BY DEF Tiled
<1>2. \A b, c \in R : \A u \in UnitsOf(b) : u \in UnitsOf(c) => b = c
  BY DEF Tiled
<1>3. ASSUME NEW c \in N, UnitsOf(c) # {} PROVE c \notin B \ O
  <2>1. PICK u : u \in UnitsOf(c)
    BY <1>3
  <2>2. PICK b \in O : u \in UnitsOf(b)
    BY <2>1
  <2> QED BY <2>1, <2>2 DEF Tiled
<1> QED BY <1>1, <1>2, <1>3 DEF Tiled

\* What phys_init makes.
LEMMA InitBInv == Init => BInv
<1> SUFFICES ASSUME Init PROVE BInv
  OBVIOUS
<1> DEFINE s == Size[MaxIndex - 1]
           m == MaxIndex
<1>1. /\ m \in Index /\ m - 1 \in Index /\ m \in Nat \ {0}
      /\ Size[m] = 2 * s /\ s \in Nat \ {0} /\ Total = 3 * s
      /\ Low(m) = m - 1 /\ Low(m - 1) = m - 1
  BY TotalFacts, BuddyAssumption DEF Low
<1> HIDE DEF s, m
<1>2. Placed(0, m - 1) /\ Placed(s, m)
  <2>1. Aligned(0, m - 1) /\ Aligned(s, m - 1)
    <3>1. 0 = 0 * Size[m - 1] /\ s = 1 * Size[m - 1]
      BY <1>1 DEF s, m
    <3> QED BY <3>1 DEF Aligned
  <2>2. 0 + Size[m - 1] <= Total /\ s + Size[m] <= Total
    BY <1>1 DEF s, m
  <2> QED BY <1>1, <2>1, <2>2 DEF Placed
<1>3. \A i \in Index : tzl[i] = IF i = m THEN <<s>> ELSE IF i = m - 1 THEN <<0>> ELSE <<>>
  BY DEF Init, s, m
<1>4. s \in Unit /\ 0 \in Unit
  BY <1>2, UnitFacts
<1>5. Lists
  <2>1. ASSUME NEW i \in Index PROVE tzl[i] \in Seq(Unit) /\ NoDup(tzl[i])
    <3>1. \A x \in Unit : <<x>> \in Seq(Unit) /\ NoDup(<<x>>)
      BY DEF NoDup
    <3>2. <<>> \in Seq(Unit) /\ NoDup(<<>>)
      BY DEF NoDup
    <3> QED BY <1>3, <1>4, <3>1, <3>2
  <2>2. tzl = [i \in Index |-> tzl[i]]
    BY DEF Init
  <2> QED BY <2>1, <2>2 DEF Lists
<1>6. held = {}
  BY DEF Init
<1>7. Free = {<<0, m - 1>>, <<s, m>>} /\ Blocks = Free
  <2>1. \A x : Elems(<<x>>) = {x}
    BY DEF Elems
  <2>2. Elems(<<>>) = {}
    BY DEF Elems
  <2>3. \A i \in Index : Elems(tzl[i]) = IF i = m THEN {s} ELSE IF i = m - 1 THEN {0} ELSE {}
    BY <1>3, <2>1, <2>2
  <2>4. ASSUME NEW b \in Free PROVE b = <<0, m - 1>> \/ b = <<s, m>>
    <3>1. b = <<b[1], b[2]>> /\ b[2] \in Index /\ b[1] \in Elems(tzl[b[2]])
      BY DEF Free
    <3> QED BY <2>3, <3>1
  <2>5. <<0, m - 1>> \in Free /\ <<s, m>> \in Free
    <3>1. m - 1 # m
      BY <1>1
    <3> QED BY <1>1, <1>4, <2>3, <3>1 DEF Free
  <2> QED BY <1>6, <2>4, <2>5 DEF Blocks
<1>8. Tiled(Blocks)
  <2>1. \A u : u \in UnitsOf(<<0, m - 1>>) <=> u \in Nat /\ 0 <= u /\ u < 0 + s
    BY <1>2, UnitFacts DEF s, m
  <2>2. \A u : u \in UnitsOf(<<s, m>>) <=> u \in Nat /\ s <= u /\ u < s + 2 * s
    BY <1>1, <1>2, UnitFacts
  <2>3. Unit = 0..(3 * s - 1)
    BY <1>1, TotalFacts
  <2>4. \A u \in Unit : u \in UnitsOf(<<0, m - 1>>) \/ u \in UnitsOf(<<s, m>>)
    BY <1>1, <2>1, <2>2, <2>3
  <2>5. \A u : ~ (u \in UnitsOf(<<0, m - 1>>) /\ u \in UnitsOf(<<s, m>>))
    BY <1>1, <2>1, <2>2
  <2> QED BY <1>7, <2>4, <2>5 DEF Tiled
<1>9. Coalesced
  <2>1. BuddyOf(0, m - 1) # 0
    <3>1. m - 1 < MaxIndex /\ Aligned(0, m - 1)
      BY <1>1, <1>2 DEF Placed, m
    <3> QED BY <1>1, <3>1, Buddies
  <2>2. m - 1 # m /\ m = MaxIndex /\ ~ (MaxIndex < m)
    BY <1>1 DEF m
  <2>3. ASSUME NEW b \in Free, b[2] < MaxIndex
        PROVE  <<BuddyOf(b[1], b[2]), b[2]>> \notin Free
    <3>1. b = <<0, m - 1>>
      BY <1>7, <2>2, <2>3
    <3>2. b[1] = 0 /\ b[2] = m - 1
      BY <3>1
    <3> QED BY <1>7, <2>1, <2>2, <3>2
  <2> QED BY <2>3 DEF Coalesced
<1>10. \A b \in Blocks : Placed(b[1], b[2])
  BY <1>2, <1>7
<1> QED BY <1>5, <1>6, <1>7, <1>8, <1>9, <1>10 DEF BInv

-----------------------------------------------------------------------------
(* phys_alloc. *)

\* The blocks that reduce_block makes of one of index c at p.
Halves(p, i, c) == {<<p, i>>} \cup {<<p + Size[j], j>> : j \in i..(c - 1)}

LEMMA HalvesTile ==
  ASSUME NEW c \in Index, NEW i \in Index, i <= c, NEW p, Placed(p, c)
  PROVE  /\ \A d \in Halves(p, i, c) : Placed(d[1], d[2])
         /\ \A u \in UnitsOf(<<p, c>>) : \E d \in Halves(p, i, c) : u \in UnitsOf(d)
         /\ \A d \in Halves(p, i, c) : \A u \in UnitsOf(d) : u \in UnitsOf(<<p, c>>)
         /\ \A d, e \in Halves(p, i, c) : \A u \in UnitsOf(d) : u \in UnitsOf(e) => d = e
<1> DEFINE N == Halves(p, i, c)
<1>1. /\ p \in Nat /\ Aligned(p, Low(c)) /\ p + Size[c] <= Total /\ Total \in Nat
      /\ \A u : u \in UnitsOf(<<p, c>>) <=> u \in Nat /\ p <= u /\ u < p + Size[c]
  BY UnitFacts, TotalFacts DEF Placed
<1>2. i \in Nat /\ c \in Nat /\ MaxIndex \in Nat /\ c <= MaxIndex /\ Index = 0..MaxIndex
  BY BuddyAssumption DEF Index
<1>3. \A j \in i..(c - 1) : /\ j \in Index /\ j \in Nat /\ j < c /\ j + 1 \in Index /\ i <= j
                            /\ Size[j] \in Nat \ {0} /\ Size[j + 1] = 2 * Size[j]
                            /\ 2 * Size[j] <= Size[c]
  <2> SUFFICES ASSUME NEW j \in i..(c - 1)
               PROVE  /\ j \in Index /\ j \in Nat /\ j < c /\ j + 1 \in Index /\ i <= j
                      /\ Size[j] \in Nat \ {0} /\ Size[j + 1] = 2 * Size[j]
                      /\ 2 * Size[j] <= Size[c]
    OBVIOUS
  <2>1. j \in Index /\ j \in Nat /\ j < c /\ j + 1 \in Index /\ i <= j /\ j + 1 # 0 /\ (j + 1) - 1 = j
    BY <1>2
  <2> QED BY <2>1, SizeDef, SizeNat, SizeGrows
<1>4. Size[i] \in Nat \ {0} /\ Size[c] \in Nat \ {0} /\ (i = c \/ 2 * Size[i] <= Size[c])
  BY <1>2, SizeNat, SizeGrows
<1>5. Placed(p, i)
  <2>1. CASE i = c
    BY <2>1
  <2>2. CASE i < c
    <3>1. i < MaxIndex /\ i <= Low(c) /\ Low(i) = i /\ Low(c) \in Index
      BY <1>2, <2>2, TotalFacts DEF Low
    <3>2. Aligned(p, i)
      BY <1>1, <3>1, AlignedDown
    <3>3. p + Size[i] <= Total
      BY <1>1, <1>4, <2>2
    <3> QED BY <1>1, <3>1, <3>2, <3>3 DEF Placed
  <2> QED BY <1>2, <2>1, <2>2
<1>6. ASSUME NEW j \in i..(c - 1) PROVE Placed(p + Size[j], j)
  <2>1. j < MaxIndex /\ j <= Low(c) /\ Low(j) = j /\ Low(c) \in Index /\ j \in Index
    BY <1>2, <1>3, TotalFacts DEF Low
  <2>2. Aligned(p, j)
    BY <1>1, <2>1, AlignedDown
  <2>3. Aligned(p + Size[j], j)
    BY <1>1, <2>1, <2>2, Apart
  <2>4. p + Size[j] + Size[j] <= Total /\ p + Size[j] \in Nat
    BY <1>1, <1>3, <1>4
  <2> QED BY <2>1, <2>3, <2>4 DEF Placed
<1>7. \A u : u \in UnitsOf(<<p, i>>) <=> u \in Nat /\ p <= u /\ u < p + Size[i]
  BY <1>5, UnitFacts
<1>8. \A j \in i..(c - 1) :
        \A u : u \in UnitsOf(<<p + Size[j], j>>)
                 <=> u \in Nat /\ p + Size[j] <= u /\ u < p + Size[j] + Size[j]
  BY <1>6, UnitFacts
<1>9. \A d \in N : d = <<p, i>> \/ \E j \in i..(c - 1) : d = <<p + Size[j], j>>
  BY DEF Halves
<1>10. ASSUME NEW u \in UnitsOf(<<p, c>>) PROVE \E d \in N : u \in UnitsOf(d)
  <2>1. u \in Nat /\ p <= u /\ u < p + Size[c]
    BY <1>1
  <2>2. CASE u < p + Size[i]
    BY <1>7, <2>1, <2>2 DEF Halves
  <2>3. CASE ~ (u < p + Size[i])
    <3> DEFINE T == {j \in i..c : u < p + Size[j]}
    <3>1. PICK m \in T : \A x \in T : m <= x
      <4>1. T \subseteq Nat /\ c \in T
        BY <1>2, <2>1
      <4> HIDE DEF T
      <4> QED BY <4>1, LeastNat
    <3>2. m \in i..c /\ u < p + Size[m] /\ m # i
      BY <2>3, <3>1
    <3>3. m - 1 \in i..(c - 1) /\ m - 1 \notin T /\ (m - 1) + 1 = m
      BY <1>2, <3>1, <3>2
    <3>4. p + Size[m - 1] <= u /\ Size[m] = 2 * Size[m - 1]
      <4>1. m - 1 \in i..c
        BY <1>2, <3>3
      <4>2. ~ (u < p + Size[m - 1])
        BY <3>3, <4>1
      <4> QED BY <1>1, <1>3, <2>1, <3>3, <4>2
    <3> HIDE DEF T
    <3>5. u \in UnitsOf(<<p + Size[m - 1], m - 1>>)
      BY <1>1, <1>3, <1>8, <2>1, <3>2, <3>3, <3>4
    <3> QED BY <3>3, <3>5 DEF Halves
  <2> QED BY <2>2, <2>3
<1>11. ASSUME NEW d \in N, NEW u \in UnitsOf(d) PROVE u \in UnitsOf(<<p, c>>)
  <2>1. CASE d = <<p, i>>
    BY <1>1, <1>4, <1>7, <2>1
  <2>2. ASSUME NEW j \in i..(c - 1), d = <<p + Size[j], j>> PROVE u \in UnitsOf(<<p, c>>)
    BY <1>1, <1>3, <1>4, <1>8, <2>2
  <2> QED BY <1>9, <2>1, <2>2
<1>12. ASSUME NEW d \in N, NEW e \in N, NEW u \in UnitsOf(d), u \in UnitsOf(e) PROVE d = e
  <2>1. ASSUME NEW j \in i..(c - 1), u \in UnitsOf(<<p + Size[j], j>>)
        PROVE  u \in Nat /\ p + Size[j] <= u /\ u < p + Size[j] + Size[j] /\ ~ (u \in UnitsOf(<<p, i>>))
    <3>1. j = i \/ 2 * Size[i] <= Size[j]
      BY <1>2, <1>3, SizeGrows
    <3> QED BY <1>1, <1>3, <1>4, <1>7, <1>8, <2>1, <3>1
  <2>2. ASSUME NEW j \in i..(c - 1), NEW k \in i..(c - 1), u \in UnitsOf(<<p + Size[j], j>>),
               u \in UnitsOf(<<p + Size[k], k>>)
        PROVE  j = k
    <3>1. j < k => 2 * Size[j] <= Size[k]
      BY <1>3, SizeGrows
    <3>2. k < j => 2 * Size[k] <= Size[j]
      BY <1>3, SizeGrows
    <3> QED BY <1>1, <1>3, <2>1, <2>2, <3>1, <3>2
  <2>3. CASE d = <<p, i>>
    BY <1>9, <1>12, <2>1, <2>3
  <2>4. ASSUME NEW j \in i..(c - 1), d = <<p + Size[j], j>> PROVE d = e
    BY <1>9, <1>12, <2>1, <2>2, <2>4
  <2> QED BY <1>9, <2>3, <2>4
<1>13. \A d \in N : Placed(d[1], d[2])
  BY <1>5, <1>6, <1>9
<1> QED BY <1>10, <1>11, <1>12, <1>13

\* phys_alloc keeps the invariant: the lists it fills were empty, so that no
\* new free block has a free buddy.
LEMMA AllocBInv ==
  ASSUME BInv, NEW i \in Index, PhysAlloc(i)
  PROVE  BInv'
<1> DEFINE c == Cible(i)
           p == Head(tzl[c])
           O == {<<p, c>>}
           N == Halves(p, i, c)
<1>1. /\ Lists /\ held \subseteq Unit \X Index /\ Free \cap held = {} /\ Tiled(Blocks)
      /\ Coalesced /\ \A b \in Blocks : Placed(b[1], b[2])
  BY DEF BInv
<1>2. /\ c \in i..MaxIndex /\ tzl[c] # <<>> /\ \A j \in i..(c - 1) : tzl[j] = <<>>
  <2>1. PICK m \in Fits(i) : \A x \in Fits(i) : m <= x
    <3>1. Fits(i) \subseteq Nat /\ Fits(i) # {}
      BY BuddyAssumption DEF Fits, Index, PhysAlloc
    <3> QED BY <3>1, LeastNat
  <2>2. c \in Fits(i) /\ \A d \in Fits(i) : c <= d
    BY <2>1 DEF Cible
  <2> HIDE DEF c
  <2>3. c \in i..MaxIndex /\ tzl[c] # <<>>
    BY <2>2 DEF Fits
  <2>4. ASSUME NEW j \in i..(c - 1) PROVE tzl[j] = <<>>
    <3>1. j \in i..MaxIndex /\ ~ (c <= j)
      BY <2>3, BuddyAssumption DEF Index
    <3> QED BY <2>2, <3>1 DEF Fits
  <2> QED BY <2>3, <2>4
<1>3. tzl' = Halved(p, i, c) /\ held' = held \cup {<<p, i>>}
  BY DEF PhysAlloc
<1> HIDE DEF c, p
<1>4. /\ c \in Index /\ i <= c /\ i \in Nat /\ c \in Nat
      /\ \A j \in i..(c - 1) : j \in Index /\ j # c /\ j < MaxIndex
  BY <1>2, BuddyAssumption DEF Index
<1>5. /\ tzl[c] \in Seq(Unit) /\ NoDup(tzl[c])
      /\ p \in Elems(tzl[c]) /\ Tail(tzl[c]) \in Seq(Unit) /\ NoDup(Tail(tzl[c]))
      /\ Elems(Tail(tzl[c])) = Elems(tzl[c]) \ {p}
  <2>1. tzl[c] \in Seq(Unit) /\ NoDup(tzl[c])
    BY <1>1, <1>4 DEF Lists
  <2> QED BY <1>2, <2>1, HeadTail DEF p
<1>6. <<p, c>> \in Free /\ Placed(p, c)
  <2>1. <<p, c>> \in Free
    BY <1>1, <1>4, <1>5, FreeBlocks
  <2>2. <<p, c>> \in Blocks
    BY <2>1 DEF Blocks
  <2>3. Placed(<<p, c>>[1], <<p, c>>[2])
    BY <1>1, <2>2
  <2> QED BY <2>1, <2>3
<1>7. /\ \A d \in N : Placed(d[1], d[2])
      /\ \A u \in UnitsOf(<<p, c>>) : \E d \in N : u \in UnitsOf(d)
      /\ \A d \in N : \A u \in UnitsOf(d) : u \in UnitsOf(<<p, c>>)
      /\ \A d, e \in N : \A u \in UnitsOf(d) : u \in UnitsOf(e) => d = e
  BY <1>4, <1>6, HalvesTile
<1>8. <<p, i>> \in N /\ \A j \in i..(c - 1) : <<p + Size[j], j>> \in N
  BY DEF Halves
<1>9. Placed(p, i) /\ \A j \in i..(c - 1) : Placed(p + Size[j], j)
  <2>1. Placed(<<p, i>>[1], <<p, i>>[2])
    BY <1>7, <1>8
  <2>2. \A j \in i..(c - 1) : Placed(<<p + Size[j], j>>[1], <<p + Size[j], j>>[2])
    BY <1>7, <1>8
  <2> QED BY <2>1, <2>2
<1>10. p \in Unit /\ \A j \in i..(c - 1) : p + Size[j] \in Unit
  BY <1>9, UnitFacts
<1>11. ASSUME NEW j \in Index
       PROVE  /\ tzl'[j] \in Seq(Unit) /\ NoDup(tzl'[j])
              /\ j = c => Elems(tzl'[j]) = Elems(tzl[j]) \ {p}
              /\ j \in i..(c - 1) => Elems(tzl'[j]) = {p + Size[j]} /\ Elems(tzl[j]) = {}
              /\ j # c /\ j \notin i..(c - 1) => Elems(tzl'[j]) = Elems(tzl[j])
  <2>1. tzl'[j] = IF j = c THEN Tail(tzl[j])
                  ELSE IF j \in i..(c - 1) THEN Append(tzl[j], p + Size[j])
                  ELSE tzl[j]
    BY <1>3 DEF Halved
  <2>2. tzl[j] \in Seq(Unit) /\ NoDup(tzl[j])
    BY <1>1 DEF Lists
  <2>3. CASE j = c
    BY <1>4, <1>5, <2>1, <2>3
  <2>4. CASE j \in i..(c - 1)
    <3> DEFINE x == p + Size[j]
    <3>1. tzl[j] = <<>> /\ x \in Unit /\ j # c
      BY <1>2, <1>4, <1>10, <2>4
    <3>2. Elems(tzl[j]) = {}
      BY <3>1 DEF Elems
    <3> HIDE DEF x
    <3>3. /\ Append(tzl[j], x) \in Seq(Unit) /\ NoDup(Append(tzl[j], x))
          /\ Elems(Append(tzl[j], x)) = Elems(tzl[j]) \cup {x}
      BY <2>2, <3>1, <3>2, HeadTail
    <3> QED BY <2>1, <2>4, <3>1, <3>2, <3>3 DEF x
  <2>5. CASE j # c /\ j \notin i..(c - 1)
    BY <2>1, <2>2, <2>5
  <2> QED BY <2>3, <2>4, <2>5
<1>12. Lists'
  <2>1. tzl' = [j \in Index |-> tzl'[j]]
    BY <1>3 DEF Halved
  <2>2. \A j \in Index : tzl'[j] \in Seq(Unit) /\ NoDup(tzl'[j])
    BY <1>11
  <2> QED BY <2>1, <2>2 DEF Lists
<1>13. /\ \A x, j : <<x, j>> \in Free <=> j \in Index /\ x \in Elems(tzl[j])
       /\ \A x, j : <<x, j>> \in Free' <=> j \in Index /\ x \in Elems(tzl'[j])
       /\ Free' \subseteq Unit \X Index
       /\ \A b \in Free : b = <<b[1], b[2]>> /\ b[2] \in Index
  BY <1>1, <1>12, FreeBlocks, NextFree DEF Blocks
<1>14. ASSUME NEW x, NEW j
       PROVE  /\ <<x, j>> \in Free' <=> \/ <<x, j>> \in Free /\ <<x, j>> # <<p, c>>
                                        \/ j \in i..(c - 1) /\ x = p + Size[j]
              /\ j \in i..(c - 1) => <<x, j>> \notin Free
  <2> HIDE DEF O, N
  <2>1. j \in i..(c - 1) => j \in Index /\ j # c
    BY <1>4
  <2>2. <<x, j>> = <<p, c>> <=> x = p /\ j = c
    OBVIOUS
  <2>3. CASE j \notin Index
    BY <1>13, <2>1, <2>3
  <2>4. CASE j = c
    BY <1>4, <1>11, <1>13, <2>1, <2>2, <2>4
  <2>5. CASE j \in i..(c - 1)
    <3>1. Elems(tzl'[j]) = {p + Size[j]} /\ Elems(tzl[j]) = {}
      BY <1>11, <2>1, <2>5
    <3> QED BY <1>13, <2>1, <2>5, <3>1
  <2>6. CASE j \in Index /\ j # c /\ j \notin i..(c - 1)
    <3>1. Elems(tzl'[j]) = Elems(tzl[j])
      BY <1>11, <2>6
    <3> QED BY <1>13, <2>2, <2>6, <3>1
  <2> QED BY <2>3, <2>4, <2>5, <2>6
<1>15. Free' = (Free \ O) \cup {<<p + Size[j], j>> : j \in i..(c - 1)}
  <2>1. ASSUME NEW b \in Free'
        PROVE  b \in (Free \ O) \cup {<<p + Size[j], j>> : j \in i..(c - 1)}
    <3>1. b = <<b[1], b[2]>>
      BY <1>13
    <3>2. \/ <<b[1], b[2]>> \in Free /\ <<b[1], b[2]>> # <<p, c>>
          \/ b[2] \in i..(c - 1) /\ b[1] = p + Size[b[2]]
      BY <1>14, <3>1
    <3> QED BY <3>1, <3>2
  <2>2. ASSUME NEW b \in Free \ O PROVE b \in Free'
    <3>1. b = <<b[1], b[2]>>
      BY <1>13
    <3> QED BY <1>14, <3>1
  <2>3. \A j \in i..(c - 1) : <<p + Size[j], j>> \in Free'
    BY <1>14
  <2> QED BY <2>1, <2>2, <2>3
<1>16. O \subseteq Free /\ O \subseteq Blocks /\ O \cap held = {}
  BY <1>1, <1>6 DEF Blocks
<1>17. Blocks' = (Blocks \ O) \cup N
  BY <1>3, <1>15, <1>16 DEF Blocks, Halves
<1>18. Tiled(Blocks') /\ \A d \in N : d \notin Blocks \ O
  <2>1. \A d \in N : UnitsOf(d) # {}
    <3>1. \A d \in N : d = <<d[1], d[2]>>
      BY DEF Halves
    <3> QED BY <1>7, <3>1, UnitFacts
  <2>2. \A b \in O : \A u \in UnitsOf(b) : \E d \in N : u \in UnitsOf(d)
    BY <1>7
  <2>3. \A d \in N : \A u \in UnitsOf(d) : \E b \in O : u \in UnitsOf(b)
    BY <1>7
  <2> HIDE DEF N, O
  <2>4. Tiled((Blocks \ O) \cup N) /\ \A d \in N : UnitsOf(d) # {} => d \notin Blocks \ O
    BY <1>1, <1>7, <1>16, <2>2, <2>3, Exchange
  <2> QED BY <1>17, <2>1, <2>4
<1>19. Free' \cap held' = {}
  <2>1. \A d \in N : d \notin held
    BY <1>16, <1>18 DEF Blocks
  <2>2. <<p, i>> \notin Free'
    <3>1. <<p, i>> \notin Free \ O
      BY <1>8, <1>18 DEF Blocks
    <3>2. ASSUME NEW j \in i..(c - 1), <<p, i>> = <<p + Size[j], j>> PROVE FALSE
      <4>1. p = p + Size[j] /\ p \in Nat /\ Size[j] \in Nat \ {0}
        BY <1>4, <3>2, <1>6, UnitFacts, SizeNat
      <4> QED BY <4>1
    <3> QED BY <1>15, <3>1, <3>2
  <2> QED BY <1>1, <1>3, <1>8, <1>15, <2>1, <2>2
<1>20. held' \subseteq Unit \X Index
  BY <1>1, <1>3, <1>10
<1>21. \A b \in Blocks' : Placed(b[1], b[2])
  BY <1>1, <1>7, <1>17
<1>22. Coalesced'
  <2> SUFFICES ASSUME NEW b \in Free', b[2] < MaxIndex
               PROVE  <<BuddyOf(b[1], b[2]), b[2]>> \notin Free'
    BY DEF Coalesced
  <2>1. b = <<b[1], b[2]>> /\ b[2] \in Index
    BY <1>13
  <2>2. CASE b[2] \in i..(c - 1)
    <3> DEFINE j == b[2]
               x == b[1]
    <3>1. x = p + Size[j] /\ Placed(p + Size[j], j)
      BY <1>9, <1>14, <2>1, <2>2
    <3>2. BuddyOf(x, j) # x
      <4>1. x \in Nat /\ Aligned(x, j) /\ j < MaxIndex /\ j \in Index
        BY <2>1, <3>1, TotalFacts DEF Placed
      <4> QED BY <4>1, Buddies
    <3> QED BY <1>14, <2>2, <3>1, <3>2
  <2>3. CASE b[2] \notin i..(c - 1)
    <3>1. b \in Free
      BY <1>14, <2>1, <2>3
    <3>2. <<BuddyOf(b[1], b[2]), b[2]>> \notin Free
      BY <1>1, <3>1 DEF Coalesced
    <3> QED BY <1>14, <2>3, <3>2
  <2> QED BY <2>2, <2>3
<1> QED BY <1>12, <1>18, <1>19, <1>20, <1>21, <1>22 DEF BInv

-----------------------------------------------------------------------------
(* phys_free. *)

\* A function on i..n of what merging gives.
Merges(b, p, i, n) ==
  b = [k \in i..n |-> IF k = i THEN p ELSE Lower(b[k - 1], BuddyOf(b[k - 1], k - 1))]

\* There is one for every n.
LEMMA MergesExist ==
  ASSUME NEW p, NEW i \in Nat
  PROVE  \A n \in Nat : i <= n => \E b : Merges(b, p, i, n)
<1> DEFINE T == {n \in Nat : i <= n /\ ~ \E b : Merges(b, p, i, n)}
<1>1. SUFFICES ASSUME T # {} PROVE FALSE
  OBVIOUS
<1>2. PICK m \in T : \A x \in T : m <= x
  <2>1. T \subseteq Nat
    OBVIOUS
  <2> HIDE DEF T
  <2> QED BY <1>1, <2>1, LeastNat
<1>3. m # i
  <2> DEFINE b == [k \in i..i |-> p]
  <2>1. \A k \in i..i : b[k] = IF k = i THEN p ELSE Lower(b[k - 1], BuddyOf(b[k - 1], k - 1))
    OBVIOUS
  <2>2. b = [k \in i..i |-> b[k]]
    OBVIOUS
  <2> HIDE DEF b
  <2>3. Merges(b, p, i, i)
    BY <2>1, <2>2 DEF Merges
  <2> QED BY <2>3, <1>2
<1>4. m \in Nat /\ i <= m - 1 /\ m - 1 \in Nat /\ m - 1 \notin T
  BY <1>2, <1>3
<1>5. PICK g : Merges(g, p, i, m - 1)
  BY <1>4
<1> DEFINE h == [k \in i..m |-> IF k = m THEN Lower(g[m - 1], BuddyOf(g[m - 1], m - 1)) ELSE g[k]]
<1>6. ASSUME NEW k \in i..m
      PROVE  h[k] = IF k = i THEN p ELSE Lower(h[k - 1], BuddyOf(h[k - 1], k - 1))
  <2>1. CASE k = m
    <3>1. h[k] = Lower(g[m - 1], BuddyOf(g[m - 1], m - 1)) /\ h[m - 1] = g[m - 1]
      BY <2>1, <1>3, <1>4
    <3> HIDE DEF h
    <3> QED BY <2>1, <3>1, <1>3
  <2>2. CASE k # m
    <3>1. k \in i..(m - 1)
      BY <2>2, <1>4
    <3>2. h[k] = g[k] /\ (k # i => h[k - 1] = g[k - 1])
      BY <2>2, <3>1, <1>4
    <3>3. g[k] = IF k = i THEN p ELSE Lower(g[k - 1], BuddyOf(g[k - 1], k - 1))
      BY <1>5, <3>1 DEF Merges
    <3> HIDE DEF h
    <3> QED BY <3>2, <3>3
  <2> QED BY <2>1, <2>2
<1>7. h = [k \in i..m |-> h[k]]
  OBVIOUS
<1> HIDE DEF h
<1>8. Merges(h, p, i, m)
  BY <1>6, <1>7 DEF Merges
<1> QED BY <1>2, <1>8

\* So Fusion is what its definition says.
LEMMA FusionDef ==
  ASSUME NEW p, NEW i \in Index
  PROVE  /\ Fusion(p, i)[i] = p
         /\ \A j \in i..(MaxIndex - 1) :
              Fusion(p, i)[j + 1] = Lower(Fusion(p, i)[j], BuddyOf(Fusion(p, i)[j], j))
<1> DEFINE f == Fusion(p, i)
<1>1. i \in Nat /\ MaxIndex \in Nat /\ i <= MaxIndex
  BY BuddyAssumption DEF Index
<1>2. \E b : Merges(b, p, i, MaxIndex)
  BY <1>1, MergesExist
<1>3. f = CHOOSE b : Merges(b, p, i, MaxIndex)
  BY DEF Fusion, Merges
<1> HIDE DEF f
<1>4. f = [k \in i..MaxIndex |-> IF k = i THEN p ELSE Lower(f[k - 1], BuddyOf(f[k - 1], k - 1))]
  BY <1>2, <1>3 DEF Merges
<1>5. \A k \in i..MaxIndex : f[k] = IF k = i THEN p ELSE Lower(f[k - 1], BuddyOf(f[k - 1], k - 1))
  BY <1>4
<1>6. \A j \in i..(MaxIndex - 1) : j + 1 \in i..MaxIndex /\ j + 1 # i /\ (j + 1) - 1 = j
  BY <1>1
<1>7. i \in i..MaxIndex
  BY <1>1
<1> QED BY <1>5, <1>6, <1>7 DEF f

\* A block and its buddy make the block of the next index.
LEMMA MergeOne ==
  ASSUME NEW p, NEW i, i < MaxIndex, Placed(p, i), Placed(BuddyOf(p, i), i)
  PROVE  LET q == Lower(p, BuddyOf(p, i)) IN
         /\ i + 1 \in Index /\ Placed(q, i + 1)
         /\ \A u : u \in UnitsOf(<<q, i + 1>>)
                     <=> u \in UnitsOf(<<p, i>>) \/ u \in UnitsOf(<<BuddyOf(p, i), i>>)
<1> DEFINE q == Lower(p, BuddyOf(p, i))
           b == BuddyOf(p, i)
<1>1. /\ i \in Index /\ p \in Nat /\ p + Size[i] <= Total /\ b + Size[i] <= Total /\ Aligned(p, i)
      /\ b \in Nat /\ Size[i] \in Nat \ {0} /\ Total \in Nat
  BY SizeNat, TotalFacts DEF Placed
<1>2. /\ \/ Aligned(p, i + 1) /\ b = p + Size[i]
         \/ p - Size[i] \in Nat /\ Aligned(p - Size[i], i + 1) /\ b = p - Size[i]
      /\ i + 1 \in Index /\ Size[i + 1] = 2 * Size[i]
  BY <1>1, Buddies
<1> HIDE DEF b
<1>3. q = IF p < b THEN p ELSE b
  BY DEF Lower, b
<1> HIDE DEF q
<1>4. /\ q \in Nat /\ Aligned(q, i + 1) /\ q + 2 * Size[i] <= Total
      /\ (q = p /\ b = p + Size[i]) \/ (q = b /\ p = b + Size[i])
  BY <1>1, <1>2, <1>3
<1>5. Placed(q, i + 1)
  <2>1. Low(i + 1) \in Index /\ Low(i + 1) <= i + 1
    BY <1>2, TotalFacts
  <2>2. Aligned(q, Low(i + 1))
    BY <1>2, <1>4, <2>1, AlignedDown
  <2> QED BY <1>2, <1>4, <2>2 DEF Placed
<1>6. /\ \A u : u \in UnitsOf(<<q, i + 1>>) <=> u \in Nat /\ q <= u /\ u < q + 2 * Size[i]
      /\ \A u : u \in UnitsOf(<<p, i>>) <=> u \in Nat /\ p <= u /\ u < p + Size[i]
      /\ \A u : u \in UnitsOf(<<b, i>>) <=> u \in Nat /\ b <= u /\ u < b + Size[i]
  BY <1>2, <1>5, UnitFacts DEF b
<1>7. ASSUME NEW u
      PROVE  u \in UnitsOf(<<q, i + 1>>) <=> u \in UnitsOf(<<p, i>>) \/ u \in UnitsOf(<<b, i>>)
  BY <1>1, <1>4, <1>6
<1> QED BY <1>2, <1>5, <1>7 DEF q, b

\* A block of the highest index has no buddy in the memory.
LEMMA TopAlone ==
  ASSUME NEW p, Placed(p, MaxIndex)
  PROVE  ~ Placed(BuddyOf(p, MaxIndex), MaxIndex)
<1> DEFINE s == Size[MaxIndex - 1]
<1>1. /\ Size[MaxIndex] = 2 * s /\ s \in Nat \ {0} /\ Total = 3 * s
      /\ p \in Nat /\ p + 2 * s <= 3 * s
  BY TotalFacts DEF Placed
<1>2. p \div Size[MaxIndex] = 0
  <2>1. p < 2 * s
    BY <1>1
  <2>2. \A a, b \in Nat : a < b => a \div b = 0
    OBVIOUS
  <2> QED BY <1>1, <2>1, <2>2
<1>3. BuddyOf(p, MaxIndex) = p + 2 * s
  BY <1>1, <1>2 DEF BuddyOf
<1> HIDE DEF s
<1>4. ~ (p + 2 * s + 2 * s <= 3 * s)
  BY <1>1
<1> QED BY <1>1, <1>3, <1>4 DEF Placed

\* The buddy that phys_free looks for at index j.
Mate(p, i, j) == BuddyOf(Fusion(p, i)[j], j)

\* The block that p has become at index j is placed, and has the units of what
\* was merged.
Merged(p, i, j) ==
  /\ Placed(Fusion(p, i)[j], j)
  /\ \A u : u \in UnitsOf(<<Fusion(p, i)[j], j>>)
              <=> \/ u \in UnitsOf(<<p, i>>)
                  \/ \E k \in i..(j - 1) : u \in UnitsOf(<<Mate(p, i, k), k>>)

\* phys_free ends at an index that has a list, and each buddy on the way is in
\* its list.
LEMMA FusionSteps ==
  ASSUME BInv, NEW p, NEW i \in Index, <<p, i>> \in held
  PROVE  /\ End(p, i) \in i..MaxIndex
         /\ Mate(p, i, End(p, i)) \notin Elems(tzl[End(p, i)])
         /\ \A j \in i..(End(p, i) - 1) : Mate(p, i, j) \in Elems(tzl[j])
         /\ \A j \in i..End(p, i) : Merged(p, i, j)
<1> DEFINE n == End(p, i)
           m == MaxIndex
           f == Fusion(p, i)
<1>1. /\ i \in Nat /\ m \in Nat /\ i <= m /\ Index = 0..m
  BY BuddyAssumption DEF Index
<1>2. /\ n \in i..(m + 1) /\ Alone(p, i, n)
      /\ \A j \in i..(n - 1) : ~ Alone(p, i, j)
  <2> DEFINE T == {x \in i..(m + 1) : Alone(p, i, x)}
  <2>1. m + 1 \in T
    BY <1>1 DEF Alone
  <2>2. T \subseteq Nat
    BY <1>1
  <2>3. PICK x \in T : \A y \in T : x <= y
    <3> HIDE DEF T
    <3> QED BY <2>1, <2>2, LeastNat
  <2>4. ASSUME NEW j \in i..(x - 1) PROVE ~ Alone(p, i, j)
    <3>1. j \in i..(m + 1) /\ ~ (x <= j)
      BY <1>1, <2>2, <2>3
    <3> QED BY <2>3, <3>1
  <2>5. x \in i..(m + 1) /\ Alone(p, i, x)
    BY <2>3
  <2> QED BY <2>4, <2>5 DEF End
<1> HIDE DEF n
<1>3. \A j \in i..(n - 1) : j \in Index /\ j <= m /\ Mate(p, i, j) \in Elems(tzl[j])
  BY <1>1, <1>2 DEF Alone, Mate
<1>4. /\ \A x, j : j \in Index /\ x \in Elems(tzl[j]) => Placed(x, j)
      /\ Placed(p, i)
  <2>1. Lists /\ held \subseteq Unit \X Index /\ \A b \in Blocks : Placed(b[1], b[2])
    BY DEF BInv
  <2>2. ASSUME NEW x, NEW j, j \in Index, x \in Elems(tzl[j]) PROVE Placed(x, j)
    <3>1. <<x, j>> \in Blocks
      BY <2>1, <2>2, FreeBlocks DEF Blocks
    <3>2. Placed(<<x, j>>[1], <<x, j>>[2])
      BY <2>1, <3>1
    <3> QED BY <3>2
  <2>3. Placed(<<p, i>>[1], <<p, i>>[2])
    BY <2>1 DEF Blocks
  <2> QED BY <2>2, <2>3
<1>5. f[i] = p /\ \A j \in i..(m - 1) : f[j + 1] = Lower(f[j], Mate(p, i, j))
  BY FusionDef DEF Mate
<1>6. ASSUME NEW j \in i..n, j <= m PROVE Merged(p, i, j)
  <2> DEFINE T == {x \in i..n : x <= m /\ ~ Merged(p, i, x)}
  <2>1. SUFFICES ASSUME T # {} PROVE FALSE
    BY <1>6
  <2>2. PICK x \in T : \A y \in T : x <= y
    <3>1. T \subseteq Nat
      BY <1>1, <1>2
    <3> HIDE DEF T
    <3> QED BY <2>1, <3>1, LeastNat
  <2>3. x \in i..n /\ x <= m /\ ~ Merged(p, i, x)
    BY <2>2
  <2>4. x # i
    <3>1. \A u : u \in UnitsOf(<<f[i], i>>) <=> u \in UnitsOf(<<p, i>>)
      BY <1>5
    <3>2. i..(i - 1) = {}
      BY <1>1
    <3>3. Merged(p, i, i)
      BY <1>4, <1>5, <3>1, <3>2 DEF Merged
    <3> QED BY <2>3, <3>3
  <2> DEFINE k == x - 1
  <2>5. /\ k \in i..n /\ k \in i..(n - 1) /\ k \in i..(m - 1) /\ k <= m /\ k < m /\ k \notin T
        /\ k + 1 = x /\ k \in Nat
    BY <1>1, <1>2, <2>2, <2>3, <2>4
  <2> HIDE DEF T, k
  <2>6. Merged(p, i, k)
    BY <2>5 DEF T
  <2>7. Placed(f[k], k) /\ Placed(BuddyOf(f[k], k), k)
    <3>1. Mate(p, i, k) \in Elems(tzl[k]) /\ k \in Index
      BY <1>3, <2>5
    <3> QED BY <1>4, <2>6, <3>1 DEF Merged, Mate
  <2>8. f[x] = Lower(f[k], BuddyOf(f[k], k))
    BY <1>5, <2>5 DEF Mate
  <2> HIDE DEF f
  <2>9. /\ Placed(f[x], x)
        /\ \A u : u \in UnitsOf(<<f[x], x>>)
                    <=> u \in UnitsOf(<<f[k], k>>) \/ u \in UnitsOf(<<BuddyOf(f[k], k), k>>)
    BY <2>5, <2>7, <2>8, MergeOne
  <2>10. \A y : y \in i..(x - 1) <=> y \in i..(k - 1) \/ y = k
    BY <1>1, <2>5
  <2>11. ASSUME NEW u
         PROVE  u \in UnitsOf(<<f[x], x>>)
                  <=> \/ u \in UnitsOf(<<p, i>>)
                      \/ \E y \in i..(x - 1) : u \in UnitsOf(<<Mate(p, i, y), y>>)
    <3>1. u \in UnitsOf(<<f[k], k>>)
            <=> \/ u \in UnitsOf(<<p, i>>)
                \/ \E y \in i..(k - 1) : u \in UnitsOf(<<Mate(p, i, y), y>>)
      BY <2>6 DEF Merged, f
    <3>2. Mate(p, i, k) = BuddyOf(f[k], k)
      BY DEF Mate, f
    <3> QED BY <2>9, <2>10, <3>1, <3>2
  <2>12. Merged(p, i, x)
    BY <2>9, <2>11 DEF Merged, f
  <2> QED BY <2>3, <2>12
<1>7. n \in i..m
  <2> SUFFICES ASSUME n = m + 1 PROVE FALSE
    BY <1>1, <1>2
  <2>1. m \in i..n /\ m \in i..(n - 1) /\ m <= m
    BY <1>1
  <2>2. Placed(f[m], m)
    BY <1>6, <2>1 DEF Merged
  <2>3. Placed(BuddyOf(f[m], m), m)
    BY <1>3, <1>4, <2>1 DEF Mate
  <2> QED BY <2>2, <2>3, TopAlone
<1>8. Mate(p, i, n) \notin Elems(tzl[n])
  <2>1. ~ (n > m)
    BY <1>1, <1>7
  <2> QED BY <1>2, <2>1 DEF Alone, Mate
<1>9. \A j \in i..n : j <= m
  BY <1>1, <1>7
<1> QED BY <1>3, <1>6, <1>7, <1>8, <1>9 DEF n

\* phys_free keeps the invariant: what it merges has the units of the block
\* that it puts in a list, and it stops where the buddy is not free.
LEMMA FreeBInv ==
  ASSUME BInv, NEW p \in Unit, NEW i \in Index, PhysFree(p, i)
  PROVE  BInv'
<1> DEFINE n == End(p, i)
           q == Fusion(p, i)[n]
           B == {<<Mate(p, i, j), j>> : j \in i..(n - 1)}
           O == {<<p, i>>} \cup B
           N == {<<q, n>>}
<1>1. /\ Lists /\ held \subseteq Unit \X Index /\ Free \cap held = {} /\ Tiled(Blocks)
      /\ Coalesced /\ \A b \in Blocks : Placed(b[1], b[2])
  BY DEF BInv
<1>2. /\ <<p, i>> \in held /\ held' = held \ {<<p, i>>}
      /\ tzl' = [j \in Index |-> IF j \in i..(n - 1) THEN QueueDel(tzl[j], Mate(p, i, j))
                                 ELSE IF j = n THEN Append(tzl[j], Fusion(p, i)[j])
                                 ELSE tzl[j]]
  BY DEF PhysFree, Mate
<1>3. /\ n \in i..MaxIndex
      /\ Mate(p, i, n) \notin Elems(tzl[n])
      /\ \A j \in i..(n - 1) : Mate(p, i, j) \in Elems(tzl[j])
      /\ Placed(q, n)
      /\ \A u : u \in UnitsOf(<<q, n>>)
                  <=> \/ u \in UnitsOf(<<p, i>>)
                      \/ \E k \in i..(n - 1) : u \in UnitsOf(<<Mate(p, i, k), k>>)
      /\ Mate(p, i, n) = BuddyOf(q, n)
  <2>1. /\ n \in i..MaxIndex
        /\ Mate(p, i, n) \notin Elems(tzl[n])
        /\ \A j \in i..(n - 1) : Mate(p, i, j) \in Elems(tzl[j])
        /\ \A j \in i..n : Merged(p, i, j)
    BY <1>2, FusionSteps
  <2>2. n \in i..n
    BY <2>1, BuddyAssumption DEF Index
  <2>3. Merged(p, i, n)
    BY <2>1, <2>2
  <2> QED BY <2>1, <2>3 DEF Merged, Mate
<1> HIDE DEF n, q
<1>4. /\ n \in Index /\ i \in Nat /\ n \in Nat /\ n <= MaxIndex /\ n \notin i..(n - 1)
      /\ \A j \in i..(n - 1) : j \in Index /\ j # n
  BY <1>3, BuddyAssumption DEF Index
<1>5. \A x, j : <<x, j>> \in Free <=> j \in Index /\ x \in Elems(tzl[j])
  BY <1>1, FreeBlocks
<1>6. B \subseteq Free /\ <<p, i>> \notin Free /\ O \subseteq Blocks
  BY <1>1, <1>2, <1>3, <1>4, <1>5 DEF Blocks
<1>7. q \in Unit /\ UnitsOf(<<q, n>>) # {}
  BY <1>3, UnitFacts
<1>8. Tiled((Blocks \ O) \cup N) /\ <<q, n>> \notin Blocks \ O
  <2>1. \A b \in O : \A u \in UnitsOf(b) : \E c \in N : u \in UnitsOf(c)
    BY <1>3
  <2>2. \A c \in N : \A u \in UnitsOf(c) : \E b \in O : u \in UnitsOf(b)
    BY <1>3
  <2>3. \A b, c \in N : b = c
    OBVIOUS
  <2>4. <<q, n>> \in N
    OBVIOUS
  <2> DEFINE A == Blocks
  <2>5. O \subseteq A /\ Tiled(A)
    BY <1>1, <1>6
  <2>6. \A b, c \in N : \A u \in UnitsOf(b) : u \in UnitsOf(c) => b = c
    BY <2>3
  <2> HIDE DEF O, N, B, A
  <2>7. Tiled((A \ O) \cup N) /\ \A c \in N : UnitsOf(c) # {} => c \notin A \ O
    BY <2>1, <2>2, <2>5, <2>6, Exchange
  <2> QED BY <1>7, <2>4, <2>7 DEF A
<1>9. <<q, n>> \notin Free
  <2>1. <<q, n>> \notin B
    BY <1>4
  <2> QED BY <1>6, <1>8, <2>1 DEF Blocks
<1>10. <<q, n>> \notin held'
  <2>1. <<q, n>> \in held' => <<q, n>> \in Blocks /\ <<q, n>> # <<p, i>> /\ <<q, n>> \notin Free
    BY <1>1, <1>2 DEF Blocks
  <2> QED BY <1>6, <1>8, <2>1
<1>11. ASSUME NEW j \in Index
       PROVE  /\ tzl'[j] \in Seq(Unit) /\ NoDup(tzl'[j])
              /\ j \in i..(n - 1) => Elems(tzl'[j]) = Elems(tzl[j]) \ {Mate(p, i, j)}
              /\ j = n => Elems(tzl'[j]) = Elems(tzl[j]) \cup {q}
              /\ j # n /\ j \notin i..(n - 1) => Elems(tzl'[j]) = Elems(tzl[j])
  <2>1. tzl'[j] = IF j \in i..(n - 1) THEN QueueDel(tzl[j], Mate(p, i, j))
                  ELSE IF j = n THEN Append(tzl[j], Fusion(p, i)[j])
                  ELSE tzl[j]
    BY <1>2
  <2>2. tzl[j] \in Seq(Unit) /\ NoDup(tzl[j])
    BY <1>1 DEF Lists
  <2>3. CASE j \in i..(n - 1)
    <3>1. Mate(p, i, j) \in Elems(tzl[j]) /\ j # n
      BY <1>3, <1>4, <2>3
    <3>2. /\ QueueDel(tzl[j], Mate(p, i, j)) \in Seq(Unit)
          /\ NoDup(QueueDel(tzl[j], Mate(p, i, j)))
          /\ Elems(QueueDel(tzl[j], Mate(p, i, j))) = Elems(tzl[j]) \ {Mate(p, i, j)}
      BY <2>2, <3>1, QueueDelElems
    <3> QED BY <2>1, <2>3, <3>1, <3>2
  <2>4. CASE j = n
    <3>1. tzl'[j] = Append(tzl[j], q) /\ q \notin Elems(tzl[j])
      BY <1>4, <1>5, <1>9, <2>1, <2>4 DEF q
    <3> QED BY <1>4, <1>7, <2>2, <2>4, <3>1, HeadTail
  <2>5. CASE j # n /\ j \notin i..(n - 1)
    BY <2>1, <2>2, <2>5
  <2> QED BY <2>3, <2>4, <2>5
<1>12. Lists'
  <2>1. tzl' = [j \in Index |-> tzl'[j]]
    BY <1>2
  <2>2. \A j \in Index : tzl'[j] \in Seq(Unit) /\ NoDup(tzl'[j])
    BY <1>11
  <2> QED BY <2>1, <2>2 DEF Lists
<1>13. /\ \A x, j : <<x, j>> \in Free' <=> j \in Index /\ x \in Elems(tzl'[j])
       /\ \A b \in Free' : b = <<b[1], b[2]>> /\ b[2] \in Index
       /\ \A b \in Free : b = <<b[1], b[2]>> /\ b[2] \in Index
  BY <1>1, <1>12, FreeBlocks, NextFree DEF Blocks
<1>14. ASSUME NEW x, NEW j
       PROVE  <<x, j>> \in Free' <=> \/ <<x, j>> \in Free /\ <<x, j>> \notin B
                                     \/ <<x, j>> = <<q, n>>
  <2>1. <<x, j>> \in B <=> j \in i..(n - 1) /\ x = Mate(p, i, j)
    OBVIOUS
  <2> HIDE DEF B, O, N
  <2>2. CASE j \notin Index
    BY <1>4, <1>5, <1>13, <2>2
  <2>3. CASE j \in i..(n - 1)
    <3>1. Elems(tzl'[j]) = Elems(tzl[j]) \ {Mate(p, i, j)} /\ j \in Index /\ j # n
      BY <1>4, <1>11, <2>3
    <3> QED BY <1>5, <1>13, <2>1, <2>3, <3>1
  <2>4. CASE j = n
    <3>1. Elems(tzl'[j]) = Elems(tzl[j]) \cup {q} /\ j \notin i..(n - 1) /\ j \in Index
      BY <1>4, <1>11, <2>4
    <3> QED BY <1>5, <1>13, <2>1, <2>4, <3>1
  <2>5. CASE j \in Index /\ j # n /\ j \notin i..(n - 1)
    <3>1. Elems(tzl'[j]) = Elems(tzl[j])
      BY <1>11, <2>5
    <3> QED BY <1>5, <1>13, <2>1, <2>5, <3>1
  <2> QED BY <2>2, <2>3, <2>4, <2>5
<1>15. Free' = (Free \ B) \cup {<<q, n>>}
  <2> HIDE DEF B
  <2>1. ASSUME NEW b \in Free' PROVE b \in (Free \ B) \cup {<<q, n>>}
    <3>1. b = <<b[1], b[2]>>
      BY <1>13
    <3> QED BY <1>14, <3>1
  <2>2. ASSUME NEW b \in Free \ B PROVE b \in Free'
    <3>1. b = <<b[1], b[2]>>
      BY <1>13
    <3> QED BY <1>14, <3>1
  <2>3. <<q, n>> \in Free'
    BY <1>14
  <2> QED BY <2>1, <2>2, <2>3
<1>16. Blocks' = (Blocks \ O) \cup N
  <2>1. B \cap held = {}
    BY <1>1, <1>6
  <2> HIDE DEF B
  <2> QED BY <1>2, <1>6, <1>15, <2>1 DEF Blocks
<1>17. Tiled(Blocks')
  BY <1>8, <1>16
<1>18. Free' \cap held' = {}
  <2> HIDE DEF B, O, N
  <2> QED BY <1>1, <1>2, <1>10, <1>15
<1>19. held' \subseteq Unit \X Index
  BY <1>1, <1>2
<1>20. \A b \in Blocks' : Placed(b[1], b[2])
  <2>1. \A b \in N : Placed(b[1], b[2])
    BY <1>3
  <2> HIDE DEF O, N
  <2> QED BY <1>1, <1>16, <2>1
<1>21. Coalesced'
  <2> HIDE DEF B, O, N
  <2> SUFFICES ASSUME NEW b \in Free', b[2] < MaxIndex
               PROVE  <<BuddyOf(b[1], b[2]), b[2]>> \notin Free'
    BY DEF Coalesced
  <2> DEFINE x == b[1]
             j == b[2]
             y == BuddyOf(b[1], b[2])
  <2>1. b = <<x, j>> /\ j \in Index
    BY <1>13
  <2>2. Placed(x, j)
    BY <1>20 DEF Blocks
  <2>3. y # x /\ BuddyOf(y, j) = x
    <3>1. x \in Nat /\ Aligned(x, j) /\ j < MaxIndex
      BY <2>1, <2>2, TotalFacts DEF Placed
    <3> QED BY <2>1, <3>1, Buddies
  <2>4. <<x, j>> \in Free => <<y, j>> \notin Free
    BY <1>1, <2>1 DEF Coalesced
  <2> HIDE DEF x, j, y
  <2>5. SUFFICES <<y, j>> \notin Free'
    BY DEF x, j, y
  <2>6. CASE <<x, j>> = <<q, n>>
    <3>1. <<y, j>> \notin Free
      <4>1. y = Mate(p, i, n) /\ j = n
        BY <1>3, <2>6 DEF x, j, y
      <4> QED BY <1>3, <1>5, <4>1
    <3>2. <<y, j>> # <<q, n>>
      BY <2>3, <2>6
    <3> QED BY <1>14, <3>1, <3>2
  <2>7. CASE <<x, j>> # <<q, n>>
    <3>1. <<x, j>> \in Free
      BY <1>14, <2>1, <2>7
    <3>2. <<y, j>> # <<q, n>>
      <4> SUFFICES ASSUME y = q, j = n PROVE FALSE
        OBVIOUS
      <4>1. x = Mate(p, i, n)
        BY <1>3, <2>3
      <4> QED BY <1>3, <1>5, <3>1, <4>1
    <3> QED BY <1>14, <2>4, <3>1, <3>2
  <2> QED BY <2>6, <2>7
<1> QED BY <1>12, <1>17, <1>18, <1>19, <1>20, <1>21 DEF BInv

-----------------------------------------------------------------------------
(* What the invariant gives. *)

\* The end of a block is aligned like its beginning.
LEMMA EndAligned ==
  ASSUME NEW k \in Index, NEW j \in Index, j <= k, NEW q \in Nat, Aligned(q, j)
  PROVE  q + Size[k] \in Nat /\ Aligned(q + Size[k], j)
<1>1. Size[k] \in Nat /\ Aligned(Size[k], k)
  <2>1. Size[k] \in Nat /\ Size[k] = 1 * Size[k]
    BY SizeNat
  <2> QED BY <2>1 DEF Aligned
<1>2. Aligned(Size[k], j)
  BY <1>1, AlignedDown
<1> DEFINE s == Size[j]
<1>3. s \in Nat
  BY SizeNat
<1>4. PICK a \in Nat, b \in Nat : q = a * s /\ Size[k] = b * s
  BY <1>2 DEF Aligned
<1> HIDE DEF s
<1>5. q + Size[k] = (a + b) * s /\ a + b \in Nat
  BY <1>3, <1>4
<1> QED BY <1>1, <1>5 DEF Aligned, s

\* When nothing is held, no block of an index below the two highest is left:
\* the one that holds its buddy would overlap it.
LEMMA OnlyLarge ==
  ASSUME BInv, held = {}, NEW x, NEW j, <<x, j>> \in Free
  PROVE  j \in Index /\ j >= MaxIndex - 1
<1>1. /\ Lists /\ Tiled(Free) /\ Coalesced /\ Blocks = Free
      /\ \A b \in Free : Placed(b[1], b[2])
  BY DEF BInv, Blocks
<1>2. /\ \A b \in Free : b = <<b[1], b[2]>> /\ b[2] \in Index
      /\ \A y, k : <<y, k>> \in Free => k \in Index /\ Placed(y, k)
  <2>1. ASSUME NEW y, NEW k, <<y, k>> \in Free PROVE Placed(y, k)
    <3>1. Placed(<<y, k>>[1], <<y, k>>[2])
      BY <1>1, <2>1
    <3> QED BY <3>1
  <2>2. \A b \in Free : b = <<b[1], b[2]>> /\ b[2] \in Index
    BY DEF Free
  <2> QED BY <2>1, <2>2 DEF Placed
<1> DEFINE T == {k \in Index : \E y : <<y, k>> \in Free}
<1>3. PICK i \in T : \A k \in T : i <= k
  <2>1. T \subseteq Nat
    BY BuddyAssumption DEF Index
  <2>2. j \in T
    BY <1>2
  <2> HIDE DEF T
  <2> QED BY <2>1, <2>2, LeastNat
<1>4. PICK p : <<p, i>> \in Free
  BY <1>3
<1>5. ASSUME NEW y, NEW k, <<y, k>> \in Free PROVE k \in Nat /\ i <= k
  <2>1. k \in Index /\ k \in T
    BY <1>2, <1>5
  <2> HIDE DEF T
  <2> QED BY <1>3, <2>1, BuddyAssumption DEF Index
<1>6. i \in Index /\ i \in Nat /\ MaxIndex \in Nat /\ Index = 0..MaxIndex
  BY <1>2, <1>4, BuddyAssumption DEF Index
<1> HIDE DEF T
<1>7. i >= MaxIndex - 1
  <2> SUFFICES ASSUME i < MaxIndex - 1 PROVE FALSE
    BY <1>6
  <2> DEFINE b == BuddyOf(p, i)
             l == Lower(p, b)
             e == Size[i + 1]
  <2>1. /\ p \in Nat /\ Aligned(p, i) /\ Size[i] \in Nat \ {0} /\ i < MaxIndex
        /\ Placed(p, i)
    <3>1. Placed(p, i)
      BY <1>2, <1>4
    <3>2. i < MaxIndex
      BY <1>6
    <3>3. Low(i) = i
      BY <1>6, <3>2, TotalFacts
    <3>4. Size[i] \in Nat \ {0}
      BY <1>6, SizeNat
    <3>5. p \in Nat /\ Aligned(p, i)
      BY <3>1, <3>3 DEF Placed
    <3> QED BY <3>1, <3>2, <3>4, <3>5
  <2>2. /\ \/ Aligned(p, i + 1) /\ b = p + Size[i]
           \/ p - Size[i] \in Nat /\ Aligned(p - Size[i], i + 1) /\ b = p - Size[i]
        /\ b \in Nat /\ b # p /\ BuddyOf(b, i) = p
        /\ i + 1 \in Index /\ e = 2 * Size[i]
    BY <1>6, <2>1, Buddies
  <2>3. <<b, i>> \notin Free
    <3>1. <<BuddyOf(<<p, i>>[1], <<p, i>>[2]), <<p, i>>[2]>> \notin Free
      BY <1>1, <1>4, <2>1 DEF Coalesced
    <3> QED BY <3>1
  <2> HIDE DEF b, e
  <2>4. /\ l \in Nat /\ Aligned(l, i + 1) /\ l + e = l + 2 * Size[i]
        /\ (l = p /\ b = p + Size[i]) \/ (l = b /\ p = b + Size[i])
    BY <2>1, <2>2 DEF Lower
  <2> HIDE DEF l
  <2>5. Aligned(b, i)
    <3>1. Aligned(l, i)
      BY <1>6, <2>2, <2>4, AlignedDown
    <3>2. Aligned(l + Size[i], i)
      BY <1>6, <2>4, <3>1, Apart
    <3> QED BY <2>1, <2>4, <3>1, <3>2
  <2>6. l + e <= Total
    <3>1. Aligned(Total, i + 1) /\ Total \in Nat
      BY <1>6, <2>2, TotalFacts
    <3>2. l < Total
      BY <2>1, <2>2, <2>4, <3>1 DEF Placed
    <3> QED BY <2>2, <2>4, <3>1, <3>2, Apart DEF e
  <2>7. b \in Unit
    <3>1. Size[i] \in Nat \ {0} /\ Total \in Nat /\ e = 2 * Size[i] /\ b \in Nat /\ l \in Nat
      BY <2>1, <2>2, <2>4, TotalFacts
    <3>2. b < l + 2 * Size[i]
      BY <2>1, <2>2, <2>4, <3>1
    <3>3. b < Total
      BY <2>6, <3>1, <3>2
    <3> QED BY <3>1, <3>3, TotalFacts
  <2>8. PICK c \in Free : b \in UnitsOf(c)
    BY <1>1, <2>7 DEF Tiled
  <2> DEFINE q == c[1]
             k == c[2]
  <2>9. c = <<q, k>> /\ k \in Index /\ k \in Nat /\ i <= k /\ Placed(q, k)
    BY <1>2, <1>5
  <2> HIDE DEF q, k
  <2>10. q \in Nat /\ Size[k] \in Nat \ {0} /\ q <= b /\ b < q + Size[k] /\ Aligned(q, Low(k))
    BY <2>8, <2>9, UnitFacts DEF Placed
  <2>11. CASE k = i
    <3>1. Aligned(q, i)
      BY <1>6, <2>1, <2>10, <2>11, TotalFacts
    <3>2. ~ (q < b)
      BY <1>6, <2>2, <2>5, <2>10, <2>11, <3>1, Apart
    <3>3. q = b
      BY <2>2, <2>10, <3>2
    <3> QED BY <2>3, <2>9, <2>11, <3>3
  <2>12. CASE i < k
    <3>1. i + 1 <= Low(k) /\ Low(k) \in Index /\ i + 1 <= k
      BY <1>6, <2>9, <2>12, TotalFacts DEF Low
    <3>2. Aligned(q, i + 1) /\ q + Size[k] \in Nat /\ Aligned(q + Size[k], i + 1)
      BY <2>2, <2>9, <2>10, <3>1, AlignedDown, EndAligned
    <3>3. q <= l
      <4>1. l < q => l + e <= q
        BY <2>2, <2>4, <2>10, <3>2, Apart DEF e
      <4> QED BY <2>1, <2>2, <2>4, <2>10, <4>1
    <3>4. l + e <= q + Size[k]
      <4>1. l < q + Size[k]
        BY <2>1, <2>2, <2>4, <2>10
      <4> QED BY <2>2, <2>4, <3>2, <4>1, Apart DEF e
    <3>5. q <= p /\ p < q + Size[k]
      BY <2>1, <2>2, <2>4, <2>10, <3>3, <3>4
    <3>6. p \in UnitsOf(<<q, k>>) /\ p \in UnitsOf(<<p, i>>)
      BY <2>1, <2>9, <3>5, UnitFacts
    <3>7. <<q, k>> = <<p, i>>
      BY <1>1, <1>4, <2>9, <3>6 DEF Tiled
    <3> QED BY <1>6, <2>9, <2>12, <3>7
  <2> QED BY <1>6, <2>9, <2>11, <2>12
<1> QED BY <1>2, <1>5, <1>6, <1>7

\* Two blocks of index MaxIndex - 1 would be buddies, and two of index
\* MaxIndex would overlap.
LEMMA WholeFromInv == BInv => WholeAgain
<1> SUFFICES ASSUME BInv, held = {}
             PROVE  tzl[MaxIndex] # <<>> /\ tzl[MaxIndex - 1] # <<>>
  BY DEF WholeAgain
<1> DEFINE s == Size[MaxIndex - 1]
           m == MaxIndex
<1>1. /\ Lists /\ Tiled(Free) /\ Coalesced /\ held \subseteq Unit \X Index
      /\ \A b \in Free : Placed(b[1], b[2])
  BY DEF BInv, Blocks
<1>2. /\ m \in Index /\ m - 1 \in Index /\ m \in Nat \ {0} /\ s \in Nat \ {0}
      /\ Size[m] = 2 * s /\ Size[m - 1] = s /\ Total = 3 * s /\ Unit = 0..(3 * s - 1)
      /\ Low(m) = m - 1 /\ Low(m - 1) = m - 1
  BY TotalFacts, BuddyAssumption DEF Low
<1>3. \A x, j : <<x, j>> \in Free => j \in Index /\ x \in Elems(tzl[j])
  BY <1>1, FreeBlocks
<1>4. ASSUME NEW j, tzl[j] = <<>> PROVE \A x : <<x, j>> \notin Free
  <2>1. Elems(tzl[j]) = {}
    BY <1>4 DEF Elems
  <2> QED BY <1>3, <2>1
<1>5. Aligned(0, m - 1) /\ Aligned(s, m - 1) /\ Aligned(2 * s, m - 1)
  <2>1. 0 = 0 * Size[m - 1] /\ s = 1 * Size[m - 1] /\ 2 * s = 2 * Size[m - 1]
    BY <1>2
  <2> QED BY <2>1 DEF Aligned
<1>6. ASSUME NEW u \in Unit
      PROVE  \E x \in Nat : \E j \in {m - 1, m} :
               /\ <<x, j>> \in Free /\ u \in UnitsOf(<<x, j>>)
               /\ Aligned(x, m - 1) /\ x <= u
               /\ j = m - 1 => u < x + s
               /\ j = m => u < x + 2 * s /\ x + 2 * s <= 3 * s
  <2>1. PICK b \in Free : u \in UnitsOf(b)
    BY <1>1 DEF Tiled
  <2> DEFINE x == b[1]
             j == b[2]
  <2>2. b = <<x, j>> /\ Placed(x, j)
    BY <1>1 DEF Free
  <2> HIDE DEF x, j
  <2>3. j \in Index /\ j >= m - 1
    BY <2>2, OnlyLarge
  <2>4. j = m - 1 \/ j = m
    BY <1>2, <2>3, BuddyAssumption DEF Index
  <2>5. x \in Nat /\ x <= u /\ u < x + Size[j] /\ Aligned(x, Low(j)) /\ x + Size[j] <= Total
    BY <2>1, <2>2, UnitFacts DEF Placed
  <2>6. Aligned(x, m - 1)
    BY <1>2, <2>4, <2>5
  <2>7. /\ j = m - 1 => u < x + s
        /\ j = m => u < x + 2 * s /\ x + 2 * s <= 3 * s
    BY <1>2, <2>4, <2>5
  <2> QED BY <2>1, <2>2, <2>4, <2>5, <2>6, <2>7
<1> HIDE DEF s, m
<1>7. 0 \in Unit /\ s \in Unit /\ 2 * s \in Unit
  BY <1>2
<1>8. ASSUME NEW x \in Nat, NEW y \in Nat, Aligned(x, m - 1), Aligned(y, m - 1), x < y
      PROVE  x + s <= y
  BY <1>2, <1>8, Apart
<1>9. ASSUME tzl[m] = <<>> PROVE FALSE
  <2>1. \A x : <<x, m>> \notin Free
    BY <1>4, <1>9
  <2>2. PICK x \in Nat : <<x, m - 1>> \in Free /\ x <= 0
    BY <1>6, <1>7, <2>1
  <2>3. PICK y \in Nat : <<y, m - 1>> \in Free /\ y <= s /\ s < y + s /\ Aligned(y, m - 1)
    BY <1>6, <1>7, <2>1
  <2>4. x = 0
    BY <2>2
  <2>5. y = s
    <3>1. ~ (y < s)
      BY <1>2, <1>5, <1>8, <2>3
    <3> QED BY <1>2, <2>3, <3>1
  <2>6. m - 1 < MaxIndex /\ BuddyOf(0, m - 1) = s
    <3>1. m - 1 < MaxIndex /\ m \in Nat
      BY <1>2 DEF m
    <3>2. /\ \/ BuddyOf(0, m - 1) = 0 + Size[m - 1]
             \/ 0 - Size[m - 1] \in Nat
      BY <1>2, <1>5, <3>1, Buddies
    <3> QED BY <1>2, <3>1, <3>2
  <2>7. <<BuddyOf(<<x, m - 1>>[1], <<x, m - 1>>[2]), <<x, m - 1>>[2]>> \notin Free
    BY <1>1, <2>2, <2>6 DEF Coalesced
  <2> QED BY <2>3, <2>4, <2>5, <2>6, <2>7
<1>10. ASSUME tzl[m - 1] = <<>> PROVE FALSE
  <2>1. \A x : <<x, m - 1>> \notin Free
    BY <1>4, <1>10
  <2>2. PICK x \in Nat : <<x, m>> \in Free /\ x <= 0
    BY <1>6, <1>7, <2>1
  <2>3. PICK y \in Nat : /\ <<y, m>> \in Free /\ y <= 2 * s /\ 2 * s < y + 2 * s
                         /\ y + 2 * s <= 3 * s
    BY <1>6, <1>7, <2>1
  <2>4. x = 0 /\ y # 0 /\ y <= s
    BY <1>2, <2>2, <2>3
  <2>5. Placed(x, m) /\ Placed(y, m)
    <3>1. Placed(<<x, m>>[1], <<x, m>>[2]) /\ Placed(<<y, m>>[1], <<y, m>>[2])
      BY <1>1, <2>2, <2>3
    <3> QED BY <3>1
  <2>6. s \in UnitsOf(<<x, m>>) /\ s \in UnitsOf(<<y, m>>)
    <3>1. /\ s \in UnitsOf(<<x, m>>) <=> s \in Nat /\ x <= s /\ s < x + 2 * s
          /\ s \in UnitsOf(<<y, m>>) <=> s \in Nat /\ y <= s /\ s < y + 2 * s
      BY <1>2, <2>5, UnitFacts
    <3> QED BY <1>2, <2>4, <3>1
  <2>7. <<x, m>> = <<y, m>>
    BY <1>1, <2>2, <2>3, <2>6 DEF Tiled
  <2> QED BY <2>4, <2>7
<1> QED BY <1>9, <1>10 DEF m

\* Blocks that tile the memory hold each unit once.
LEMMA PartitionFromInv == BInv => Partition
<1> SUFFICES ASSUME BInv PROVE Partition
  OBVIOUS
<1>1. Tiled(Blocks) /\ Free \cap held = {} /\ \A i \in Index : NoDup(tzl[i])
  BY DEF BInv, Lists
<1>2. ASSUME NEW u \in Unit PROVE Cardinality({b \in Blocks : u \in UnitsOf(b)}) = 1
  <2>1. PICK c \in Blocks : u \in UnitsOf(c)
    BY <1>1 DEF Tiled
  <2>2. {b \in Blocks : u \in UnitsOf(b)} = {c}
    BY <1>1, <2>1 DEF Tiled
  <2> QED BY <2>2, FS_Singleton
<1> QED BY <1>1, <1>2 DEF Partition

-----------------------------------------------------------------------------
(* The theorems. *)

\* BInv is inductive.
LEMMA BuddyInvariant == Spec => []BInv
<1>1. Init => BInv
  BY InitBInv
<1>2. BInv /\ [Next]_vars => BInv'
  <2> SUFFICES ASSUME BInv, [Next]_vars PROVE BInv'
    OBVIOUS
  <2>1. CASE UNCHANGED vars
    BY <2>1 DEF BInv, Lists, Blocks, Free, Coalesced, Tiled, vars
  <2>2. ASSUME NEW i \in Index, PhysAlloc(i) PROVE BInv'
    BY <2>2, AllocBInv
  <2>3. ASSUME NEW p \in Unit, NEW i \in Index, PhysFree(p, i) PROVE BInv'
    BY <2>3, FreeBInv
  <2> QED BY <2>1, <2>2, <2>3 DEF Next
<1> QED BY <1>1, <1>2, PTL DEF Spec

\* Whatever the size of the memory and the order of the calls of phys_alloc
\* and phys_free, no unit is in two blocks or in none.
THEOREM PartitionHolds == Spec => []Partition
<1>1. BInv => Partition
  BY PartitionFromInv
<1> QED BY <1>1, BuddyInvariant, PTL

\* No two free blocks are buddies: pop_buddy finds all that can be merged.
THEOREM CoalescedHolds == Spec => []Coalesced
<1>1. BInv => Coalesced
  BY DEF BInv
<1> QED BY <1>1, BuddyInvariant, PTL

\* Once all is freed, both of the blocks that phys_init made can be allocated
\* again: fragmentation leaves nothing behind.
THEOREM WholeAgainHolds == Spec => []WholeAgain
<1>1. BInv => WholeAgain
  BY WholeFromInv
<1> QED BY <1>1, BuddyInvariant, PTL
=============================================================================

--------------------------- MODULE KeyTreeProofs ---------------------------
(* Facts about Morton keys and the nodes over them, for every branch factor   *)
(* and every depth: what refining a node gives, and how a list of leaves that *)
(* tile the key space is counted and addressed by position.  And facts about  *)
(* trees over them, and about folds and sums over finite sets.                *)
EXTENDS KeyTree, FiniteSetsExt, Functions, FiniteSetTheorems, TLAPS

\* Induction over naturals, as the least counterexample.
LEMMA Least ==
    ASSUME NEW T \in SUBSET Nat, T # {}
    PROVE  \E n \in T : \A m \in T : n <= m
<1>1. PICK n \in T : \A m \in T : ~(<<m, n>> \in OpToRel(<, Nat))
    BY WFMin, NatLessThanWellFounded
<1>2. \A m \in T : ~(m < n)
    BY <1>1 DEF OpToRel
<1> QED
    BY <1>2

----------------------------------------------------------------------------
(* Sizes. *)

\* The recursion that defines SizeAt has a solution up to every level.
SizesUpTo(n) ==
    {g \in [0 .. n -> Nat \ {0}] :
        \A l \in 0 .. n : g[l] = IF l = 0 THEN 1 ELSE BranchFactor * g[l - 1]}

LEMMA SizesExist ==
    \A n \in Nat : SizesUpTo(n) # {}
<1> DEFINE Bad == {n \in Nat : SizesUpTo(n) = {}}
<1> SUFFICES ASSUME Bad # {} PROVE FALSE
    OBVIOUS
<1>1. PICK n \in Bad : \A m \in Bad : n <= m
    BY Least
<1>2. \A m \in Bad : ~(m < n)
    BY <1>1
<1>3. CASE n = 0
  <2>1. [l \in 0 .. 0 |-> 1] \in SizesUpTo(0)
      BY DEF SizesUpTo
  <2> QED
      BY <2>1, <1>3
<1>4. CASE n # 0
  <2>1. n - 1 \in Nat /\ n - 1 < n
      BY <1>4
  <2>2. PICK g : g \in SizesUpTo(n - 1)
      BY <2>1, <1>2
  <2> DEFINE h == [l \in 0 .. n |-> IF l = n THEN BranchFactor * g[n - 1] ELSE g[l]]
  <2>3. \A l \in 0 .. n - 1 : g[l] \in Nat \ {0}
      BY <2>2 DEF SizesUpTo
  <2>4. BranchFactor * g[n - 1] \in Nat \ {0}
    <3>1. g[n - 1] \in Nat \ {0}
        BY <2>1, <2>3
    <3> HIDE DEF h
    <3> QED
        BY <3>1, KeyTreeAssumption
  <2>5. h \in [0 .. n -> Nat \ {0}]
      BY <2>1, <2>3, <2>4
  <2>6. ASSUME NEW l \in 0 .. n
        PROVE  h[l] = IF l = 0 THEN 1 ELSE BranchFactor * h[l - 1]
    <3>1. CASE l = n
        BY <3>1, <1>4, <2>1
    <3>2. CASE l # n
      <4>1. l \in 0 .. n - 1 /\ h[l] = g[l]
          BY <3>2, <2>1
      <4>2. g[l] = IF l = 0 THEN 1 ELSE BranchFactor * g[l - 1]
          BY <4>1, <2>2 DEF SizesUpTo
      <4>3. l # 0 => h[l - 1] = g[l - 1]
          BY <4>1
      <4> QED
          BY <4>1, <4>2, <4>3
    <3> QED
        BY <3>1, <3>2
  <2>7. h \in SizesUpTo(n)
      BY <2>5, <2>6 DEF SizesUpTo
  <2> QED
      BY <2>7
<1> QED
    BY <1>3, <1>4

\* Nodes have sizes, each level BranchFactor times the one below.
LEMMA Sizes ==
    /\ \A l \in 0 .. Depth : SizeAt[l] \in Nat \ {0}
    /\ SizeAt[0] = 1
    /\ \A l \in 1 .. Depth : SizeAt[l] = BranchFactor * SizeAt[l - 1]
<1>1. PICK g : g \in SizesUpTo(Depth)
    BY SizesExist, KeyTreeAssumption
<1> DEFINE Body(f) == [l \in 0 .. Depth |-> IF l = 0 THEN 1 ELSE BranchFactor * f[l - 1]]
<1>2. g = Body(g)
    BY <1>1 DEF SizesUpTo
<1>3. SizeAt = CHOOSE f : f = Body(f)
    BY DEF SizeAt
<1>4. SizeAt = Body(SizeAt)
    BY <1>2, <1>3
<1>5. \A l \in 0 .. Depth :
         SizeAt[l] = IF l = 0 THEN 1 ELSE BranchFactor * SizeAt[l - 1]
    BY <1>4
<1>6. SizeAt[0] = 1 /\ \A l \in 1 .. Depth : SizeAt[l] = BranchFactor * SizeAt[l - 1]
    BY <1>5, KeyTreeAssumption
<1> HIDE DEF Body
<1> DEFINE Bad == {l \in 0 .. Depth : SizeAt[l] \notin Nat \ {0}}
<1>7. Bad = {}
  <2> SUFFICES ASSUME Bad # {} PROVE FALSE
      OBVIOUS
  <2>0. Bad \in SUBSET Nat
      BY KeyTreeAssumption
  <2>1. PICK l \in Bad : \A m \in Bad : l <= m
    <3> HIDE DEF Bad
    <3> QED
        BY <2>0, Least
  <2>2. l # 0
      BY <1>6
  <2>3. l - 1 \in 0 .. Depth /\ l \in 1 .. Depth /\ ~(l <= l - 1)
      BY <2>2, KeyTreeAssumption
  <2>4. SizeAt[l - 1] \in Nat \ {0}
      BY <2>1, <2>3
  <2>5. BranchFactor * SizeAt[l - 1] \in Nat \ {0}
    <3> DEFINE s == SizeAt[l - 1]
    <3>1. s \in Nat \ {0}
        BY <2>4
    <3> HIDE DEF s
    <3>2. BranchFactor * s \in Nat \ {0}
        BY <3>1, KeyTreeAssumption
    <3> QED
        BY <3>2 DEF s
  <2> QED
      BY <1>6, <2>3, <2>5
<1> QED
    BY <1>6, <1>7

LEMMA KeySpaceType ==
    KeySpace \in Nat \ {0} /\ IsFiniteSet(Key) /\ Key \subseteq Nat
<1>1. KeySpace \in Nat \ {0}
    BY Sizes, KeyTreeAssumption DEF KeySpace
<1>2. 0 .. KeySpace - 1 \subseteq Nat /\ IsFiniteSet(0 .. KeySpace - 1)
    BY <1>1, FS_Interval
<1> QED
    BY <1>1, <1>2 DEF Key

\* Every size divides the key space.
LEMMA SizesDivide ==
    \A l \in 0 .. Depth : \E r \in Nat : KeySpace = SizeAt[l] * r
<1> DEFINE Divides(l) == \E r \in Nat : KeySpace = SizeAt[l] * r
           Bad == {n \in 0 .. Depth : ~Divides(Depth - n)}
<1>1. Bad = {}
  <2> SUFFICES ASSUME Bad # {} PROVE FALSE
      OBVIOUS
  <2>1. Bad \in SUBSET Nat
      BY KeyTreeAssumption
  <2>2. PICK n \in Bad : \A m \in Bad : n <= m
    <3> HIDE DEF Bad
    <3> QED
        BY <2>1, Least
  <2>3. n # 0
    <3>1. KeySpace = SizeAt[Depth] * 1 /\ Depth - 0 = Depth
        BY KeySpaceType, KeyTreeAssumption DEF KeySpace
    <3>2. Divides(Depth - 0)
        BY <3>1
    <3> QED
        BY <3>2
  <2> DEFINE l == Depth - n
  <2>4. /\ n - 1 \in 0 .. Depth /\ ~(n <= n - 1)
        /\ l + 1 = Depth - (n - 1)
        /\ l \in 0 .. Depth /\ l + 1 \in 1 .. Depth /\ (l + 1) - 1 = l
      BY <2>3, KeyTreeAssumption
  <2>5. Divides(l + 1)
      BY <2>2, <2>4
  <2>6. PICK r \in Nat : KeySpace = SizeAt[l + 1] * r
      BY <2>5
  <2>7. SizeAt[l + 1] = BranchFactor * SizeAt[l] /\ SizeAt[l] \in Nat
      BY <2>4, Sizes
  <2>8. \A s \in Nat : (BranchFactor * s) * r = s * (BranchFactor * r)
      BY KeyTreeAssumption
  <2>9. KeySpace = SizeAt[l] * (BranchFactor * r) /\ BranchFactor * r \in Nat
      BY <2>6, <2>7, <2>8, KeyTreeAssumption
  <2>10. Divides(l)
      BY <2>9
  <2> QED
      BY <2>10
<1>2. ASSUME NEW l \in 0 .. Depth PROVE Divides(l)
  <2>1. Depth - l \in 0 .. Depth /\ Depth - (Depth - l) = l
      BY KeyTreeAssumption
  <2> QED
      BY <1>1, <2>1
<1> QED
    BY <1>2

----------------------------------------------------------------------------
(* Nodes. *)

LEMMA MultipleFits ==
    ASSUME NEW q \in Nat, NEW r \in Nat, NEW s \in Nat \ {0}, s * q < s * r
    PROVE  s * q + s <= s * r
<1>1. q + 1 <= r
    OBVIOUS
<1>2. s * (q + 1) <= s * r
    BY <1>1
<1> QED
    BY <1>2

\* The keys below a node are keys.
LEMMA BinWithin ==
    ASSUME NEW b \in Bin
    PROVE  /\ b.first \in Nat /\ b.size \in Nat \ {0} /\ b.size \in NodeSize
           /\ b.first + b.size <= KeySpace
           /\ b = [first |-> b.first, size |-> b.size]
<1>1. b \in [first : Key, size : NodeSize] /\ b.first % b.size = 0
    BY DEF Bin
<1>2. b.first \in Key /\ b.size \in NodeSize /\ b = [first |-> b.first, size |-> b.size]
    BY <1>1
<1>3. PICK l \in 0 .. Depth : b.size = SizeAt[l]
    BY <1>2 DEF NodeSize
<1>4. b.size \in Nat \ {0}
    BY <1>3, Sizes
<1>5. b.first \in Nat /\ b.first < KeySpace
    BY <1>2, KeySpaceType DEF Key
<1>6. PICK r \in Nat : KeySpace = b.size * r
    BY <1>3, SizesDivide
<1>7. PICK q \in Nat : b.first = b.size * q
  <2>1. \A x \in Nat, s \in Nat \ {0} : x % s = 0 => \E q \in Nat : x = s * q
      OBVIOUS
  <2> QED
      BY <2>1, <1>1, <1>4, <1>5
<1>8. b.first + b.size <= KeySpace
  <2>1. b.size * q < b.size * r
      BY <1>5, <1>6, <1>7
  <2> QED
      BY <2>1, <1>4, <1>6, <1>7, MultipleFits
<1> QED
    BY <1>2, <1>4, <1>5, <1>8

LEMMA RootIsBin ==
    RootBin \in Bin /\ \A k \in Key : Covers(RootBin, k)
<1>1. 0 % KeySpace = 0 /\ 0 \in Key
    BY KeySpaceType DEF Key
<1>2. KeySpace \in NodeSize
    BY KeyTreeAssumption DEF KeySpace, NodeSize
<1>3. RootBin \in Bin
    BY <1>1, <1>2 DEF RootBin, Bin
<1>4. \A k \in Key : Covers(RootBin, k)
    BY KeySpaceType DEF Key, Covers, RootBin
<1> QED
    BY <1>3, <1>4

\* A node of more than one key is cut into nodes of equal sizes.
LEMMA Cut ==
    ASSUME NEW b \in Bin, b.size > 1
    PROVE  /\ b.size \div BranchFactor \in Nat \ {0}
           /\ b.size \div BranchFactor \in NodeSize
           /\ b.size = BranchFactor * (b.size \div BranchFactor)
<1>1. PICK l \in 0 .. Depth : b.size = SizeAt[l]
    BY BinWithin DEF NodeSize
<1>2. l # 0
    BY <1>1, Sizes
<1>3. l - 1 \in 0 .. Depth /\ l \in 1 .. Depth
    BY <1>2, KeyTreeAssumption
<1>4. SizeAt[l - 1] \in Nat \ {0} /\ b.size = BranchFactor * SizeAt[l - 1]
    BY <1>1, <1>3, Sizes
<1>5. \A s \in Nat : (BranchFactor * s) \div BranchFactor = s
    BY KeyTreeAssumption
<1>6. b.size \div BranchFactor = SizeAt[l - 1]
    BY <1>4, <1>5
<1> QED
    BY <1>3, <1>4, <1>6 DEF NodeSize

LEMMA ChildIsBin ==
    ASSUME NEW b \in Bin, b.size > 1, NEW i \in ChildIndex
    PROVE  /\ Child(b, i) \in Bin
           /\ Child(b, i).first = b.first + i * (b.size \div BranchFactor)
           /\ Child(b, i).size = b.size \div BranchFactor
           /\ b.first <= Child(b, i).first
           /\ Child(b, i).first + Child(b, i).size <= b.first + b.size
<1> DEFINE s == b.size \div BranchFactor
           f == b.first + i * s
<1>1. s \in Nat \ {0} /\ s \in NodeSize /\ b.size = BranchFactor * s
    BY Cut
<1>2. i \in Nat /\ i + 1 <= BranchFactor
    BY KeyTreeAssumption DEF ChildIndex
<1>3. b.first \in Nat /\ b.size \in Nat \ {0} /\ b.first + b.size <= KeySpace
    BY BinWithin
<1>4. Child(b, i) = [first |-> f, size |-> s]
    BY DEF Child
<1> HIDE DEF s
<1>5. b.first <= f /\ f \in Nat
    BY <1>1, <1>2, <1>3
<1>6. f + s <= b.first + b.size
  <2>1. (i + 1) * s <= BranchFactor * s
      BY <1>1, <1>2, KeyTreeAssumption
  <2>2. i * s + s <= BranchFactor * s
      BY <2>1, <1>1, <1>2, KeyTreeAssumption
  <2>3. i * s \in Nat /\ BranchFactor * s \in Nat
      BY <1>1, <1>2, KeyTreeAssumption
  <2> QED
      BY <2>2, <2>3, <1>1, <1>3
<1>7. f % s = 0
  <2>1. b.first % b.size = 0
      BY DEF Bin
  <2>2. PICK q \in Nat : b.first = b.size * q
    <3>1. \A x \in Nat, t \in Nat \ {0} : x % t = 0 => \E q \in Nat : x = t * q
        OBVIOUS
    <3> QED
        BY <2>1, <3>1, <1>3
  <2>3. f = s * (BranchFactor * q + i) /\ BranchFactor * q + i \in Nat
      BY <2>2, <1>1, <1>2, KeyTreeAssumption
  <2>4. \A x \in Nat, t \in Nat \ {0} : (t * x) % t = 0
      OBVIOUS
  <2> QED
      BY <2>3, <2>4, <1>1
<1>8. f \in Key
  <2>1. f <= KeySpace - 1
      BY <1>1, <1>3, <1>5, <1>6, KeySpaceType
  <2> QED
      BY <2>1, <1>5, KeySpaceType DEF Key
<1>9. Child(b, i) \in Bin
    BY <1>1, <1>4, <1>7, <1>8 DEF Bin
<1> QED
    BY <1>4, <1>5, <1>6, <1>9 DEF s

\* The key k below b is below the child it names, and below no other.
LEMMA OneChildCovers ==
    ASSUME NEW b \in Bin, b.size > 1, NEW k \in Key, Covers(b, k)
    PROVE  \E i \in ChildIndex :
              Covers(Child(b, i), k) /\ \A j \in ChildIndex : Covers(Child(b, j), k) => j = i
<1> DEFINE s == b.size \div BranchFactor
           d == k - b.first
           q == d \div s
<1>1. s \in Nat \ {0} /\ b.size = BranchFactor * s
    BY Cut
<1>2. b.first \in Nat /\ k \in Nat
    BY BinWithin, KeySpaceType
<1>3. \A i \in ChildIndex : Child(b, i).first = b.first + i * s /\ Child(b, i).size = s
    BY ChildIsBin
<1>4. d \in Nat /\ d < BranchFactor * s
  <2>1. b.first <= k /\ k < b.first + b.size
      BY DEF Covers
  <2> HIDE DEF s
  <2>2. BranchFactor * s = b.size /\ b.size \in Nat
      BY <1>1, BinWithin
  <2> QED
      BY <2>1, <2>2, <1>2
<1>5. \A i \in ChildIndex : Covers(Child(b, i), k) <=> i * s <= d /\ d < i * s + s
  <2> SUFFICES ASSUME NEW i \in ChildIndex
               PROVE  Covers(Child(b, i), k) <=> i * s <= d /\ d < i * s + s
      OBVIOUS
  <2>1. i \in Nat /\ i * s \in Nat
      BY <1>1, KeyTreeAssumption DEF ChildIndex
  <2>2. Covers(Child(b, i), k) <=> b.first + i * s <= k /\ k < (b.first + i * s) + s
      BY <1>3 DEF Covers
  <2> HIDE DEF s
  <2> QED
      BY <2>1, <2>2, <1>1, <1>2
<1> HIDE DEF s, d
<1>6. q \in Nat /\ q * s <= d /\ d < q * s + s
  <2>1. d = s * (d \div s) + (d % s) /\ d \div s \in Nat /\ d % s \in 0 .. s - 1
      BY <1>1, <1>4
  <2> HIDE DEF q
  <2>2. d = s * q + (d % s) /\ q \in Nat /\ s * q = q * s /\ s * q \in Nat
      BY <2>1, <1>1 DEF q
  <2> QED
      BY <2>1, <2>2, <1>1, <1>4
<1> HIDE DEF q
<1>7. q \in ChildIndex
  <2>1. q * s < BranchFactor * s
      BY <1>1, <1>4, <1>6, KeyTreeAssumption
  <2>2. q < BranchFactor
      BY <2>1, <1>1, <1>6, KeyTreeAssumption
  <2> QED
      BY <2>2, <1>6, KeyTreeAssumption DEF ChildIndex
<1>8. ASSUME NEW j \in ChildIndex, Covers(Child(b, j), k)
      PROVE  j = q
  <2>1. j \in Nat /\ j * s <= d /\ d < j * s + s
      BY <1>5, <1>8, KeyTreeAssumption DEF ChildIndex
  <2>2. j * s < (q + 1) * s /\ q * s < (j + 1) * s
      BY <2>1, <1>1, <1>4, <1>6
  <2>3. j < q + 1 /\ q < j + 1
      BY <2>1, <2>2, <1>1, <1>6
  <2> QED
      BY <2>1, <2>3, <1>6
<1> QED
    BY <1>5, <1>6, <1>7, <1>8

LEMMA ChildCoveredByParent ==
    ASSUME NEW b \in Bin, b.size > 1, NEW i \in ChildIndex, NEW k \in Key,
           Covers(Child(b, i), k)
    PROVE  Covers(b, k)
<1>1. /\ b.first <= Child(b, i).first
      /\ Child(b, i).first + Child(b, i).size <= b.first + b.size
      /\ Child(b, i) \in Bin
    BY ChildIsBin
<1>2. Child(b, i).first \in Nat /\ Child(b, i).size \in Nat /\ b.first \in Nat /\ b.size \in Nat
    BY <1>1, BinWithin
<1> QED
    BY <1>1, <1>2, KeySpaceType DEF Covers

----------------------------------------------------------------------------
(* Lists of leaves. *)

\* Every key is below exactly one leaf.
Tiles(bins) ==
    /\ bins \subseteq Bin
    /\ \A k \in Key : \E b \in bins : Covers(b, k)
    /\ \A b, c \in bins : \A k \in Key : Covers(b, k) /\ Covers(c, k) => b = c

LEMMA CoversFirst ==
    ASSUME NEW b \in Bin
    PROVE  b.first \in Key /\ Covers(b, b.first)
<1>1. b.first \in Key
    BY DEF Bin
<1> QED
    BY <1>1, BinWithin DEF Covers

LEMMA TilesCount ==
    ASSUME NEW bins, Tiles(bins)
    PROVE  \A k \in Key : Cardinality({b \in bins : Covers(b, k)}) = 1
<1> SUFFICES ASSUME NEW k \in Key
             PROVE  Cardinality({b \in bins : Covers(b, k)}) = 1
    OBVIOUS
<1>1. PICK b \in bins : Covers(b, k)
    BY DEF Tiles
<1>2. {c \in bins : Covers(c, k)} = {b}
    BY <1>1 DEF Tiles
<1> QED
    BY <1>2, FS_Singleton

LEMMA FirstsDiffer ==
    ASSUME NEW bins, Tiles(bins), NEW b \in bins, NEW c \in bins, b.first = c.first
    PROVE  b = c
<1>1. b \in Bin /\ c \in Bin
    BY DEF Tiles
<1>2. b.first \in Key /\ Covers(b, b.first) /\ Covers(c, b.first)
    BY <1>1, CoversFirst
<1> QED
    BY <1>2 DEF Tiles

LEMMA TilesFinite ==
    ASSUME NEW bins, Tiles(bins)
    PROVE  /\ IsFiniteSet(bins)
           /\ Cardinality(bins) \in 1 .. KeySpace
<1> DEFINE f == [b \in bins |-> b.first]
<1>1. f \in [bins -> Key]
    BY CoversFirst DEF Tiles
<1>2. IsInjective(f)
    BY FirstsDiffer DEF IsInjective
<1>3. f \in Injection(bins, Key)
    BY <1>1, <1>2 DEF Injection
<1>4. Cardinality(Key) = KeySpace
    BY KeySpaceType, FS_Interval DEF Key
<1>5. IsFiniteSet(bins) /\ Cardinality(bins) <= KeySpace
  <2> HIDE DEF f
  <2> QED
      BY <1>3, <1>4, KeySpaceType, FS_Injection
<1>6. bins # {}
  <2>1. 0 \in Key
      BY KeySpaceType DEF Key
  <2> QED
      BY <2>1 DEF Tiles
<1>7. Cardinality(bins) \in Nat /\ Cardinality(bins) # 0
    BY <1>5, <1>6, FS_CardinalityType, FS_EmptySet
<1> QED
    BY <1>5, <1>7, KeySpaceType

\* Nodes in an order.
InKeyOrder(bins) ==
    /\ bins \subseteq Bin /\ IsFiniteSet(bins)
    /\ \A b, c \in bins : b.first = c.first => b = c

LEMMA TilesInOrder ==
    ASSUME NEW bins, Tiles(bins)
    PROVE  InKeyOrder(bins)
BY TilesFinite, FirstsDiffer DEF InKeyOrder, Tiles

LEMMA PositionGrows ==
    ASSUME NEW bins, InKeyOrder(bins), NEW b \in bins, NEW c \in bins, b.first < c.first
    PROVE  Position(bins, b) < Position(bins, c)
<1> DEFINE B == {d \in bins : d.first < b.first}
           C == {d \in bins : d.first < c.first}
<1>1. \A d \in bins : d.first \in Nat
    BY BinWithin DEF InKeyOrder
<1>2. B \subseteq C /\ b \in C /\ b \notin B
    BY <1>1
<1>3. /\ IsFiniteSet(B) /\ IsFiniteSet(C)
      /\ Cardinality(B) <= Cardinality(C) /\ Cardinality(B) # Cardinality(C)
  <2>1. IsFiniteSet(C)
      BY FS_Subset DEF InKeyOrder
  <2> HIDE DEF B, C
  <2> QED
      BY <2>1, <1>2, FS_Subset
<1>4. Cardinality(B) \in Nat /\ Cardinality(C) \in Nat
    BY <1>3, FS_CardinalityType
<1>5. Position(bins, b) = Cardinality(B) + 1 /\ Position(bins, c) = Cardinality(C) + 1
    BY DEF Position
<1> HIDE DEF B, C
<1> QED
    BY <1>3, <1>4, <1>5

\* Positions number nodes in order 1, 2, ..., and At finds the node of a number.
LEMMA PositionsInOrder ==
    ASSUME NEW bins, InKeyOrder(bins)
    PROVE  /\ \A b \in bins : Position(bins, b) \in 1 .. Cardinality(bins)
           /\ \A b, c \in bins : Position(bins, b) = Position(bins, c) => b = c
           /\ \A i \in 1 .. Cardinality(bins) :
                 At(bins, i) \in bins /\ Position(bins, At(bins, i)) = i
           /\ \A b \in bins : At(bins, Position(bins, b)) = b
<1> DEFINE n == Cardinality(bins)
           f == [b \in bins |-> Position(bins, b)]
<1>1. IsFiniteSet(bins) /\ n \in Nat
    BY FS_CardinalityType DEF InKeyOrder
<1>2. \A b \in bins : b.first \in Nat
    BY BinWithin DEF InKeyOrder
<1>3. ASSUME NEW b \in bins
      PROVE  Position(bins, b) \in 1 .. n
  <2> DEFINE B == {d \in bins : d.first < b.first}
  <2>1. B \subseteq bins /\ b \notin B
      BY <1>2
  <2>2. Position(bins, b) = Cardinality(B) + 1
      BY DEF Position
  <2> HIDE DEF B
  <2>3. Cardinality(B) \in Nat /\ Cardinality(B) <= n /\ Cardinality(B) # n
      BY <1>1, <2>1, FS_Subset, FS_CardinalityType
  <2> QED
      BY <1>1, <2>2, <2>3
<1>4. ASSUME NEW b \in bins, NEW c \in bins, Position(bins, b) = Position(bins, c)
      PROVE  b = c
  <2>1. Position(bins, b) \in Nat
      BY <1>3
  <2>2. ~(b.first < c.first) /\ ~(c.first < b.first)
      BY <1>4, <2>1, PositionGrows
  <2>3. b.first = c.first
      BY <2>2, <1>2
  <2> QED
      BY <2>3 DEF InKeyOrder
<1>5. f \in Injection(bins, 1 .. n)
    BY <1>3, <1>4 DEF Injection, IsInjective
<1>6. f \in Surjection(bins, 1 .. n)
  <2>1. IsFiniteSet(1 .. n) /\ Cardinality(1 .. n) = n
      BY <1>1, FS_Interval
  <2> HIDE DEF f
  <2> QED
      BY <1>5, <2>1, FS_Injection
<1>7. ASSUME NEW i \in 1 .. n
      PROVE  At(bins, i) \in bins /\ Position(bins, At(bins, i)) = i
  <2>1. \E b \in bins : Position(bins, b) = i
      BY <1>6 DEF Surjection
  <2> QED
      BY <2>1 DEF At
<1>8. ASSUME NEW b \in bins
      PROVE  At(bins, Position(bins, b)) = b
    BY <1>3, <1>4, <1>7
<1> QED
    BY <1>3, <1>4, <1>7, <1>8

\* And so they number the leaves.
LEMMA Positions ==
    ASSUME NEW bins, Tiles(bins)
    PROVE  /\ \A b \in bins : Position(bins, b) \in 1 .. Cardinality(bins)
           /\ \A b, c \in bins : Position(bins, b) = Position(bins, c) => b = c
           /\ \A i \in 1 .. Cardinality(bins) :
                 At(bins, i) \in bins /\ Position(bins, At(bins, i)) = i
           /\ \A b \in bins : At(bins, Position(bins, b)) = b
BY TilesInOrder, PositionsInOrder

----------------------------------------------------------------------------
(* Nodes above nodes. *)

\* What is left of a number: of a multiple, and of what follows one.
LEMMA Remainders ==
    ASSUME NEW n \in Nat \ {0}, NEW d \in Nat, NEW r \in 0 .. n - 1
    PROVE  (n * d + r) % n = r
OBVIOUS

LEMMA Quotients ==
    ASSUME NEW n \in Nat \ {0}, NEW x \in Nat
    PROVE  \E d \in Nat : \E r \in 0 .. n - 1 : x = n * d + r
<1>1. x \div n \in Nat /\ x % n \in 0 .. n - 1 /\ x = n * (x \div n) + (x % n)
    OBVIOUS
<1> QED
    BY <1>1

LEMMA Multiple ==
    ASSUME NEW n \in Nat \ {0}, NEW x \in Nat, x % n = 0
    PROVE  \E d \in Nat : x = n * d
<1>1. x \div n \in Nat /\ x = n * (x \div n) + (x % n)
    OBVIOUS
<1> QED
    BY <1>1

LEMMA RemainderOfMultiple ==
    ASSUME NEW s \in Nat \ {0}, NEW k \in Nat, NEW n \in Nat \ {0}
    PROVE  /\ \E r \in 0 .. n - 1 : (s * k) % (s * n) = s * r
           /\ (s * k) - ((s * k) % (s * n)) \in Nat
           /\ ((s * k) - ((s * k) % (s * n))) % (s * n) = 0
<1>1. PICK d \in Nat, r \in 0 .. n - 1 : k = n * d + r
    BY Quotients
<1>2. s * k = (s * n) * d + s * r
    BY <1>1
<1>3. s * r \in Nat /\ s * n \in Nat \ {0} /\ s * r + s <= s * n
  <2>1. s * (r + 1) <= s * n
      OBVIOUS
  <2> QED
      BY <2>1
<1>4. s * r \in 0 .. (s * n) - 1
    BY <1>3
<1>5. (s * k) % (s * n) = s * r
  <2> DEFINE m == s * n
             z == s * r
  <2>1. m \in Nat \ {0} /\ z \in 0 .. m - 1 /\ s * k = m * d + z
      BY <1>2, <1>3, <1>4
  <2> HIDE DEF m, z
  <2>2. (m * d + z) % m = z
      BY <2>1, Remainders
  <2> QED
      BY <2>1, <2>2 DEF m, z
<1>6. (s * n) * d \in Nat /\ (s * k) - (s * r) = (s * n) * d
    BY <1>2, <1>3
<1>7. ((s * n) * d) % (s * n) = 0
  <2> DEFINE m == s * n
  <2>1. 0 \in 0 .. m - 1 /\ m * d + 0 = m * d /\ m \in Nat \ {0}
      BY <1>3
  <2> HIDE DEF m
  <2>2. (m * d) % m = 0
      BY <2>1, Remainders
  <2> QED
      BY <2>2 DEF m
<1> QED
    BY <1>5, <1>6, <1>7

\* Cutting off at a size, from a multiple of a smaller one or from what follows it.
LEMMA Truncated ==
    ASSUME NEW s \in Nat \ {0}, NEW k \in Nat, NEW n \in Nat \ {0}, NEW y \in 0 .. s - 1
    PROVE  (s * k + y) - ((s * k + y) % (s * n)) = (s * k) - ((s * k) % (s * n))
<1>1. PICK d \in Nat, r \in 0 .. n - 1 : k = n * d + r
    BY Quotients
<1> DEFINE m == s * n
           z == s * r
<1>2. s * k = m * d + z
    BY <1>1
<1>3. z \in Nat /\ m \in Nat \ {0} /\ z + s <= m
  <2>1. s * (r + 1) <= s * n
      OBVIOUS
  <2> QED
      BY <2>1
<1> HIDE DEF m, z
<1>4. z \in 0 .. m - 1 /\ z + y \in 0 .. m - 1 /\ m * d \in Nat
    BY <1>3
<1>5. (m * d + z) % m = z /\ (m * d + (z + y)) % m = z + y
    BY <1>3, <1>4, Remainders
<1>6. s * k + y = m * d + (z + y)
    BY <1>2, <1>3, <1>4
<1>7. (s * k + y) % m = z + y /\ (s * k) % m = z
    BY <1>2, <1>5, <1>6
<1> DEFINE c == s * k
<1>8. c \in Nat /\ c = m * d + z
    BY <1>2, <1>4, <1>3
<1> HIDE DEF c
<1>9. (c + y) - (z + y) = c - z
    BY <1>3, <1>8
<1> QED
    BY <1>7, <1>9 DEF m, c

\* Each size divides the greater ones.
LEMMA SizesNest ==
    ASSUME NEW l \in 0 .. Depth, NEW m \in 0 .. Depth, l <= m
    PROVE  \E q \in Nat \ {0} : SizeAt[m] = SizeAt[l] * q
<1> DEFINE Divides(n) == \E q \in Nat \ {0} : SizeAt[n] = SizeAt[l] * q
           Bad == {d \in Nat : l + d <= Depth /\ ~Divides(l + d)}
<1>1. Bad = {}
  <2> SUFFICES ASSUME Bad # {} PROVE FALSE
      OBVIOUS
  <2>1. Bad \in SUBSET Nat
      OBVIOUS
  <2>2. PICK d \in Bad : \A e \in Bad : d <= e
    <3> HIDE DEF Bad
    <3> QED
        BY <2>1, Least
  <2>3. d # 0
    <3>1. SizeAt[l] = SizeAt[l] * 1 /\ l + 0 = l
        BY Sizes
    <3> QED
        BY <3>1
  <2>4. /\ d - 1 \in Nat /\ ~(d <= d - 1) /\ l + (d - 1) <= Depth
        /\ l + d \in 1 .. Depth /\ (l + d) - 1 = l + (d - 1) /\ l + (d - 1) \in 0 .. Depth
      BY <2>3, KeyTreeAssumption
  <2>5. Divides(l + (d - 1))
      BY <2>2, <2>4
  <2>6. PICK q \in Nat \ {0} : SizeAt[l + (d - 1)] = SizeAt[l] * q
      BY <2>5
  <2>7. SizeAt[l + d] = BranchFactor * SizeAt[l + (d - 1)] /\ SizeAt[l] \in Nat
      BY <2>4, Sizes
  <2>8. \A s \in Nat : BranchFactor * (s * q) = s * (BranchFactor * q)
      BY KeyTreeAssumption
  <2>9. SizeAt[l + d] = SizeAt[l] * (BranchFactor * q) /\ BranchFactor * q \in Nat \ {0}
      BY <2>6, <2>7, <2>8, KeyTreeAssumption
  <2>10. Divides(l + d)
      BY <2>9
  <2> QED
      BY <2>10
<1>2. m - l \in Nat /\ l + (m - l) = m /\ m <= Depth
    BY KeyTreeAssumption
<1> QED
    BY <1>1, <1>2

LEMMA BiggerSizes ==
    ASSUME NEW s \in NodeSize, NEW t \in NodeSize
    PROVE  /\ s \in Nat \ {0}
           /\ t >= s => \E q \in Nat \ {0} : t = s * q
           /\ t > s => s * BranchFactor \in NodeSize /\ s * BranchFactor <= t
<1>1. PICK l \in 0 .. Depth, m \in 0 .. Depth : s = SizeAt[l] /\ t = SizeAt[m]
    BY DEF NodeSize
<1>2. s \in Nat \ {0} /\ t \in Nat \ {0}
    BY <1>1, Sizes
<1>3. ASSUME m < l PROVE t < s
  <2>1. m + 1 \in 0 .. Depth /\ m + 1 <= l /\ m + 1 \in 1 .. Depth /\ (m + 1) - 1 = m
      BY <1>3, KeyTreeAssumption
  <2>2. PICK q \in Nat \ {0} : s = SizeAt[m + 1] * q
      BY <1>1, <2>1, SizesNest
  <2>3. SizeAt[m + 1] = BranchFactor * t
      BY <1>1, <2>1, Sizes
  <2>4. BranchFactor * t > t
      BY <1>2, KeyTreeAssumption
  <2> DEFINE u == BranchFactor * t
  <2>5. u \in Nat /\ u > t /\ s = u * q
      BY <1>2, <2>2, <2>3, <2>4, KeyTreeAssumption
  <2> HIDE DEF u
  <2>6. u * q >= u
      BY <2>5
  <2> QED
      BY <1>2, <2>5, <2>6
<1>4. t >= s => l <= m
    BY <1>2, <1>3, KeyTreeAssumption
<1>5. t > s => l + 1 <= m /\ l + 1 \in 1 .. Depth /\ l + 1 \in 0 .. Depth /\ (l + 1) - 1 = l
    BY <1>1, <1>2, <1>4, KeyTreeAssumption
<1>6. ASSUME t > s PROVE s * BranchFactor \in NodeSize /\ s * BranchFactor <= t
  <2>1. SizeAt[l + 1] = s * BranchFactor
    <3>1. SizeAt[l + 1] = BranchFactor * s
        BY <1>1, <1>5, <1>6, Sizes
    <3> QED
        BY <1>2, <3>1, KeyTreeAssumption
  <2>2. PICK q \in Nat \ {0} : t = SizeAt[l + 1] * q
      BY <1>1, <1>5, <1>6, SizesNest
  <2>3. SizeAt[l + 1] \in Nat
      BY <1>5, <1>6, Sizes
  <2>4. SizeAt[l + 1] * q >= SizeAt[l + 1]
      BY <2>3
  <2> QED
      BY <1>5, <1>6, <2>1, <2>2, <2>4 DEF NodeSize
<1> QED
    BY <1>1, <1>2, <1>4, <1>6, SizesNest

\* A node is one of its parent's children, and its children's parent.
LEMMA ParentOf ==
    ASSUME NEW b \in Bin, b # RootBin
    PROVE  /\ Parent(b) \in Bin /\ Parent(b).size > 1
           /\ Parent(b).size = b.size * BranchFactor
           /\ b \in Children(Parent(b))
<1> DEFINE s == b.size
           f == b.first
           g == f - (f % (s * BranchFactor))
<1>1. /\ f \in Nat /\ s \in Nat \ {0} /\ s \in NodeSize /\ f + s <= KeySpace
      /\ b = [first |-> f, size |-> s] /\ f % s = 0
    BY BinWithin DEF Bin
<1>2. KeySpace \in NodeSize /\ KeySpace \in Nat \ {0}
    BY KeySpaceType, KeyTreeAssumption DEF KeySpace, NodeSize
<1>3. s < KeySpace
  <2>1. s = KeySpace => f = 0
      BY <1>1, <1>2
  <2> QED
      BY <1>1, <1>2, <2>1 DEF RootBin
<1>4. s * BranchFactor \in NodeSize
    BY <1>1, <1>2, <1>3, BiggerSizes
<1>5. PICK k \in Nat : f = s * k
    BY <1>1, Multiple
<1>6. BranchFactor \in Nat \ {0} /\ BranchFactor > 1
    BY KeyTreeAssumption
<1>7. PICK r \in 0 .. BranchFactor - 1 : f % (s * BranchFactor) = s * r
    BY <1>1, <1>5, <1>6, RemainderOfMultiple
<1>8. g \in Nat /\ g % (s * BranchFactor) = 0
    BY <1>1, <1>5, <1>6, RemainderOfMultiple
<1>9. Parent(b) = [first |-> g, size |-> s * BranchFactor]
    BY DEF Parent
<1>10. s * r \in Nat /\ g = f - s * r /\ s * BranchFactor > 1
    BY <1>1, <1>6, <1>7
<1>11. g \in Key
  <2> HIDE DEF g
  <2>1. g <= f
      BY <1>1, <1>8, <1>10
  <2> QED
      BY <1>1, <1>2, <1>8, <2>1 DEF Key
<1>12. Parent(b) \in Bin
    BY <1>4, <1>8, <1>9, <1>11 DEF Bin
<1>13. (s * BranchFactor) \div BranchFactor = s
    BY <1>1, <1>6
<1>14. Child(Parent(b), r) = [first |-> g + r * s, size |-> s]
    BY <1>9, <1>13 DEF Child
<1>15. g + r * s = f
  <2>1. r * s = s * r
      BY <1>1
  <2> DEFINE z == s * r
  <2>2. z \in Nat /\ g = f - z
      BY <1>10
  <2> HIDE DEF z, g
  <2>3. g + z = f
      BY <1>1, <2>2
  <2> QED
      BY <2>1, <2>3 DEF z
<1>16. b \in Children(Parent(b))
    BY <1>1, <1>14, <1>15 DEF Children, ChildIndex
<1> QED
    BY <1>9, <1>10, <1>12, <1>16

\* The nodes above a child are those above its parent, and the parent.
LEMMA AboveChild ==
    ASSUME NEW b \in Bin, b.size > 1, NEW c \in Children(b)
    PROVE  /\ c \in Bin /\ c # RootBin /\ c.size < b.size
           /\ Parent(c) = b
           /\ Path(c) = Path(b) \cup {c} /\ c \notin Path(b)
           /\ b \in Path(b)
<1>1. PICK i \in ChildIndex : c = Child(b, i)
    BY DEF Children
<1> DEFINE s == c.size
           y == i * s
<1>2. /\ c \in Bin /\ c.first = b.first + i * (b.size \div BranchFactor)
      /\ c.size = b.size \div BranchFactor
    BY <1>1, ChildIsBin
<1>3. b.size = BranchFactor * s /\ s \in Nat \ {0} /\ s \in NodeSize /\ c.first = b.first + y
    BY <1>2, Cut
<1>4. /\ b.first \in Nat /\ b.size \in Nat \ {0} /\ b.size \in NodeSize /\ b.first + b.size <= KeySpace
      /\ b = [first |-> b.first, size |-> b.size] /\ b.first % b.size = 0
    BY BinWithin DEF Bin
<1>5. BranchFactor \in Nat /\ BranchFactor > 1
    BY KeyTreeAssumption
<1>6. y \in 0 .. b.size - 1
  <2>1. i \in Nat /\ i + 1 <= BranchFactor
      BY <1>5 DEF ChildIndex
  <2> HIDE DEF s
  <2>2. (i + 1) * s <= BranchFactor * s
      BY <1>3, <1>5, <2>1
  <2>3. (i + 1) * s = y + s /\ y \in Nat
      BY <1>3, <2>1
  <2> HIDE DEF y
  <2>4. y + s <= b.size
      BY <1>3, <2>2, <2>3
  <2> DEFINE z == b.size
  <2>5. s \in Nat \ {0} /\ y \in Nat /\ z \in Nat /\ y + s <= z
      BY <1>3, <1>4, <2>3, <2>4
  <2> HIDE DEF z
  <2>6. y \in 0 .. z - 1
      BY <2>5
  <2> QED
      BY <2>6 DEF z
<1>7. s < b.size /\ b.size <= KeySpace /\ KeySpace \in Nat
  <2> HIDE DEF s
  <2>1. BranchFactor * s > s
      BY <1>3, <1>5
  <2> QED
      BY <1>3, <1>4, <2>1, KeySpaceType
<1>8. PICK k \in Nat : b.first = b.size * k
    BY <1>4, Multiple
<1> HIDE DEF y
<1>9. ASSUME NEW t \in NodeSize, t >= b.size
      PROVE  c.first - (c.first % t) = b.first - (b.first % t)
  <2>1. PICK n \in Nat \ {0} : t = b.size * n
      BY <1>4, <1>9, BiggerSizes
  <2> DEFINE z == b.size
  <2>2. (z * k + y) - ((z * k + y) % (z * n)) = (z * k) - ((z * k) % (z * n))
    <3>1. z \in Nat \ {0} /\ y \in 0 .. z - 1
        BY <1>4, <1>6
    <3> HIDE DEF z
    <3> QED
        BY <3>1, Truncated
  <2> QED
      BY <1>3, <1>8, <2>1, <2>2
<1>10. Parent(c) = b
  <2>1. c.size * BranchFactor = b.size
    <3> HIDE DEF s
    <3>1. s * BranchFactor = BranchFactor * s
        BY <1>3, <1>5
    <3> QED
        BY <1>3, <3>1 DEF s
  <2>2. c.first - (c.first % b.size) = b.first
    <3>1. c.first - (c.first % b.size) = b.first - (b.first % b.size)
        BY <1>4, <1>9
    <3> QED
        BY <1>4, <3>1
  <2> QED
      BY <1>4, <2>1, <2>2 DEF Parent
<1>11. c.first % c.size = 0 /\ c = [first |-> c.first, size |-> c.size] /\ c.first \in Nat
    BY <1>2, BinWithin DEF Bin
<1>12. \A t \in NodeSize : t >= s <=> (t >= b.size \/ t = s)
  <2> SUFFICES ASSUME NEW t \in NodeSize PROVE t >= s <=> (t >= b.size \/ t = s)
      OBVIOUS
  <2>1. t \in Nat
      BY BiggerSizes
  <2>2. t > s => s * BranchFactor <= t
      BY <1>3, BiggerSizes
  <2>3. s * BranchFactor = b.size
      BY <1>10 DEF Parent
  <2> HIDE DEF s
  <2> QED
      BY <1>3, <1>4, <1>7, <2>1, <2>2, <2>3
<1>13. Path(c) = Path(b) \cup {c}
  <2> DEFINE up(d, t) == [first |-> d.first - (d.first % t), size |-> t]
  <2>1. \A t \in NodeSize : t >= b.size => up(c, t) = up(b, t)
      BY <1>9
  <2>2. up(c, s) = c
      BY <1>11
  <2>3. Path(c) = {up(c, t) : t \in {u \in NodeSize : u >= s}}
        /\ Path(b) = {up(b, t) : t \in {u \in NodeSize : u >= b.size}}
      BY DEF Path
  <2> HIDE DEF up, s
  <2> QED
      BY <1>3, <1>12, <2>1, <2>2, <2>3
<1>14. \A d \in Path(b) : d.size >= b.size
    BY DEF Path
<1>15. b \in Path(b)
    BY <1>4 DEF Path
<1>16. c # RootBin
    BY <1>4, <1>7 DEF RootBin
<1>17. c \notin Path(b)
    BY <1>4, <1>7, <1>14, <1>3
<1> QED
    BY <1>2, <1>7, <1>10, <1>13, <1>15, <1>16, <1>17

\* Above the root there is none, and every other node is a child's parent.
LEMMA PathOfRoot ==
    Path(RootBin) = {RootBin}
<1>1. KeySpace \in NodeSize /\ KeySpace \in Nat \ {0} /\ 0 % KeySpace = 0
    BY KeySpaceType, KeyTreeAssumption DEF KeySpace, NodeSize
<1>2. \A t \in NodeSize : t >= KeySpace <=> t = KeySpace
  <2> SUFFICES ASSUME NEW t \in NodeSize, t >= KeySpace PROVE t = KeySpace
      BY <1>1
  <2>1. PICK m \in 0 .. Depth : t = SizeAt[m]
      BY DEF NodeSize
  <2>2. PICK r \in Nat : KeySpace = t * r
      BY <2>1, SizesDivide
  <2>3. t \in Nat \ {0} /\ r # 0
      BY <1>1, <2>1, <2>2, Sizes
  <2>4. t * r >= t
      BY <2>3
  <2> QED
      BY <1>1, <2>2, <2>3, <2>4
<1> QED
    BY <1>1, <1>2 DEF Path, RootBin

\* Nodes with a key in common are above one another.
LEMMA Nested ==
    ASSUME NEW b \in Bin, NEW c \in Bin, NEW k \in Key, Covers(b, k), Covers(c, k),
           b.size <= c.size
    PROVE  c \in Path(b)
<1> DEFINE s == b.size
           t == c.size
           y == k - b.first
           z == k - c.first
<1>1. /\ b.first \in Nat /\ s \in Nat \ {0} /\ s \in NodeSize /\ b.first % s = 0
      /\ c.first \in Nat /\ t \in Nat \ {0} /\ t \in NodeSize /\ c.first % t = 0
      /\ c = [first |-> c.first, size |-> t]
    BY BinWithin DEF Bin
<1>2. k \in Nat
    BY KeySpaceType
<1>3. y \in 0 .. s - 1 /\ z \in 0 .. t - 1 /\ k = b.first + y /\ k = c.first + z
    BY <1>1, <1>2 DEF Covers
<1>4. PICK n \in Nat \ {0} : t = s * n
    BY <1>1, BiggerSizes
<1>5. PICK e \in Nat : b.first = s * e
    BY <1>1, Multiple
<1>6. PICK d \in Nat : c.first = t * d
    BY <1>1, Multiple
<1> HIDE DEF s, t, y, z
<1>7. k - (k % t) = b.first - (b.first % t)
    BY <1>1, <1>3, <1>4, <1>5, Truncated
<1>8. k % t = z
  <2>1. t \in Nat \ {0} /\ z \in 0 .. t - 1 /\ d \in Nat
      BY <1>1, <1>3
  <2>2. (t * d + z) % t = z
      BY <2>1, Remainders
  <2> QED
      BY <1>3, <1>6, <2>2
<1>9. k - (k % t) = c.first
    BY <1>1, <1>2, <1>3, <1>8
<1>10. c = [first |-> b.first - (b.first % t), size |-> t]
    BY <1>1, <1>7, <1>9
<1> QED
    BY <1>1, <1>10 DEF Path, s, t

\* The root is above every other node.
LEMMA RootAbove ==
    ASSUME NEW b \in Bin
    PROVE  RootBin \in Path(b)
<1>1. /\ b.first \in Nat /\ b.size \in Nat \ {0} /\ b.first + b.size <= KeySpace
      /\ KeySpace \in Nat
    BY BinWithin, KeySpaceType
<1>2. b.first \in Key /\ Covers(b, b.first) /\ Covers(RootBin, b.first) /\ b.size <= RootBin.size
    BY <1>1 DEF Key, Covers, RootBin
<1> QED
    BY <1>2, RootIsBin, Nested

----------------------------------------------------------------------------
(* Finite sets. *)

LEMMA ImageFinite ==
    ASSUME NEW S, IsFiniteSet(S), NEW f, DOMAIN f = S
    PROVE  IsFiniteSet({f[y] : y \in S})
<1> DEFINE T == {f[y] : y \in S}
           g == [y \in S |-> f[y]]
<1>1. g \in Surjection(S, T)
    BY DEF Surjection
<1> HIDE DEF T, g
<1>2. IsFiniteSet(T)
    BY <1>1, FS_Surjection
<1> QED
    BY <1>2 DEF T

\* As many different ones of a finite set as it has are all of it.
LEMMA AllOfThem ==
    ASSUME NEW S, NEW T, IsFiniteSet(T), NEW f \in [S -> T],
           \A y, z \in S : f[y] = f[z] => y = z,
           Cardinality(S) = Cardinality(T)
    PROVE  IsFiniteSet(S) /\ T = {f[y] : y \in S}
<1>1. f \in Injection(S, T)
    BY DEF Injection, IsInjective
<1>2. IsFiniteSet(S) /\ f \in Surjection(S, T)
    BY <1>1, FS_Injection
<1> QED
    BY <1>2 DEF Surjection

----------------------------------------------------------------------------
(* Sums over sets, whatever the order they are taken in. *)

\* The recursion of a sum over a set.
SumBody(f, S, g) ==
    [s \in SUBSET S |->
        IF s = {} THEN 0
        ELSE f[CHOOSE x \in s : TRUE] + g[s \ {CHOOSE x \in s : TRUE}]]

LEMMA SumIsRecursive ==
    ASSUME NEW f, NEW S
    PROVE  SumFunctionOnSet(f, S) = (CHOOSE g : g = SumBody(f, S, g))[S]
BY DEF SumFunctionOnSet, FoldFunctionOnSet, MapThenFoldSet, SumBody

SubsetsUpTo(S, n) == {s \in SUBSET S : Cardinality(s) <= n}

SumsUpTo(f, S, n) ==
    {g \in [SubsetsUpTo(S, n) -> Int] :
        \A s \in SubsetsUpTo(S, n) :
           g[s] = IF s = {} THEN 0
                  ELSE f[CHOOSE x \in s : TRUE] + g[s \ {CHOOSE x \in s : TRUE}]}

LEMMA OneLess ==
    ASSUME NEW S, IsFiniteSet(S), NEW s \in SUBSET S, s # {}
    PROVE  /\ (CHOOSE x \in s : TRUE) \in S
           /\ s \ {CHOOSE x \in s : TRUE} \in SUBSET S
           /\ Cardinality(s) \in Nat \ {0}
           /\ Cardinality(s \ {CHOOSE x \in s : TRUE}) = Cardinality(s) - 1
<1> DEFINE x == CHOOSE y \in s : TRUE
<1>1. x \in s
    OBVIOUS
<1>2. IsFiniteSet(s)
    BY FS_Subset
<1>3. Cardinality(s) \in Nat /\ Cardinality(s) # 0
    BY <1>2, FS_CardinalityType, FS_EmptySet
<1>4. Cardinality(s \ {x}) = Cardinality(s) - 1
  <2> HIDE DEF x
  <2> QED
      BY <1>1, <1>2, FS_RemoveElement
<1> QED
    BY <1>1, <1>3, <1>4

LEMMA SumsExist ==
    ASSUME NEW f, NEW S, IsFiniteSet(S), \A x \in S : f[x] \in Int
    PROVE  \A n \in Nat : SumsUpTo(f, S, n) # {}
<1> DEFINE Bad == {n \in Nat : SumsUpTo(f, S, n) = {}}
<1> SUFFICES ASSUME Bad # {} PROVE FALSE
    OBVIOUS
<1>1. PICK n \in Bad : \A m \in Bad : n <= m
    BY Least
<1>2. CASE n = 0
  <2> DEFINE g == [s \in SubsetsUpTo(S, 0) |-> 0]
  <2>1. ASSUME NEW s \in SubsetsUpTo(S, 0) PROVE s = {}
    <3> SUFFICES ASSUME s # {} PROVE FALSE
        OBVIOUS
    <3>1. s \in SUBSET S /\ Cardinality(s) <= 0
        BY DEF SubsetsUpTo
    <3> QED
        BY <3>1, OneLess
  <2>2. g \in SumsUpTo(f, S, 0)
      BY <2>1 DEF SumsUpTo
  <2> QED
      BY <1>2, <2>2
<1>3. CASE n # 0
  <2>1. n - 1 \in Nat /\ ~(n <= n - 1)
      BY <1>3
  <2>2. PICK g : g \in SumsUpTo(f, S, n - 1)
      BY <1>1, <2>1
  <2> DEFINE D == SubsetsUpTo(S, n)
             E == SubsetsUpTo(S, n - 1)
             one(s) == CHOOSE x \in s : TRUE
             h == [s \in D |-> IF s = {} THEN 0 ELSE f[one(s)] + g[s \ {one(s)}]]
  <2>3. /\ \A s \in E : g[s] \in Int
        /\ \A s \in E : g[s] = IF s = {} THEN 0 ELSE f[one(s)] + g[s \ {one(s)}]
      BY <2>2 DEF SumsUpTo
  <2>4. ASSUME NEW s \in D, s # {}
        PROVE  one(s) \in S /\ s \ {one(s)} \in D \cap E
    <3>1. s \in SUBSET S /\ Cardinality(s) <= n
        BY DEF SubsetsUpTo
    <3>2. /\ one(s) \in S /\ s \ {one(s)} \in SUBSET S /\ Cardinality(s) \in Nat \ {0}
          /\ Cardinality(s \ {one(s)}) = Cardinality(s) - 1
        BY <2>4, <3>1, OneLess
    <3>3. Cardinality(s \ {one(s)}) <= n - 1 /\ Cardinality(s \ {one(s)}) <= n
        BY <3>1, <3>2
    <3> QED
        BY <3>2, <3>3 DEF SubsetsUpTo
  <2>5. ASSUME NEW s \in D PROVE h[s] \in Int
    <3>1. CASE s = {}
        BY <3>1
    <3>2. CASE s # {}
      <4>1. f[one(s)] \in Int /\ g[s \ {one(s)}] \in Int
          BY <2>3, <2>4, <3>2
      <4>2. h[s] = f[one(s)] + g[s \ {one(s)}]
          BY <3>2
      <4> HIDE DEF h, one
      <4> QED
          BY <4>1, <4>2
    <3> QED
        BY <3>1, <3>2
  <2>6. ASSUME NEW s \in D, s \in E PROVE h[s] = g[s]
    <3>1. h[s] = IF s = {} THEN 0 ELSE f[one(s)] + g[s \ {one(s)}]
        OBVIOUS
    <3> HIDE DEF h, one, E
    <3> QED
        BY <2>3, <2>6, <3>1
  <2>7. ASSUME NEW s \in D
        PROVE  h[s] = IF s = {} THEN 0 ELSE f[one(s)] + h[s \ {one(s)}]
    <3>1. h[s] = IF s = {} THEN 0 ELSE f[one(s)] + g[s \ {one(s)}]
        OBVIOUS
    <3>2. s # {} => h[s \ {one(s)}] = g[s \ {one(s)}]
        BY <2>4, <2>6
    <3> HIDE DEF h, one
    <3> QED
        BY <3>1, <3>2
  <2>8. h \in SumsUpTo(f, S, n)
    <3>1. h = [s \in D |-> h[s]]
        OBVIOUS
    <3>2. h \in [D -> Int]
      <4> HIDE DEF h, D
      <4> QED
          BY <2>5, <3>1
    <3>3. \A s \in D : h[s] = IF s = {} THEN 0
                              ELSE f[CHOOSE x \in s : TRUE] + h[s \ {CHOOSE x \in s : TRUE}]
        BY <2>7
    <3> HIDE DEF h
    <3> QED
        BY <3>2, <3>3 DEF SumsUpTo
  <2> QED
      BY <2>8
<1> QED
    BY <1>2, <1>3

\* A sum of integers is one, and one of natural numbers.
LEMMA SumIn ==
    ASSUME NEW V \in {Nat, Int}, NEW f, NEW S, IsFiniteSet(S), \A x \in S : f[x] \in V
    PROVE  SumFunctionOnSet(f, S) \in V
<1> DEFINE n == Cardinality(S)
           sum == CHOOSE g : g = SumBody(f, S, g)
           one(s) == CHOOSE x \in s : TRUE
<1>0. 0 \in V /\ (\A u, v \in V : u + v \in V) /\ V \subseteq Int
    OBVIOUS
<1>1. n \in Nat
    BY FS_CardinalityType
<1>2. SubsetsUpTo(S, n) = SUBSET S
    BY FS_Subset DEF SubsetsUpTo
<1>3. PICK g : g \in SumsUpTo(f, S, n)
    BY <1>0, <1>1, SumsExist
<1>4. g = SumBody(f, S, g)
    BY <1>2, <1>3 DEF SumsUpTo, SumBody
<1>5. sum = SumBody(f, S, sum)
    BY <1>4
<1> HIDE DEF sum
<1>6. \A s \in SUBSET S : sum[s] = IF s = {} THEN 0 ELSE f[one(s)] + sum[s \ {one(s)}]
  <2>1. DOMAIN SumBody(f, S, sum) = SUBSET S
      BY DEF SumBody
  <2>2. \A s \in SUBSET S :
           SumBody(f, S, sum)[s] = IF s = {} THEN 0 ELSE f[one(s)] + sum[s \ {one(s)}]
      BY DEF SumBody
  <2> QED
      BY <1>5, <2>2
<1> DEFINE Bad == {m \in Nat : \E s \in SUBSET S : Cardinality(s) = m /\ sum[s] \notin V}
<1>7. Bad = {}
  <2> SUFFICES ASSUME Bad # {} PROVE FALSE
      OBVIOUS
  <2>1. PICK m \in Bad : \A k \in Bad : m <= k
      BY Least
  <2>2. PICK s \in SUBSET S : Cardinality(s) = m /\ sum[s] \notin V
      OBVIOUS
  <2>3. s # {}
      BY <1>0, <1>6, <2>2
  <2> DEFINE t == s \ {one(s)}
  <2>4. one(s) \in S /\ t \in SUBSET S /\ Cardinality(t) = m - 1 /\ m \in Nat \ {0}
      BY <2>2, <2>3, OneLess
  <2>5. m - 1 \notin Bad /\ m - 1 \in Nat
      BY <2>1, <2>4
  <2>6. sum[t] \in V
      BY <2>4, <2>5
  <2>7. f[one(s)] \in V
      BY <2>4
  <2>8. sum[s] = f[one(s)] + sum[t]
      BY <1>6, <2>3
  <2> HIDE DEF t, one
  <2> QED
      BY <1>0, <2>2, <2>6, <2>7, <2>8
<1>8. sum[S] \in V
  <2>1. S \in SUBSET S
      OBVIOUS
  <2> QED
      BY <1>1, <1>7, <2>1
<1> QED
    BY <1>8, SumIsRecursive DEF sum

LEMMA SumType ==
    ASSUME NEW f, NEW S, IsFiniteSet(S), \A x \in S : f[x] \in Nat
    PROVE  SumFunctionOnSet(f, S) \in Nat
BY SumIn

LEMMA SumTypeInt ==
    ASSUME NEW f, NEW S, IsFiniteSet(S), \A x \in S : f[x] \in Int
    PROVE  SumFunctionOnSet(f, S) \in Int
BY SumIn

\* The element a sum takes first.
One(s) == CHOOSE x \in s : TRUE

\* The sums over all subsets of S.
SumTable(f, S) == CHOOSE g : g = SumBody(f, S, g)

LEMMA SumTableFacts ==
    ASSUME NEW f, NEW S, IsFiniteSet(S), \A x \in S : f[x] \in Int
    PROVE  \A s \in SUBSET S :
              SumTable(f, S)[s] = IF s = {} THEN 0 ELSE f[One(s)] + SumTable(f, S)[s \ {One(s)}]
<1> DEFINE n == Cardinality(S)
<1>1. n \in Nat
    BY FS_CardinalityType
<1>2. SubsetsUpTo(S, n) = SUBSET S
    BY FS_Subset DEF SubsetsUpTo
<1>3. PICK g : g \in SumsUpTo(f, S, n)
    BY <1>1, SumsExist
<1>4. g = SumBody(f, S, g)
    BY <1>2, <1>3 DEF SumsUpTo, SumBody
<1>5. SumTable(f, S) = SumBody(f, S, SumTable(f, S))
    BY <1>4 DEF SumTable
<1>6. \A sum : \A s \in SUBSET S :
         SumBody(f, S, sum)[s] = IF s = {} THEN 0 ELSE f[One(s)] + sum[s \ {One(s)}]
    BY DEF SumBody, One
<1> QED
    BY <1>5, <1>6

\* The sum over a set does not depend on the set it is taken in.
LEMMA SumsAgree ==
    ASSUME NEW f, NEW S, IsFiniteSet(S), \A x \in S : f[x] \in Int, NEW T \in SUBSET S
    PROVE  SumTable(f, S)[T] = SumTable(f, T)[T]
<1> DEFINE differ(s) == SumTable(f, S)[s] # SumTable(f, T)[s]
           Bad == {m \in Nat : \E s \in SUBSET T : Cardinality(s) = m /\ differ(s)}
<1>1. IsFiniteSet(T) /\ Cardinality(T) \in Nat
    BY FS_Subset, FS_CardinalityType
<1>2. \A y \in T : f[y] \in Int
    OBVIOUS
<1>3. \A u \in SUBSET T :
         SumTable(f, T)[u] = IF u = {} THEN 0 ELSE f[One(u)] + SumTable(f, T)[u \ {One(u)}]
    BY <1>1, <1>2, SumTableFacts
<1>4. Bad = {}
  <2> SUFFICES ASSUME Bad # {} PROVE FALSE
      OBVIOUS
  <2>1. Bad \in SUBSET Nat
      OBVIOUS
  <2>2. PICK m \in Bad : \A k \in Bad : m <= k
    <3> HIDE DEF Bad
    <3> QED
        BY <2>1, Least
  <2>3. PICK s \in SUBSET T : Cardinality(s) = m /\ differ(s)
      OBVIOUS
  <2> DEFINE x == One(s)
             t == s \ {x}
  <2>4. /\ SumTable(f, S)[s] = IF s = {} THEN 0 ELSE f[x] + SumTable(f, S)[t]
        /\ SumTable(f, T)[s] = IF s = {} THEN 0 ELSE f[x] + SumTable(f, T)[t]
    <3>1. s \in SUBSET S
        OBVIOUS
    <3>2. \A u \in SUBSET S :
             SumTable(f, S)[u] = IF u = {} THEN 0 ELSE f[One(u)] + SumTable(f, S)[u \ {One(u)}]
        BY SumTableFacts
    <3> QED
        BY <1>3, <3>1, <3>2
  <2>5. s # {} /\ SumTable(f, S)[t] # SumTable(f, T)[t]
    <3> HIDE DEF x, t
    <3> QED
        BY <2>3, <2>4
  <2>6. t \in SUBSET T /\ Cardinality(t) = m - 1 /\ m \in Nat \ {0}
      BY <1>1, <2>3, <2>5, OneLess DEF One
  <2>7. m - 1 \in Bad
      BY <2>5, <2>6
  <2> QED
      BY <2>2, <2>6, <2>7
<1>5. T \in SUBSET T
    OBVIOUS
<1> QED
    BY <1>1, <1>4, <1>5

LEMMA SumUnfolds ==
    ASSUME NEW f, NEW S, IsFiniteSet(S), \A x \in S : f[x] \in Int
    PROVE  SumFunctionOnSet(f, S) =
              IF S = {} THEN 0
              ELSE f[One(S)] + SumFunctionOnSet(f, S \ {One(S)})
<1> DEFINE x == One(S)
<1>1. S \in SUBSET S /\ S \ {x} \in SUBSET S
    OBVIOUS
<1>2. SumFunctionOnSet(f, S) = SumTable(f, S)[S]
    BY SumIsRecursive DEF SumTable
<1>3. SumFunctionOnSet(f, S \ {x}) = SumTable(f, S \ {x})[S \ {x}]
    BY SumIsRecursive DEF SumTable
<1>4. SumTable(f, S)[S \ {x}] = SumTable(f, S \ {x})[S \ {x}]
    BY <1>1, SumsAgree
<1>5. SumTable(f, S)[S] = IF S = {} THEN 0 ELSE f[x] + SumTable(f, S)[S \ {x}]
  <2>1. \A u \in SUBSET S :
           SumTable(f, S)[u] = IF u = {} THEN 0 ELSE f[One(u)] + SumTable(f, S)[u \ {One(u)}]
      BY SumTableFacts
  <2> QED
      BY <1>1, <2>1
<1> QED
    BY <1>2, <1>3, <1>4, <1>5

\* A sum less one element of its set, whichever it is.
LEMMA SumLessOne ==
    ASSUME NEW f, NEW S, IsFiniteSet(S), \A x \in S : f[x] \in Int, NEW e \in S
    PROVE  SumFunctionOnSet(f, S) = f[e] + SumFunctionOnSet(f, S \ {e})
<1> DEFINE sum(s) == SumFunctionOnSet(f, s)
           wrong(s) == \E y \in s : sum(s) # f[y] + sum(s \ {y})
           Bad == {m \in Nat : \E s \in SUBSET S : Cardinality(s) = m /\ wrong(s)}
<1>1. \A s \in SUBSET S : /\ IsFiniteSet(s) /\ Cardinality(s) \in Nat /\ sum(s) \in Int
                          /\ \A y \in s : f[y] \in Int
    BY FS_Subset, FS_CardinalityType, SumTypeInt
<1>2. \A s \in SUBSET S : s # {} => sum(s) = f[One(s)] + sum(s \ {One(s)})
    BY <1>1, SumUnfolds
<1>3. \A s \in SUBSET S : \A y \in s : Cardinality(s \ {y}) = Cardinality(s) - 1
    BY <1>1, FS_RemoveElement
<1>4. Bad = {}
  <2> SUFFICES ASSUME Bad # {} PROVE FALSE
      OBVIOUS
  <2>1. Bad \in SUBSET Nat
      OBVIOUS
  <2>2. PICK m \in Bad : \A k \in Bad : m <= k
    <3> HIDE DEF Bad
    <3> QED
        BY <2>1, Least
  <2>3. PICK s \in SUBSET S : Cardinality(s) = m /\ wrong(s)
      OBVIOUS
  <2>4. PICK y \in s : sum(s) # f[y] + sum(s \ {y})
      BY <2>3
  <2> DEFINE x == One(s)
  <2>5. x \in s /\ sum(s) = f[x] + sum(s \ {x})
      BY <1>2 DEF One
  <2> HIDE DEF x, sum
  <2>6. x # y /\ y \in s \ {x} /\ x \in s \ {y}
      BY <2>4, <2>5
  <2>7. \A z \in s : Cardinality(s \ {z}) = m - 1 /\ m - 1 \in Nat /\ ~(m <= m - 1)
      BY <1>1, <1>3, <2>3
  <2>8. \A z \in s : ~wrong(s \ {z})
      BY <2>2, <2>3, <2>7
  <2>9. sum(s \ {x}) = f[y] + sum((s \ {x}) \ {y}) /\ sum(s \ {y}) = f[x] + sum((s \ {y}) \ {x})
      BY <2>4, <2>5, <2>6, <2>8
  <2>10. (s \ {x}) \ {y} = (s \ {y}) \ {x}
      OBVIOUS
  <2>11. /\ f[x] \in Int /\ f[y] \in Int /\ sum(s \ {x}) \in Int /\ sum(s \ {y}) \in Int
         /\ sum((s \ {y}) \ {x}) \in Int
      BY <1>1, <2>4, <2>5
  <2> DEFINE sx == sum(s \ {x})
             sy == sum(s \ {y})
             rest == sum((s \ {y}) \ {x})
  <2>12. /\ sx = f[y] + rest /\ sy = f[x] + rest
         /\ f[x] \in Int /\ f[y] \in Int /\ rest \in Int
      BY <2>9, <2>10, <2>11
  <2>13. f[x] + sx = f[y] + sy
    <3> HIDE DEF sx, sy, rest
    <3> QED
        BY <2>12
  <2> QED
      BY <2>4, <2>5, <2>13
<1>5. ~wrong(S)
    BY <1>1, <1>4
<1> QED
    BY <1>5

\* Sums over intervals, one more at a time.
LEMMA SumGrows ==
    ASSUME NEW f, NEW lo \in Int, NEW hi \in Int, lo <= hi, \A x \in lo .. hi : f[x] \in Nat
    PROVE  /\ SumFunctionOnSet(f, lo .. hi) = f[hi] + SumFunctionOnSet(f, lo .. hi - 1)
           /\ SumFunctionOnSet(f, lo .. hi) \in Nat
<1>1. IsFiniteSet(lo .. hi) /\ hi \in lo .. hi
    BY FS_Interval
<1>2. (lo .. hi) \ {hi} = lo .. hi - 1
    OBVIOUS
<1>3. \A x \in lo .. hi : f[x] \in Int
    OBVIOUS
<1>4. SumFunctionOnSet(f, lo .. hi) = f[hi] + SumFunctionOnSet(f, (lo .. hi) \ {hi})
    BY <1>1, <1>3, SumLessOne
<1> QED
    BY <1>1, <1>2, <1>4, SumType

LEMMA SumOfNone ==
    ASSUME NEW f, NEW S, S = {}
    PROVE  SumFunctionOnSet(f, S) = 0
BY FS_EmptySet, SumUnfolds

LEMMA SumOfZeros ==
    ASSUME NEW f, NEW S, IsFiniteSet(S), \A x \in S : f[x] = 0
    PROVE  SumFunctionOnSet(f, S) = 0
<1> DEFINE wrong(s) == SumFunctionOnSet(f, s) # 0
           Bad == {m \in Nat : \E s \in SUBSET S : Cardinality(s) = m /\ wrong(s)}
<1>1. \A s \in SUBSET S : /\ IsFiniteSet(s) /\ Cardinality(s) \in Nat
                          /\ \A y \in s : f[y] = 0 /\ f[y] \in Int
    BY FS_Subset, FS_CardinalityType
<1> SUFFICES ASSUME wrong(S) PROVE FALSE
    OBVIOUS
<1>2. Bad # {} /\ Bad \in SUBSET Nat
    BY <1>1
<1>3. PICK m \in Bad : \A n \in Bad : m <= n
  <2> HIDE DEF Bad
  <2> QED
      BY <1>2, Least
<1>4. PICK s \in SUBSET S : Cardinality(s) = m /\ wrong(s)
    OBVIOUS
<1>5. s # {}
  <2>1. s = {} => SumFunctionOnSet(f, s) = 0
      BY SumOfNone
  <2> QED
      BY <1>4, <2>1
<1>6. PICK y \in s : TRUE
    BY <1>5
<1> DEFINE t == s \ {y}
<1>7. t \in SUBSET S /\ Cardinality(t) = m - 1 /\ Cardinality(t) \in Nat /\ m \in Nat
    BY <1>1, <1>4, <1>6, FS_RemoveElement
<1>8. SumFunctionOnSet(f, s) = f[y] + SumFunctionOnSet(f, t)
    BY <1>1, <1>6, SumLessOne
<1> HIDE DEF t
<1>9. wrong(t)
  <2>1. f[y] = 0 /\ SumFunctionOnSet(f, s) # 0
      BY <1>1, <1>4, <1>6
  <2>2. SumFunctionOnSet(f, t) = 0 => SumFunctionOnSet(f, s) = 0
      BY <1>8, <2>1
  <2> QED
      BY <2>1, <2>2
<1>10. m - 1 \in Bad /\ ~(m <= m - 1)
    BY <1>7, <1>9
<1> QED
    BY <1>3, <1>10

----------------------------------------------------------------------------
(* Nodes above one another. *)

\* A node and one above it.
LEMMA ParentAbove ==
    ASSUME NEW b \in Bin, b # RootBin
    PROVE  /\ Parent(b) \in Bin /\ b.size < Parent(b).size
           /\ \A k \in Key : Covers(b, k) => Covers(Parent(b), k)
<1>1. Parent(b) \in Bin /\ Parent(b).size > 1 /\ b \in Children(Parent(b))
    BY ParentOf
<1>2. PICK i \in ChildIndex : b = Child(Parent(b), i)
    BY <1>1 DEF Children
<1>3. b.size < Parent(b).size
    BY <1>1, AboveChild
<1> QED
    BY <1>1, <1>2, <1>3, ChildCoveredByParent

\* A node below another one has its parent below it, too.
LEMMA BelowOne ==
    ASSUME NEW b \in Bin, NEW s \in Bin, Covers(s, b.first), b.size <= s.size
    PROVE  /\ b.size = s.size => b = s
           /\ b # s => /\ b # RootBin /\ b.size < s.size
                       /\ Covers(s, Parent(b).first) /\ Parent(b).size <= s.size
           /\ \A k \in Key : Covers(b, k) => Covers(s, k)
<1>1. s \in Path(b) /\ b.first \in Key /\ Covers(b, b.first)
    BY CoversFirst, Nested
<1>2. b.size \in Nat \ {0} /\ s.size \in Nat \ {0}
    BY BinWithin
<1>3. ASSUME b.size = s.size PROVE b = s
  <2>1. b \in Path(s)
      BY <1>1, <1>2, <1>3, Nested
  <2>2. PICK t \in NodeSize : b = [first |-> s.first - (s.first % t), size |-> t]
      BY <2>1 DEF Path
  <2>3. s.first % t = 0 /\ s.first \in Nat /\ s = [first |-> s.first, size |-> t]
      BY <1>3, <2>2, BinWithin DEF Bin
  <2> QED
      BY <2>2, <2>3
<1>4. ASSUME b # s
      PROVE  /\ b # RootBin /\ b.size < s.size
             /\ Covers(s, Parent(b).first) /\ Parent(b).size <= s.size
  <2>1. b.size < s.size
      BY <1>2, <1>3, <1>4
  <2>2. b # RootBin
      BY <2>1, BinWithin DEF RootBin
  <2>3. /\ Parent(b) \in Bin /\ Parent(b).size > 1 /\ b \in Children(Parent(b))
      BY <2>2, ParentOf
  <2>4. Path(b) = Path(Parent(b)) \cup {b}
      BY <2>3, AboveChild
  <2>5. s \in Path(Parent(b))
      BY <1>1, <1>4, <2>4
  <2>6. PICK t \in NodeSize : t >= Parent(b).size
                              /\ s = [first |-> Parent(b).first - (Parent(b).first % t), size |-> t]
      BY <2>5 DEF Path
  <2>7. Parent(b).size <= s.size
      BY <2>6
  <2>8. Covers(s, Parent(b).first)
    <3>1. Parent(b).first \in Nat /\ t \in Nat \ {0}
        BY <2>3, <2>6, BinWithin, BiggerSizes
    <3> QED
        BY <2>6, <3>1 DEF Covers
  <2> QED
      BY <2>1, <2>2, <2>7, <2>8
<1>5. ASSUME NEW k \in Key, Covers(b, k) PROVE Covers(s, k)
  <2>1. PICK t \in NodeSize : t >= b.size
                              /\ s = [first |-> b.first - (b.first % t), size |-> t]
      BY <1>1 DEF Path
  <2>2. PICK q \in Nat \ {0} : t = b.size * q
      BY <2>1, <1>2, BinWithin, BiggerSizes
  <2> DEFINE z == b.size
  <2>3. z \in Nat \ {0} /\ b.first \in Nat /\ b.first % z = 0 /\ k \in Nat
        /\ b.first <= k /\ k < b.first + z
      BY <1>2, <1>5, BinWithin, KeySpaceType DEF Bin, Covers, Key
  <2>4. PICK d \in Nat : b.first = z * d
      BY <2>3, Multiple
  <2> DEFINE y == k - b.first
  <2>5. y \in 0 .. z - 1 /\ k = z * d + y
      BY <2>3, <2>4
  <2> HIDE DEF z, y
  <2>6. (z * d + y) - ((z * d + y) % (z * q)) = (z * d) - ((z * d) % (z * q))
    <3>1. z \in Nat \ {0} /\ d \in Nat /\ q \in Nat \ {0} /\ y \in 0 .. z - 1
        BY <2>2, <2>3, <2>4, <2>5
    <3> QED
        BY <3>1, Truncated, Zenon
  <2>7. z * q \in Nat \ {0}
      BY <2>1, <2>2, BiggerSizes, BinWithin DEF z
  <2>8. s.first = k - (k % (z * q)) /\ s.size = z * q
      BY <2>1, <2>2, <2>4, <2>5, <2>6 DEF z
  <2>9. k % (z * q) \in 0 .. (z * q) - 1
      BY <2>3, <2>7
  <2> QED
      BY <2>3, <2>7, <2>8, <2>9 DEF Covers
<1> QED
    BY <1>3, <1>4, <1>5

\* There are finitely many nodes.
LEMMA SizesFinite ==
    IsFiniteSet(NodeSize)
<1> DEFINE level == [l \in 0 .. Depth |-> SizeAt[l]]
<1>1. IsFiniteSet(0 .. Depth)
    BY KeyTreeAssumption, FS_Interval
<1>2. NodeSize = {level[l] : l \in 0 .. Depth}
    BY DEF NodeSize
<1>3. DOMAIN level = 0 .. Depth
    OBVIOUS
<1> HIDE DEF level
<1> QED
    BY <1>1, <1>2, <1>3, ImageFinite

LEMMA BinFinite ==
    IsFiniteSet(Bin)
<1> DEFINE bin == [y \in Key \X NodeSize |-> [first |-> y[1], size |-> y[2]]]
<1>1. IsFiniteSet(Key \X NodeSize)
    BY SizesFinite, KeySpaceType, FS_Product
<1>2. IsFiniteSet({bin[y] : y \in Key \X NodeSize})
  <2>1. DOMAIN bin = Key \X NodeSize
      OBVIOUS
  <2> HIDE DEF bin
  <2> QED
      BY <1>1, <2>1, ImageFinite
<1>3. Bin \subseteq {bin[y] : y \in Key \X NodeSize}
  <2> SUFFICES ASSUME NEW b \in Bin PROVE b \in {bin[y] : y \in Key \X NodeSize}
      OBVIOUS
  <2>1. b = [first |-> b.first, size |-> b.size] /\ b.first \in Key /\ b.size \in NodeSize
      BY BinWithin, CoversFirst
  <2>2. <<b.first, b.size>> \in Key \X NodeSize /\ bin[<<b.first, b.size>>] = b
      BY <2>1
  <2> HIDE DEF bin
  <2> QED
      BY <2>2
<1> HIDE DEF bin
<1> QED
    BY <1>2, <1>3, FS_Subset

LEMMA PathFinite ==
    ASSUME NEW b
    PROVE  IsFiniteSet(Path(b))
<1> DEFINE S == {t \in NodeSize : t >= b.size}
           bin == [s \in S |-> [first |-> b.first - (b.first % s), size |-> s]]
<1>1. IsFiniteSet(S)
    BY SizesFinite, FS_Subset
<1>2. Path(b) = {bin[s] : s \in S}
    BY DEF Path
<1>3. DOMAIN bin = S
    OBVIOUS
<1> HIDE DEF bin, S
<1> QED
    BY <1>1, <1>2, <1>3, ImageFinite

\* What is below a node and is not the node is below one of its children.
LEMMA BelowAChild ==
    ASSUME NEW b \in Bin, b.size > 1, NEW l \in Bin, Covers(b, l.first), l.size < b.size
    PROVE  \E c \in Children(b) : Covers(c, l.first) /\ l.size <= c.size
<1>1. l.first \in Key /\ Covers(l, l.first)
    BY CoversFirst
<1>2. PICK i \in ChildIndex : Covers(Child(b, i), l.first)
    BY <1>1, OneChildCovers
<1> DEFINE c == Child(b, i)
<1>3. c \in Children(b)
    BY DEF Children
<1>4. c \in Bin /\ Path(c) = Path(b) \cup {c}
    BY <1>3, AboveChild
<1>5. l.size \in Nat /\ c.size \in Nat /\ b.size \in Nat
    BY <1>4, BinWithin
<1>6. l.size <= c.size
  <2> SUFFICES ASSUME c.size < l.size PROVE FALSE
      BY <1>5
  <2>1. l \in Path(c)
      BY <1>1, <1>2, <1>4, <1>5, Nested
  <2>2. l \in Path(b)
    <3>1. l # c
        BY <1>5
    <3> HIDE DEF c
    <3> QED
        BY <1>4, <2>1, <3>1
  <2>3. l.size >= b.size
      BY <2>2 DEF Path
  <2> QED
      BY <1>5, <2>3
<1> QED
    BY <1>2, <1>3, <1>6

\* The levels of a node below one above it: one more than of its parent.
LEMMA OneLevel ==
    ASSUME NEW k \in Bin, NEW b \in Bin, Covers(k, b.first), b.size < k.size
    PROVE  /\ Cardinality(Path(b) \ Path(k)) \in Nat
           /\ Cardinality(Path(Parent(b)) \ Path(k)) \in Nat
           /\ Cardinality(Path(b) \ Path(k)) = Cardinality(Path(Parent(b)) \ Path(k)) + 1
<1>1. b.size \in Nat /\ k.size \in Nat
    BY BinWithin
<1>2. b # RootBin
    BY <1>1, BelowOne
<1>3. Parent(b) \in Bin /\ Parent(b).size > 1 /\ b \in Children(Parent(b))
    BY <1>2, ParentOf
<1>4. Path(b) = Path(Parent(b)) \cup {b} /\ b \notin Path(Parent(b))
    BY <1>3, AboveChild
<1>5. b \notin Path(k)
  <2> SUFFICES ASSUME b \in Path(k) PROVE FALSE
      OBVIOUS
  <2>1. b.size >= k.size
      BY DEF Path
  <2> QED
      BY <1>1, <2>1
<1> DEFINE S == Path(Parent(b)) \ Path(k)
<1>6. IsFiniteSet(S)
    BY PathFinite, FS_Difference
<1>7. Path(b) \ Path(k) = S \cup {b} /\ b \notin S
    BY <1>4, <1>5
<1>8. Cardinality(S) \in Nat /\ Cardinality(S \cup {b}) = Cardinality(S) + 1
    BY <1>6, <1>7, FS_CardinalityType, FS_AddElement
<1> QED
    BY <1>7, <1>8

\* Which child of its parent a node is.
LEMMA RankIs ==
    ASSUME NEW b \in Bin, b # RootBin
    PROVE  Rank(b) \in ChildIndex /\ b = Child(Parent(b), Rank(b))
<1>1. /\ Parent(b) \in Bin /\ Parent(b).size > 1 /\ b \in Children(Parent(b))
    BY ParentOf
<1>2. PICK i \in ChildIndex : b = Child(Parent(b), i)
    BY <1>1 DEF Children
<1> DEFINE f == Parent(b).first
           s == b.size
<1>3. b.first = f + i * s /\ s \in Nat \ {0} /\ f \in Nat /\ i \in Nat
  <2>1. b.first = f + i * (Parent(b).size \div BranchFactor)
        /\ b.size = Parent(b).size \div BranchFactor
      BY <1>1, <1>2, ChildIsBin
  <2> QED
      BY <1>1, <2>1, BinWithin DEF ChildIndex
<1> HIDE DEF f, s
<1>4. b.first - f = s * i + 0
    BY <1>3
<1>5. (s * i + 0) \div s = i
    BY <1>3
<1>6. Rank(b) = i
    BY <1>4, <1>5 DEF Rank, f, s
<1> QED
    BY <1>2, <1>6

\* What holds of the root, and of a node if it holds of its parent, holds of all.
LEMMA FromTheRoot ==
    ASSUME NEW S, RootBin \in S, \A b \in Bin \ {RootBin} : Parent(b) \in S => b \in S
    PROVE  Bin \subseteq S
<1> SUFFICES ASSUME ~(Bin \subseteq S) PROVE FALSE
    OBVIOUS
<1> DEFINE Bad == {n \in Nat : \E b \in Bin \ S : n = KeySpace - b.size}
<1>1. \A b \in Bin : b.size \in Nat /\ KeySpace - b.size \in Nat
  <2> TAKE b \in Bin
  <2>1. b.first \in Nat /\ b.size \in Nat /\ b.first + b.size <= KeySpace /\ KeySpace \in Nat
      BY BinWithin, KeySpaceType
  <2> QED
      BY <2>1
<1>2. Bad \in SUBSET Nat /\ Bad # {}
    BY <1>1
<1>3. PICK n \in Bad : \A m \in Bad : n <= m
  <2> HIDE DEF Bad
  <2> QED
      BY <1>2, Least
<1>4. PICK b \in Bin \ S : n = KeySpace - b.size
    BY <1>3
<1>5. b # RootBin
    BY <1>4
<1>6. Parent(b) \in Bin /\ b.size < Parent(b).size
    BY <1>4, <1>5, ParentAbove
<1>7. Parent(b) \notin S
    BY <1>4, <1>5
<1>8. KeySpace - Parent(b).size \in Bad
    BY <1>1, <1>6, <1>7
<1>9. n <= KeySpace - Parent(b).size
    BY <1>3, <1>8
<1>10. KeySpace \in Nat /\ b.size \in Nat /\ Parent(b).size \in Nat
    BY <1>1, <1>4, <1>6, KeySpaceType
<1> QED
    BY <1>4, <1>6, <1>9, <1>10

\* What is above a node is a node, and has below it what the node has.
LEMMA PathCovers ==
    ASSUME NEW b \in Bin, NEW a \in Path(b)
    PROVE  a \in Bin /\ \A k \in Key : Covers(b, k) => Covers(a, k)
<1> DEFINE S == {c \in Bin : \A x \in Path(c) :
                    x \in Bin /\ \A k \in Key : Covers(c, k) => Covers(x, k)}
<1>1. RootBin \in S
    BY RootIsBin, PathOfRoot
<1>2. ASSUME NEW c \in Bin \ {RootBin}, Parent(c) \in S PROVE c \in S
  <2>1. /\ Parent(c) \in Bin /\ Parent(c).size > 1 /\ c \in Children(Parent(c))
        /\ \A k \in Key : Covers(c, k) => Covers(Parent(c), k)
      BY ParentOf, ParentAbove
  <2>2. Path(c) = Path(Parent(c)) \cup {c}
      BY <2>1, AboveChild
  <2> QED
      BY <1>2, <2>1, <2>2
<1> HIDE DEF S
<1>3. Bin \subseteq S
    BY <1>1, <1>2, FromTheRoot
<1> QED
    BY <1>3 DEF S

\* Of two bins with a key in common the bigger holds the smaller.
LEMMA Comparable ==
    ASSUME NEW b \in Bin, NEW c \in Bin, NEW x \in Key, Covers(b, x), Covers(c, x), b.size <= c.size
    PROVE  Covers(c, b.first)
<1>1. c \in Path(b)
    BY Nested
<1>2. PICK t \in NodeSize : c = [first |-> b.first - (b.first % t), size |-> t]
    BY <1>1 DEF Path
<1>3. b.first \in Nat /\ t \in Nat \ {0}
    BY <1>2, BinWithin, BiggerSizes
<1> QED
    BY <1>2, <1>3 DEF Covers

----------------------------------------------------------------------------
(* Trees over them. *)

\* Every node but the root hangs below one that has children.
Rooted(T) ==
    /\ DOMAIN T \subseteq Bin
    /\ \A b \in DOMAIN T \ {RootBin} :
          Parent(b) \in DOMAIN T /\ T[Parent(b)].numChildren # 0

\* Two nodes with no key below both.
Apart(b, c) == \A k \in Key : ~(Covers(b, k) /\ Covers(c, k))

\* All above a node of a tree are nodes of it, and have children.
LEMMA AllAbove ==
    ASSUME NEW T, Rooted(T), NEW c \in Bin
    PROVE  \A b \in DOMAIN T : Covers(c, b.first) /\ b.size < c.size
                                  => c \in DOMAIN T /\ T[c].numChildren # 0
<1> DEFINE Fine(b) == c \in DOMAIN T /\ T[c].numChildren # 0
           Under == {b \in DOMAIN T : Covers(c, b.first) /\ b.size < c.size}
           Bad == {n \in Nat : \E b \in Under : n = c.size - b.size /\ ~Fine(b)}
<1>1. DOMAIN T \subseteq Bin /\ c.size \in Nat /\ \A b \in Bin : b.size \in Nat
    BY BinWithin DEF Rooted
<1>2. Bad = {}
  <2> SUFFICES ASSUME Bad # {} PROVE FALSE
      OBVIOUS
  <2>1. Bad \in SUBSET Nat
      OBVIOUS
  <2>2. PICK n \in Bad : \A m \in Bad : n <= m
    <3> HIDE DEF Bad
    <3> QED
        BY <2>1, Least
  <2>3. PICK b \in Under : n = c.size - b.size /\ ~Fine(b)
      BY <2>2
  <2>4. b \in Bin /\ b.size < c.size /\ Covers(c, b.first)
      BY <1>1, <2>3
  <2>5. /\ b # RootBin /\ Covers(c, Parent(b).first) /\ Parent(b).size <= c.size
    <3>1. b # c /\ b.size <= c.size
        BY <1>1, <2>4
    <3> QED
        BY <2>4, <3>1, BelowOne
  <2>6. /\ Parent(b) \in DOMAIN T /\ T[Parent(b)].numChildren # 0
        /\ Parent(b) \in Bin /\ b.size < Parent(b).size
      BY <2>3, <2>4, <2>5, ParentAbove DEF Rooted
  <2>7. CASE Parent(b).size = c.size
    <3>1. Parent(b) = c
        BY <2>5, <2>6, <2>7, BelowOne
    <3> QED
        BY <2>3, <2>6, <3>1
  <2>8. CASE Parent(b).size # c.size
    <3>1. Parent(b) \in Under
        BY <1>1, <2>5, <2>6, <2>8
    <3>2. c.size - Parent(b).size \in Nat /\ ~(n <= c.size - Parent(b).size)
        BY <1>1, <2>3, <2>4, <2>5, <2>6
    <3> QED
        BY <2>2, <2>3, <3>1, <3>2
  <2> QED
      BY <2>7, <2>8
<1>3. \A b \in Under : c.size - b.size \in Nat
    BY <1>1
<1> QED
    BY <1>2, <1>3

LEMMA LeavesApart ==
    ASSUME NEW T, Rooted(T), NEW b \in DOMAIN T, NEW c \in DOMAIN T, b # c,
           T[b].numChildren = 0, T[c].numChildren = 0
    PROVE  Apart(b, c)
<1>1. ASSUME NEW x \in DOMAIN T, NEW y \in DOMAIN T, x # y, T[y].numChildren = 0,
             NEW k \in Key, Covers(x, k), Covers(y, k), x.size <= y.size
      PROVE  FALSE
  <2>1. x \in Bin /\ y \in Bin /\ x.size \in Nat /\ y.size \in Nat
      BY BinWithin DEF Rooted
  <2>2. y \in Path(x)
      BY <1>1, <2>1, Nested
  <2>3. PICK t \in NodeSize : y = [first |-> x.first - (x.first % t), size |-> t]
      BY <2>2 DEF Path
  <2>4. x.first \in Nat /\ t \in Nat \ {0}
      BY <2>1, <2>3, BinWithin, BiggerSizes
  <2>5. Covers(y, x.first)
      BY <2>3, <2>4 DEF Covers
  <2>6. x.size # y.size
      BY <1>1, <2>1, <2>5, BelowOne
  <2> QED
      BY <1>1, <2>1, <2>5, <2>6, AllAbove
<1>2. \A x \in DOMAIN T : x.size \in Nat
    BY BinWithin DEF Rooted
<1> QED
    BY <1>1, <1>2 DEF Apart

----------------------------------------------------------------------------
(* Folds over finite sets, and counting. *)

\* A fold takes the last of a set, and then what is left.
FoldTable(S, X, x0, last, G, n) ==
    {f \in [SubsetsUpTo(S, n) -> X] :
        \A s \in SubsetsUpTo(S, n) :
           f[s] = IF s = {} THEN x0 ELSE G[last[s]][f[s \ {last[s]}]]}

LEMMA LessOne ==
    ASSUME NEW S, IsFiniteSet(S), NEW s \in SUBSET S, NEW x \in s
    PROVE  /\ s \ {x} \in SUBSET S
           /\ Cardinality(s) \in Nat \ {0}
           /\ Cardinality(s \ {x}) = Cardinality(s) - 1
<1>1. IsFiniteSet(s)
    BY FS_Subset
<1>2. Cardinality(s) \in Nat /\ Cardinality(s) # 0
    BY <1>1, FS_CardinalityType, FS_EmptySet
<1>3. Cardinality(s \ {x}) = Cardinality(s) - 1
    BY <1>1, FS_RemoveElement
<1> QED
    BY <1>2, <1>3

LEMMA FoldsExist ==
    ASSUME NEW S, IsFiniteSet(S), NEW X, NEW x0 \in X, NEW last,
           \A s \in SUBSET S : s # {} => last[s] \in s,
           NEW G \in [S -> [X -> X]]
    PROVE  \A n \in Nat : FoldTable(S, X, x0, last, G, n) # {}
<1> DEFINE Table(n) == FoldTable(S, X, x0, last, G, n)
           Bad == {n \in Nat : Table(n) = {}}
<1> SUFFICES ASSUME Bad # {} PROVE FALSE
    OBVIOUS
<1>1. PICK n \in Bad : \A m \in Bad : n <= m
  <2>1. Bad \in SUBSET Nat
      OBVIOUS
  <2> HIDE DEF Bad
  <2> QED
      BY <2>1, Least
<1>2. CASE n = 0
  <2> DEFINE g == [s \in SubsetsUpTo(S, 0) |-> x0]
  <2>1. ASSUME NEW s \in SubsetsUpTo(S, 0) PROVE s = {}
    <3> SUFFICES ASSUME s # {} PROVE FALSE
        OBVIOUS
    <3>1. s \in SUBSET S /\ Cardinality(s) <= 0 /\ last[s] \in s
        BY DEF SubsetsUpTo
    <3>2. Cardinality(s) \in Nat \ {0}
        BY <3>1, LessOne
    <3> QED
        BY <3>1, <3>2
  <2>2. g \in Table(0)
      BY <2>1 DEF FoldTable
  <2> QED
      BY <1>2, <2>2
<1>3. CASE n # 0
  <2>1. n - 1 \in Nat /\ ~(n <= n - 1) /\ n \in Nat
      BY <1>1, <1>3
  <2>2. PICK g : g \in Table(n - 1)
      BY <1>1, <2>1
  <2> DEFINE D == SubsetsUpTo(S, n)
             E == SubsetsUpTo(S, n - 1)
             less(s) == s \ {last[s]}
             h == [s \in D |-> IF s = {} THEN x0 ELSE G[last[s]][g[less(s)]]]
  <2>3. /\ \A s \in E : g[s] \in X
        /\ \A s \in E : g[s] = IF s = {} THEN x0 ELSE G[last[s]][g[less(s)]]
      BY <2>2 DEF FoldTable
  <2>4. ASSUME NEW s \in D, s # {}
        PROVE  last[s] \in S /\ less(s) \in D \cap E
    <3>1. s \in SUBSET S /\ Cardinality(s) <= n /\ last[s] \in s
        BY <2>4 DEF SubsetsUpTo
    <3>2. /\ less(s) \in SUBSET S /\ Cardinality(s) \in Nat \ {0}
          /\ Cardinality(less(s)) = Cardinality(s) - 1
      <4> DEFINE x == last[s]
      <4>1. x \in s /\ s \in SUBSET S
          BY <3>1
      <4> HIDE DEF x
      <4>2. /\ s \ {x} \in SUBSET S /\ Cardinality(s) \in Nat \ {0}
            /\ Cardinality(s \ {x}) = Cardinality(s) - 1
          BY <4>1, LessOne
      <4> QED
          BY <4>2 DEF x
    <3>3. Cardinality(less(s)) <= n - 1 /\ Cardinality(less(s)) <= n
        BY <2>1, <3>1, <3>2
    <3> QED
        BY <3>1, <3>2, <3>3 DEF SubsetsUpTo
  <2>5. ASSUME NEW s \in D PROVE h[s] \in X
    <3>1. CASE s = {}
        BY <3>1
    <3>2. CASE s # {}
      <4>1. last[s] \in S /\ g[less(s)] \in X
          BY <2>3, <2>4, <3>2
      <4>2. h[s] = G[last[s]][g[less(s)]]
          BY <3>2
      <4> HIDE DEF h, less
      <4> QED
          BY <4>1, <4>2
    <3> QED
        BY <3>1, <3>2
  <2>6. ASSUME NEW s \in D, s \in E PROVE h[s] = g[s]
    <3>1. h[s] = IF s = {} THEN x0 ELSE G[last[s]][g[less(s)]]
        OBVIOUS
    <3> HIDE DEF h, less, E
    <3> QED
        BY <2>3, <2>6, <3>1
  <2>7. ASSUME NEW s \in D
        PROVE  h[s] = IF s = {} THEN x0 ELSE G[last[s]][h[less(s)]]
    <3>1. h[s] = IF s = {} THEN x0 ELSE G[last[s]][g[less(s)]]
        OBVIOUS
    <3>2. s # {} => h[less(s)] = g[less(s)]
        BY <2>4, <2>6
    <3> HIDE DEF h, less
    <3> QED
        BY <3>1, <3>2
  <2>8. h \in Table(n)
    <3>1. h = [s \in D |-> h[s]]
        OBVIOUS
    <3>2. h \in [D -> X]
      <4> HIDE DEF h, D
      <4> QED
          BY <2>5, <3>1
    <3>3. \A s \in D : h[s] = IF s = {} THEN x0 ELSE G[last[s]][h[s \ {last[s]}]]
        BY <2>7
    <3> HIDE DEF h
    <3> QED
        BY <3>2, <3>3 DEF FoldTable
  <2> QED
      BY <2>8
<1> QED
    BY <1>2, <1>3

\* The least and the greatest of some numbers.
LEMMA LeastOf ==
    ASSUME NEW T \in SUBSET Nat, T # {}
    PROVE  Min(T) \in T /\ \A m \in T : Min(T) <= m
BY Least DEF Min

LEMMA GreatestOf ==
    ASSUME NEW n \in Nat, NEW T \in SUBSET (0 .. n), T # {}
    PROVE  Max(T) \in T /\ \A m \in T : m <= Max(T)
<1> DEFINE L == {n - m : m \in T}
<1>1. L \in SUBSET Nat /\ L # {}
  <2>1. \A m \in T : n - m \in Nat
      OBVIOUS
  <2> QED
      BY <2>1
<1>2. PICK l \in L : \A m \in L : l <= m
  <2> HIDE DEF L
  <2> QED
      BY <1>1, Least
<1>3. PICK x \in T : l = n - x
    BY <1>2
<1>4. \A m \in T : x >= m
  <2> TAKE m \in T
  <2>1. n - m \in L /\ m \in Nat /\ x \in Nat
      OBVIOUS
  <2>2. n - x <= n - m
      BY <1>2, <1>3, <2>1
  <2> QED
      BY <2>1, <2>2
<1> QED
    BY <1>4 DEF Max

\* Sets with nothing in common have as many elements as all of them together.
UnionOf(f, S) == UNION {f[x] : x \in S}

LEMMA UnionCount ==
    ASSUME NEW S, IsFiniteSet(S), NEW f, \A x \in S : IsFiniteSet(f[x]),
           \A x, y \in S : x # y => f[x] \cap f[y] = {},
           NEW c, \A x \in S : c[x] = Cardinality(f[x])
    PROVE  IsFiniteSet(UnionOf(f, S)) /\ Cardinality(UnionOf(f, S)) = SumFunctionOnSet(c, S)
<1> USE DEF UnionOf
<1> DEFINE U(s) == UNION {f[x] : x \in s}
           Fine(s) == IsFiniteSet(U(s)) /\ Cardinality(U(s)) = SumFunctionOnSet(c, s)
           Bad == {n \in Nat : \E s \in SUBSET S : n = Cardinality(s) /\ ~Fine(s)}
<1>1. \A s \in SUBSET S : IsFiniteSet(s) /\ Cardinality(s) \in Nat
    BY FS_Subset, FS_CardinalityType
<1>2. Bad = {}
  <2> SUFFICES ASSUME Bad # {} PROVE FALSE
      OBVIOUS
  <2>1. Bad \in SUBSET Nat
      OBVIOUS
  <2>2. PICK n \in Bad : \A m \in Bad : n <= m
    <3> HIDE DEF Bad
    <3> QED
        BY <2>1, Least
  <2>3. PICK s \in SUBSET S : n = Cardinality(s) /\ ~Fine(s)
      BY <2>2
  <2>4. CASE s = {}
    <3>1. U(s) = {}
        BY <2>4
    <3> HIDE DEF U
    <3> QED
        BY <2>3, <2>4, <3>1, FS_EmptySet, SumOfNone
  <2>5. CASE s # {}
    <3>1. PICK e \in s : TRUE
        BY <2>5
    <3> DEFINE r == s \ {e}
    <3>2. r \in SUBSET S /\ Cardinality(s) \in Nat \ {0} /\ Cardinality(r) = Cardinality(s) - 1
        BY <3>1, LessOne
    <3>3. Fine(r)
      <4>1. Cardinality(r) \in Nat /\ ~(n <= Cardinality(r))
          BY <2>3, <3>2
      <4> HIDE DEF Fine, r
      <4> QED
          BY <2>2, <3>2, <4>1
    <3>4. U(s) = U(r) \cup f[e] /\ U(r) \cap f[e] = {} /\ IsFiniteSet(f[e])
        BY <3>1
    <3>5. \A x \in s : c[x] \in Int
        BY FS_CardinalityType
    <3>6. SumFunctionOnSet(c, s) = c[e] + SumFunctionOnSet(c, r)
        BY <1>1, <3>1, <3>5, SumLessOne
    <3>7. IsFiniteSet(U(s))
          /\ Cardinality(U(s)) = Cardinality(U(r)) + Cardinality(f[e])
      <4> DEFINE A == U(r)
                 B == f[e]
      <4>1. IsFiniteSet(A) /\ IsFiniteSet(B) /\ A \cap B = {} /\ U(s) = A \cup B
          BY <3>3, <3>4
      <4> HIDE DEF A, B, U
      <4>2. /\ IsFiniteSet(A \cup B)
            /\ Cardinality(A \cup B) = Cardinality(A) + Cardinality(B) - Cardinality(A \cap B)
          BY <4>1, FS_Union, Zenon
      <4>3. Cardinality({}) = 0 /\ Cardinality(A) \in Nat /\ Cardinality(B) \in Nat
          BY <4>1, FS_EmptySet, FS_CardinalityType
      <4>4. Cardinality(A \cap B) = 0
          BY <4>1, <4>3
      <4>5. Cardinality(A \cup B) = Cardinality(A) + Cardinality(B)
          BY <4>2, <4>3, <4>4
      <4>6. IsFiniteSet(U(s)) /\ Cardinality(U(s)) = Cardinality(A) + Cardinality(B)
          BY <4>1, <4>2, <4>5
      <4> QED
          BY <4>6 DEF A, B
    <3>8. c[e] = Cardinality(f[e]) /\ Cardinality(f[e]) \in Nat /\ Cardinality(U(r)) \in Nat
        BY <3>1, <3>3, <3>4, FS_CardinalityType
    <3> HIDE DEF U, r
    <3> QED
        BY <2>3, <3>3, <3>6, <3>7, <3>8
  <2> QED
      BY <2>4, <2>5
<1>3. Cardinality(S) \in Nat /\ S \in SUBSET S
    BY <1>1
<1> HIDE DEF Fine
<1>4. Fine(S)
    BY <1>2, <1>3
<1> QED
    BY <1>4 DEF Fine

\* As many images as there are things, if no two have the same.
LEMMA ImageCount ==
    ASSUME NEW S, IsFiniteSet(S), NEW f, DOMAIN f = S, \A x, y \in S : f[x] = f[y] => x = y
    PROVE  IsFiniteSet({f[x] : x \in S}) /\ Cardinality({f[x] : x \in S}) = Cardinality(S)
<1> DEFINE T == {f[x] : x \in S}
           g == [x \in S |-> f[x]]
<1>1. g \in Bijection(S, T)
    BY DEF Bijection, Injection, IsInjective, Surjection
<1> HIDE DEF g, T
<1>2. ExistsBijection(S, T)
    BY <1>1 DEF ExistsBijection
<1>3. IsFiniteSet(T) /\ Cardinality(T) = Cardinality(S)
    BY <1>2, FS_Bijection
<1> QED
    BY <1>3 DEF T

----------------------------------------------------------------------------
(* Sums, wherever they are written down. *)

\* Whatever the recursion of a sum, it has one solution.
LEMMA SumFixed ==
    ASSUME NEW f, NEW S, IsFiniteSet(S), \A x \in S : f[x] \in Int,
           NEW g, g = SumBody(f, S, g)
    PROVE  g[S] = SumFunctionOnSet(f, S)
<1> DEFINE wrong(s) == g[s] # SumTable(f, S)[s]
           Bad == {m \in Nat : \E s \in SUBSET S : Cardinality(s) = m /\ wrong(s)}
<1>1. \A s \in SUBSET S : g[s] = IF s = {} THEN 0 ELSE f[One(s)] + g[s \ {One(s)}]
  <2>1. \A h : \A s \in SUBSET S :
           SumBody(f, S, h)[s] = IF s = {} THEN 0 ELSE f[One(s)] + h[s \ {One(s)}]
      BY DEF SumBody, One
  <2> QED
      BY <2>1
<1>2. \A s \in SUBSET S :
         SumTable(f, S)[s] = IF s = {} THEN 0 ELSE f[One(s)] + SumTable(f, S)[s \ {One(s)}]
    BY SumTableFacts
<1>3. Bad = {}
  <2> SUFFICES ASSUME Bad # {} PROVE FALSE
      OBVIOUS
  <2>1. Bad \in SUBSET Nat
      OBVIOUS
  <2>2. PICK m \in Bad : \A k \in Bad : m <= k
    <3> HIDE DEF Bad
    <3> QED
        BY <2>1, Least
  <2>3. PICK s \in SUBSET S : Cardinality(s) = m /\ wrong(s)
      OBVIOUS
  <2> DEFINE t == s \ {One(s)}
  <2>4. /\ g[s] = IF s = {} THEN 0 ELSE f[One(s)] + g[t]
        /\ SumTable(f, S)[s] = IF s = {} THEN 0 ELSE f[One(s)] + SumTable(f, S)[t]
      BY <1>1, <1>2
  <2> HIDE DEF t
  <2>5. s # {} /\ wrong(t)
      BY <2>3, <2>4
  <2>6. t \in SUBSET S /\ Cardinality(t) = m - 1 /\ m \in Nat \ {0}
      BY <2>3, <2>5, OneLess DEF One, t
  <2>7. m - 1 \in Bad
      BY <2>5, <2>6
  <2> QED
      BY <2>2, <2>6, <2>7
<1>4. ~wrong(S)
  <2>1. S \in SUBSET S /\ Cardinality(S) \in Nat
      BY FS_CardinalityType
  <2> QED
      BY <1>3, <2>1
<1> QED
    BY <1>4, SumIsRecursive DEF SumTable

\* It is found, as the sum of f, wherever it is written down.
LEMMA SumFound ==
    ASSUME NEW f, NEW S, IsFiniteSet(S), \A x \in S : f[x] \in Int
    PROVE  SumTable(f, S) = SumBody(f, S, SumTable(f, S))
<1> DEFINE n == Cardinality(S)
<1>1. n \in Nat
    BY FS_CardinalityType
<1>2. SubsetsUpTo(S, n) = SUBSET S
    BY FS_Subset DEF SubsetsUpTo
<1>3. PICK g : g \in SumsUpTo(f, S, n)
    BY <1>1, SumsExist
<1>4. g = SumBody(f, S, g)
    BY <1>2, <1>3 DEF SumsUpTo, SumBody
<1> QED
    BY <1>4 DEF SumTable

\* The sum over two sets apart is the sum of both; by a least counterexample.
LEMMA SumOfTwo ==
    ASSUME NEW f, NEW S, NEW T, IsFiniteSet(S), IsFiniteSet(T), S \cap T = {},
           \A x \in S \cup T : f[x] \in Int
    PROVE  SumFunctionOnSet(f, S \cup T) = SumFunctionOnSet(f, S) + SumFunctionOnSet(f, T)
<1> DEFINE sum(s) == SumFunctionOnSet(f, s)
           wrong(s) == sum(S \cup s) # sum(S) + sum(s)
           Bad == {m \in Nat : \E s \in SUBSET T : Cardinality(s) = m /\ wrong(s)}
<1>1. \A s \in SUBSET T : /\ IsFiniteSet(s) /\ Cardinality(s) \in Nat /\ IsFiniteSet(S \cup s)
                          /\ sum(s) \in Int /\ sum(S \cup s) \in Int
  <2> TAKE s \in SUBSET T
  <2>1. IsFiniteSet(s) /\ IsFiniteSet(S \cup s)
      BY FS_Subset, FS_Union
  <2>2. \A x \in s : f[x] \in Int
      OBVIOUS
  <2>3. \A x \in S \cup s : f[x] \in Int
      OBVIOUS
  <2> QED
      BY <2>1, <2>2, <2>3, FS_CardinalityType, SumTypeInt
<1>2. sum(S) \in Int
    BY SumTypeInt
<1> SUFFICES ASSUME wrong(T) PROVE FALSE
    OBVIOUS
<1>3. Bad # {} /\ Bad \in SUBSET Nat
    BY <1>1
<1>4. PICK m \in Bad : \A k \in Bad : m <= k
  <2> HIDE DEF Bad
  <2> QED
      BY <1>3, Least
<1>5. PICK s \in SUBSET T : Cardinality(s) = m /\ wrong(s)
    OBVIOUS
<1>6. s # {}
  <2> SUFFICES ASSUME s = {} PROVE FALSE
      OBVIOUS
  <2>1. S \cup s = S /\ sum(s) = 0
      BY SumOfNone
  <2> HIDE DEF sum
  <2> QED
      BY <1>2, <1>5, <2>1
<1>7. PICK y \in s : TRUE
    BY <1>6
<1> DEFINE t == s \ {y}
<1>8. t \in SUBSET T /\ Cardinality(t) = m - 1 /\ Cardinality(t) \in Nat /\ m \in Nat
    BY <1>1, <1>5, <1>7, FS_RemoveElement
<1>9. ~wrong(t)
  <2>1. m - 1 \in Nat /\ ~(m <= m - 1)
      BY <1>8
  <2>2. m - 1 \notin Bad
      BY <1>4, <2>1
  <2> HIDE DEF wrong, t
  <2> QED
      BY <1>8, <2>1, <2>2
<1>10. f[y] \in Int /\ y \in S \cup s /\ (S \cup s) \ {y} = S \cup t
    BY <1>7
<1>11. sum(s) = f[y] + sum(t)
  <2>1. IsFiniteSet(s) /\ y \in s /\ \A x \in s : f[x] \in Int
      BY <1>1, <1>7
  <2> HIDE DEF Bad
  <2> QED
      BY <2>1, SumLessOne
<1>12. sum(S \cup s) = f[y] + sum(S \cup t)
  <2> DEFINE u == S \cup s
  <2>1. IsFiniteSet(u) /\ y \in u /\ \A x \in u : f[x] \in Int
      BY <1>1, <1>10
  <2>2. u \ {y} = S \cup t
      BY <1>10
  <2> HIDE DEF u
  <2>3. sum(u) = f[y] + sum(u \ {y})
      BY <2>1, SumLessOne
  <2> QED
      BY <2>2, <2>3 DEF u
<1>13. sum(t) \in Int /\ sum(S \cup t) \in Int
    BY <1>1, <1>8
<1>14. sum(S \cup t) = sum(S) + sum(t)
    BY <1>9
<1>15. sum(S \cup s) # sum(S) + sum(s)
    BY <1>5
<1> HIDE DEF sum, t
<1> QED
    BY <1>2, <1>10, <1>11, <1>12, <1>13, <1>14, <1>15

============================================================================

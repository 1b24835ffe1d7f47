---------------------- MODULE CharmDecompositionProofs ----------------------
(* The decomposition is right for any number of PEs, particles and TreePieces, *)
(* any keys and costs, any placement of the particles and any order of the     *)
(* messages and of the reduction.  The invariant says what the protocol rests  *)
(* on: the lists of leaves of any two PEs are the same once the SplitterMsgs   *)
(* on their way are accounted for, and a contribution is of that list.  What   *)
(* is decomposed is read from a file first: the second part is about that.     *)
EXTENDS CharmInput, KeyTreeProofs

Begun(pe) == stage[pe] # "idle"

Types ==
    /\ keyOf \in [Particle -> Key]
    /\ cost \in [Particle -> Nat]
    /\ owner \in [Particle -> PE]
    /\ stage \in [PE -> {"idle", "histogram", "flushed", "aborted"}]
    /\ frontier \in [PE -> SUBSET Bin]
    /\ contribution = [pe \in PE |-> contribution[pe]]
    /\ splitters \in [PE -> SUBSET Nat]
    /\ numTreePieces \in [PE -> 0 .. Budget]
    /\ rangeMsgs \subseteq PE
    /\ DOMAIN keyRanges = DOMAIN tpCounts
    /\ sentTo \in [Particle -> Int]

\* What a PE has in each stage.
StageOK(pe) ==
    /\ stage[pe] = "idle" =>
          /\ frontier[pe] = {} /\ contribution[pe] = <<>> /\ splitters[pe] = {}
          /\ pe \notin rangeMsgs
    /\ Begun(pe) => Tiles(frontier[pe])
    /\ contribution[pe] # <<>> =>
          /\ stage[pe] = "histogram" /\ splitters[pe] = {}
          /\ contribution[pe] = Histogram(pe, frontier[pe])
    /\ splitters[pe] # {} \/ pe \in rangeMsgs => stage[pe] = "histogram"
    /\ stage[pe] = "flushed" => stage[Root] = "flushed"

\* The first round ends when the last PE has begun.
FirstRound ==
    (\E pe \in PE : ~Begun(pe)) =>
       \A pe \in PE : Begun(pe) => frontier[pe] = {RootBin} /\ contribution[pe] # <<>>

\* The leaves of a PE when the splitters on their way have arrived.
LeavesToCome(pe) == Refined(frontier[pe], splitters[pe])

Agreement ==
    \A pe, qe \in PE : Begun(pe) /\ Begun(qe) => LeavesToCome(pe) = LeavesToCome(qe)

CanSplit(bins, chosen) ==
    \A i \in chosen : i \in 1 .. Cardinality(bins) /\ At(bins, i).size > 1

SplittersOK == \A pe \in PE : CanSplit(frontier[pe], splitters[pe])

\* When PE 0 is done, nothing is on its way but RangeMsgs.
Settled ==
    /\ rangeMsgs # {} => stage[Root] = "flushed"
    /\ stage[Root] = "flushed" =>
          \A pe \in PE : /\ contribution[pe] = <<>> /\ splitters[pe] = {}
                         /\ stage[pe] = "flushed" \/ pe \in rangeMsgs

\* The TreePiece of a particle, by its PE's own leaves.
TreePieceOf(pe, p) ==
    Position(frontier[pe], CHOOSE b \in frontier[pe] : Covers(b, keyOf[p])) - 1

SentOK ==
    \A p \in Particle :
       sentTo[p] = IF stage[owner[p]] = "flushed" THEN TreePieceOf(owner[p], p) ELSE -1

DecompInv ==
    /\ Types
    /\ \A pe \in PE : StageOK(pe)
    /\ FirstRound /\ Agreement /\ SplittersOK /\ Settled /\ SentOK
    /\ BudgetRespected /\ WellSpent /\ RangesExact

----------------------------------------------------------------------------
(* Refining a list of leaves. *)

LEMMA RefinedNone ==
    ASSUME NEW bins
    PROVE  Refined(bins, {}) = bins
BY DEF Refined

\* What the leaves to split are, and that their children are nodes.
LEMMA SplitLeaves ==
    ASSUME NEW bins, Tiles(bins), NEW chosen, CanSplit(bins, chosen),
           NEW b \in bins, Position(bins, b) \in chosen
    PROVE  b \in Bin /\ b.size > 1 /\ Children(b) \subseteq Bin
<1>1. At(bins, Position(bins, b)) = b
    BY Positions
<1>2. b \in Bin /\ b.size > 1
    BY <1>1 DEF CanSplit, Tiles
<1> QED
    BY <1>2, ChildIsBin DEF Children

\* Every leaf of the new list comes from one of the old.
LEMMA LeafOrigin ==
    ASSUME NEW bins, Tiles(bins), NEW chosen, CanSplit(bins, chosen),
           NEW x \in Refined(bins, chosen), NEW k \in Key, Covers(x, k)
    PROVE  \E b \in bins :
              /\ Covers(b, k)
              /\ \/ x = b /\ Position(bins, b) \notin chosen
                 \/ x \in Children(b) /\ Position(bins, b) \in chosen
<1>1. CASE x \in bins /\ Position(bins, x) \notin chosen
    BY <1>1
<1>2. CASE \E b \in bins : Position(bins, b) \in chosen /\ x \in Children(b)
  <2>1. PICK b \in bins : Position(bins, b) \in chosen /\ x \in Children(b)
      BY <1>2
  <2>2. b \in Bin /\ b.size > 1
      BY <2>1, SplitLeaves
  <2>3. PICK i \in ChildIndex : x = Child(b, i)
      BY <2>1 DEF Children
  <2>4. Covers(b, k)
      BY <2>2, <2>3, ChildCoveredByParent
  <2> QED
      BY <2>1, <2>4
<1> QED
    BY <1>1, <1>2 DEF Refined

\* Refining leaves that can be split keeps every key below one leaf.
LEMMA RefinedTiles ==
    ASSUME NEW bins, Tiles(bins), NEW chosen, CanSplit(bins, chosen)
    PROVE  Tiles(Refined(bins, chosen))
<1> DEFINE new == Refined(bins, chosen)
<1>1. new \subseteq Bin
    BY SplitLeaves DEF Refined, Tiles
<1>2. ASSUME NEW k \in Key
      PROVE  \E x \in new : Covers(x, k)
  <2>1. PICK b \in bins : Covers(b, k)
      BY DEF Tiles
  <2>2. CASE Position(bins, b) \notin chosen
      BY <2>1, <2>2 DEF Refined
  <2>3. CASE Position(bins, b) \in chosen
    <3>1. b \in Bin /\ b.size > 1
        BY <2>3, SplitLeaves
    <3>2. PICK i \in ChildIndex : Covers(Child(b, i), k)
        BY <2>1, <3>1, OneChildCovers
    <3>3. Child(b, i) \in new
        BY <2>3 DEF Refined, Children
    <3> QED
        BY <3>2, <3>3
  <2> QED
      BY <2>2, <2>3
<1>3. ASSUME NEW x \in new, NEW y \in new, NEW k \in Key, Covers(x, k), Covers(y, k)
      PROVE  x = y
  <2>1. PICK b \in bins :
           /\ Covers(b, k)
           /\ \/ x = b /\ Position(bins, b) \notin chosen
              \/ x \in Children(b) /\ Position(bins, b) \in chosen
      BY <1>3, LeafOrigin
  <2>2. PICK c \in bins :
           /\ Covers(c, k)
           /\ \/ y = c /\ Position(bins, c) \notin chosen
              \/ y \in Children(c) /\ Position(bins, c) \in chosen
      BY <1>3, LeafOrigin
  <2>3. b = c
      BY <2>1, <2>2 DEF Tiles
  <2>4. CASE Position(bins, b) \notin chosen
      BY <2>1, <2>2, <2>3, <2>4
  <2>5. CASE Position(bins, b) \in chosen
    <3>1. b \in Bin /\ b.size > 1
        BY <2>5, SplitLeaves
    <3>2. PICK i \in ChildIndex : x = Child(b, i)
        BY <2>1, <2>5 DEF Children
    <3>3. PICK j \in ChildIndex : y = Child(b, j)
        BY <2>2, <2>3, <2>5 DEF Children
    <3>4. i = j
        BY <1>3, <2>1, <3>1, <3>2, <3>3, OneChildCovers
    <3> QED
        BY <3>2, <3>3, <3>4
  <2> QED
      BY <2>4, <2>5
<1> QED
    BY <1>1, <1>2, <1>3 DEF Tiles

\* Every split adds BranchFactor - 1 leaves.
LEMMA RefinedCount ==
    ASSUME NEW bins, Tiles(bins), NEW chosen, CanSplit(bins, chosen)
    PROVE  /\ IsFiniteSet(chosen) /\ Cardinality(chosen) \in Nat
           /\ Cardinality(Refined(bins, chosen))
                 = Cardinality(bins) + Cardinality(chosen) * (BranchFactor - 1)
<1> DEFINE n == Cardinality(bins)
           split == {b \in bins : Position(bins, b) \in chosen}
           kids == UNION {Children(b) : b \in split}
           place == [b \in split |-> Position(bins, b)]
           born == [c \in split \X ChildIndex |-> Child(c[1], c[2])]
<1>1. IsFiniteSet(bins) /\ n \in Nat
    BY TilesFinite, FS_CardinalityType
<1>2. IsFiniteSet(split) /\ split \subseteq bins /\ Cardinality(split) \in Nat
    BY <1>1, FS_Subset, FS_CardinalityType
<1>3. place \in Bijection(split, chosen)
  <2>1. place \in [split -> chosen]
      OBVIOUS
  <2>2. IsInjective(place)
      BY Positions DEF IsInjective
  <2>3. ASSUME NEW i \in chosen PROVE \E b \in split : place[b] = i
    <3>1. i \in 1 .. n
        BY DEF CanSplit
    <3>2. At(bins, i) \in bins /\ Position(bins, At(bins, i)) = i
        BY <3>1, Positions
    <3> QED
        BY <3>2
  <2> QED
      BY <2>1, <2>2, <2>3 DEF Bijection, Injection, Surjection
<1>4. IsFiniteSet(chosen) /\ Cardinality(chosen) = Cardinality(split)
  <2> HIDE DEF place, split
  <2>1. ExistsBijection(split, chosen)
      BY <1>3 DEF ExistsBijection
  <2> QED
      BY <1>2, <2>1, FS_Bijection
<1>5. born \in Bijection(split \X ChildIndex, kids)
  <2>1. born \in [split \X ChildIndex -> kids]
      BY DEF Children
  <2>2. ASSUME NEW c \in split \X ChildIndex, NEW d \in split \X ChildIndex, born[c] = born[d]
        PROVE  c = d
    <3> DEFINE b == c[1]
               i == c[2]
               e == d[1]
               j == d[2]
               x == Child(b, i)
    <3>1. /\ b \in bins /\ e \in bins /\ i \in ChildIndex /\ j \in ChildIndex
          /\ Position(bins, b) \in chosen /\ Position(bins, e) \in chosen
        OBVIOUS
    <3>2. c = <<b, i>> /\ d = <<e, j>>
        OBVIOUS
    <3>3. Child(e, j) = x
        BY <2>2
    <3> HIDE DEF b, i, e, j
    <3>4. b \in Bin /\ b.size > 1 /\ e \in Bin /\ e.size > 1
        BY <3>1, SplitLeaves
    <3>5. x.first \in Key /\ Covers(x, x.first)
        BY <3>1, <3>4, ChildIsBin, CoversFirst
    <3>6. Covers(b, x.first) /\ Covers(e, x.first)
        BY <3>1, <3>3, <3>4, <3>5, ChildCoveredByParent
    <3>7. b = e
        BY <3>1, <3>5, <3>6 DEF Tiles
    <3>8. i = j
        BY <3>1, <3>3, <3>4, <3>5, <3>6, <3>7, OneChildCovers
    <3> QED
        BY <3>2, <3>7, <3>8
  <2>3. \A x \in kids : \E c \in split \X ChildIndex : born[c] = x
    <3> SUFFICES ASSUME NEW x \in kids
                 PROVE  \E c \in split \X ChildIndex : born[c] = x
        OBVIOUS
    <3>1. PICK b \in split : x \in Children(b)
        OBVIOUS
    <3>2. PICK i \in ChildIndex : x = Child(b, i)
        BY <3>1 DEF Children
    <3>3. <<b, i>> \in split \X ChildIndex /\ born[<<b, i>>] = x
        BY <3>2
    <3> QED
        BY <3>3
  <2> QED
      BY <2>1, <2>2, <2>3 DEF Bijection, Injection, Surjection, IsInjective
<1>6. IsFiniteSet(kids) /\ Cardinality(kids) = Cardinality(split) * BranchFactor
  <2>1. IsFiniteSet(ChildIndex) /\ Cardinality(ChildIndex) = BranchFactor
      BY FS_Interval, KeyTreeAssumption DEF ChildIndex
  <2> HIDE DEF born, split, kids
  <2>2. /\ IsFiniteSet(split \X ChildIndex)
        /\ Cardinality(split \X ChildIndex) = Cardinality(split) * BranchFactor
      BY <1>2, <2>1, FS_Product
  <2>3. ExistsBijection(split \X ChildIndex, kids)
      BY <1>5 DEF ExistsBijection
  <2> QED
      BY <2>2, <2>3, FS_Bijection
<1>7. (bins \ split) \cap kids = {}
  <2> SUFFICES ASSUME NEW x \in bins \ split, x \in kids
               PROVE  FALSE
      OBVIOUS
  <2>1. PICK b \in split : x \in Children(b)
      OBVIOUS
  <2>2. PICK i \in ChildIndex : x = Child(b, i)
      BY <2>1 DEF Children
  <2>3. b \in Bin /\ b.size > 1 /\ x \in Bin
      BY SplitLeaves DEF Tiles
  <2>4. x.first \in Key /\ Covers(x, x.first)
      BY <2>3, CoversFirst
  <2>5. Covers(b, x.first)
      BY <2>2, <2>3, <2>4, ChildCoveredByParent
  <2>6. x = b
      BY <2>4, <2>5 DEF Tiles
  <2> QED
      BY <2>6
<1>8. IsFiniteSet(bins \ split) /\ Cardinality(bins \ split) = n - Cardinality(split)
  <2>1. bins \cap split = split
      OBVIOUS
  <2> HIDE DEF split
  <2> QED
      BY <1>1, <2>1, FS_Difference
<1>9. Refined(bins, chosen) = (bins \ split) \cup kids
    BY DEF Refined
<1> HIDE DEF split, kids, n
<1>10. Cardinality(Refined(bins, chosen)) = (n - Cardinality(split)) + Cardinality(split) * BranchFactor
  <2>1. Cardinality((bins \ split) \cup kids)
          = Cardinality(bins \ split) + Cardinality(kids) - Cardinality((bins \ split) \cap kids)
      BY <1>6, <1>8, FS_Union
  <2>2. Cardinality((bins \ split) \cap kids) = 0
      BY <1>7, FS_EmptySet
  <2>3. Cardinality(split) * BranchFactor \in Nat
      BY <1>2, KeyTreeAssumption
  <2> QED
      BY <1>1, <1>2, <1>6, <1>8, <1>9, <2>1, <2>2, <2>3
<1>11. \A c \in Nat : (n - c) + c * BranchFactor = n + c * (BranchFactor - 1)
    BY <1>1, KeyTreeAssumption
<1> QED
    BY <1>2, <1>4, <1>10, <1>11 DEF n

----------------------------------------------------------------------------
(* Smallest and largest. *)

LEMMA MinOf ==
    ASSUME NEW T \in SUBSET Nat, T # {}
    PROVE  Min(T) \in T /\ \A x \in T : Min(T) <= x
<1>1. \E x \in T : \A y \in T : x <= y
    BY Least
<1> QED
    BY <1>1 DEF Min

LEMMA MaxOf ==
    ASSUME NEW T \in SUBSET Nat, T # {}, NEW m \in Nat, \A x \in T : x <= m
    PROVE  Max(T) \in T /\ \A x \in T : x <= Max(T)
<1> DEFINE Bounds == {u \in Nat : \A x \in T : x <= u}
<1>1. PICK u \in Bounds : \A v \in Bounds : u <= v
  <2>1. m \in Bounds /\ Bounds \in SUBSET Nat
      OBVIOUS
  <2> HIDE DEF Bounds
  <2> QED
      BY <2>1, Least
<1>2. u \in T
  <2> SUFFICES ASSUME u \notin T PROVE FALSE
      OBVIOUS
  <2>1. \A x \in T : x \in Nat /\ x <= u /\ x # u
      OBVIOUS
  <2>2. PICK x \in T : TRUE
      OBVIOUS
  <2>3. u - 1 \in Nat /\ \A y \in T : y <= u - 1
      BY <2>1, <2>2
  <2> QED
      BY <1>1, <2>3
<1>3. \E x \in T : \A y \in T : x >= y
    BY <1>2
<1> QED
    BY <1>3 DEF Max

----------------------------------------------------------------------------
(* Descriptors, and their reduction. *)

InputType == keyOf \in [Particle -> Key] /\ cost \in [Particle -> Nat]

Mine(b, S) == {p \in S : Covers(b, keyOf[p])}

LEMMA ParticlesFinite ==
    /\ IsFiniteSet(Particle) /\ Cardinality(Particle) = NumParticles
    /\ NumParticles \in Nat \ {0}
BY ConstantsAssumption, FS_Interval DEF Particle

LEMMA MineFinite ==
    ASSUME NEW b, NEW S \in SUBSET Particle
    PROVE  IsFiniteSet(Mine(b, S)) /\ Cardinality(Mine(b, S)) \in 0 .. NumParticles
<1>1. Mine(b, S) \subseteq Particle
    BY DEF Mine
<1>2. IsFiniteSet(Mine(b, S)) /\ Cardinality(Mine(b, S)) <= NumParticles
    BY <1>1, ParticlesFinite, FS_Subset
<1> QED
    BY <1>2, ParticlesFinite, FS_CardinalityType

\* What a descriptor says of the particles S below b.
LEMMA DescribeFacts ==
    ASSUME InputType, NEW b \in Bin, NEW S \in SUBSET Particle
    PROVE  /\ Describe(b, S) \in Descriptor
           /\ Describe(b, S).n = Cardinality(Mine(b, S))
           /\ Describe(b, S).n = 0 <=> Mine(b, S) = {}
           /\ Mine(b, S) = {} =>
                 Describe(b, S).smallest = b.first /\ Describe(b, S).largest = b.first
           /\ Mine(b, S) # {} =>
                 /\ \E p \in Mine(b, S) : Describe(b, S).smallest = keyOf[p]
                 /\ \E p \in Mine(b, S) : Describe(b, S).largest = keyOf[p]
                 /\ \A p \in Mine(b, S) : /\ Describe(b, S).smallest <= keyOf[p]
                                          /\ keyOf[p] <= Describe(b, S).largest
<1> DEFINE M == Mine(b, S)
           K == {keyOf[p] : p \in M}
<1>1. IsFiniteSet(M) /\ Cardinality(M) \in 0 .. NumParticles /\ (Cardinality(M) = 0 <=> M = {})
    BY MineFinite, FS_EmptySet
<1>2. CASE M = {}
  <2>1. Describe(b, S) = [n |-> 0, smallest |-> b.first, largest |-> b.first, cost |-> 0]
      BY <1>2 DEF Describe, Mine
  <2>2. b.first \in Key /\ 0 \in 0 .. NumParticles
      BY ParticlesFinite, CoversFirst
  <2>3. Describe(b, S) \in Descriptor
      BY <2>1, <2>2 DEF Descriptor
  <2> QED
      BY <1>1, <1>2, <2>1, <2>3
<1>3. CASE M # {}
  <2>1. Describe(b, S) = [n |-> Cardinality(M), smallest |-> Min(K), largest |-> Max(K),
                          cost |-> SumFunctionOnSet(cost, M)]
      BY <1>3 DEF Describe, Mine
  <2>2. \A p \in M : p \in Particle /\ keyOf[p] \in Key
      BY DEF Mine, InputType
  <2>3. K \in SUBSET Key /\ K \in SUBSET Nat /\ K # {}
      BY <1>3, <2>2, KeySpaceType
  <2>4. Min(K) \in K /\ \A x \in K : Min(K) <= x
    <3> HIDE DEF K
    <3> QED
        BY <2>3, MinOf
  <2>5. Max(K) \in K /\ \A x \in K : x <= Max(K)
    <3>1. KeySpace - 1 \in Nat /\ \A x \in K : x <= KeySpace - 1
        BY <2>3, KeySpaceType DEF Key
    <3> HIDE DEF K
    <3> QED
        BY <2>3, <3>1, MaxOf
  <2>6. SumFunctionOnSet(cost, M) \in Nat
    <3>1. \A p \in M : cost[p] \in Nat
        BY <2>2 DEF InputType
    <3> HIDE DEF M
    <3> QED
        BY <1>1, <3>1, SumType
  <2>7. Describe(b, S) \in Descriptor
    <3>1. Min(K) \in Key /\ Max(K) \in Key /\ Cardinality(M) \in 0 .. NumParticles
        BY <1>1, <2>3, <2>4, <2>5
    <3> HIDE DEF K, M
    <3> QED
        BY <2>1, <2>6, <3>1 DEF Descriptor
  <2>8. /\ \E p \in M : Min(K) = keyOf[p]
        /\ \E p \in M : Max(K) = keyOf[p]
        /\ \A p \in M : Min(K) <= keyOf[p] /\ keyOf[p] <= Max(K)
      BY <2>4, <2>5
  <2> HIDE DEF K, M
  <2> QED
      BY <1>1, <1>3, <2>1, <2>7, <2>8 DEF M
<1> QED
    BY <1>2, <1>3

LEMMA DescribeCovers ==
    ASSUME InputType, NEW b \in Bin, NEW S \in SUBSET Particle
    PROVE  /\ Covers(b, Describe(b, S).smallest) /\ Describe(b, S).smallest \in Key
           /\ Covers(b, Describe(b, S).largest) /\ Describe(b, S).largest \in Key
<1>1. Describe(b, S).smallest \in Key /\ Describe(b, S).largest \in Key
    BY DescribeFacts DEF Descriptor
<1>2. \A p \in Mine(b, S) : Covers(b, keyOf[p])
    BY DEF Mine
<1> QED
    BY <1>1, <1>2, DescribeFacts, CoversFirst

\* The parts of a descriptor that do not depend on costs.
Alike(d, e) == d.n = e.n /\ d.smallest = e.smallest /\ d.largest = e.largest

\* Growing a descriptor by that of other particles describes all of them.
LEMMA GrowDescribes ==
    ASSUME InputType, NEW b \in Bin, NEW S \in SUBSET Particle, NEW T \in SUBSET Particle,
           S \cap T = {}, NEW d, Alike(d, Describe(b, S)), d.cost \in Nat
    PROVE  /\ Alike(Grow(d, Describe(b, T)), Describe(b, S \cup T))
           /\ Grow(d, Describe(b, T)).cost \in Nat
<1> DEFINE A == Mine(b, S)
           B == Mine(b, T)
           C == Mine(b, S \cup T)
           e == Describe(b, T)
           u == Describe(b, S \cup T)
<1>1. C = A \cup B /\ A \cap B = {} /\ S \cup T \in SUBSET Particle
    BY DEF Mine
<1>2. e.cost \in Nat
    BY DescribeFacts DEF Descriptor
<1>3. CASE B = {}
  <2>1. C = A
      BY <1>1, <1>3
  <2>2. u = Describe(b, S)
      BY <2>1 DEF Describe, Mine
  <2>3. Grow(d, e) = d
      BY <1>3, DescribeFacts DEF Grow
  <2> QED
      BY <2>2, <2>3
<1>4. CASE B # {} /\ A = {}
  <2>1. C = B
      BY <1>1, <1>4
  <2>2. u = e
      BY <2>1 DEF Describe, Mine
  <2>3. Grow(d, e) = e
      BY <1>4, DescribeFacts DEF Grow, Alike
  <2> QED
      BY <1>2, <2>2, <2>3 DEF Alike
<1>5. CASE B # {} /\ A # {}
  <2> DEFINE lo == Min({d.smallest, e.smallest})
             hi == Max({d.largest, e.largest})
  <2>1. e.n # 0 /\ d.n # 0 /\ C # {}
      BY <1>1, <1>5, DescribeFacts DEF Alike
  <2>2. Grow(d, e) = [n |-> d.n + e.n, smallest |-> lo, largest |-> hi, cost |-> d.cost + e.cost]
      BY <2>1 DEF Grow
  <2>3. d.n + e.n = u.n
    <3>1. d.n = Cardinality(A) /\ e.n = Cardinality(B) /\ u.n = Cardinality(C)
        BY <1>1, DescribeFacts DEF Alike
    <3>2. IsFiniteSet(A) /\ IsFiniteSet(B) /\ Cardinality(A) \in Nat /\ Cardinality(B) \in Nat
        BY MineFinite, ParticlesFinite
    <3>3. Cardinality(A \cap B) = 0
        BY <1>1, FS_EmptySet
    <3> HIDE DEF A, B, C, e, u
    <3>4. Cardinality(A \cup B) = Cardinality(A) + Cardinality(B) - 0
        BY <3>2, <3>3, FS_Union
    <3> QED
        BY <1>1, <3>1, <3>2, <3>4
  <2>4. /\ \E p \in A : d.smallest = keyOf[p]
        /\ \E p \in A : d.largest = keyOf[p]
        /\ \A p \in A : d.smallest <= keyOf[p] /\ keyOf[p] <= d.largest
      BY <1>5, DescribeFacts DEF Alike
  <2>5. /\ \E p \in B : e.smallest = keyOf[p]
        /\ \E p \in B : e.largest = keyOf[p]
        /\ \A p \in B : e.smallest <= keyOf[p] /\ keyOf[p] <= e.largest
      BY <1>5, DescribeFacts
  <2>6. /\ \E p \in C : u.smallest = keyOf[p]
        /\ \E p \in C : u.largest = keyOf[p]
        /\ \A p \in C : u.smallest <= keyOf[p] /\ keyOf[p] <= u.largest
      BY <1>1, <2>1, DescribeFacts
  <2>7. \A p \in C : keyOf[p] \in Nat /\ keyOf[p] <= KeySpace
    <3>1. \A p \in C : p \in Particle
        BY DEF Mine
    <3> QED
        BY <3>1, KeySpaceType DEF InputType, Key
  <2> HIDE DEF A, B, C, e, u
  <2>8. /\ d.smallest \in Nat /\ e.smallest \in Nat /\ u.smallest \in Nat
        /\ d.largest \in Nat /\ e.largest \in Nat /\ u.largest \in Nat
        /\ d.largest <= KeySpace /\ e.largest <= KeySpace
      BY <1>1, <2>4, <2>5, <2>6, <2>7
  <2>9. lo = u.smallest
    <3>1. {d.smallest, e.smallest} \in SUBSET Nat /\ {d.smallest, e.smallest} # {}
        BY <2>8
    <3>2. lo \in {d.smallest, e.smallest} /\ \A x \in {d.smallest, e.smallest} : lo <= x
        BY <3>1, MinOf
    <3> HIDE DEF lo
    <3>3. (lo = d.smallest \/ lo = e.smallest) /\ lo <= d.smallest /\ lo <= e.smallest /\ lo \in Nat
        BY <2>8, <3>2
    <3>4. PICK p \in C : u.smallest = keyOf[p]
        BY <2>6
    <3>5. lo <= u.smallest
      <4>1. CASE p \in A
        <5>1. d.smallest <= keyOf[p]
            BY <2>4, <4>1
        <5> QED
            BY <2>8, <3>3, <3>4, <5>1
      <4>2. CASE p \in B
        <5>1. e.smallest <= keyOf[p]
            BY <2>5, <4>2
        <5> QED
            BY <2>8, <3>3, <3>4, <5>1
      <4> QED
          BY <1>1, <4>1, <4>2
    <3>6. u.smallest <= lo
      <4>1. \E q \in C : lo = keyOf[q]
          BY <1>1, <2>4, <2>5, <3>3
      <4> QED
          BY <2>6, <4>1
    <3> QED
        BY <2>8, <3>3, <3>5, <3>6
  <2>10. hi = u.largest
    <3>1. /\ {d.largest, e.largest} \in SUBSET Nat /\ {d.largest, e.largest} # {}
          /\ KeySpace \in Nat /\ \A x \in {d.largest, e.largest} : x <= KeySpace
        BY <2>8, KeySpaceType
    <3>2. hi \in {d.largest, e.largest} /\ \A x \in {d.largest, e.largest} : x <= hi
        BY <3>1, MaxOf
    <3> HIDE DEF hi
    <3>3. (hi = d.largest \/ hi = e.largest) /\ d.largest <= hi /\ e.largest <= hi /\ hi \in Nat
        BY <2>8, <3>2
    <3>4. PICK p \in C : u.largest = keyOf[p]
        BY <2>6
    <3>5. u.largest <= hi
      <4>1. CASE p \in A
        <5>1. keyOf[p] <= d.largest
            BY <2>4, <4>1
        <5> QED
            BY <2>8, <3>3, <3>4, <5>1
      <4>2. CASE p \in B
        <5>1. keyOf[p] <= e.largest
            BY <2>5, <4>2
        <5> QED
            BY <2>8, <3>3, <3>4, <5>1
      <4> QED
          BY <1>1, <4>1, <4>2
    <3>6. hi <= u.largest
      <4>1. \E q \in C : hi = keyOf[q]
          BY <1>1, <2>4, <2>5, <3>3
      <4> QED
          BY <2>6, <4>1
    <3> QED
        BY <2>8, <3>3, <3>5, <3>6
  <2>11. d.cost + e.cost \in Nat
      BY <1>2
  <2> HIDE DEF lo, hi
  <2> QED
      BY <2>2, <2>3, <2>9, <2>10, <2>11 DEF Alike, e, u
<1> QED
    BY <1>3, <1>4, <1>5

LEMMA PEsFinite ==
    IsFiniteSet(PE) /\ Cardinality(PE) \in Nat \ {0} /\ Root \in PE
BY ConstantsAssumption, FS_CardinalityType, FS_EmptySet

\* An order of the contributions has each PE once.
LEMMA OrderFacts ==
    ASSUME NEW order \in Orders
    PROVE  /\ DOMAIN order = 1 .. Cardinality(PE)
           /\ \A k \in 1 .. Cardinality(PE) : order[k] \in PE
           /\ \A j, k \in 1 .. Cardinality(PE) : order[j] = order[k] => j = k
           /\ \A pe \in PE : \E k \in 1 .. Cardinality(PE) : order[k] = pe
<1> DEFINE D == 1 .. Cardinality(PE)
<1>1. order \in [D -> PE] /\ \A j, k \in D : order[j] = order[k] => j = k
    BY DEF Orders
<1>2. order \in Injection(D, PE)
    BY <1>1 DEF Injection, IsInjective
<1>3. IsFiniteSet(D) /\ Cardinality(D) = Cardinality(PE)
    BY PEsFinite, FS_Interval
<1>4. order \in Surjection(D, PE)
  <2> HIDE DEF D
  <2> QED
      BY <1>2, <1>3, PEsFinite, FS_Injection
<1> QED
    BY <1>1, <1>4 DEF Surjection

\* The contributions c[1], c[2], ... combined in turn.
Combine(c, N, g) ==
    [k \in 1 .. N |-> IF k = 1 THEN c[1] ELSE Grow(g[k - 1], c[k])]

LEMMA CombineExists ==
    ASSUME NEW c
    PROVE  \A n \in Nat : \E g : g = Combine(c, n, g)
<1> DEFINE Solved(n) == \E g : g = Combine(c, n, g)
           Bad == {n \in Nat : ~Solved(n)}
<1> SUFFICES ASSUME Bad # {} PROVE FALSE
    OBVIOUS
<1>1. PICK n \in Bad : \A m \in Bad : n <= m
  <2>1. Bad \in SUBSET Nat
      OBVIOUS
  <2> HIDE DEF Bad
  <2> QED
      BY <2>1, Least
<1>2. n \in Nat /\ ~Solved(n)
    OBVIOUS
<1>3. CASE n = 0
  <2> DEFINE g == [k \in 1 .. 0 |-> c[1]]
  <2>1. g = Combine(c, 0, g)
      BY DEF Combine
  <2>2. Solved(0)
      BY <2>1
  <2> QED
      BY <1>2, <1>3, <2>2
<1>4. CASE n # 0
  <2>1. n - 1 \in Nat /\ ~(n <= n - 1)
      BY <1>2, <1>4
  <2>2. Solved(n - 1)
      BY <1>1, <2>1
  <2>3. PICK g : g = Combine(c, n - 1, g)
      BY <2>2
  <2> DEFINE h == [k \in 1 .. n |-> IF k = 1 THEN c[1] ELSE Grow(g[k - 1], c[k])]
  <2>4. \A k \in 1 .. n - 1 : g[k] = IF k = 1 THEN c[1] ELSE Grow(g[k - 1], c[k])
    <3>1. \A k \in 1 .. n - 1 :
             Combine(c, n - 1, g)[k] = IF k = 1 THEN c[1] ELSE Grow(g[k - 1], c[k])
        BY DEF Combine
    <3> QED
        BY <2>3, <3>1
  <2>5. ASSUME NEW k \in 1 .. n - 1 PROVE h[k] = g[k]
    <3>1. k \in 1 .. n
        BY <1>2
    <3> QED
        BY <2>4, <3>1
  <2>6. ASSUME NEW k \in 1 .. n
        PROVE  h[k] = IF k = 1 THEN c[1] ELSE Grow(h[k - 1], c[k])
    <3>1. CASE k = 1
        BY <3>1
    <3>2. CASE k # 1
      <4>1. k - 1 \in 1 .. n - 1
          BY <1>2, <3>2
      <4>2. h[k - 1] = g[k - 1]
          BY <2>5, <4>1
      <4>3. h[k] = Grow(g[k - 1], c[k])
          BY <3>2
      <4> QED
          BY <3>2, <4>2, <4>3
    <3> QED
        BY <3>1, <3>2
  <2>7. h = Combine(c, n, h)
    <3>1. h = [k \in 1 .. n |-> h[k]]
        OBVIOUS
    <3> HIDE DEF h
    <3> QED
        BY <2>6, <3>1 DEF Combine
  <2>8. Solved(n)
      BY <2>7
  <2> QED
      BY <1>2, <2>8
<1> QED
    BY <1>3, <1>4

\* What one leaf's descriptors come to, in an order.
Combined(order, i) ==
    (CHOOSE g : g = [k \in DOMAIN order |->
                        IF k = 1 THEN contribution[order[1]][i]
                        ELSE Grow(g[k - 1], contribution[order[k]][i])])[Cardinality(PE)]

LEMMA ReduceIsCombined ==
    ASSUME NEW order
    PROVE  Reduce(order) = [i \in DOMAIN contribution[order[1]] |-> Combined(order, i)]
BY DEF Reduce, Combined

\* The particles of the first k PEs of an order.
OfFirst(order, k) == {p \in Particle : \E j \in 1 .. k : owner[p] = order[j]}

LEMMA CombinedDescribes ==
    ASSUME Types, NEW bins, Tiles(bins), \A pe \in PE : contribution[pe] = Histogram(pe, bins),
           NEW order \in Orders, NEW i \in 1 .. Cardinality(bins)
    PROVE  /\ Alike(Combined(order, i), Describe(At(bins, i), Particle))
           /\ Combined(order, i).cost \in Nat
<1> DEFINE N == Cardinality(PE)
           b == At(bins, i)
           c == [k \in 1 .. N |-> contribution[order[k]][i]]
           g == CHOOSE f : f = Combine(c, N, f)
           Right(k) == Alike(g[k], Describe(b, OfFirst(order, k))) /\ g[k].cost \in Nat
           Bad == {k \in 1 .. N : ~Right(k)}
<1>0. InputType
    BY DEF Types, InputType
<1>1. N \in Nat \ {0}
    BY PEsFinite
<1>2. b \in Bin
    BY Positions DEF Tiles
<1>3. \A k \in 1 .. N : c[k] = Describe(b, {p \in Particle : owner[p] = order[k]})
  <2> SUFFICES ASSUME NEW k \in 1 .. N
               PROVE  c[k] = Describe(b, {p \in Particle : owner[p] = order[k]})
      OBVIOUS
  <2>1. order[k] \in PE
      BY OrderFacts
  <2>2. contribution[order[k]][i] = Describe(b, {p \in Particle : owner[p] = order[k]})
      BY <2>1 DEF Histogram
  <2> QED
      BY <2>2
<1>4. Combined(order, i) = g[N]
  <2>1. DOMAIN order = 1 .. N
      BY OrderFacts
  <2>2. \A f : Combine(c, N, f) = [k \in DOMAIN order |->
                        IF k = 1 THEN contribution[order[1]][i]
                        ELSE Grow(f[k - 1], contribution[order[k]][i])]
    <3>1. 1 \in 1 .. N
        BY <1>1
    <3> QED
        BY <2>1, <3>1 DEF Combine
  <2> HIDE DEF c
  <2> QED
      BY <2>2 DEF Combined
<1>5. g = Combine(c, N, g)
  <2> HIDE DEF c
  <2> QED
      BY <1>1, CombineExists
<1> HIDE DEF g, c, b
<1>6. \A k \in 1 .. N : g[k] = IF k = 1 THEN c[1] ELSE Grow(g[k - 1], c[k])
  <2>1. \A k \in 1 .. N : Combine(c, N, g)[k] = IF k = 1 THEN c[1] ELSE Grow(g[k - 1], c[k])
      BY DEF Combine
  <2> QED
      BY <1>5, <2>1
<1>7. Right(1)
  <2>1. 1 \in 1 .. N
      BY <1>1
  <2>2. g[1] = Describe(b, {p \in Particle : owner[p] = order[1]})
      BY <1>3, <1>6, <2>1
  <2>3. OfFirst(order, 1) = {p \in Particle : owner[p] = order[1]}
      BY DEF OfFirst
  <2>4. g[1].cost \in Nat
      BY <1>0, <1>2, <2>2, DescribeFacts DEF Descriptor
  <2> QED
      BY <2>2, <2>3, <2>4 DEF Alike
<1>8. Bad = {}
  <2> SUFFICES ASSUME Bad # {} PROVE FALSE
      OBVIOUS
  <2>1. Bad \in SUBSET Nat
      OBVIOUS
  <2>2. PICK k \in Bad : \A m \in Bad : k <= m
    <3> HIDE DEF Bad
    <3> QED
        BY <2>1, Least
  <2>3. k \in 1 .. N /\ ~Right(k)
      OBVIOUS
  <2>4. k # 1
      BY <1>7, <2>3
  <2>5. k \in Nat /\ k - 1 \in 1 .. N /\ ~(k <= k - 1)
    <3> HIDE DEF Bad
    <3> QED
        BY <1>1, <2>3, <2>4
  <2>6. Right(k - 1)
      BY <2>2, <2>5
  <2> DEFINE S == OfFirst(order, k - 1)
             T == {p \in Particle : owner[p] = order[k]}
  <2>7. S \in SUBSET Particle /\ T \in SUBSET Particle
      BY DEF OfFirst
  <2>8. S \cap T = {}
    <3> SUFFICES ASSUME NEW p \in S, p \in T PROVE FALSE
        OBVIOUS
    <3>1. PICK j \in 1 .. k - 1 : order[j] = order[k]
        BY DEF OfFirst
    <3>2. j \in 1 .. N /\ j # k
      <4> HIDE DEF Bad
      <4> QED
          BY <1>1, <2>3
    <3> QED
        BY <2>3, <3>1, <3>2, OrderFacts
  <2>9. S \cup T = OfFirst(order, k)
    <3>1. \A j : j \in 1 .. k <=> j \in 1 .. k - 1 \/ j = k
        BY <2>3
    <3> QED
        BY <3>1 DEF OfFirst
  <2>10. g[k] = Grow(g[k - 1], Describe(b, T))
      BY <1>3, <1>6, <2>3, <2>4
  <2> HIDE DEF S, T
  <2>11. Alike(g[k - 1], Describe(b, S)) /\ g[k - 1].cost \in Nat
      BY <2>6 DEF S
  <2>12. Alike(Grow(g[k - 1], Describe(b, T)), Describe(b, S \cup T))
         /\ Grow(g[k - 1], Describe(b, T)).cost \in Nat
      BY <1>0, <1>2, <2>7, <2>8, <2>11, GrowDescribes
  <2> QED
      BY <2>3, <2>9, <2>10, <2>12
<1>9. Right(N)
  <2>1. N \in 1 .. N
      BY <1>1
  <2> QED
      BY <1>8, <2>1
<1>10. OfFirst(order, N) = Particle
  <2>1. \A p \in Particle : owner[p] \in PE
      BY DEF Types
  <2> QED
      BY <2>1, OrderFacts DEF OfFirst
<1> QED
    BY <1>4, <1>9, <1>10 DEF b

\* Whatever the order, the histogram PE 0 receives describes all particles.
LEMMA HistogramRight ==
    ASSUME Types, NEW bins, Tiles(bins), \A pe \in PE : contribution[pe] = Histogram(pe, bins),
           NEW order \in Orders
    PROVE  /\ DOMAIN Reduce(order) = 1 .. Cardinality(bins)
           /\ Reduce(order) = [i \in DOMAIN Reduce(order) |-> Reduce(order)[i]]
           /\ \A i \in 1 .. Cardinality(bins) :
                 /\ Alike(Reduce(order)[i], Describe(At(bins, i), Particle))
                 /\ Reduce(order)[i].cost \in Nat
<1>1. order[1] \in PE
  <2>1. 1 \in 1 .. Cardinality(PE)
      BY PEsFinite
  <2> QED
      BY <2>1, OrderFacts
<1>2. DOMAIN contribution[order[1]] = 1 .. Cardinality(bins)
    BY <1>1 DEF Histogram
<1> QED
    BY <1>2, ReduceIsCombined, CombinedDescribes

----------------------------------------------------------------------------
(* PE 0's choice. *)

\* A histogram over the leaves bins.
Describes(h, bins) ==
    /\ DOMAIN h = 1 .. Cardinality(bins)
    /\ \A i \in DOMAIN h : /\ Alike(h[i], Describe(At(bins, i), Particle))
                          /\ h[i].cost \in Nat

LEMMA WeightType ==
    ASSUME InputType, NEW bins, Tiles(bins), NEW h, Describes(h, bins)
    PROVE  \A i \in DOMAIN h : Weight(h, i) \in Nat
<1> DEFINE D == DOMAIN h
           ns == [i \in D |-> h[i].n]
<1>1. IsFiniteSet(D)
  <2>1. Cardinality(bins) \in Int
      BY TilesFinite
  <2> QED
      BY <2>1, FS_Interval DEF Describes
<1>2. \A i \in D : h[i].n \in Nat /\ h[i].cost \in Nat
  <2> SUFFICES ASSUME NEW i \in D PROVE h[i].n \in Nat /\ h[i].cost \in Nat
      OBVIOUS
  <2>1. At(bins, i) \in Bin
      BY Positions DEF Describes, Tiles
  <2>2. Describe(At(bins, i), Particle).n \in Nat
      BY <2>1, DescribeFacts, ParticlesFinite DEF Descriptor
  <2> QED
      BY <2>2 DEF Describes, Alike
<1>3. TotalParticles(h) \in Nat
  <2>1. DOMAIN ns = D /\ \A i \in D : ns[i] \in Nat
      BY <1>2
  <2>2. TotalParticles(h) = SumFunctionOnSet(ns, D)
      BY <2>1 DEF TotalParticles, SumFunction
  <2> HIDE DEF ns, D
  <2> QED
      BY <1>1, <2>1, <2>2, SumType
<1> SUFFICES ASSUME NEW i \in D PROVE Weight(h, i) \in Nat
    OBVIOUS
<1>4. h[i].cost * TotalParticles(h) \in Nat
    BY <1>2, <1>3
<1> QED
    BY <1>2, <1>4 DEF Weight

\* A leaf whose smallest and largest key differ has more than one key.
LEMMA SeparableSplits ==
    ASSUME InputType, NEW bins, Tiles(bins), NEW h, Describes(h, bins),
           NEW i \in DOMAIN h, Separable(h, i)
    PROVE  i \in 1 .. Cardinality(bins) /\ At(bins, i).size > 1
<1> DEFINE b == At(bins, i)
           d == Describe(b, Particle)
<1>1. i \in 1 .. Cardinality(bins)
    BY DEF Describes
<1>2. b \in Bin
    BY <1>1, Positions DEF Tiles
<1>3. Covers(b, d.smallest) /\ Covers(b, d.largest) /\ d.smallest \in Nat /\ d.largest \in Nat
    BY <1>2, DescribeCovers, KeySpaceType
<1>4. d.smallest # d.largest
    BY DEF Describes, Alike, Separable
<1>5. b.first \in Nat /\ b.size \in Nat
    BY <1>2, BinWithin
<1> HIDE DEF b, d
<1>6. b.size > 1
    BY <1>3, <1>4, <1>5 DEF Covers
<1> QED
    BY <1>1, <1>6 DEF b

Candidates(h) == {i \in DOMAIN h : Separable(h, i)}
HeavierThan(h, i) == {j \in Candidates(h) : Heavier(h, j, i)}
RankOf(h, i) == Cardinality(HeavierThan(h, i))

\* The heavier of two candidates has fewer candidates before it.
LEMMA Ranks ==
    ASSUME InputType, NEW bins, Tiles(bins), NEW h, Describes(h, bins)
    PROVE  /\ IsFiniteSet(Candidates(h))
           /\ \A i \in Candidates(h) : RankOf(h, i) \in Nat
           /\ \A i, j \in Candidates(h) : Heavier(h, j, i) => RankOf(h, j) < RankOf(h, i)
           /\ \A i, j \in Candidates(h) : i # j => Heavier(h, i, j) \/ Heavier(h, j, i)
<1>1. Cardinality(bins) \in Nat /\ DOMAIN h = 1 .. Cardinality(bins)
    BY TilesFinite DEF Describes
<1>2. IsFiniteSet(Candidates(h)) /\ Candidates(h) \subseteq Nat
  <2>1. Candidates(h) \subseteq 1 .. Cardinality(bins)
      BY <1>1 DEF Candidates
  <2>2. IsFiniteSet(1 .. Cardinality(bins))
      BY <1>1, FS_Interval
  <2>3. 1 .. Cardinality(bins) \subseteq Nat
      BY <1>1
  <2> QED
      BY <2>1, <2>2, <2>3, FS_Subset
<1>3. \A i \in Candidates(h) : i \in Nat /\ Weight(h, i) \in Nat
    BY <1>2, WeightType DEF Candidates
<1>4. ASSUME NEW i \in Candidates(h)
      PROVE  IsFiniteSet(HeavierThan(h, i)) /\ RankOf(h, i) \in Nat
  <2>1. HeavierThan(h, i) \subseteq Candidates(h)
      BY DEF HeavierThan
  <2> QED
      BY <1>2, <2>1, FS_Subset, FS_CardinalityType DEF RankOf
<1>5. ASSUME NEW i \in Candidates(h), NEW j \in Candidates(h), Heavier(h, j, i)
      PROVE  RankOf(h, j) < RankOf(h, i)
  <2>1. j \in HeavierThan(h, i)
      BY <1>5 DEF HeavierThan
  <2>2. j \notin HeavierThan(h, j)
      BY <1>3 DEF HeavierThan, Heavier
  <2>3. HeavierThan(h, j) \subseteq HeavierThan(h, i)
    <3> SUFFICES ASSUME NEW k \in Candidates(h), Heavier(h, k, j) PROVE Heavier(h, k, i)
        BY DEF HeavierThan
    <3> QED
        BY <1>3, <1>5 DEF Heavier
  <2>4. RankOf(h, j) <= RankOf(h, i) /\ RankOf(h, j) # RankOf(h, i)
      BY <1>4, <2>1, <2>2, <2>3, FS_Subset DEF RankOf
  <2> QED
      BY <1>4, <2>4
<1>6. \A i, j \in Candidates(h) : i # j => Heavier(h, i, j) \/ Heavier(h, j, i)
    BY <1>3 DEF Heavier
<1> QED
    BY <1>2, <1>4, <1>5, <1>6

LEMMA LeftoverBound ==
    ASSUME InputType, NEW bins, Tiles(bins), NEW h, Describes(h, bins),
           NEW used \in Nat, used < Budget
    PROVE  /\ IsFiniteSet(Leftover(h, used)) /\ Cardinality(Leftover(h, used)) \in Nat
           /\ used + Cardinality(Leftover(h, used)) * (BranchFactor - 1) <= Budget
<1> DEFINE L == Leftover(h, used)
           room == Room(used)
           r == [i \in L |-> RankOf(h, i)]
<1>1. BranchFactor - 1 \in Nat \ {0} /\ Budget - used \in Nat /\ Budget \in Nat
    BY KeyTreeAssumption, ConstantsAssumption
<1>2. room \in Nat /\ room * (BranchFactor - 1) <= Budget - used
  <2>1. \A x \in Nat, m \in Nat \ {0} : x \div m \in Nat /\ (x \div m) * m <= x
      OBVIOUS
  <2> QED
      BY <1>1, <2>1 DEF Room
<1>3. \A i \in L : i \in Candidates(h) /\ RankOf(h, i) < room
    BY DEF Leftover, Candidates, RankOf, HeavierThan
<1>4. r \in [L -> 0 .. room - 1]
    BY <1>2, <1>3, Ranks
<1>5. IsInjective(r)
  <2> SUFFICES ASSUME NEW i \in L, NEW j \in L, RankOf(h, i) = RankOf(h, j)
               PROVE  i = j
      BY DEF IsInjective
  <2>1. RankOf(h, i) \in Nat
      BY <1>3, Ranks
  <2>2. ~Heavier(h, i, j) /\ ~Heavier(h, j, i)
      BY <1>3, <2>1, Ranks
  <2> QED
      BY <1>3, <2>2, Ranks
<1>6. IsFiniteSet(0 .. room - 1) /\ Cardinality(0 .. room - 1) = room
  <2> HIDE DEF room
  <2>1. 0 \in Int /\ room - 1 \in Int
      BY <1>2
  <2>2. /\ IsFiniteSet(0 .. room - 1)
        /\ Cardinality(0 .. room - 1) = IF 0 > room - 1 THEN 0 ELSE (room - 1) - 0 + 1
      BY <2>1, FS_Interval
  <2> QED
      BY <1>2, <2>2
<1>7. IsFiniteSet(L) /\ Cardinality(L) <= room
  <2>1. r \in Injection(L, 0 .. room - 1)
      BY <1>4, <1>5 DEF Injection
  <2> HIDE DEF r, L, room
  <2> QED
      BY <1>6, <2>1, FS_Injection
<1>8. Cardinality(L) \in Nat
    BY <1>7, FS_CardinalityType
<1>9. Cardinality(L) * (BranchFactor - 1) <= room * (BranchFactor - 1)
    BY <1>1, <1>2, <1>7, <1>8
<1> HIDE DEF L, room
<1>10. Cardinality(L) * (BranchFactor - 1) \in Nat /\ room * (BranchFactor - 1) \in Nat
    BY <1>1, <1>2, <1>8
<1>11. used + Cardinality(L) * (BranchFactor - 1) <= Budget
    BY <1>1, <1>2, <1>9, <1>10
<1> QED
    BY <1>7, <1>8, <1>11 DEF L

LEMMA RefinementsBound ==
    ASSUME NEW n \in Nat, NEW h, DOMAIN h = 1 .. n, NEW used \in Nat, used <= Budget
    PROVE  /\ IsFiniteSet(Refinements(h, used)) /\ Cardinality(Refinements(h, used)) \in Nat
           /\ used + Cardinality(Refinements(h, used)) * (BranchFactor - 1) <= Budget
<1> DEFINE R == Refinements(h, used)
<1>1. BranchFactor - 1 \in Nat \ {0} /\ Budget \in Nat
    BY KeyTreeAssumption, ConstantsAssumption
<1>2. R \subseteq WantsRefine(h) /\ WantsRefine(h) \subseteq 1 .. n
    BY DEF Refinements, WantsRefine
<1>3. /\ IsFiniteSet(R) /\ Cardinality(R) \in Nat
      /\ IsFiniteSet(WantsRefine(h)) /\ WantsRefine(h) \subseteq Nat
  <2>1. IsFiniteSet(1 .. n)
      BY FS_Interval
  <2> HIDE DEF R
  <2>2. IsFiniteSet(WantsRefine(h)) /\ IsFiniteSet(R)
      BY <1>2, <2>1, FS_Subset
  <2> QED
      BY <1>2, <2>2, FS_CardinalityType
<1>4. CASE R = {}
  <2>1. Cardinality(R) = 0
      BY <1>4, FS_EmptySet
  <2> QED
      BY <1>1, <1>3, <2>1
<1>5. CASE R # {}
  <2> DEFINE m == Max(R)
             below == {j \in WantsRefine(h) : j <= m}
  <2>1. m \in R /\ \A x \in R : x <= m
    <3>1. R \in SUBSET Nat /\ \A x \in R : x <= n
        BY <1>2
    <3> HIDE DEF R
    <3> QED
        BY <1>5, <3>1, MaxOf
  <2>2. used + (BranchFactor - 1) * Cardinality(below) <= Budget
      BY <2>1 DEF Refinements
  <2>3. R \subseteq below /\ below \subseteq WantsRefine(h)
      BY <1>2, <2>1
  <2>4. Cardinality(R) <= Cardinality(below) /\ Cardinality(below) \in Nat
    <3> HIDE DEF R, below
    <3>1. IsFiniteSet(below)
        BY <1>3, <2>3, FS_Subset
    <3> QED
        BY <2>3, <3>1, FS_Subset, FS_CardinalityType
  <2> HIDE DEF R, below
  <2>5. Cardinality(R) * (BranchFactor - 1) <= (BranchFactor - 1) * Cardinality(below)
      BY <1>1, <1>3, <2>4
  <2>6. /\ Cardinality(R) * (BranchFactor - 1) \in Nat
        /\ (BranchFactor - 1) * Cardinality(below) \in Nat
      BY <1>1, <1>3, <2>4
  <2>7. used + Cardinality(R) * (BranchFactor - 1) <= Budget
      BY <1>1, <2>2, <2>5, <2>6
  <2> QED
      BY <1>3, <2>7 DEF R
<1> QED
    BY <1>4, <1>5

\* What PE 0 chooses can be split and afforded, and when it chooses nothing
\* there is nothing left to split or no room for another split.
LEMMA ChosenFits ==
    ASSUME InputType, NEW bins, Tiles(bins), NEW h, Describes(h, bins),
           Cardinality(bins) <= Budget
    PROVE  LET used == Cardinality(bins)
               chosen == Chosen(h, used)
           IN  /\ CanSplit(bins, chosen)
               /\ used + Cardinality(chosen) * (BranchFactor - 1) <= Budget
               /\ chosen = {} => \A i \in DOMAIN h :
                     Separable(h, i) => used + (BranchFactor - 1) > Budget
<1> DEFINE used == Cardinality(bins)
           chosen == Chosen(h, used)
<1>1. used \in Nat /\ DOMAIN h = 1 .. used
    BY TilesFinite DEF Describes
<1>2. chosen \subseteq Candidates(h)
    BY DEF Chosen, Refinements, WantsRefine, Leftover, Candidates
<1>3. CanSplit(bins, chosen)
    BY <1>2, SeparableSplits DEF CanSplit, Candidates
<1>4. used + Cardinality(chosen) * (BranchFactor - 1) <= Budget
    BY <1>1, LeftoverBound, RefinementsBound DEF Chosen
<1>5. ASSUME chosen = {}, NEW i \in DOMAIN h, Separable(h, i)
      PROVE  used + (BranchFactor - 1) > Budget
  <2>1. BranchFactor \in Nat /\ BranchFactor - 1 \in Nat \ {0} /\ Budget \in Nat
      BY KeyTreeAssumption, ConstantsAssumption
  <2>2. CASE ~(used < Budget)
    <3> HIDE DEF used
    <3> QED
        BY <1>1, <2>1, <2>2
  <2>3. CASE used < Budget
    <3>1. Leftover(h, used) = {}
        BY <1>5, <2>3 DEF Chosen
    <3>2. i \in Candidates(h)
        BY <1>5 DEF Candidates
    <3> DEFINE Rs == {RankOf(h, j) : j \in Candidates(h)}
    <3>3. PICK r \in Rs : \A s \in Rs : r <= s
      <4>1. Rs \in SUBSET Nat /\ Rs # {}
          BY <3>2, Ranks
      <4> HIDE DEF Rs
      <4> QED
          BY <4>1, Least
    <3>4. PICK k \in Candidates(h) : r = RankOf(h, k)
        OBVIOUS
    <3>5. HeavierThan(h, k) = {}
      <4> SUFFICES ASSUME NEW j \in HeavierThan(h, k) PROVE FALSE
          OBVIOUS
      <4>1. j \in Candidates(h) /\ Heavier(h, j, k)
          BY DEF HeavierThan
      <4>2. RankOf(h, j) < RankOf(h, k) /\ RankOf(h, k) <= RankOf(h, j)
          BY <3>3, <3>4, <4>1, Ranks
      <4>3. RankOf(h, j) \in Nat /\ RankOf(h, k) \in Nat
          BY <4>1, Ranks
      <4> QED
          BY <4>2, <4>3
    <3>6. RankOf(h, k) = 0
        BY <3>5, FS_EmptySet DEF RankOf
    <3>7. ~(0 < Room(used))
        BY <3>1, <3>6 DEF Leftover, Candidates, RankOf, HeavierThan
    <3>8. \A x \in Nat, m \in Nat \ {0} : x >= m => x \div m > 0
        OBVIOUS
    <3>9. Budget - used \in Nat
        BY <1>1, <2>1, <2>3
    <3>10. ~(Budget - used >= BranchFactor - 1)
        BY <2>1, <3>7, <3>8, <3>9 DEF Room
    <3> QED
        BY <1>1, <2>1, <3>10
  <2> QED
      BY <2>2, <2>3
<1> QED
    BY <1>3, <1>4, <1>5

----------------------------------------------------------------------------
(* The invariant. *)

LEMMA HistogramNotEmpty ==
    ASSUME NEW pe, NEW bins, Tiles(bins)
    PROVE  Histogram(pe, bins) # <<>>
<1>1. 1 \in 1 .. Cardinality(bins)
    BY TilesFinite
<1>2. 1 \in DOMAIN Histogram(pe, bins)
    BY <1>1 DEF Histogram
<1> QED
    BY <1>2

LEMMA RootTiles ==
    Tiles({RootBin}) /\ Cardinality({RootBin}) = 1 /\ IsFiniteSet({RootBin})
BY RootIsBin, FS_Singleton DEF Tiles

\* When every PE has contributed, the histogram PE 0 gets is of its own leaves.
LEMMA AllContributed ==
    ASSUME DecompInv, \A pe \in PE : contribution[pe] # <<>>
    PROVE  /\ \A pe \in PE : /\ stage[pe] = "histogram" /\ splitters[pe] = {}
                            /\ frontier[pe] = frontier[Root]
                            /\ contribution[pe] = Histogram(pe, frontier[Root])
           /\ Tiles(frontier[Root]) /\ rangeMsgs = {}
           /\ numTreePieces[Root] = Cardinality(frontier[Root])
           /\ Cardinality(frontier[Root]) <= Budget
           /\ \A order \in Orders : Describes(Reduce(order), frontier[Root])
<1>1. \A pe \in PE : /\ stage[pe] = "histogram" /\ splitters[pe] = {}
                     /\ contribution[pe] = Histogram(pe, frontier[pe])
    BY DEF DecompInv, StageOK
<1>2. Root \in PE
    BY PEsFinite
<1>3. \A pe \in PE : LeavesToCome(pe) = frontier[pe]
    BY <1>1, RefinedNone DEF LeavesToCome
<1>4. \A pe \in PE : frontier[pe] = frontier[Root]
    BY <1>1, <1>2, <1>3 DEF DecompInv, Agreement, Begun
<1>5. Tiles(frontier[Root]) /\ rangeMsgs = {}
    BY <1>1, <1>2 DEF DecompInv, StageOK, Begun, Settled
<1>6. numTreePieces[Root] = Cardinality(frontier[Root]) /\ Cardinality(frontier[Root]) <= Budget
    BY <1>1, <1>2, RefinedNone DEF DecompInv, BudgetRespected
<1>7. \A pe \in PE : contribution[pe] = Histogram(pe, frontier[Root])
    BY <1>1, <1>4
<1>8. ASSUME NEW order \in Orders PROVE Describes(Reduce(order), frontier[Root])
  <2>1. Types
      BY DEF DecompInv
  <2> QED
      BY <1>5, <1>7, <2>1, HistogramRight DEF Describes
<1> QED
    BY <1>1, <1>4, <1>5, <1>6, <1>7, <1>8

LEMMA InitInv ==
    Init => DecompInv
<1> SUFFICES ASSUME Init PROVE DecompInv
    OBVIOUS
<1>1. Root \in PE /\ 0 \in 0 .. Budget /\ Costs \subseteq Nat
    BY ConstantsAssumption
<1>2. Types
  <2>1. keyOf \in [Particle -> Key] /\ cost \in [Particle -> Nat] /\ owner \in [Particle -> PE]
      BY <1>1 DEF Init
  <2>2. contribution = [pe \in PE |-> contribution[pe]]
      BY DEF Init
  <2>3. /\ stage \in [PE -> {"idle", "histogram", "flushed", "aborted"}]
        /\ frontier \in [PE -> SUBSET Bin] /\ splitters \in [PE -> SUBSET Nat]
        /\ numTreePieces \in [PE -> 0 .. Budget] /\ rangeMsgs \subseteq PE
      BY <1>1 DEF Init
  <2>4. DOMAIN keyRanges = DOMAIN tpCounts /\ sentTo \in [Particle -> Int]
      BY DEF Init
  <2> QED
      BY <2>1, <2>2, <2>3, <2>4 DEF Types
<1>3. \A pe \in PE : StageOK(pe)
    BY DEF Init, StageOK, Begun
<1>4. FirstRound /\ Agreement
    BY DEF Init, FirstRound, Agreement, Begun
<1>5. SplittersOK
    BY DEF Init, SplittersOK, CanSplit
<1>6. Settled
    BY <1>1 DEF Init, Settled
<1>7. SentOK
  <2>1. \A p \in Particle : owner[p] \in PE
      BY DEF Init
  <2> QED
      BY <2>1 DEF Init, SentOK
<1>8. BudgetRespected
    BY <1>1, ConstantsAssumption DEF Init, BudgetRespected
<1>9. WellSpent /\ RangesExact
    BY <1>1 DEF Init, WellSpent, RangesExact
<1> QED
    BY <1>2, <1>3, <1>4, <1>5, <1>6, <1>7, <1>8, <1>9 DEF DecompInv

LEMMA DecomposeInv ==
    ASSUME DecompInv, NEW pe \in PE, Decompose(pe)
    PROVE  DecompInv'
<1>1. /\ stage[pe] = "idle" /\ frontier[pe] = {} /\ contribution[pe] = <<>>
      /\ splitters[pe] = {} /\ pe \notin rangeMsgs
    BY DEF Decompose, DecompInv, StageOK
<1>2. /\ keyOf' = keyOf /\ cost' = cost /\ owner' = owner
      /\ splitters' = splitters /\ rangeMsgs' = rangeMsgs
      /\ keyRanges' = keyRanges /\ tpCounts' = tpCounts /\ sentTo' = sentTo
    BY DEF Decompose, input, outcome
<1>3. Types
    BY DEF DecompInv
<1>4. /\ stage'[pe] = "histogram" /\ numTreePieces'[pe] = 1 /\ frontier'[pe] = {RootBin}
      /\ contribution'[pe] = Histogram(pe, {RootBin})
    BY <1>3 DEF Decompose, Types
<1>5. \A qe \in PE : qe # pe =>
         /\ stage'[qe] = stage[qe] /\ numTreePieces'[qe] = numTreePieces[qe]
         /\ frontier'[qe] = frontier[qe] /\ contribution'[qe] = contribution[qe]
    BY <1>3 DEF Decompose, Types
<1>6. Types'
  <2>1. stage' \in [PE -> {"idle", "histogram", "flushed", "aborted"}]
      BY <1>3 DEF Decompose, Types
  <2>2. frontier' \in [PE -> SUBSET Bin]
      BY <1>3, RootIsBin DEF Decompose, Types
  <2>3. numTreePieces' \in [PE -> 0 .. Budget]
      BY <1>3, ConstantsAssumption DEF Decompose, Types
  <2>4. contribution' = [qe \in PE |-> contribution'[qe]]
      BY <1>3 DEF Decompose, Types
  <2> QED
      BY <1>2, <1>3, <2>1, <2>2, <2>3, <2>4 DEF Types
<1>8. Root \in PE
    BY PEsFinite
<1>9. stage[Root] # "flushed"
    BY <1>1, <1>8 DEF DecompInv, Settled, StageOK
<1>10. stage'[Root] # "flushed"
    BY <1>4, <1>5, <1>8, <1>9
<1>11. rangeMsgs = {}
    BY <1>9 DEF DecompInv, Settled
<1>12. \A qe \in PE : StageOK(qe)'
  <2> SUFFICES ASSUME NEW qe \in PE PROVE StageOK(qe)'
      OBVIOUS
  <2>1. StageOK(qe)
      BY DEF DecompInv
  <2>2. CASE qe = pe
    <3>1. contribution'[pe] = Histogram(pe, frontier[pe])'
        BY <1>2, <1>4 DEF Histogram, Describe
    <3> QED
        BY <1>1, <1>2, <1>4, <2>2, <3>1, RootTiles DEF StageOK, Begun
  <2>3. CASE qe # pe
    <3>1. Histogram(qe, frontier[qe])' = Histogram(qe, frontier[qe])
        BY ZenonT(40), <1>2, <1>5, <2>3 DEF Histogram, Describe
    <3> QED
        BY <1>2, <1>5, <1>9, <2>1, <2>3, <3>1 DEF StageOK, Begun
  <2> QED
      BY <2>2, <2>3
<1>13. \A qe \in PE : Begun(qe)' =>
          frontier'[qe] = {RootBin} /\ contribution'[qe] # <<>> /\ splitters'[qe] = {}
  <2> SUFFICES ASSUME NEW qe \in PE, Begun(qe)'
               PROVE  frontier'[qe] = {RootBin} /\ contribution'[qe] # <<>> /\ splitters'[qe] = {}
      OBVIOUS
  <2>1. CASE qe = pe
      BY <1>1, <1>2, <1>4, <2>1, HistogramNotEmpty, RootTiles
  <2>2. CASE qe # pe
    <3>1. Begun(qe)
        BY <1>5, <2>2 DEF Begun
    <3>2. frontier[qe] = {RootBin} /\ contribution[qe] # <<>>
        BY <1>1, <3>1 DEF DecompInv, FirstRound, Begun
    <3>3. splitters[qe] = {}
        BY <3>2 DEF DecompInv, StageOK
    <3> QED
        BY <1>2, <1>5, <2>2, <3>2, <3>3
  <2> QED
      BY <2>1, <2>2
<1>14. FirstRound'
    BY <1>13 DEF FirstRound
<1>15. Agreement'
    BY <1>13 DEF Agreement, LeavesToCome
<1>16. SplittersOK'
  <2>1. \A qe \in PE : qe # pe => CanSplit(frontier'[qe], splitters'[qe])
      BY <1>2, <1>5 DEF DecompInv, SplittersOK
  <2>2. CanSplit(frontier'[pe], splitters'[pe])
      BY <1>1, <1>2 DEF CanSplit
  <2> QED
      BY <2>1, <2>2 DEF SplittersOK
<1>17. Settled'
    BY <1>2, <1>10, <1>11 DEF Settled
<1>18. SentOK'
  <2> SUFFICES ASSUME NEW p \in Particle
               PROVE  sentTo'[p] = IF stage'[owner'[p]] = "flushed"
                                   THEN TreePieceOf(owner[p], p)' ELSE -1
      BY <1>2 DEF SentOK
  <2>1. owner[p] \in PE
      BY <1>3 DEF Types
  <2>2. stage[owner[p]] # "flushed" /\ stage'[owner[p]] # "flushed"
      BY <1>1, <1>4, <1>5, <1>9, <2>1 DEF DecompInv, StageOK
  <2> QED
      BY <1>2, <2>2 DEF DecompInv, SentOK
<1>19. BudgetRespected'
  <2>1. CASE pe = Root
    <3>1. Refined(frontier'[Root], splitters'[Root]) = {RootBin}
        BY <1>1, <1>2, <1>4, <2>1, RefinedNone
    <3> QED
        BY <1>4, <2>1, <3>1, RootTiles, ConstantsAssumption DEF BudgetRespected
  <2>2. CASE pe # Root
      BY <1>2, <1>5, <1>8, <2>2 DEF DecompInv, BudgetRespected
  <2> QED
      BY <2>1, <2>2
<1>20. WellSpent' /\ RangesExact'
    BY <1>10 DEF WellSpent, RangesExact
<1> QED
    BY <1>6, <1>12, <1>14, <1>15, <1>16, <1>17, <1>18, <1>19, <1>20 DEF DecompInv

LEMMA ReceiveSplittersInv ==
    ASSUME DecompInv, NEW pe \in PE, ReceiveSplitters(pe)
    PROVE  DecompInv'
<1> DEFINE new == Refined(frontier[pe], splitters[pe])
<1>1. /\ splitters[pe] # {} /\ stage[pe] = "histogram" /\ contribution[pe] = <<>>
      /\ Tiles(frontier[pe]) /\ CanSplit(frontier[pe], splitters[pe])
    BY DEF ReceiveSplitters, DecompInv, StageOK, SplittersOK, Begun
<1>2. /\ keyOf' = keyOf /\ cost' = cost /\ owner' = owner
      /\ stage' = stage /\ numTreePieces' = numTreePieces /\ rangeMsgs' = rangeMsgs
      /\ keyRanges' = keyRanges /\ tpCounts' = tpCounts /\ sentTo' = sentTo
    BY DEF ReceiveSplitters, input, outcome
<1>3. Types
    BY DEF DecompInv
<1>4. splitters'[pe] = {} /\ frontier'[pe] = new /\ contribution'[pe] = Histogram(pe, new)
    BY <1>3 DEF ReceiveSplitters, Types
<1>5. \A qe \in PE : qe # pe =>
         /\ splitters'[qe] = splitters[qe]
         /\ frontier'[qe] = frontier[qe] /\ contribution'[qe] = contribution[qe]
    BY <1>3 DEF ReceiveSplitters, Types
<1>6. Tiles(new)
    BY <1>1, RefinedTiles
<1>7. Types'
  <2>1. frontier' \in [PE -> SUBSET Bin]
      BY <1>3, <1>6 DEF ReceiveSplitters, Types, Tiles
  <2>2. splitters' \in [PE -> SUBSET Nat]
      BY <1>3 DEF ReceiveSplitters, Types
  <2>3. contribution' = [qe \in PE |-> contribution'[qe]]
      BY <1>3 DEF ReceiveSplitters, Types
  <2> QED
      BY <1>2, <1>3, <2>1, <2>2, <2>3 DEF Types
<1>8. Root \in PE
    BY PEsFinite
<1>9. stage[Root] # "flushed"
    BY <1>1 DEF DecompInv, Settled
<1>10. \A qe \in PE : StageOK(qe)'
  <2> SUFFICES ASSUME NEW qe \in PE PROVE StageOK(qe)'
      OBVIOUS
  <2>1. StageOK(qe)
      BY DEF DecompInv
  <2>2. CASE qe = pe
    <3>1. contribution'[pe] = Histogram(pe, frontier[pe])'
        BY <1>2, <1>4 DEF Histogram, Describe
    <3> HIDE DEF new
    <3> QED
        BY <1>1, <1>2, <1>4, <1>6, <2>2, <3>1 DEF StageOK, Begun
  <2>3. CASE qe # pe
    <3>1. Histogram(qe, frontier[qe])' = Histogram(qe, frontier[qe])
        BY <1>2, <1>5, <2>3 DEF Histogram, Describe
    <3> QED
        BY <1>2, <1>5, <2>1, <2>3, <3>1 DEF StageOK, Begun
  <2> QED
      BY <2>2, <2>3
<1>11. \A qe \in PE : Begun(qe)
    BY <1>1 DEF DecompInv, FirstRound, Begun
<1>12. FirstRound'
    BY <1>2, <1>11 DEF FirstRound, Begun
<1>13. \A qe \in PE : LeavesToCome(qe)' = LeavesToCome(qe)
    BY <1>4, <1>5, RefinedNone DEF LeavesToCome
<1>14. Agreement'
    BY <1>2, <1>13 DEF DecompInv, Agreement, Begun
<1>15. SplittersOK'
  <2>1. \A qe \in PE : qe # pe => CanSplit(frontier'[qe], splitters'[qe])
      BY <1>5 DEF DecompInv, SplittersOK
  <2>2. CanSplit(frontier'[pe], splitters'[pe])
      BY <1>4 DEF CanSplit
  <2> QED
      BY <2>1, <2>2 DEF SplittersOK
<1>16. Settled'
    BY <1>2, <1>9 DEF DecompInv, Settled
<1>17. SentOK'
  <2> SUFFICES ASSUME NEW p \in Particle
               PROVE  sentTo'[p] = IF stage'[owner'[p]] = "flushed"
                                   THEN TreePieceOf(owner[p], p)' ELSE -1
      BY <1>2 DEF SentOK
  <2>1. owner[p] \in PE
      BY <1>3 DEF Types
  <2>2. stage[owner[p]] # "flushed"
      BY <1>9, <2>1 DEF DecompInv, StageOK
  <2> QED
      BY <1>2, <2>2 DEF DecompInv, SentOK
<1>18. BudgetRespected'
  <2>1. Refined(frontier[Root], splitters[Root])' = Refined(frontier[Root], splitters[Root])
      BY <1>8, <1>13 DEF LeavesToCome
  <2> QED
      BY <1>2, <2>1 DEF DecompInv, BudgetRespected
<1>19. WellSpent' /\ RangesExact'
    BY <1>2, <1>9 DEF WellSpent, RangesExact
<1> QED
    BY <1>7, <1>10, <1>12, <1>14, <1>15, <1>16, <1>17, <1>18, <1>19 DEF DecompInv

LEMMA SendParticlesInv ==
    ASSUME DecompInv, NEW pe \in PE, SendParticles(pe)
    PROVE  DecompInv'
<1>1. pe \in rangeMsgs /\ stage[pe] = "histogram" /\ stage[Root] = "flushed" /\ pe # Root
    BY DEF SendParticles, DecompInv, StageOK, Settled
<1>2. /\ keyOf' = keyOf /\ cost' = cost /\ owner' = owner
      /\ frontier' = frontier /\ contribution' = contribution /\ splitters' = splitters
      /\ keyRanges' = keyRanges /\ tpCounts' = tpCounts
    BY DEF SendParticles, input, outcome
<1>3. Types
    BY DEF DecompInv
<1>4. Root \in PE
    BY PEsFinite
<1>5. /\ stage'[pe] = "flushed"
      /\ \A qe \in PE : qe # pe => /\ stage'[qe] = stage[qe]
                                  /\ numTreePieces'[qe] = numTreePieces[qe]
    BY <1>3 DEF SendParticles, Types
<1>6. rangeMsgs' = rangeMsgs \ {pe}
    BY DEF SendParticles
<1>7. Cardinality(DOMAIN tpCounts) \in 0 .. Budget
  <2>1. DOMAIN tpCounts = 1 .. numTreePieces[Root] /\ numTreePieces[Root] \in 0 .. Budget
      BY <1>1, <1>3, <1>4 DEF DecompInv, RangesExact, Types
  <2>2. numTreePieces[Root] \in Nat
      BY <2>1, ConstantsAssumption
  <2>3. Cardinality(1 .. numTreePieces[Root]) = numTreePieces[Root]
      BY <2>2, FS_Interval
  <2> QED
      BY <2>1, <2>3
<1>8. Types'
  <2>1. stage' \in [PE -> {"idle", "histogram", "flushed", "aborted"}]
      BY <1>3 DEF SendParticles, Types
  <2>2. numTreePieces' \in [PE -> 0 .. Budget]
      BY <1>3, <1>7 DEF SendParticles, Types
  <2>3. sentTo' \in [Particle -> Int]
    <3>1. ASSUME NEW p \in Particle, owner[p] = pe
          PROVE  TreePieceOf(pe, p) \in Int
      <4>1. Tiles(frontier[pe])
          BY <1>1 DEF DecompInv, StageOK, Begun
      <4>2. (CHOOSE b \in frontier[pe] : Covers(b, keyOf[p])) \in frontier[pe]
          BY <1>3, <4>1 DEF Types, Tiles
      <4>3. Position(frontier[pe], CHOOSE b \in frontier[pe] : Covers(b, keyOf[p])) \in Int
          BY <4>1, <4>2, Positions
      <4> QED
          BY <4>3 DEF TreePieceOf
    <3>2. sentTo' = [p \in Particle |-> IF owner[p] = pe THEN TreePieceOf(pe, p) ELSE sentTo[p]]
        BY DEF SendParticles, FlushParticles, TreePieceOf
    <3> QED
        BY <1>3, <3>1, <3>2 DEF Types
  <2>4. rangeMsgs' \subseteq PE
      BY <1>3, <1>6 DEF Types
  <2> QED
      BY <1>2, <1>3, <2>1, <2>2, <2>3, <2>4 DEF Types
<1>9. \A qe \in PE : StageOK(qe)'
  <2> SUFFICES ASSUME NEW qe \in PE PROVE StageOK(qe)'
      OBVIOUS
  <2>1. StageOK(qe)
      BY DEF DecompInv
  <2>2. Histogram(qe, frontier[qe])' = Histogram(qe, frontier[qe])
      BY <1>2 DEF Histogram, Describe
  <2>3. stage'[Root] = "flushed"
      BY <1>1, <1>4, <1>5
  <2>4. contribution[pe] = <<>> /\ splitters[pe] = {}
      BY <1>1 DEF DecompInv, Settled
  <2>5. CASE qe = pe
      BY <1>1, <1>2, <1>5, <1>6, <2>1, <2>3, <2>4, <2>5 DEF StageOK, Begun
  <2>6. CASE qe # pe
      BY <1>2, <1>5, <1>6, <2>1, <2>2, <2>3, <2>6 DEF StageOK, Begun
  <2> QED
      BY <2>5, <2>6
<1>10. \A qe \in PE : Begun(qe)' <=> Begun(qe)
    BY <1>1, <1>5 DEF Begun
<1>11. FirstRound' /\ Agreement' /\ SplittersOK'
  <2>1. FirstRound'
      BY <1>2, <1>10 DEF DecompInv, FirstRound
  <2>2. Agreement'
      BY <1>2, <1>10 DEF DecompInv, Agreement, LeavesToCome
  <2>3. SplittersOK'
      BY <1>2 DEF DecompInv, SplittersOK
  <2> QED
      BY <2>1, <2>2, <2>3
<1>12. Settled'
    BY <1>1, <1>2, <1>4, <1>5, <1>6 DEF DecompInv, Settled
<1>13. SentOK'
  <2> SUFFICES ASSUME NEW p \in Particle
               PROVE  sentTo'[p] = IF stage'[owner[p]] = "flushed"
                                   THEN TreePieceOf(owner[p], p) ELSE -1
      BY <1>2 DEF SentOK, TreePieceOf
  <2>1. owner[p] \in PE
      BY <1>3 DEF Types
  <2>2. sentTo'[p] = IF owner[p] = pe THEN TreePieceOf(pe, p) ELSE sentTo[p]
      BY DEF SendParticles, FlushParticles, TreePieceOf
  <2>3. sentTo[p] = IF stage[owner[p]] = "flushed" THEN TreePieceOf(owner[p], p) ELSE -1
      BY DEF DecompInv, SentOK
  <2> QED
      BY <1>5, <2>1, <2>2, <2>3
<1>14. numTreePieces'[Root] = numTreePieces[Root] /\ stage'[Root] = stage[Root]
    BY <1>1, <1>4, <1>5
<1>15. BudgetRespected'
    BY <1>2, <1>14 DEF DecompInv, BudgetRespected
<1>16. WellSpent'
    BY <1>2, <1>14 DEF DecompInv, WellSpent
<1>17. RangesExact'
  <2>1. \A i \in DOMAIN tpCounts :
           Describe(At(frontier[Root], i), Particle)' = Describe(At(frontier[Root], i), Particle)
      BY <1>2 DEF Describe
  <2> QED
      BY <1>2, <1>14, <2>1 DEF DecompInv, RangesExact
<1> QED
    BY <1>8, <1>9, <1>11, <1>12, <1>13, <1>15, <1>16, <1>17 DEF DecompInv

LEMMA ReceiveHistogramInv ==
    ASSUME DecompInv, ReceiveHistogram
    PROVE  DecompInv'
<1> DEFINE F == frontier[Root]
<1>1. \A pe \in PE : contribution[pe] # <<>>
    BY DEF ReceiveHistogram
<1>2. /\ \A pe \in PE : /\ stage[pe] = "histogram" /\ splitters[pe] = {}
                         /\ frontier[pe] = F
      /\ Tiles(F) /\ rangeMsgs = {}
      /\ numTreePieces[Root] = Cardinality(F) /\ Cardinality(F) <= Budget
      /\ \A order \in Orders : Describes(Reduce(order), F)
    BY <1>1, AllContributed
<1>3. /\ keyOf' = keyOf /\ cost' = cost /\ owner' = owner
      /\ frontier' = frontier /\ contribution' = [pe \in PE |-> <<>>]
    BY DEF ReceiveHistogram, input
<1>4. Types /\ InputType
    BY DEF DecompInv, Types, InputType
<1>5. Root \in PE /\ IsFiniteSet(F) /\ Cardinality(F) \in Nat
    BY <1>2, PEsFinite, TilesFinite, KeySpaceType
<1>6. PICK order \in Orders :
         LET h == Reduce(order)
             used == numTreePieces[Root]
             chosen == Chosen(h, used)
         IN  \/ /\ chosen # {}
                /\ splitters' = [pe \in PE |-> chosen]
                /\ numTreePieces' = [numTreePieces EXCEPT ![Root] =
                        @ + Cardinality(chosen) * (BranchFactor - 1)]
                /\ UNCHANGED <<stage, rangeMsgs, outcome, sentTo>>
             \/ /\ chosen = {} /\ AllAtOnePosition(h)
                /\ stage' = [pe \in PE |-> "aborted"]
                /\ UNCHANGED <<splitters, numTreePieces, rangeMsgs, outcome, sentTo>>
             \/ /\ chosen = {} /\ ~AllAtOnePosition(h)
                /\ keyRanges' = [i \in DOMAIN h |-> <<h[i].smallest, h[i].largest>>]
                /\ tpCounts' = [i \in DOMAIN h |-> h[i].n]
                /\ FlushParticles(Root)
                /\ stage' = [stage EXCEPT ![Root] = "flushed"]
                /\ rangeMsgs' = PE \ {Root}
                /\ UNCHANGED <<splitters, numTreePieces>>
    BY DEF ReceiveHistogram
<1> DEFINE h == Reduce(order)
           chosen == Chosen(h, Cardinality(F))
<1>7. Describes(h, F)
    BY <1>2
<1>8. /\ CanSplit(F, chosen)
      /\ Cardinality(F) + Cardinality(chosen) * (BranchFactor - 1) <= Budget
      /\ chosen = {} => \A i \in DOMAIN h :
            Separable(h, i) => Cardinality(F) + (BranchFactor - 1) > Budget
    BY <1>2, <1>4, <1>7, ChosenFits
<1>9. contribution' = [pe \in PE |-> contribution'[pe]] /\ \A pe \in PE : contribution'[pe] = <<>>
    BY <1>3
<1>10. Chosen(h, numTreePieces[Root]) = chosen
    BY <1>2
<1>11. \A p \in Particle : owner[p] \in PE /\ sentTo[p] = -1
    BY <1>2, <1>4 DEF Types, DecompInv, SentOK
<1> HIDE DEF F, chosen
\* Another round.
<1>12. CASE /\ chosen # {}
            /\ splitters' = [pe \in PE |-> chosen]
            /\ numTreePieces' = [numTreePieces EXCEPT ![Root] =
                    @ + Cardinality(chosen) * (BranchFactor - 1)]
            /\ UNCHANGED <<stage, rangeMsgs, outcome, sentTo>>
  <2> DEFINE more == Cardinality(chosen) * (BranchFactor - 1)
  <2>1. /\ stage' = stage /\ rangeMsgs' = rangeMsgs /\ sentTo' = sentTo
        /\ keyRanges' = keyRanges /\ tpCounts' = tpCounts
      BY <1>12 DEF outcome
  <2>2. \A pe \in PE : splitters'[pe] = chosen /\ frontier'[pe] = F
      BY <1>2, <1>3, <1>12 DEF F
  <2>3. Cardinality(chosen) \in Nat /\ Cardinality(Refined(F, chosen)) = Cardinality(F) + more
      BY <1>2, <1>8, RefinedCount
  <2>4. more \in Nat
      BY <2>3, KeyTreeAssumption
  <2> HIDE DEF more
  <2>5. numTreePieces'[Root] = Cardinality(F) + more /\ Cardinality(F) + more \in 0 .. Budget
    <3>1. numTreePieces'[Root] = numTreePieces[Root] + more
        BY <1>4, <1>5, <1>12 DEF Types, more
    <3>2. Cardinality(F) + more <= Budget
        BY <1>8 DEF more
    <3> QED
        BY <1>2, <1>5, <2>4, <3>1, <3>2, ConstantsAssumption
  <2>6. numTreePieces' = [numTreePieces EXCEPT ![Root] = Cardinality(F) + more]
    <3>1. numTreePieces[Root] + more = Cardinality(F) + more
        BY <1>2
    <3> QED
        BY <1>12, <3>1 DEF more
  <2>7. Types'
    <3>1. numTreePieces' \in [PE -> 0 .. Budget]
        BY <1>4, <2>5, <2>6 DEF Types
    <3>2. splitters' \in [PE -> SUBSET Nat]
      <4>1. \A i \in chosen : i \in 1 .. Cardinality(F)
          BY <1>8 DEF CanSplit
      <4>2. chosen \in SUBSET Nat
          BY <1>5, <4>1
      <4> QED
          BY <1>12, <4>2
    <3> QED
        BY <1>3, <1>4, <1>9, <2>1, <3>1, <3>2 DEF Types
  <2>8. ASSUME NEW pe \in PE PROVE StageOK(pe)'
      BY <1>2, <1>3, <1>9, <2>1, <2>2 DEF StageOK, Begun
  <2>9. FirstRound'
      BY <1>2, <2>1 DEF FirstRound, Begun
  <2>10. Agreement'
      BY <2>2 DEF Agreement, LeavesToCome
  <2>11. SplittersOK'
      BY <1>8, <2>2 DEF SplittersOK
  <2>12. Settled'
      BY <1>2, <1>5, <2>1 DEF Settled
  <2>13. SentOK'
      BY <1>2, <1>3, <1>11, <2>1 DEF SentOK
  <2>14. BudgetRespected'
    <3>1. Refined(frontier[Root], splitters[Root])' = Refined(F, chosen)
        BY <1>5, <2>2
    <3>2. numTreePieces'[Root] <= Budget
        BY <2>5, ConstantsAssumption
    <3> QED
        BY <2>3, <2>5, <3>1, <3>2 DEF BudgetRespected
  <2>15. WellSpent' /\ RangesExact'
      BY <1>2, <1>5, <2>1 DEF WellSpent, RangesExact
  <2> QED
      BY <2>7, <2>8, <2>9, <2>10, <2>11, <2>12, <2>13, <2>14, <2>15 DEF DecompInv
\* All bodies are at one position.
<1>13. CASE /\ stage' = [pe \in PE |-> "aborted"]
            /\ UNCHANGED <<splitters, numTreePieces, rangeMsgs, outcome, sentTo>>
  <2>1. /\ splitters' = splitters /\ numTreePieces' = numTreePieces
        /\ rangeMsgs' = rangeMsgs /\ sentTo' = sentTo
        /\ keyRanges' = keyRanges /\ tpCounts' = tpCounts
        /\ \A pe \in PE : stage'[pe] = "aborted"
      BY <1>13 DEF outcome
  <2>2. Types'
    <3>1. stage' \in [PE -> {"idle", "histogram", "flushed", "aborted"}]
        BY <1>13
    <3> QED
        BY <1>3, <1>4, <1>9, <2>1, <3>1 DEF Types
  <2>3. ASSUME NEW pe \in PE PROVE StageOK(pe)'
      BY <1>2, <1>3, <1>9, <2>1 DEF StageOK, Begun
  <2>4. FirstRound'
      BY <2>1 DEF FirstRound, Begun
  <2>5. Agreement'
    <3>1. \A pe \in PE : splitters'[pe] = {} /\ frontier'[pe] = F
        BY <1>2, <1>3, <2>1 DEF F
    <3> QED
        BY <3>1 DEF Agreement, LeavesToCome
  <2>6. SplittersOK'
      BY <1>3, <2>1 DEF DecompInv, SplittersOK
  <2>7. Settled'
      BY <1>2, <1>5, <2>1 DEF Settled
  <2>8. SentOK'
      BY <1>3, <1>11, <2>1 DEF SentOK
  <2>9. BudgetRespected'
      BY <1>2, <1>3, <1>5, <2>1 DEF DecompInv, BudgetRespected
  <2>10. WellSpent' /\ RangesExact'
      BY <1>5, <2>1 DEF WellSpent, RangesExact
  <2> QED
      BY <2>2, <2>3, <2>4, <2>5, <2>6, <2>7, <2>8, <2>9, <2>10 DEF DecompInv
\* The leaves are TreePieces.
<1>14. CASE /\ chosen = {}
            /\ keyRanges' = [i \in DOMAIN h |-> <<h[i].smallest, h[i].largest>>]
            /\ tpCounts' = [i \in DOMAIN h |-> h[i].n]
            /\ FlushParticles(Root)
            /\ stage' = [stage EXCEPT ![Root] = "flushed"]
            /\ rangeMsgs' = PE \ {Root}
            /\ UNCHANGED <<splitters, numTreePieces>>
  <2>1. splitters' = splitters /\ numTreePieces' = numTreePieces
      BY <1>14
  <2>2. stage'[Root] = "flushed" /\ \A pe \in PE : pe # Root => stage'[pe] = "histogram"
      BY <1>2, <1>4, <1>5, <1>14 DEF Types
  <2>3. sentTo' = [p \in Particle |->
                      IF owner[p] = Root THEN TreePieceOf(Root, p) ELSE sentTo[p]]
      BY <1>14 DEF FlushParticles, TreePieceOf
  <2>4. DOMAIN h = 1 .. Cardinality(F)
      BY <1>7 DEF Describes
  <2>5. Types'
    <3>1. stage' \in [PE -> {"idle", "histogram", "flushed", "aborted"}]
        BY <1>4, <1>14 DEF Types
    <3>2. sentTo' \in [Particle -> Int]
      <4>1. ASSUME NEW p \in Particle
            PROVE  TreePieceOf(Root, p) \in Int
        <5>1. (CHOOSE b \in F : Covers(b, keyOf[p])) \in F
            BY <1>2, <1>4 DEF InputType, Tiles
        <5>2. Position(F, CHOOSE b \in F : Covers(b, keyOf[p])) \in Int
            BY <1>2, <5>1, Positions
        <5> QED
            BY <5>2 DEF TreePieceOf, F
      <4> QED
          BY <1>4, <2>3, <4>1 DEF Types
    <3>3. rangeMsgs' \subseteq PE /\ DOMAIN keyRanges' = DOMAIN tpCounts'
      <4> HIDE DEF h
      <4> QED
          BY <1>14
    <3> QED
        BY <1>3, <1>4, <1>9, <2>1, <3>1, <3>2, <3>3 DEF Types
  <2>6. ASSUME NEW pe \in PE PROVE StageOK(pe)'
    <3>1. rangeMsgs' = PE \ {Root}
        BY <1>14
    <3> QED
        BY <1>2, <1>3, <1>9, <2>1, <2>2, <3>1 DEF StageOK, Begun, F
  <2>7. FirstRound'
      BY <2>2 DEF FirstRound, Begun
  <2>8. Agreement'
    <3>1. \A pe \in PE : splitters'[pe] = {} /\ frontier'[pe] = F
        BY <1>2, <1>3, <2>1 DEF F
    <3> QED
        BY <3>1 DEF Agreement, LeavesToCome
  <2>9. SplittersOK'
      BY <1>3, <2>1 DEF DecompInv, SplittersOK
  <2>10. Settled'
      BY <1>2, <1>9, <1>14, <2>1, <2>2 DEF Settled
  <2>11. SentOK'
    <3> SUFFICES ASSUME NEW p \in Particle
                 PROVE  sentTo'[p] = IF stage'[owner[p]] = "flushed"
                                     THEN TreePieceOf(owner[p], p) ELSE -1
        BY <1>3 DEF SentOK, TreePieceOf
    <3> QED
        BY <1>11, <2>2, <2>3
  <2>12. BudgetRespected'
      BY <1>2, <1>3, <1>5, <2>1, <2>2 DEF DecompInv, BudgetRespected
  <2>13. WellSpent'
    <3> SUFFICES ASSUME NEW i \in DOMAIN tpCounts', keyRanges'[i][1] # keyRanges'[i][2]
                 PROVE  numTreePieces'[Root] + (BranchFactor - 1) > Budget
        BY DEF WellSpent
    <3>1. i \in DOMAIN h /\ keyRanges'[i] = <<h[i].smallest, h[i].largest>>
      <4> HIDE DEF h
      <4> QED
          BY <1>14
    <3>2. Separable(h, i)
      <4> HIDE DEF h
      <4> QED
          BY <3>1 DEF Separable
    <3> QED
        BY <1>2, <1>8, <1>14, <2>1, <3>1, <3>2
  <2>14. RangesExact'
    <3>1. DOMAIN tpCounts' = 1 .. numTreePieces'[Root]
      <4>1. DOMAIN tpCounts' = DOMAIN h
        <5> HIDE DEF h
        <5> QED
            BY <1>14
      <4> QED
          BY <1>2, <2>1, <2>4, <4>1
    <3>2. ASSUME NEW i \in DOMAIN tpCounts'
          PROVE  LET d == Describe(At(frontier[Root], i), Particle)
                 IN  tpCounts'[i] = d.n /\ keyRanges'[i] = <<d.smallest, d.largest>>
      <4>1. i \in DOMAIN h /\ tpCounts'[i] = h[i].n
            /\ keyRanges'[i] = <<h[i].smallest, h[i].largest>>
        <5> HIDE DEF h
        <5> QED
            BY <1>14
      <4>2. Alike(h[i], Describe(At(F, i), Particle))
          BY <1>7, <4>1 DEF Describes
      <4> HIDE DEF h
      <4> QED
          BY <4>1, <4>2 DEF Alike, F
    <3>3. \A i \in DOMAIN tpCounts' :
             Describe(At(frontier[Root], i), Particle)' = Describe(At(frontier[Root], i), Particle)
        BY <1>3 DEF Describe
    <3> QED
        BY <3>1, <3>2, <3>3 DEF RangesExact
  <2> QED
      BY <2>5, <2>6, <2>7, <2>8, <2>9, <2>10, <2>11, <2>12, <2>13, <2>14 DEF DecompInv
<1> QED
    BY <1>6, <1>10, <1>12, <1>13, <1>14

LEMMA StutterInv ==
    ASSUME DecompInv, UNCHANGED vars
    PROVE  DecompInv'
<1>1. /\ keyOf' = keyOf /\ cost' = cost /\ owner' = owner
      /\ stage' = stage /\ frontier' = frontier /\ contribution' = contribution
      /\ splitters' = splitters /\ numTreePieces' = numTreePieces /\ rangeMsgs' = rangeMsgs
      /\ keyRanges' = keyRanges /\ tpCounts' = tpCounts /\ sentTo' = sentTo
    BY DEF vars, input, outcome
<1>2. Types' /\ FirstRound' /\ Agreement' /\ SplittersOK' /\ Settled'
    BY <1>1 DEF DecompInv, Types, FirstRound, Agreement, LeavesToCome, SplittersOK, Settled, Begun
<1>3. \A pe \in PE : StageOK(pe)'
  <2> SUFFICES ASSUME NEW pe \in PE PROVE StageOK(pe)'
      OBVIOUS
  <2>1. Histogram(pe, frontier[pe])' = Histogram(pe, frontier[pe])
      BY <1>1 DEF Histogram, Describe
  <2>2. StageOK(pe)
      BY DEF DecompInv
  <2> QED
      BY <1>1, <2>1, <2>2 DEF StageOK, Begun
<1>4. SentOK' /\ BudgetRespected' /\ WellSpent'
    BY <1>1 DEF DecompInv, SentOK, TreePieceOf, BudgetRespected, WellSpent
<1>5. RangesExact'
  <2>1. \A i \in DOMAIN tpCounts :
           Describe(At(frontier[Root], i), Particle)' = Describe(At(frontier[Root], i), Particle)
      BY <1>1 DEF Describe
  <2> QED
      BY <1>1, <2>1 DEF DecompInv, RangesExact
<1> QED
    BY <1>2, <1>3, <1>4, <1>5 DEF DecompInv

LEMMA NextInv ==
    ASSUME DecompInv, Next
    PROVE  DecompInv'
<1>1. CASE ReceiveHistogram
    BY <1>1, ReceiveHistogramInv
<1>2. ASSUME NEW pe \in PE, Decompose(pe) PROVE DecompInv'
    BY <1>2, DecomposeInv
<1>3. ASSUME NEW pe \in PE, ReceiveSplitters(pe) PROVE DecompInv'
    BY <1>3, ReceiveSplittersInv
<1>4. ASSUME NEW pe \in PE, SendParticles(pe) PROVE DecompInv'
    BY <1>4, SendParticlesInv
<1> QED
    BY <1>1, <1>2, <1>3, <1>4 DEF Next

\* The protocol keeps its invariant.
THEOREM DecompositionInvariant ==
    Spec => []DecompInv
<1>1. Init => DecompInv
    BY InitInv
<1>2. DecompInv /\ [Next]_vars => DecompInv'
    BY NextInv, StutterInv
<1> QED
    BY <1>1, <1>2, PTL DEF Spec

----------------------------------------------------------------------------
(* What follows from it. *)

LEMMA InvLeavesAgree ==
    DecompInv => LeavesAgree
<1> SUFFICES ASSUME DecompInv PROVE LeavesAgree
    OBVIOUS
<1>1. FrontierTiles
    BY TilesCount DEF DecompInv, StageOK, Begun, FrontierTiles
<1>2. SplittersApply
  <2> SUFFICES ASSUME NEW pe \in PE, NEW i \in splitters[pe]
               PROVE  i <= Cardinality(frontier[pe]) /\ At(frontier[pe], i).size > 1
      BY DEF SplittersApply
  <2>1. i \in 1 .. Cardinality(frontier[pe]) /\ At(frontier[pe], i).size > 1
      BY DEF DecompInv, SplittersOK, CanSplit
  <2>2. Tiles(frontier[pe])
      BY DEF DecompInv, StageOK, Begun
  <2>3. Cardinality(frontier[pe]) \in Nat
      BY <2>2, TilesFinite, KeySpaceType
  <2> QED
      BY <2>1, <2>3
<1> QED
    BY <1>1, <1>2 DEF LeavesAgree

\* PEs that exchange nothing but positions agree on the leaves, and every
\* position PE 0 names is that of a leaf that can be split, on every PE
\* (ActiveBinInfo::processRefine, Node::refine).
THEOREM LeavesAlwaysAgree ==
    Spec => []LeavesAgree
BY InvLeavesAgree, DecompositionInvariant, PTL

\* The budget of TreePieces is never exceeded, PE 0's count is the number of
\* its leaves, and the refinement ends only when no leaf can be split or one
\* more split would exceed the budget (receiveHistogram).
THEOREM BudgetAlwaysWellSpent ==
    Spec => []BudgetWellSpent
<1>1. DecompInv => BudgetWellSpent
    BY DEF DecompInv, BudgetWellSpent
<1> QED
    BY <1>1, DecompositionInvariant, PTL

\* Once PE 0 has its leaves, a PE's leaves are the same.
LEMMA SettledLeaves ==
    ASSUME DecompInv, stage[Root] = "flushed", NEW pe \in PE
    PROVE  frontier[pe] = frontier[Root] /\ Tiles(frontier[Root])
<1>1. Root \in PE
    BY PEsFinite
<1>2. \A qe \in PE : splitters[qe] = {} /\ Begun(qe)
    BY DEF DecompInv, Settled, StageOK, Begun
<1>3. LeavesToCome(pe) = LeavesToCome(Root)
    BY <1>1, <1>2 DEF DecompInv, Agreement
<1>4. frontier[pe] = frontier[Root]
    BY <1>1, <1>2, <1>3, RefinedNone DEF LeavesToCome
<1>5. Tiles(frontier[Root])
    BY <1>1, <1>2 DEF DecompInv, StageOK
<1> QED
    BY <1>4, <1>5

\* A particle that has been flushed is at the TreePiece whose leaf it is below.
LEMMA SentToItsLeaf ==
    ASSUME DecompInv, NEW p \in Particle, stage[owner[p]] = "flushed",
           NEW i \in 1 .. Cardinality(frontier[Root])
    PROVE  sentTo[p] = i - 1 <=> Covers(At(frontier[Root], i), keyOf[p])
<1> DEFINE F == frontier[Root]
           b == CHOOSE c \in F : Covers(c, keyOf[p])
<1>1. owner[p] \in PE /\ keyOf[p] \in Key
    BY DEF DecompInv, Types
<1>2. stage[Root] = "flushed"
    BY <1>1 DEF DecompInv, StageOK
<1>3. frontier[owner[p]] = F /\ Tiles(F)
    BY <1>1, <1>2, SettledLeaves
<1>4. sentTo[p] = Position(F, b) - 1
    BY <1>3 DEF DecompInv, SentOK, TreePieceOf
<1>5. b \in F /\ Covers(b, keyOf[p])
    BY <1>1, <1>3 DEF Tiles
<1>6. Position(F, b) \in Int /\ i \in Int /\ At(F, Position(F, b)) = b
    BY <1>3, <1>5, Positions
<1>7. At(F, i) \in F /\ Position(F, At(F, i)) = i
    BY <1>3, Positions
<1>8. sentTo[p] = i - 1 <=> b = At(F, i)
  <2>1. sentTo[p] = i - 1 <=> Position(F, b) = i
    <3> HIDE DEF b, F
    <3> QED
        BY <1>4, <1>6
  <2> QED
      BY <1>6, <1>7, <2>1
<1>9. b = At(F, i) <=> Covers(At(F, i), keyOf[p])
    BY <1>1, <1>3, <1>5, <1>7 DEF Tiles
<1> QED
    BY <1>8, <1>9

LEMMA FlushesAgree ==
    DecompInv => FlushAgrees
<1> SUFFICES ASSUME DecompInv PROVE FlushAgrees
    OBVIOUS
<1> DEFINE F == frontier[Root]
           d(i) == Describe(At(F, i), Particle)
<1>1. Root \in PE /\ InputType
    BY PEsFinite DEF DecompInv, Types, InputType
<1>2. ASSUME stage[Root] = "flushed", NEW i \in DOMAIN tpCounts
      PROVE  /\ i \in 1 .. Cardinality(F) /\ At(F, i) \in Bin
             /\ tpCounts[i] = d(i).n /\ keyRanges[i][1] = d(i).smallest
             /\ keyRanges[i][2] = d(i).largest
  <2>1. /\ DOMAIN tpCounts = 1 .. numTreePieces[Root]
        /\ tpCounts[i] = d(i).n /\ keyRanges[i] = <<d(i).smallest, d(i).largest>>
      BY <1>2 DEF DecompInv, RangesExact
  <2>2. Tiles(F)
      BY <1>1, <1>2, SettledLeaves
  <2>3. numTreePieces[Root] = Cardinality(F)
    <3>1. splitters[Root] = {}
        BY <1>1, <1>2 DEF DecompInv, Settled
    <3> QED
        BY <1>2, <3>1, RefinedNone DEF DecompInv, BudgetRespected
  <2>4. i \in 1 .. Cardinality(F)
      BY <2>1, <2>3
  <2>5. At(F, i) \in Bin
      BY <2>2, <2>4, Positions DEF Tiles
  <2> HIDE DEF d
  <2> QED
      BY <2>1, <2>4, <2>5
<1>3. ASSUME NEW p \in Particle, sentTo[p] # -1, NEW i \in DOMAIN tpCounts
      PROVE  sentTo[p] = i - 1 <=> /\ tpCounts[i] > 0
                                   /\ keyRanges[i][1] <= keyOf[p]
                                   /\ keyOf[p] <= keyRanges[i][2]
  <2>1. owner[p] \in PE /\ stage[owner[p]] = "flushed" /\ keyOf[p] \in Key
      BY <1>3 DEF DecompInv, Types, SentOK
  <2>2. stage[Root] = "flushed"
      BY <2>1 DEF DecompInv, StageOK
  <2>3. /\ i \in 1 .. Cardinality(F) /\ At(F, i) \in Bin
        /\ tpCounts[i] = d(i).n /\ keyRanges[i][1] = d(i).smallest
        /\ keyRanges[i][2] = d(i).largest
      BY <1>2, <2>2
  <2>4. sentTo[p] = i - 1 <=> Covers(At(F, i), keyOf[p])
      BY <2>1, <2>3, SentToItsLeaf
  <2>5. ASSUME Covers(At(F, i), keyOf[p])
        PROVE  d(i).n > 0 /\ d(i).smallest <= keyOf[p] /\ keyOf[p] <= d(i).largest
    <3>1. p \in Mine(At(F, i), Particle)
        BY <2>5 DEF Mine
    <3>2. d(i).n \in Nat /\ d(i).n # 0
        BY <1>1, <2>3, <3>1, DescribeFacts, ParticlesFinite, MineFinite
    <3>3. d(i).smallest <= keyOf[p] /\ keyOf[p] <= d(i).largest
        BY <1>1, <2>3, <3>1, DescribeFacts
    <3> HIDE DEF d
    <3> QED
        BY <3>2, <3>3
  <2>6. ASSUME d(i).smallest <= keyOf[p], keyOf[p] <= d(i).largest
        PROVE  Covers(At(F, i), keyOf[p])
    <3> DEFINE b == At(F, i)
    <3>1. /\ Covers(b, d(i).smallest) /\ d(i).smallest \in Nat
          /\ Covers(b, d(i).largest) /\ d(i).largest \in Nat
        BY <1>1, <2>3, DescribeCovers, KeySpaceType
    <3>2. b.first \in Nat /\ b.size \in Nat /\ keyOf[p] \in Nat
        BY <2>1, <2>3, BinWithin, KeySpaceType
    <3> HIDE DEF d, b
    <3>3. Covers(b, keyOf[p])
        BY <2>6, <3>1, <3>2 DEF Covers
    <3> QED
        BY <3>3 DEF b
  <2> HIDE DEF d, F
  <2> QED
      BY <2>3, <2>4, <2>5, <2>6
<1>4. ASSUME \A pe \in PE : stage[pe] = "flushed", NEW i \in DOMAIN tpCounts
      PROVE  Cardinality({p \in Particle : sentTo[p] = i - 1}) = tpCounts[i]
  <2>1. i \in 1 .. Cardinality(F) /\ At(F, i) \in Bin /\ tpCounts[i] = d(i).n
      BY <1>1, <1>2, <1>4
  <2>2. \A p \in Particle : stage[owner[p]] = "flushed"
      BY <1>4 DEF DecompInv, Types
  <2>3. {p \in Particle : sentTo[p] = i - 1} = Mine(At(F, i), Particle)
      BY <2>1, <2>2, SentToItsLeaf DEF Mine
  <2>4. d(i).n = Cardinality(Mine(At(F, i), Particle))
      BY <1>1, <2>1, DescribeFacts
  <2> QED
      BY <2>1, <2>3, <2>4
<1> QED
    BY <1>3, <1>4 DEF FlushAgrees

\* The counts and ranges PE 0 broadcasts are true of all particles, and every
\* PE flushes each particle to the TreePiece whose range has its key
\* (receiveHistogram, sendParticles, flushParticles).
THEOREM AlwaysHandedOver ==
    Spec => []HandedOver
<1>1. DecompInv => HandedOver
    BY FlushesAgree DEF DecompInv, HandedOver
<1> QED
    BY <1>1, DecompositionInvariant, PTL

\* Variables have their types: no count of TreePieces, splitter or TreePiece
\* of a particle is outside its array.
THEOREM DecompositionTypes ==
    Spec => []TypeOK
<1>1. ASSUME DecompInv PROVE TypeOK
  <2>1. Types /\ InputType /\ Root \in PE /\ Budget \in Nat
      BY <1>1, PEsFinite, ConstantsAssumption DEF DecompInv, Types, InputType
  <2>2. ASSUME NEW pe \in PE
        PROVE  /\ frontier[pe] \subseteq Bin
               /\ splitters[pe] \subseteq IndexSet
               /\ DOMAIN contribution[pe] \subseteq IndexSet
               /\ \A i \in DOMAIN contribution[pe] : contribution[pe][i] \in Descriptor
    <3>1. frontier[pe] \subseteq Bin
        BY <2>1 DEF Types
    <3>2. Begun(pe) => Tiles(frontier[pe]) /\ 1 .. Cardinality(frontier[pe]) \subseteq IndexSet
      <4> SUFFICES ASSUME Begun(pe)
                   PROVE  Tiles(frontier[pe]) /\ 1 .. Cardinality(frontier[pe]) \subseteq IndexSet
          OBVIOUS
      <4>1. Tiles(frontier[pe])
          BY <1>1 DEF DecompInv, StageOK
      <4>2. Cardinality(frontier[pe]) \in 1 .. KeySpace
          BY <4>1, TilesFinite
      <4> QED
          BY <4>1, <4>2, KeySpaceType DEF IndexSet
    <3>3. splitters[pe] \subseteq IndexSet
        BY <1>1, <3>2 DEF DecompInv, SplittersOK, CanSplit, StageOK, Begun
    <3>4. CASE contribution[pe] = <<>>
        BY <3>1, <3>3, <3>4
    <3>5. CASE contribution[pe] # <<>>
      <4>1. contribution[pe] = Histogram(pe, frontier[pe]) /\ Begun(pe)
          BY <1>1, <3>5 DEF DecompInv, StageOK, Begun
      <4>2. DOMAIN contribution[pe] = 1 .. Cardinality(frontier[pe])
          BY <4>1 DEF Histogram
      <4>3. ASSUME NEW i \in DOMAIN contribution[pe]
            PROVE  contribution[pe][i] \in Descriptor
        <5>1. At(frontier[pe], i) \in Bin
            BY <3>1, <3>2, <4>1, <4>2, Positions
        <5>2. {p \in Particle : owner[p] = pe} \in SUBSET Particle
            OBVIOUS
        <5>3. contribution[pe][i] = Describe(At(frontier[pe], i), {p \in Particle : owner[p] = pe})
            BY <4>1, <4>2 DEF Histogram
        <5> QED
            BY <2>1, <5>1, <5>2, <5>3, DescribeFacts
      <4> QED
          BY <3>1, <3>2, <3>3, <4>1, <4>2, <4>3
    <3> QED
        BY <3>4, <3>5
  <2>3. ASSUME NEW p \in Particle PROVE sentTo[p] \in -1 .. Budget - 1
    <3>1. owner[p] \in PE /\ keyOf[p] \in Key
        BY <2>1 DEF Types
    <3>2. CASE stage[owner[p]] # "flushed"
        BY <1>1, <2>1, <3>2 DEF DecompInv, SentOK
    <3>3. CASE stage[owner[p]] = "flushed"
      <4> DEFINE F == frontier[Root]
                 b == CHOOSE c \in F : Covers(c, keyOf[p])
      <4>1. stage[Root] = "flushed"
          BY <1>1, <3>1, <3>3 DEF DecompInv, StageOK
      <4>2. frontier[owner[p]] = F /\ Tiles(F)
          BY <1>1, <3>1, <4>1, SettledLeaves
      <4>3. Cardinality(F) <= Budget
        <5>1. splitters[Root] = {}
            BY <1>1, <2>1, <4>1 DEF DecompInv, Settled
        <5> QED
            BY <1>1, <4>1, <5>1, RefinedNone DEF DecompInv, BudgetRespected
      <4>4. Position(F, b) \in 1 .. Cardinality(F) /\ Cardinality(F) \in Nat
        <5>1. b \in F
            BY <3>1, <4>2 DEF Tiles
        <5>2. Cardinality(F) \in Nat
            BY <4>2, TilesFinite, KeySpaceType
        <5> QED
            BY <4>2, <5>1, <5>2, Positions
      <4>5. sentTo[p] = Position(F, b) - 1
          BY <1>1, <3>3, <4>2 DEF DecompInv, SentOK, TreePieceOf
      <4> HIDE DEF F, b
      <4> QED
          BY <2>1, <4>3, <4>4, <4>5
    <3> QED
        BY <3>2, <3>3
  <2>4. sentTo \in [Particle -> -1 .. Budget - 1]
      BY <2>1, <2>3 DEF Types
  <2> QED
      BY <2>1, <2>2, <2>4 DEF TypeOK, Types
<1> QED
    BY <1>1, DecompositionInvariant, PTL

----------------------------------------------------------------------------
(* The first decomposition, of particles that have been loaded.  What it needs *)
(* of the loader is that every particle is on some PE.                         *)

LoadInv == DecompInv /\ (loading # "run" => \A pe \in PE : stage[pe] = "idle")

LEMMA CommenceInv ==
    ASSUME LoadInv, LoadedExactly, Commence
    PROVE  LoadInv'
<1>1. /\ loading = "load" /\ DOMAIN slice = PE /\ loading' = "run"
      /\ owner' = [p \in Particle |-> CHOOSE pe \in PE : \E r \in slice[pe] : r.record = p - 1]
      /\ keyOf' \in [Particle -> Key]
      /\ cost' = cost /\ stage' = stage /\ frontier' = frontier
      /\ contribution' = contribution /\ splitters' = splitters
      /\ numTreePieces' = numTreePieces /\ rangeMsgs' = rangeMsgs
      /\ keyRanges' = keyRanges /\ tpCounts' = tpCounts /\ sentTo' = sentTo
    BY InputAssumption DEF Commence, outcome
<1>2. DecompInv /\ Root \in PE /\ \A pe \in PE : stage[pe] = "idle"
    BY <1>1, PEsFinite DEF LoadInv
<1>3. \A p \in Particle : owner'[p] \in PE
  <2> SUFFICES ASSUME NEW p \in Particle
               PROVE  \E pe \in PE : \E r \in slice[pe] : r.record = p - 1
      BY <1>1
  <2> DEFINE r == [id |-> p - 1, record |-> p - 1]
  <2>1. UNION {slice[pe] : pe \in PE} = {[id |-> q - 1, record |-> q - 1] : q \in Particle}
      BY <1>1 DEF LoadedExactly
  <2>2. r \in UNION {slice[pe] : pe \in PE}
      BY <2>1
  <2>3. PICK pe \in PE : r \in slice[pe]
      BY <2>2
  <2> QED
      BY <2>3
<1>4. Types'
  <2>1. owner' \in [Particle -> PE]
      BY <1>1, <1>3
  <2>2. Types
      BY <1>2 DEF DecompInv
  <2> QED
      BY <1>1, <2>1, <2>2 DEF Types
<1>5. \A pe \in PE : StageOK(pe)'
  <2> SUFFICES ASSUME NEW pe \in PE PROVE StageOK(pe)'
      OBVIOUS
  <2>1. StageOK(pe) /\ stage[pe] = "idle"
      BY <1>2 DEF DecompInv
  <2> QED
      BY <1>1, <2>1 DEF StageOK, Begun
<1>6. FirstRound' /\ Agreement'
    BY <1>1, <1>2 DEF FirstRound, Agreement, Begun
<1>7. SplittersOK' /\ Settled'
    BY <1>1, <1>2 DEF DecompInv, SplittersOK, Settled
<1>8. SentOK'
  <2>1. \A p \in Particle : owner[p] \in PE
      BY <1>2 DEF DecompInv, Types
  <2>2. \A p \in Particle : sentTo[p] = -1
      BY <1>2, <2>1 DEF DecompInv, SentOK
  <2>3. \A p \in Particle : stage'[owner'[p]] # "flushed"
      BY <1>1, <1>2, <1>3
  <2> QED
      BY <1>1, <2>2, <2>3 DEF SentOK
<1>9. BudgetRespected' /\ WellSpent' /\ RangesExact'
    BY <1>1, <1>2 DEF DecompInv, BudgetRespected, WellSpent, RangesExact
<1> QED
    BY <1>1, <1>4, <1>5, <1>6, <1>7, <1>8, <1>9 DEF LoadInv, DecompInv

LEMMA InputInv ==
    InputSpec /\ []LoadedExactly => []LoadInv
<1>1. InputInit => LoadInv
  <2>1. InputInit => Init
      BY DEF InputInit, LoadInit, LaterInit
  <2>2. Init => DecompInv /\ \A pe \in PE : stage[pe] = "idle"
      BY InitInv DEF Init
  <2> QED
      BY <2>1, <2>2 DEF LoadInv
<1>2. LoadInv /\ LoadedExactly /\ [InputNext]_allVars => LoadInv'
  <2> SUFFICES ASSUME LoadInv, LoadedExactly, [InputNext]_allVars PROVE LoadInv'
      OBVIOUS
  <2>1. ASSUME UNCHANGED vars, loading' = loading \/ loading # "run"
        PROVE  LoadInv'
    <3>1. DecompInv' /\ stage' = stage
        BY <2>1, StutterInv DEF LoadInv, vars
    <3> QED
        BY <2>1, <3>1 DEF LoadInv
  <2>2. CASE Scan
      BY <2>1, <2>2 DEF Scan, Abort
  <2>3. ASSUME NEW i \in DOMAIN peOf, LoadParticlesCsv(i) PROVE LoadInv'
      BY <2>1, <2>3 DEF LoadParticlesCsv
  <2>4. ASSUME NEW i \in DOMAIN peOf, ReceiveCsvCounts(i) PROVE LoadInv'
      BY <2>1, <2>4 DEF ReceiveCsvCounts, Abort
  <2>5. ASSUME NEW i \in DOMAIN peOf, LoadParticlesBinary(i) PROVE LoadInv'
      BY <2>1, <2>5 DEF LoadParticlesBinary, Abort
  <2>6. CASE Commence
      BY <2>6, CommenceInv
  <2>7. CASE Rounds
    <3>1. loading = "run" /\ loading' = loading /\ Next
        BY <2>7 DEF Rounds, loader
    <3>2. DecompInv'
        BY <3>1, NextInv DEF LoadInv
    <3> QED
        BY <3>1, <3>2 DEF LoadInv
  <2>8. CASE UNCHANGED allVars
      BY <2>1, <2>8 DEF allVars, loader
  <2> QED
      BY <2>2, <2>3, <2>4, <2>5, <2>6, <2>7, <2>8 DEF InputNext
<1> QED
    BY <1>1, <1>2, PTL DEF InputSpec

\* Whatever file the run begins with, if it is loaded as LoadedExactly says the
\* leaves agree, the budget is kept and made use of, and what is handed over is
\* true (commence, decompose).
THEOREM LoadedAndDecomposed ==
    InputSpec /\ []LoadedExactly => [](LeavesAgree /\ BudgetWellSpent /\ HandedOver)
<1>1. LoadInv => LeavesAgree /\ BudgetWellSpent /\ HandedOver
    BY InvLeavesAgree, FlushesAgree DEF LoadInv, DecompInv, BudgetWellSpent, HandedOver
<1> QED
    BY <1>1, InputInv, PTL

----------------------------------------------------------------------------
(* Any file of any number of particles is loaded by any number of PEs as       *)
(* LoadedExactly says: whichever lines fall into whose range of bytes, each    *)
(* record is read once.  What the PEs sum up is the number of records that     *)
(* begin before a byte, by which a PE finds the line of a record's number.     *)

----------------------------------------------------------------------------
(* Functions that grow, and division. *)

LEMMA Grows ==
    ASSUME NEW lo \in Int, NEW hi \in Int, NEW F,
           \A i \in lo .. hi : F[i] \in Nat,
           \A i \in lo .. hi - 1 : F[i] <= F[i + 1]
    PROVE  \A i, j \in lo .. hi : i <= j => F[i] <= F[j]
<1> DEFINE Bad == {d \in Nat : \E i \in lo .. hi : i + d <= hi /\ ~(F[i] <= F[i + d])}
<1>1. Bad = {}
  <2> SUFFICES ASSUME Bad # {} PROVE FALSE
      OBVIOUS
  <2>1. Bad \in SUBSET Nat
      OBVIOUS
  <2>2. PICK d \in Bad : \A k \in Bad : d <= k
    <3> HIDE DEF Bad
    <3> QED
        BY <2>1, Least
  <2>3. PICK i \in lo .. hi : i + d <= hi /\ ~(F[i] <= F[i + d])
      OBVIOUS
  <2>4. d # 0
      BY <2>3
  <2>5. /\ d - 1 \in Nat /\ ~(d <= d - 1) /\ i + (d - 1) \in lo .. hi - 1
        /\ i + (d - 1) \in lo .. hi /\ (i + (d - 1)) + 1 = i + d /\ i + d \in lo .. hi
        /\ i + (d - 1) <= hi
      BY <2>3, <2>4
  <2>6. d - 1 \notin Bad
      BY <2>2, <2>5
  <2>7. F[i] <= F[i + (d - 1)]
      BY <2>5, <2>6
  <2>8. F[i + (d - 1)] <= F[i + d]
      BY <2>5
  <2>9. F[i] \in Nat /\ F[i + (d - 1)] \in Nat /\ F[i + d] \in Nat
      BY <2>5
  <2> QED
      BY <2>3, <2>7, <2>8, <2>9
<1>2. ASSUME NEW i \in lo .. hi, NEW j \in lo .. hi, i <= j PROVE F[i] <= F[j]
  <2>1. j - i \in Nat /\ i + (j - i) = j /\ j <= hi
      BY <1>2
  <2> QED
      BY <1>1, <2>1
<1> QED
    BY <1>2

\* What is cut at growing points is in one of the parts.
LEMMA Parts ==
    ASSUME NEW n \in Nat \ {0}, NEW F,
           \A i \in 0 .. n : F[i] \in Nat, F[0] = 0,
           NEW k \in Nat, k < F[n]
    PROVE  \E i \in 0 .. n - 1 : F[i] <= k /\ k < F[i + 1]
<1> DEFINE T == {i \in 0 .. n : k < F[i]}
<1>1. T \in SUBSET Nat /\ n \in T
    OBVIOUS
<1>2. PICK i \in T : \A j \in T : i <= j
  <2> HIDE DEF T
  <2> QED
      BY <1>1, Least
<1>3. i # 0
    OBVIOUS
<1>4. i - 1 \in 0 .. n - 1 /\ i - 1 \in 0 .. n /\ ~(i <= i - 1) /\ (i - 1) + 1 = i
    BY <1>3
<1>5. ~(k < F[i - 1]) /\ F[i - 1] \in Nat
    BY <1>2, <1>4
<1> QED
    BY <1>4, <1>5

LEMMA Division ==
    ASSUME NEW a \in Nat, NEW p \in Nat \ {0}
    PROVE  /\ a \div p \in Nat
           /\ p * (a \div p) <= a /\ a < p * (a \div p) + p
           /\ a = p * (a \div p) + (a % p) /\ a % p \in 0 .. p - 1
<1>1. a \div p \in Nat /\ a % p \in 0 .. p - 1
    OBVIOUS
<1>2. a = p * (a \div p) + (a % p)
    OBVIOUS
<1> DEFINE m == p * (a \div p)
<1>3. m \in Nat
    BY <1>1
<1>4. a = m + (a % p)
    BY <1>2
<1> HIDE DEF m
<1>5. m <= a /\ a < m + p
    BY <1>1, <1>3, <1>4
<1> QED
    BY <1>1, <1>2, <1>5 DEF m

\* The quotient is the only number that fits.
LEMMA Quotient ==
    ASSUME NEW a \in Nat, NEW p \in Nat \ {0}, NEW q \in Nat, p * q <= a, a < p * q + p
    PROVE  a \div p = q
<1> DEFINE r == a \div p
<1>1. r \in Nat /\ p * r <= a /\ a < p * r + p
    BY Division
<1> HIDE DEF r
<1>2. ASSUME q < r PROVE FALSE
  <2>1. p * (q + 1) <= p * r
      BY <1>1, <1>2
  <2>2. p * (q + 1) = p * q + p
      OBVIOUS
  <2> QED
      BY <1>1, <2>1, <2>2
<1>3. ASSUME r < q PROVE FALSE
  <2>1. p * (r + 1) <= p * q
      BY <1>1, <1>3
  <2>2. p * (r + 1) = p * r + p
      BY <1>1
  <2> QED
      BY <1>1, <2>1, <2>2
<1>4. r = q
    BY <1>1, <1>2, <1>3
<1> QED
    BY <1>4 DEF r

\* Adding b to the dividend adds b's quotient, or one more.
LEMMA QuotientGrows ==
    ASSUME NEW a \in Nat, NEW b \in Nat, NEW p \in Nat \ {0}
    PROVE  /\ a \div p <= (a + b) \div p
           /\ (a + b) \div p - a \div p \in {b \div p, b \div p + 1}
<1> DEFINE q == a \div p
           r == b \div p
<1>1. q \in Nat /\ p * q <= a /\ a < p * q + p
    BY Division
<1>2. r \in Nat /\ p * r <= b /\ b < p * r + p
    BY Division
<1> HIDE DEF q, r
<1>3. p * (q + r) = p * q + p * r /\ p * (q + r + 1) = p * q + p * r + p
    BY <1>1, <1>2
<1>4. q + r \in Nat /\ q + r + 1 \in Nat /\ p * q \in Nat /\ p * r \in Nat
    BY <1>1, <1>2
<1>5. (a + b) \div p = q + r \/ (a + b) \div p = q + r + 1
  <2>1. CASE a + b < p * (q + r) + p
    <3>1. (a + b) \div p = q + r
        BY <1>1, <1>2, <1>3, <1>4, <2>1, Quotient
    <3> QED
        BY <3>1
  <2>2. CASE ~(a + b < p * (q + r) + p)
    <3>1. (a + b) \div p = q + r + 1
        BY <1>1, <1>2, <1>3, <1>4, <2>2, Quotient
    <3> QED
        BY <3>1
  <2> QED
      BY <2>1, <2>2
<1>6. q <= (a + b) \div p /\ (a + b) \div p - q \in {r, r + 1}
    BY <1>4, <1>5, <1>1, <1>2
<1> QED
    BY <1>6 DEF q, r

----------------------------------------------------------------------------
(* Numbering a finite set of natural numbers. *)

\* How many of A come before n.
Before(A, n) == Cardinality({m \in A : m < n})

LEMMA BeforeType ==
    ASSUME NEW A \in SUBSET Nat, IsFiniteSet(A), NEW n \in Nat
    PROVE  Before(A, n) \in Nat /\ Before(A, n) <= Cardinality(A)
<1>1. {m \in A : m < n} \in SUBSET A
    OBVIOUS
<1> QED
    BY <1>1, FS_Subset, FS_CardinalityType DEF Before

LEMMA BeforeGrows ==
    ASSUME NEW A \in SUBSET Nat, IsFiniteSet(A)
    PROVE  /\ \A l, n \in Nat : l <= n => Before(A, l) <= Before(A, n)
           /\ \A l \in A : \A n \in Nat : l < n => Before(A, l) < Before(A, n)
           /\ \A l \in A : Before(A, l) \in 0 .. Cardinality(A) - 1
<1> DEFINE below(n) == {m \in A : m < n}
<1>1. \A n \in Nat : IsFiniteSet(below(n)) /\ Cardinality(below(n)) \in Nat
    BY FS_Subset, FS_CardinalityType
<1>2. \A l, n \in Nat : l <= n => below(l) \in SUBSET below(n)
  <2> SUFFICES ASSUME NEW l \in Nat, NEW n \in Nat, l <= n, NEW m \in A, m < l
               PROVE  m < n
      OBVIOUS
  <2>1. m \in Nat
      OBVIOUS
  <2> QED
      BY <2>1
<1>3. ASSUME NEW l \in Nat, NEW n \in Nat, l <= n PROVE Before(A, l) <= Before(A, n)
  <2>1. below(l) \in SUBSET below(n)
      BY <1>3, <1>2
  <2> QED
      BY <1>1, <2>1, FS_Subset DEF Before
<1>4. ASSUME NEW l \in A, NEW n \in Nat, l < n PROVE Before(A, l) < Before(A, n)
  <2>1. l \in Nat /\ l <= n
      BY <1>4
  <2>2. below(l) \in SUBSET below(n) /\ l \in below(n) /\ l \notin below(l) /\ l \in Nat
      BY <1>4, <1>2, <2>1
  <2>3. Cardinality(below(l)) <= Cardinality(below(n)) /\ Cardinality(below(l)) # Cardinality(below(n))
    <3> HIDE DEF below
    <3> QED
        BY <1>1, <2>2, FS_Subset
  <2>4. Cardinality(below(l)) \in Nat /\ Cardinality(below(n)) \in Nat
      BY <1>1, <2>2
  <2> HIDE DEF below
  <2>5. Cardinality(below(l)) < Cardinality(below(n))
      BY <2>3, <2>4
  <2> QED
      BY <2>5 DEF Before, below
<1>5. ASSUME NEW l \in A PROVE Before(A, l) \in 0 .. Cardinality(A) - 1
  <2>1. below(l) \in SUBSET A /\ l \in A /\ l \notin below(l) /\ l \in Nat
      OBVIOUS
  <2>2. Cardinality(below(l)) <= Cardinality(A) /\ Cardinality(below(l)) # Cardinality(A)
    <3> HIDE DEF below
    <3> QED
        BY <2>1, FS_Subset
  <2>3. Cardinality(below(l)) \in Nat /\ Cardinality(A) \in Nat
      BY <1>1, <2>1, FS_CardinalityType
  <2> HIDE DEF below
  <2>4. Cardinality(below(l)) \in 0 .. Cardinality(A) - 1
      BY <2>2, <2>3
  <2> QED
      BY <2>4 DEF Before, below
<1> QED
    BY <1>3, <1>4, <1>5

\* As many have a number below k as there are such numbers.
LEMMA NumberedBelow ==
    ASSUME NEW A \in SUBSET Nat, IsFiniteSet(A), NEW k \in Nat, k <= Cardinality(A)
    PROVE  Cardinality({n \in A : Before(A, n) < k}) = k
<1> DEFINE low(j) == {n \in A : Before(A, n) < j}
           high(j) == A \ low(j)
           Bad == {j \in Nat : j <= Cardinality(A) /\ Cardinality(low(j)) # j}
<1>1. \A l, n \in A : l < n => Before(A, l) < Before(A, n)
    BY BeforeGrows
<1>2. \A n \in A : n \in Nat /\ Before(A, n) \in Nat
    BY BeforeType
<1>3. Cardinality(A) \in Nat /\ \A j \in Nat : IsFiniteSet(low(j))
    BY FS_CardinalityType, FS_Subset
<1>4. Bad = {}
  <2> SUFFICES ASSUME Bad # {} PROVE FALSE
      OBVIOUS
  <2>1. Bad \in SUBSET Nat
      OBVIOUS
  <2>2. PICK j \in Bad : \A i \in Bad : j <= i
    <3> HIDE DEF Bad
    <3> QED
        BY <2>1, Least
  <2>3. j # 0
    <3>1. \A n \in A : ~(Before(A, n) < 0)
        BY <1>2
    <3>2. low(0) = {}
        BY <3>1
    <3> QED
        BY <3>2, FS_EmptySet
  <2>4. j - 1 \in Nat /\ j - 1 < Cardinality(A) /\ j - 1 \notin Bad
      BY <1>3, <2>2, <2>3
  <2> DEFINE i == j - 1
  <2>5. Cardinality(low(i)) = i
      BY <1>3, <2>4
  <2>6. high(i) # {}
    <3>1. ASSUME high(i) = {} PROVE FALSE
      <4>1. low(i) = A
          BY <3>1
      <4> QED
          BY <1>3, <2>4, <2>5, <4>1
    <3> QED
        BY <3>1
  <2>7. high(i) \in SUBSET Nat
      OBVIOUS
  <2>8. PICK n \in high(i) : \A m \in high(i) : n <= m
    <3> HIDE DEF high
    <3> QED
        BY <2>6, <2>7, Least
  <2>9. {m \in A : m < n} = low(i)
    <3>1. ASSUME NEW m \in A, m < n PROVE m \in low(i)
        BY <1>2, <2>8, <3>1
    <3>2. ASSUME NEW m \in low(i) PROVE m < n
      <4>1. Before(A, m) < i /\ ~(Before(A, n) < i) /\ m # n /\ m \in A /\ n \in A
          BY <2>8
      <4>2. ~(n < m)
          BY <1>1, <1>2, <2>4, <4>1
      <4> QED
          BY <1>2, <4>1, <4>2
    <3> QED
        BY <3>1, <3>2
  <2>10. Before(A, n) = i /\ n \in A
      BY <2>5, <2>8, <2>9 DEF Before
  <2>11. low(j) = low(i) \cup {n}
    <3>1. ASSUME NEW m \in A, Before(A, m) < j PROVE m \in low(i) \cup {n}
      <4>1. CASE Before(A, m) < i
          BY <4>1
      <4>2. CASE ~(Before(A, m) < i)
        <5>1. Before(A, m) = Before(A, n)
            BY <1>2, <2>4, <2>10, <3>1, <4>2
        <5>2. ~(m < n) /\ ~(n < m)
            BY <1>1, <1>2, <2>10, <5>1
        <5>3. m = n
            BY <1>2, <2>10, <5>2
        <5> QED
            BY <5>3
      <4> QED
          BY <4>1, <4>2
    <3>2. ASSUME NEW m \in low(i) \cup {n} PROVE m \in low(j)
        BY <1>2, <2>2, <2>4, <2>10, <3>2
    <3> QED
        BY <3>1, <3>2
  <2>12. n \notin low(i) /\ IsFiniteSet(low(i))
      BY <1>2, <1>3, <2>4, <2>10
  <2>13. Cardinality(low(j)) = i + 1
    <3> HIDE DEF low, i
    <3>1. Cardinality(low(i) \cup {n}) = Cardinality(low(i)) + 1
        BY <2>12, FS_AddElement
    <3> QED
        BY <2>5, <2>11, <3>1
  <2>14. Cardinality(low(j)) = j
      BY <2>4, <2>13
  <2> QED
      BY <2>2, <2>14
<1> QED
    BY <1>4

\* Every number is that of one element.
LEMMA EveryNumber ==
    ASSUME NEW A \in SUBSET Nat, IsFiniteSet(A), NEW k \in Nat, k < Cardinality(A)
    PROVE  \E n \in A : Before(A, n) = k
<1> DEFINE low(j) == {n \in A : Before(A, n) < j}
<1>1. Cardinality(A) \in Nat
    BY FS_CardinalityType
<1>2. k + 1 \in Nat /\ k + 1 <= Cardinality(A) /\ k <= Cardinality(A)
    BY <1>1
<1>3. Cardinality(low(k)) = k /\ Cardinality(low(k + 1)) = k + 1
    BY <1>2, NumberedBelow
<1>4. low(k) # low(k + 1)
    BY <1>3
<1>5. PICK n \in A : ~(Before(A, n) < k <=> Before(A, n) < k + 1)
    BY <1>4
<1>6. Before(A, n) \in Nat
    BY BeforeType
<1> QED
    BY <1>5, <1>6

\* A set that starts at 1 and has no gap.
LEMMA Initial ==
    ASSUME NEW n \in Nat, NEW A \in SUBSET (1 .. n),
           \A i \in A : \A j \in 1 .. i : j \in A
    PROVE  A = 1 .. Cardinality(A) /\ Cardinality(A) \in 0 .. n
<1> DEFINE T == {i \in Nat : i <= n /\ i + 1 \notin A}
<1>1. T \in SUBSET Nat /\ n \in T
    OBVIOUS
<1>2. PICK k \in T : \A i \in T : k <= i
  <2> HIDE DEF T
  <2> QED
      BY <1>1, Least
<1>3. ASSUME NEW i \in A PROVE i \in 1 .. k
  <2>1. ASSUME i > k PROVE FALSE
    <3>1. k + 1 \in 1 .. i
        BY <2>1
    <3> QED
        BY <1>2, <3>1
  <2> QED
      BY <2>1
<1>4. ASSUME NEW i \in 1 .. k PROVE i \in A
  <2>1. i - 1 \in Nat /\ i - 1 <= n /\ ~(k <= i - 1) /\ (i - 1) + 1 = i
      BY <1>2
  <2> QED
      BY <1>2, <2>1
<1>5. A = 1 .. k
    BY <1>3, <1>4
<1>6. Cardinality(1 .. k) = k
    BY FS_Interval
<1> QED
    BY <1>2, <1>5, <1>6

----------------------------------------------------------------------------
(* Lines and ranges of bytes. *)

Csv(f) == f.format = "csv"

LEMMA FileFacts ==
    ASSUME NEW f \in Files, Csv(f)
    PROVE  /\ f.dataOffset \in Nat /\ Len(f.lines) \in Nat /\ DOMAIN f.lines = 1 .. Len(f.lines)
           /\ \A n \in DOMAIN f.lines : f.lines[n].bytes \in Nat \ {0}
           /\ Record(f) \in SUBSET (1 .. Len(f.lines)) /\ Record(f) \in SUBSET Nat
           /\ IsFiniteSet(Record(f)) /\ Cardinality(Record(f)) = NumParticles
<1>1. f.dataOffset \in Nat /\ f.lines \in Seq(CsvLine) /\ Scanned(f) = NumParticles
    BY FilesAssumption DEF Csv
<1>2. Len(f.lines) \in Nat /\ DOMAIN f.lines = 1 .. Len(f.lines)
    BY <1>1
<1>3. \A n \in DOMAIN f.lines : f.lines[n] \in CsvLine
    BY <1>1
<1>4. Record(f) \in SUBSET (1 .. Len(f.lines)) /\ Cardinality(Record(f)) = NumParticles
    BY <1>1, <1>2 DEF Record, Scanned, Csv
<1>5. IsFiniteSet(Record(f))
  <2>1. IsFiniteSet(1 .. Len(f.lines))
      BY <1>2, FS_Interval
  <2> QED
      BY <1>4, <2>1, FS_Subset
<1> QED
    BY <1>1, <1>2, <1>3, <1>4, <1>5 DEF CsvLine

\* Lines begin where the last one ends.
LEMMA LineStarts ==
    ASSUME NEW f \in Files, Csv(f)
    PROVE  /\ LineStart(f, 1) = f.dataOffset
           /\ \A n \in 1 .. Len(f.lines) + 1 : LineStart(f, n) \in Nat
           /\ \A n \in 1 .. Len(f.lines) : LineStart(f, n) < LineStart(f, n + 1)
<1> DEFINE L == Len(f.lines)
           width == [j \in DOMAIN f.lines |-> f.lines[j].bytes]
           sum(n) == SumFunctionOnSet(width, 1 .. n)
<1>1. L \in Nat /\ f.dataOffset \in Nat /\ \A j \in 1 .. L : width[j] \in Nat \ {0}
    BY FileFacts
<1>2. \A n \in Int : LineStart(f, n) = f.dataOffset + sum(n - 1)
    BY DEF LineStart
<1>3. sum(0) = 0
    BY SumOfNone
<1>4. ASSUME NEW n \in 1 .. L
      PROVE  sum(n) = width[n] + sum(n - 1) /\ sum(n) \in Nat
  <2>1. \A j \in 1 .. n : j \in 1 .. L
      BY <1>1
  <2> HIDE DEF width
  <2>2. \A j \in 1 .. n : width[j] \in Nat
      BY <1>1, <2>1
  <2>3. n \in Int /\ 1 <= n
      BY <1>1
  <2> QED
      BY <2>2, <2>3, SumGrows
<1> HIDE DEF width, sum
<1>5. \A n \in 0 .. L : sum(n) \in Nat
    BY <1>1, <1>3, <1>4
<1>6. LineStart(f, 1) = f.dataOffset
    BY <1>1, <1>2, <1>3
<1>7. \A n \in 1 .. L + 1 : LineStart(f, n) \in Nat
  <2> SUFFICES ASSUME NEW n \in 1 .. L + 1 PROVE LineStart(f, n) \in Nat
      OBVIOUS
  <2>1. n \in Int /\ n - 1 \in 0 .. L
      BY <1>1
  <2>2. LineStart(f, n) = f.dataOffset + sum(n - 1) /\ sum(n - 1) \in Nat
      BY <1>2, <1>5, <2>1
  <2> QED
      BY <1>1, <2>2
<1>8. ASSUME NEW n \in 1 .. L PROVE LineStart(f, n) < LineStart(f, n + 1)
  <2>1. LineStart(f, n) = f.dataOffset + sum(n - 1) /\ LineStart(f, n + 1) = f.dataOffset + sum(n)
    <3>1. n \in Int /\ n + 1 \in Int /\ (n + 1) - 1 = n
        BY <1>1
    <3>2. LineStart(f, n + 1) = f.dataOffset + sum((n + 1) - 1)
        BY <1>2, <3>1
    <3> QED
        BY <1>2, <3>1, <3>2
  <2>2. sum(n - 1) \in Nat /\ width[n] \in Nat \ {0} /\ sum(n) = width[n] + sum(n - 1)
      BY <1>1, <1>4, <1>5
  <2> QED
      BY <1>1, <2>1, <2>2
<1> QED
    BY <1>6, <1>7, <1>8

LEMMA LinesInOrder ==
    ASSUME NEW f \in Files, Csv(f)
    PROVE  /\ \A m, n \in 1 .. Len(f.lines) + 1 : m < n => LineStart(f, m) < LineStart(f, n)
           /\ \A n \in 1 .. Len(f.lines) : /\ f.dataOffset <= LineStart(f, n)
                                           /\ LineStart(f, n) < FileSize(f)
           /\ FileSize(f) \in Nat /\ f.dataOffset <= FileSize(f)
<1> DEFINE L == Len(f.lines)
           F == [n \in 1 .. L + 1 |-> LineStart(f, n)]
<1>1. L \in Nat /\ f.dataOffset \in Nat
    BY FileFacts
<1>2. \A n \in 1 .. L + 1 : F[n] = LineStart(f, n) /\ F[n] \in Nat
    BY LineStarts
<1>3. \A n \in 1 .. (L + 1) - 1 : n \in 1 .. L + 1 /\ n + 1 \in 1 .. L + 1 /\ n \in 1 .. L
    BY <1>1
<1>4. \A n \in 1 .. (L + 1) - 1 : F[n] < F[n + 1]
    BY <1>2, <1>3, LineStarts
<1> HIDE DEF F
<1>5. \A n \in 1 .. (L + 1) - 1 : F[n] <= F[n + 1]
    BY <1>2, <1>3, <1>4
<1>6. \A m, n \in 1 .. L + 1 : m <= n => F[m] <= F[n]
  <2>1. 1 \in Int /\ L + 1 \in Int
      BY <1>1
  <2> HIDE DEF L
  <2> QED
      BY <1>2, <1>5, <2>1, Grows
<1>7. ASSUME NEW m \in 1 .. L + 1, NEW n \in 1 .. L + 1, m < n PROVE F[m] < F[n]
  <2>1. m \in 1 .. (L + 1) - 1 /\ m + 1 \in 1 .. L + 1 /\ m + 1 <= n
      BY <1>1, <1>7
  <2>2. F[m] < F[m + 1] /\ F[m + 1] <= F[n]
      BY <1>4, <1>6, <2>1
  <2> QED
      BY <1>2, <2>1, <2>2
<1>8. F[1] = f.dataOffset /\ F[L + 1] = FileSize(f) /\ 1 \in 1 .. L + 1 /\ L + 1 \in 1 .. L + 1
    BY <1>1, <1>2, LineStarts DEF FileSize
<1>9. \A n \in 1 .. L : n \in 1 .. L + 1 /\ 1 <= n /\ n < L + 1
    BY <1>1
<1>10. \A n \in 1 .. L : f.dataOffset <= F[n] /\ F[n] < FileSize(f)
    BY <1>6, <1>7, <1>8, <1>9
<1>11. FileSize(f) \in Nat /\ f.dataOffset <= FileSize(f)
    BY <1>1, <1>2, <1>6, <1>8
<1> QED
    BY <1>2, <1>7, <1>9, <1>10, <1>11

\* The line a PE comes to is the first that begins at its byte or behind it.
LEMMA SeekFindsLine ==
    ASSUME NEW f \in Files, Csv(f), NEW start \in Nat, NEW n \in 1 .. Len(f.lines)
    PROVE  n >= SeekToRecordStart(f, start) <=> LineStart(f, n) >= start
<1> DEFINE L == Len(f.lines)
           passed == {i \in DOMAIN f.lines : LineStart(f, i) < start}
<1>1. L \in Nat /\ DOMAIN f.lines = 1 .. L /\ f.dataOffset \in Nat
    BY FileFacts
<1>2. \A i \in 1 .. L : LineStart(f, i) \in Nat /\ i \in 1 .. L + 1
    BY <1>1, LineStarts
<1>3. CASE start <= f.dataOffset
  <2>1. SeekToRecordStart(f, start) = 1
      BY <1>3 DEF SeekToRecordStart
  <2>2. f.dataOffset <= LineStart(f, n)
      BY LinesInOrder
  <2> QED
      BY <1>1, <1>2, <1>3, <2>1, <2>2
<1>4. CASE ~(start <= f.dataOffset)
  <2>1. SeekToRecordStart(f, start) = 1 + Cardinality(passed)
      BY <1>4 DEF SeekToRecordStart
  <2>2. ASSUME NEW i \in passed, NEW j \in 1 .. i PROVE j \in passed
    <3>1. i \in 1 .. L /\ j \in 1 .. L /\ i \in 1 .. L + 1 /\ j \in 1 .. L + 1 /\ (j < i \/ j = i)
        BY <1>1
    <3>2. LineStart(f, j) <= LineStart(f, i)
        BY <1>2, <3>1, LinesInOrder
    <3>3. LineStart(f, j) < start
        BY <1>2, <3>1, <3>2
    <3> QED
        BY <1>1, <3>1, <3>3
  <2>3. passed \in SUBSET (1 .. L)
      BY <1>1
  <2>4. passed = 1 .. Cardinality(passed) /\ Cardinality(passed) \in 0 .. L
    <3> HIDE DEF passed, L
    <3> QED
        BY <1>1, <2>2, <2>3, Initial
  <2>5. n \in passed <=> LineStart(f, n) < start
      BY <1>1
  <2> HIDE DEF passed
  <2>6. n \in passed <=> n <= Cardinality(passed)
      BY <1>1, <2>4
  <2> QED
      BY <1>1, <1>2, <2>1, <2>4, <2>5, <2>6
<1> QED
    BY <1>3, <1>4

LEMMA NumPes == numPes \in Nat \ {0} /\ DOMAIN peOf = 0 .. numPes - 1
<1>1. Cardinality(PE) \in Nat /\ Cardinality(PE) # 0
    BY ConstantsAssumption, FS_CardinalityType, FS_EmptySet
<1> QED
    BY <1>1, InputAssumption DEF numPes

\* The ranges of bytes cover the file.
LEMMA Ranges ==
    ASSUME NEW f \in Files, Csv(f)
    PROVE  /\ \A i \in 0 .. numPes : RangeStart(f, i) \in Nat
           /\ \A i \in 0 .. numPes - 1 : RangeStart(f, i) <= RangeStart(f, i + 1)
           /\ RangeStart(f, 0) = f.dataOffset /\ RangeStart(f, numPes) = FileSize(f)
<1> DEFINE bytes == FileSize(f) - f.dataOffset
<1>1. bytes \in Nat /\ f.dataOffset \in Nat /\ FileSize(f) = f.dataOffset + bytes
    BY FileFacts, LinesInOrder
<1>2. \A i : RangeStart(f, i) = f.dataOffset + (bytes * i) \div numPes
    BY DEF RangeStart
<1> HIDE DEF bytes
<1>3. \A i \in Nat : bytes * i \in Nat /\ bytes * (i + 1) = bytes * i + bytes
    BY <1>1
<1>4. \A i \in Nat : /\ (bytes * i) \div numPes \in Nat
                     /\ (bytes * i) \div numPes <= (bytes * (i + 1)) \div numPes
  <2> SUFFICES ASSUME NEW i \in Nat
               PROVE  /\ (bytes * i) \div numPes \in Nat
                      /\ (bytes * i) \div numPes <= (bytes * (i + 1)) \div numPes
      OBVIOUS
  <2> DEFINE m == bytes * i
  <2>1. m \in Nat /\ bytes * (i + 1) = m + bytes
      BY <1>3
  <2> HIDE DEF m
  <2>2. m \div numPes \in Nat /\ m \div numPes <= (m + bytes) \div numPes
      BY <1>1, <2>1, NumPes, Division, QuotientGrows
  <2> QED
      BY <2>1, <2>2 DEF m
<1>5. (bytes * 0) \div numPes = 0
  <2>1. bytes * 0 = 0 /\ numPes * 0 = 0
      BY <1>1, NumPes
  <2> QED
      BY <2>1, NumPes, Quotient
<1>6. (bytes * numPes) \div numPes = bytes
  <2>1. bytes * numPes = numPes * bytes /\ bytes * numPes \in Nat
      BY <1>1, NumPes
  <2> QED
      BY <1>1, <2>1, NumPes, Quotient
<1>7. \A i \in 0 .. numPes : i \in Nat
    BY NumPes
<1>8. \A i \in 0 .. numPes - 1 : i \in Nat
    BY NumPes
<1>9. \A i \in Nat : RangeStart(f, i) \in Nat
    BY <1>1, <1>2, <1>4
<1>10. \A i \in 0 .. numPes - 1 : RangeStart(f, i) <= RangeStart(f, i + 1)
  <2> SUFFICES ASSUME NEW i \in 0 .. numPes - 1
               PROVE  RangeStart(f, i) <= RangeStart(f, i + 1)
      OBVIOUS
  <2> DEFINE q == (bytes * i) \div numPes
             r == (bytes * (i + 1)) \div numPes
  <2>1. q \in Nat /\ r \in Nat /\ q <= r
      BY <1>3, <1>4, <1>8
  <2>2. RangeStart(f, i) = f.dataOffset + q /\ RangeStart(f, i + 1) = f.dataOffset + r
      BY <1>2
  <2> HIDE DEF q, r
  <2> QED
      BY <1>1, <2>1, <2>2
<1> QED
    BY <1>1, <1>2, <1>5, <1>6, <1>7, <1>9, <1>10

----------------------------------------------------------------------------
(* What the PEs have counted, and the line of a record's number. *)

\* The records that begin before a byte, and those that begin in a range.
BeginBefore(f, byte) == {n \in Record(f) : LineStart(f, n) < byte}
InRange(f, i) ==
    {n \in Record(f) : RangeStart(f, i) <= LineStart(f, n) /\ LineStart(f, n) < RangeStart(f, i + 1)}

LEMMA LoadedIsInRange ==
    ASSUME NEW f \in Files, Csv(f), NEW i \in 0 .. numPes - 1
    PROVE  InRange(f, i) = {n \in Record(f) : /\ n >= SeekToRecordStart(f, RangeStart(f, i))
                                              /\ LineStart(f, n) < RangeStart(f, i + 1)}
<1>1. RangeStart(f, i) \in Nat
  <2>1. i \in 0 .. numPes
      BY NumPes
  <2> QED
      BY <2>1, Ranges
<1>2. \A n \in Record(f) : n \in 1 .. Len(f.lines) /\ n \in 1 .. Len(f.lines) + 1
    BY FileFacts
<1>3. \A n \in Record(f) :
         n >= SeekToRecordStart(f, RangeStart(f, i)) <=> RangeStart(f, i) <= LineStart(f, n)
  <2> SUFFICES ASSUME NEW n \in Record(f)
               PROVE  n >= SeekToRecordStart(f, RangeStart(f, i)) <=> RangeStart(f, i) <= LineStart(f, n)
      OBVIOUS
  <2>1. LineStart(f, n) \in Nat
      BY <1>2, LineStarts
  <2>2. n >= SeekToRecordStart(f, RangeStart(f, i)) <=> LineStart(f, n) >= RangeStart(f, i)
      BY <1>1, <1>2, SeekFindsLine
  <2> QED
      BY <1>1, <2>1, <2>2
<1> QED
    BY <1>3 DEF InRange

LEMMA RangeCounts ==
    ASSUME NEW f \in Files, Csv(f), NEW i \in 0 .. numPes - 1
    PROVE  /\ Cardinality(InRange(f, i)) \in Nat
           /\ Cardinality(BeginBefore(f, RangeStart(f, i))) \in Nat
           /\ Cardinality(BeginBefore(f, RangeStart(f, i + 1)))
                = Cardinality(InRange(f, i)) + Cardinality(BeginBefore(f, RangeStart(f, i)))
<1> DEFINE A == BeginBefore(f, RangeStart(f, i))
           B == InRange(f, i)
<1>1. A \in SUBSET Record(f) /\ B \in SUBSET Record(f) /\ IsFiniteSet(Record(f))
    BY FileFacts DEF BeginBefore, InRange
<1>2. IsFiniteSet(A) /\ IsFiniteSet(B) /\ Cardinality(A) \in Nat /\ Cardinality(B) \in Nat
    BY <1>1, FS_Subset, FS_CardinalityType
<1>3. i \in 0 .. numPes /\ i + 1 \in 0 .. numPes
    BY NumPes
<1>4. /\ RangeStart(f, i) \in Nat /\ RangeStart(f, i + 1) \in Nat
      /\ RangeStart(f, i) <= RangeStart(f, i + 1)
    BY <1>3, Ranges
<1>5. \A n \in Record(f) : LineStart(f, n) \in Nat
    BY FileFacts, LineStarts
<1>6. A \cap B = {} /\ BeginBefore(f, RangeStart(f, i + 1)) = A \cup B
    BY <1>4, <1>5 DEF BeginBefore, InRange
<1> HIDE DEF A, B
<1>7. Cardinality(A \cup B) = Cardinality(A) + Cardinality(B)
  <2>1. Cardinality(A \cup B) = Cardinality(A) + Cardinality(B) - Cardinality(A \cap B)
      BY <1>2, FS_Union
  <2>2. Cardinality(A \cap B) = 0
      BY <1>6, FS_EmptySet
  <2> QED
      BY <1>2, <2>1, <2>2
<1>8. Cardinality(A) + Cardinality(B) = Cardinality(B) + Cardinality(A)
    BY <1>2
<1> QED
    BY <1>2, <1>6, <1>7, <1>8 DEF A, B

\* Each PE's count is that of its range.
CountsRight == \A i \in 0 .. numPes - 1 : counts[peOf[i]] = Cardinality(InRange(file, i))

\* What the counts sum up to is the number of records that begin before a range.
LEMMA PrefixCounts ==
    ASSUME file \in Files, Csv(file), CountsRight
    PROVE  \A i \in 0 .. numPes :
              Prefix(i) = Cardinality(BeginBefore(file, RangeStart(file, i)))
<1> DEFINE c == [j \in DOMAIN peOf |-> counts[peOf[j]]]
           before(i) == Cardinality(BeginBefore(file, RangeStart(file, i)))
           Bad == {i \in 0 .. numPes : Prefix(i) # before(i)}
<1>1. \A j \in 0 .. numPes - 1 : c[j] = Cardinality(InRange(file, j)) /\ c[j] \in Nat
    BY NumPes, RangeCounts DEF CountsRight
<1>2. Prefix(0) = before(0)
  <2>1. Prefix(0) = 0
      BY SumOfNone DEF Prefix
  <2>2. \A n \in Record(file) : ~(LineStart(file, n) < file.dataOffset)
    <3>1. \A n \in Record(file) : LineStart(file, n) \in Nat /\ file.dataOffset <= LineStart(file, n)
        BY FileFacts, LinesInOrder, LineStarts
    <3> QED
        BY <3>1, FileFacts
  <2>3. BeginBefore(file, RangeStart(file, 0)) = {}
      BY <2>2, Ranges DEF BeginBefore
  <2> QED
      BY <2>1, <2>3, FS_EmptySet
<1>3. Bad = {}
  <2> SUFFICES ASSUME Bad # {} PROVE FALSE
      OBVIOUS
  <2>1. Bad \in SUBSET Nat
      BY NumPes
  <2>2. PICK i \in Bad : \A j \in Bad : i <= j
    <3> HIDE DEF Bad
    <3> QED
        BY <2>1, Least
  <2>3. i # 0
      BY <1>2
  <2> DEFINE j == i - 1
  <2>4. j \in 0 .. numPes - 1 /\ j \in 0 .. numPes /\ j \in Nat /\ ~(i <= j) /\ i = j + 1
      BY <2>3, NumPes
  <2>5. Prefix(j) = before(j)
      BY <2>2, <2>4
  <2>6. before(j + 1) = c[j] + before(j)
      BY <1>1, <2>4, RangeCounts
  <2>7. Prefix(j + 1) = c[j] + Prefix(j)
    <3>1. Prefix(j + 1) = SumFunctionOnSet(c, 0 .. j) /\ Prefix(j) = SumFunctionOnSet(c, 0 .. j - 1)
      <4>1. (j + 1) - 1 = j
          BY <2>4
      <4> QED
          BY <4>1 DEF Prefix
    <3>2. \A k \in 0 .. j : c[k] \in Nat
      <4>1. \A k \in 0 .. j : k \in 0 .. numPes - 1
          BY <2>4, NumPes
      <4> HIDE DEF c, j
      <4> QED
          BY <1>1, <4>1
    <3>3. j \in Int /\ 0 <= j
        BY <2>4
    <3> HIDE DEF c, j
    <3>4. SumFunctionOnSet(c, 0 .. j) = c[j] + SumFunctionOnSet(c, 0 .. j - 1)
        BY <3>2, <3>3, SumGrows
    <3> QED
        BY <3>1, <3>4
  <2> QED
      BY <2>2, <2>4, <2>5, <2>6, <2>7
<1> QED
    BY <1>3

LEMMA PrefixOfAll ==
    ASSUME file \in Files, Csv(file), CountsRight
    PROVE  Prefix(numPes) = NumParticles /\ Prefix(0) = 0
<1>1. \A n \in Record(file) : LineStart(file, n) < FileSize(file)
    BY FileFacts, LinesInOrder
<1>2. BeginBefore(file, RangeStart(file, numPes)) = Record(file)
    BY <1>1, Ranges DEF BeginBefore
<1>3. numPes \in 0 .. numPes
    BY NumPes
<1>4. Prefix(numPes) = NumParticles
    BY <1>2, <1>3, PrefixCounts, FileFacts
<1> QED
    BY <1>4, SumOfNone DEF Prefix

\* The records from a range on, less those the range has too many, are the
\* records from a number on.
LEMMA AheadAreNumbered ==
    ASSUME file \in Files, Csv(file), CountsRight,
           NEW range \in 0 .. numPes - 1, NEW first \in Nat, Prefix(range) <= first
    PROVE  RecordsFrom(SeekToRecordStart(file, RangeStart(file, range)), first - Prefix(range))
             = {n \in Record(file) : Before(Record(file), n) >= first}
<1> DEFINE R == Record(file)
           start == RangeStart(file, range)
           line == SeekToRecordStart(file, start)
           skipped == BeginBefore(file, start)
           ahead(n) == {m \in R : line <= m /\ m < n}
<1>1. range \in 0 .. numPes
    BY NumPes
<1>2. start \in Nat
    BY <1>1, Ranges
<1>3. R \in SUBSET Nat /\ IsFiniteSet(R)
      /\ \A n \in R : n \in 1 .. Len(file.lines) /\ n \in 1 .. Len(file.lines) + 1
    BY FileFacts
<1>4. \A n \in R : LineStart(file, n) \in Nat
    BY <1>3, LineStarts
<1>5. \A n \in R : n >= line <=> n \notin skipped
  <2> SUFFICES ASSUME NEW n \in R PROVE n >= line <=> n \notin skipped
      OBVIOUS
  <2>1. n >= line <=> LineStart(file, n) >= start
      BY <1>2, <1>3, SeekFindsLine
  <2>2. n \in skipped <=> LineStart(file, n) < start
      BY DEF BeginBefore
  <2> HIDE DEF line, start, skipped
  <2> QED
      BY <1>2, <1>4, <2>1, <2>2
<1>6. Prefix(range) = Cardinality(skipped)
    BY <1>1, PrefixCounts
<1>7. skipped \in SUBSET R /\ IsFiniteSet(skipped) /\ Cardinality(skipped) \in Nat
  <2>1. skipped \in SUBSET R
      BY DEF BeginBefore
  <2> QED
      BY <1>3, <2>1, FS_Subset, FS_CardinalityType
<1>8. \A m, n \in R : m < n /\ n \in skipped => m \in skipped
  <2> SUFFICES ASSUME NEW m \in R, NEW n \in R, m < n, n \in skipped PROVE m \in skipped
      OBVIOUS
  <2>1. LineStart(file, m) < LineStart(file, n) /\ LineStart(file, n) < start
      BY <1>3, LinesInOrder DEF BeginBefore
  <2>2. LineStart(file, m) < start
      BY <1>2, <1>4, <2>1
  <2> QED
      BY <2>2 DEF BeginBefore
<1>9. line \in Nat
  <2> DEFINE passed == {i \in DOMAIN file.lines : LineStart(file, i) < start}
  <2>1. IsFiniteSet(1 .. Len(file.lines))
      BY FileFacts, FS_Interval
  <2>2. passed \in SUBSET (1 .. Len(file.lines))
      BY FileFacts
  <2>3. Cardinality(passed) \in Nat
    <3> HIDE DEF passed
    <3> QED
        BY <2>1, <2>2, FS_Subset, FS_CardinalityType
  <2>4. line = 1 \/ line = 1 + Cardinality(passed)
      BY DEF SeekToRecordStart
  <2> HIDE DEF passed, line
  <2> QED
      BY <2>3, <2>4
<1> HIDE DEF R, line, skipped
<1>10. ASSUME NEW n \in R, n \in skipped PROVE Before(R, n) < Cardinality(skipped)
  <2> DEFINE S == {m \in R : m < n}
  <2>1. S \in SUBSET skipped /\ n \notin S
    <3>1. n \in Nat
        BY <1>3
    <3>2. ~(n < n)
        BY <3>1
    <3> QED
        BY <1>8, <1>10, <3>2
  <2>2. IsFiniteSet(S) /\ Cardinality(S) <= Cardinality(skipped) /\ Cardinality(S) # Cardinality(skipped)
    <3> HIDE DEF S
    <3> QED
        BY <1>7, <1>10, <2>1, FS_Subset DEF S
  <2>3. Cardinality(S) \in Nat
      BY <2>2, FS_CardinalityType
  <2> HIDE DEF S
  <2>4. Cardinality(S) < Cardinality(skipped)
      BY <1>7, <2>2, <2>3
  <2> QED
      BY <2>4 DEF S, Before
<1>11. ASSUME NEW n \in R, n \notin skipped
       PROVE  /\ Before(R, n) = Cardinality(skipped) + Cardinality(ahead(n))
              /\ Cardinality(ahead(n)) \in Nat
  <2>1. ahead(n) \in SUBSET R
      OBVIOUS
  <2>2. IsFiniteSet(ahead(n)) /\ Cardinality(ahead(n)) \in Nat
      BY <1>3, <2>1, FS_Subset, FS_CardinalityType
  <2>3. {m \in R : m < n} = skipped \cup ahead(n) /\ skipped \cap ahead(n) = {}
    <3>1. ASSUME NEW m \in R, m < n PROVE m \in skipped \cup ahead(n)
        BY <1>3, <1>5, <1>9, <3>1
    <3>2. ASSUME NEW m \in skipped PROVE m < n /\ m \notin ahead(n) /\ m \in R
      <4>1. m \in R /\ m \in Nat /\ n \in Nat /\ m # n
          BY <1>3, <1>7, <1>11, <3>2
      <4>2. ~(n < m)
          BY <1>8, <1>11, <3>2, <4>1
      <4>3. ~(m >= line)
          BY <1>5, <3>2, <4>1
      <4> QED
          BY <1>9, <4>1, <4>2, <4>3
    <3> QED
        BY <3>1, <3>2
  <2> HIDE DEF ahead
  <2>4. Cardinality(skipped \cup ahead(n)) = Cardinality(skipped) + Cardinality(ahead(n))
      BY <1>7, <2>2, <2>3, FS_Union, FS_EmptySet
  <2> QED
      BY <2>2, <2>3, <2>4 DEF Before
<1>12. ASSUME NEW n \in R
       PROVE  (n >= line /\ Cardinality(ahead(n)) >= first - Prefix(range)) <=> Before(R, n) >= first
  <2>1. Before(R, n) \in Nat /\ Cardinality(skipped) <= first
      BY <1>3, <1>6, BeforeType
  <2>2. CASE n \in skipped
    <3>1. Before(R, n) < Cardinality(skipped) /\ ~(n >= line)
        BY <1>5, <1>10, <2>2
    <3> QED
        BY <1>7, <2>1, <3>1
  <2>3. CASE n \notin skipped
    <3>1. /\ Before(R, n) = Cardinality(skipped) + Cardinality(ahead(n))
          /\ Cardinality(ahead(n)) \in Nat /\ n >= line
        BY <1>5, <1>11, <2>3
    <3> HIDE DEF ahead
    <3> QED
        BY <1>6, <1>7, <2>1, <3>1
  <2> QED
      BY <2>2, <2>3
<1> QED
    BY <1>12 DEF RecordsFrom, R, line

\* Records of a file under the numbers from lo to hi - 1.
Numbered(lo, hi) == {[id |-> k, record |-> k] : k \in lo .. hi - 1}

LEMMA NumberedCount ==
    ASSUME NEW lo \in Nat, NEW hi \in Nat, lo <= hi
    PROVE  Cardinality(Numbered(lo, hi)) = hi - lo
<1> DEFINE f == [k \in lo .. hi - 1 |-> [id |-> k, record |-> k]]
<1>1. IsFiniteSet(lo .. hi - 1) /\ Cardinality(lo .. hi - 1) = hi - lo
  <2>1. /\ IsFiniteSet(lo .. hi - 1)
        /\ Cardinality(lo .. hi - 1) = IF lo > hi - 1 THEN 0 ELSE (hi - 1) - lo + 1
    <3>1. lo \in Int /\ hi - 1 \in Int
        OBVIOUS
    <3> QED
        BY <3>1, FS_Interval
  <2> QED
      BY <2>1
<1>2. f \in Surjection(lo .. hi - 1, Numbered(lo, hi))
    BY DEF Numbered, Surjection
<1>3. f \in Injection(lo .. hi - 1, Numbered(lo, hi))
  <2>1. f \in [lo .. hi - 1 -> Numbered(lo, hi)]
      BY DEF Numbered
  <2>2. ASSUME NEW j \in lo .. hi - 1, NEW k \in lo .. hi - 1, f[j] = f[k] PROVE j = k
    <3>1. f[j].id = j /\ f[k].id = k
        OBVIOUS
    <3> QED
        BY <2>2, <3>1
  <2> HIDE DEF f
  <2>3. \A j, k \in lo .. hi - 1 : f[j] = f[k] => j = k
      BY <2>2
  <2> QED
      BY <2>1, <2>3 DEF Injection, IsInjective
<1> HIDE DEF f
<1> QED
    BY <1>1, <1>2, <1>3, FS_Surjection

LEMMA RangeFound ==
    ASSUME file \in Files, Csv(file), CountsRight, NEW first \in Nat
    PROVE  RangeOf(first) \in 0 .. numPes - 1 /\ Prefix(RangeOf(first)) <= first
<1> DEFINE T == {0} \cup {i \in 1 .. numPes - 1 : Prefix(i) <= first}
<1>1. T \in SUBSET Nat /\ T # {} /\ numPes \in Nat /\ \A x \in T : x <= numPes
    BY NumPes
<1>2. RangeOf(first) \in T
  <2>1. RangeOf(first) = Max(T)
      BY DEF RangeOf
  <2> HIDE DEF T
  <2> QED
      BY <1>1, <2>1, MaxOf
<1>3. Prefix(0) <= first
    BY PrefixOfAll
<1> QED
    BY <1>2, <1>3, NumPes

\* The share of a PE, by where it looks for it and how much it takes.
LEMMA ShareIsRead ==
    ASSUME file \in Files, Csv(file), CountsRight,
           NEW first \in Nat, NEW owed \in Nat, first + owed <= NumParticles
    PROVE  LET range == RangeOf(first)
               ahead == RecordsFrom(SeekToRecordStart(file, RangeStart(file, range)),
                                    first - Prefix(range))
               mine == {n \in ahead : Cardinality({m \in ahead : m < n}) < owed}
           IN  /\ Cardinality(mine) = owed
               /\ mine = {n \in Record(file) : Number(n) \in first .. first + owed - 1}
               /\ {[id |-> first + Cardinality({m \in mine : m < n}), record |-> Number(n)] : n \in mine}
                    = Numbered(first, first + owed)
<1> DEFINE R == Record(file)
           range == RangeOf(first)
           ahead == RecordsFrom(SeekToRecordStart(file, RangeStart(file, range)),
                                first - Prefix(range))
           mine == {n \in ahead : Cardinality({m \in ahead : m < n}) < owed}
           number(n) == Before(R, n)
           low(k) == {n \in R : number(n) < k}
<1>1. R \in SUBSET Nat /\ IsFiniteSet(R) /\ Cardinality(R) = NumParticles /\ NumParticles \in Nat
    BY FileFacts, ConstantsAssumption
<1>2. \A n \in R : n \in Nat /\ number(n) \in 0 .. Cardinality(R) - 1
    BY <1>1, BeforeGrows
<1>3. ahead = {n \in R : number(n) >= first}
    BY RangeFound, AheadAreNumbered
<1>4. \A n : Number(n) = number(n)
    BY DEF Number, Before
<1>5. \A m, n \in R : m < n => number(m) < number(n)
    BY <1>1, <1>2, BeforeGrows
<1>6. \A m, n \in R : number(m) < number(n) => m < n
  <2> SUFFICES ASSUME NEW m \in R, NEW n \in R, number(m) < number(n) PROVE m < n
      OBVIOUS
  <2> HIDE DEF R, number
  <2>1. number(m) \in Nat /\ number(n) \in Nat /\ m \in Nat /\ n \in Nat
      BY <1>1, <1>2
  <2>2. m # n /\ ~(n < m)
      BY <1>5, <2>1
  <2> QED
      BY <2>1, <2>2
<1>7. \A k \in 0 .. NumParticles : IsFiniteSet(low(k)) /\ Cardinality(low(k)) = k
  <2> SUFFICES ASSUME NEW k \in 0 .. NumParticles
               PROVE  IsFiniteSet(low(k)) /\ Cardinality(low(k)) = k
      OBVIOUS
  <2>1. low(k) \in SUBSET R /\ k \in Nat /\ k <= Cardinality(R)
      BY <1>1
  <2> QED
      BY <1>1, <2>1, FS_Subset, NumberedBelow
<1> HIDE DEF range, ahead, R, number
<1>8. \A n \in ahead : /\ Cardinality({m \in ahead : m < n}) = number(n) - first
                       /\ number(n) \in Nat
  <2> SUFFICES ASSUME NEW n \in R, number(n) >= first
               PROVE  /\ Cardinality({m \in ahead : m < n}) = number(n) - first
                      /\ number(n) \in Nat
      BY <1>3
  <2> DEFINE S == {m \in ahead : m < n}
  <2>1. number(n) \in Nat /\ number(n) \in 0 .. NumParticles /\ first \in 0 .. NumParticles
      BY <1>1, <1>2
  <2>2. S \in SUBSET R
      BY <1>3
  <2>3. low(number(n)) = low(first) \cup S /\ low(first) \cap S = {}
    <3>1. ASSUME NEW m \in R PROVE number(m) < number(n) <=> (number(m) < first \/ m \in S)
      <4>1. number(m) \in Nat /\ (m < n <=> number(m) < number(n))
          BY <1>2, <1>5, <1>6
      <4>2. m \in S <=> number(m) >= first /\ m < n
          BY <1>3
      <4> HIDE DEF S
      <4> QED
          BY <2>1, <4>1, <4>2
    <3>2. ASSUME NEW m \in S PROVE ~(number(m) < first)
      <4>1. number(m) >= first /\ number(m) \in Nat
          BY <1>2, <1>3
      <4> QED
          BY <4>1
    <3> HIDE DEF S
    <3> QED
        BY <2>2, <3>1, <3>2
  <2>4. IsFiniteSet(S) /\ Cardinality(S) \in Nat
      BY <1>1, <2>2, FS_Subset, FS_CardinalityType
  <2> HIDE DEF S, low
  <2>5. Cardinality(low(first) \cup S)
          = Cardinality(low(first)) + Cardinality(S) - Cardinality(low(first) \cap S)
      BY <1>7, <2>1, <2>4, FS_Union
  <2>6. Cardinality(low(first) \cap S) = 0
      BY <2>3, FS_EmptySet
  <2>7. Cardinality(low(number(n))) = number(n) /\ Cardinality(low(first)) = first
      BY <1>7, <2>1
  <2>8. Cardinality(S) = number(n) - first
      BY <2>1, <2>3, <2>4, <2>5, <2>6, <2>7
  <2> QED
      BY <2>1, <2>8 DEF S
<1>9. mine = {n \in R : number(n) \in first .. first + owed - 1}
  <2>1. ASSUME NEW n \in ahead
        PROVE  Cardinality({m \in ahead : m < n}) < owed <=> number(n) \in first .. first + owed - 1
    <3>1. /\ Cardinality({m \in ahead : m < n}) = number(n) - first /\ number(n) \in Nat
          /\ number(n) >= first
        BY <1>3, <1>8
    <3> QED
        BY <3>1
  <2>2. ASSUME NEW n \in R, number(n) \in first .. first + owed - 1 PROVE n \in ahead
      BY <1>3, <2>2
  <2>3. \A n \in ahead : n \in R
      BY <1>3
  <2> QED
      BY <2>1, <2>2, <2>3
<1> HIDE DEF mine
<1>10. Cardinality(mine) = owed
  <2>1. first \in 0 .. NumParticles /\ first + owed \in 0 .. NumParticles
      BY <1>1
  <2>2. low(first + owed) = low(first) \cup mine /\ low(first) \cap mine = {}
    <3>1. ASSUME NEW n \in R
          PROVE  /\ number(n) < first + owed
                       <=> (number(n) < first \/ number(n) \in first .. first + owed - 1)
                 /\ ~(number(n) < first /\ number(n) \in first .. first + owed - 1)
      <4>1. number(n) \in Nat
          BY <1>2
      <4> QED
          BY <4>1
    <3> QED
        BY <1>9, <3>1
  <2>3. mine \in SUBSET R
      BY <1>9
  <2>4. IsFiniteSet(mine) /\ Cardinality(mine) \in Nat
      BY <1>1, <2>3, FS_Subset, FS_CardinalityType
  <2> HIDE DEF low
  <2>5. Cardinality(low(first) \cup mine)
          = Cardinality(low(first)) + Cardinality(mine) - Cardinality(low(first) \cap mine)
      BY <1>7, <2>1, <2>4, FS_Union
  <2>6. Cardinality(low(first) \cap mine) = 0
      BY <2>2, FS_EmptySet
  <2> QED
      BY <1>7, <2>1, <2>2, <2>4, <2>5, <2>6
<1>11. \A n \in mine : first + Cardinality({m \in mine : m < n}) = number(n)
  <2> SUFFICES ASSUME NEW n \in mine
               PROVE  first + Cardinality({m \in mine : m < n}) = number(n)
      OBVIOUS
  <2>1. n \in R /\ number(n) \in first .. first + owed - 1 /\ n \in ahead
      BY <1>3, <1>9
  <2>2. {m \in mine : m < n} = {m \in ahead : m < n}
    <3>1. ASSUME NEW m \in ahead, m < n PROVE m \in mine
      <4>1. m \in R /\ number(m) >= first /\ number(m) \in Nat /\ number(m) < number(n)
          BY <1>2, <1>3, <1>5, <2>1, <3>1
      <4> QED
          BY <1>9, <2>1, <4>1
    <3>2. \A m \in mine : m \in ahead
        BY <1>3, <1>9
    <3> QED
        BY <3>1, <3>2
  <2> DEFINE c == Cardinality({m \in mine : m < n})
  <2>3. c = number(n) - first /\ number(n) \in Nat
      BY <1>8, <2>1, <2>2
  <2> HIDE DEF c
  <2>4. first + c = number(n)
      BY <2>3
  <2> QED
      BY <2>4 DEF c
<1>12. {[id |-> first + Cardinality({m \in mine : m < n}), record |-> Number(n)] : n \in mine}
         = Numbered(first, first + owed)
  <2>1. {[id |-> first + Cardinality({m \in mine : m < n}), record |-> Number(n)] : n \in mine}
          = {[id |-> number(n), record |-> number(n)] : n \in mine}
      BY <1>4, <1>11
  <2>2. \A n \in mine : number(n) \in first .. first + owed - 1
      BY <1>9
  <2>3. ASSUME NEW k \in first .. first + owed - 1 PROVE \E n \in mine : number(n) = k
    <3>1. k \in Nat /\ k < Cardinality(R)
        BY <1>1
    <3>2. PICK n \in R : number(n) = k
        BY <1>1, <3>1, EveryNumber DEF number
    <3> QED
        BY <1>9, <3>2
  <2>4. {[id |-> number(n), record |-> number(n)] : n \in mine}
          = {[id |-> k, record |-> k] : k \in first .. first + owed - 1}
    <3> HIDE DEF number, low
    <3> DEFINE ids == first .. first + owed - 1
    <3>1. (\A n \in mine : number(n) \in ids) /\ (\A k \in ids : \E n \in mine : number(n) = k)
        BY <2>2, <2>3
    <3> HIDE DEF ids
    <3>2. {[id |-> number(n), record |-> number(n)] : n \in mine}
            = {[id |-> k, record |-> k] : k \in ids}
        BY <3>1
    <3> QED
        BY <3>2 DEF ids
  <2>5. Numbered(first, first + owed) = {[id |-> k, record |-> k] : k \in first .. first + owed - 1}
      BY DEF Numbered
  <2> HIDE DEF number, low
  <2> QED
      BY <2>1, <2>4, <2>5
<1>13. mine = {n \in Record(file) : Number(n) \in first .. first + owed - 1}
    BY <1>4, <1>9 DEF R
<1> QED
    BY <1>10, <1>12, <1>13 DEF mine, ahead, range

----------------------------------------------------------------------------
(* The shares of the PEs. *)

Average == NumParticles \div numPes
Remainder == NumParticles % numPes

\* The number of the first record of the PE with number i, as each loader
\* computes it.
CsvFirst(i) == (NumParticles * i) \div numPes
BinaryFirst(i) == IF i < Remainder THEN i * (Average + 1) ELSE i * Average + Remainder
First(f, i) == IF Csv(f) THEN CsvFirst(i) ELSE BinaryFirst(i)

\* Shares begin at 0, one at the end of the other, and are even.
EvenShares(F) ==
    /\ F[0] = 0 /\ F[numPes] = NumParticles
    /\ \A i \in 0 .. numPes : F[i] \in Nat
    /\ \A i \in 0 .. numPes - 1 : F[i] <= F[i + 1] /\ F[i + 1] - F[i] \in {Average, Average + 1}

LEMMA AverageType ==
    /\ NumParticles \in Nat /\ Average \in Nat /\ Remainder \in 0 .. numPes - 1
    /\ NumParticles = numPes * Average + Remainder
BY NumPes, ConstantsAssumption, Division DEF Average, Remainder

LEMMA CsvShares == EvenShares([i \in 0 .. numPes |-> CsvFirst(i)])
<1> DEFINE F == [i \in 0 .. numPes |-> CsvFirst(i)]
<1>1. \A i \in 0 .. numPes : F[i] = (NumParticles * i) \div numPes /\ i \in Nat
    BY NumPes DEF CsvFirst
<1> HIDE DEF F
<1>2. \A i \in Nat : NumParticles * i \in Nat /\ NumParticles * (i + 1) = NumParticles * i + NumParticles
    BY AverageType
<1>3. \A i \in 0 .. numPes : F[i] \in Nat
    BY <1>1, <1>2, NumPes, Division
<1>4. F[0] = 0
  <2>1. 0 \in 0 .. numPes /\ NumParticles * 0 = 0 /\ numPes * 0 = 0
      BY NumPes, AverageType
  <2>2. (NumParticles * 0) \div numPes = 0
      BY <2>1, NumPes, Quotient
  <2> QED
      BY <1>1, <2>1, <2>2
<1>5. F[numPes] = NumParticles
  <2>1. numPes \in 0 .. numPes /\ NumParticles * numPes = numPes * NumParticles
        /\ NumParticles * numPes \in Nat
      BY NumPes, AverageType
  <2>2. (NumParticles * numPes) \div numPes = NumParticles
      BY <2>1, NumPes, AverageType, Quotient
  <2> QED
      BY <1>1, <2>1, <2>2
<1>6. ASSUME NEW i \in 0 .. numPes - 1
      PROVE  F[i] <= F[i + 1] /\ F[i + 1] - F[i] \in {Average, Average + 1}
  <2>1. i \in 0 .. numPes /\ i + 1 \in 0 .. numPes /\ i \in Nat
      BY NumPes
  <2> DEFINE m == NumParticles * i
  <2>2. m \in Nat /\ F[i] = m \div numPes /\ F[i + 1] = (m + NumParticles) \div numPes
      BY <1>1, <1>2, <2>1
  <2> HIDE DEF m
  <2>3. /\ m \div numPes <= (m + NumParticles) \div numPes
        /\ (m + NumParticles) \div numPes - m \div numPes
             \in {NumParticles \div numPes, NumParticles \div numPes + 1}
      BY <2>2, NumPes, AverageType, QuotientGrows
  <2> QED
      BY <2>2, <2>3 DEF Average
<1> QED
    BY <1>3, <1>4, <1>5, <1>6 DEF EvenShares, F

LEMMA BinaryNext ==
    ASSUME NEW i \in 0 .. numPes - 1
    PROVE  /\ BinaryFirst(i) \in Nat
           /\ BinaryFirst(i + 1) = BinaryFirst(i) + (IF i < Remainder THEN Average + 1 ELSE Average)
<1> DEFINE a == Average
           r == Remainder
<1>1. a \in Nat /\ r \in Nat /\ i \in Nat
    BY NumPes, AverageType
<1>2. i * a \in Nat /\ i * (a + 1) = i * a + i /\ (i + 1) * a = i * a + a
      /\ (i + 1) * (a + 1) = i * a + i + a + 1
    BY <1>1
<1> DEFINE p == i * a
<1>3. /\ BinaryFirst(i) = IF i < r THEN p + i ELSE p + r
      /\ BinaryFirst(i + 1) = IF i + 1 < r THEN p + i + a + 1 ELSE p + a + r
    BY <1>2 DEF BinaryFirst
<1>4. p \in Nat
    BY <1>2
<1> HIDE DEF a, r, p
<1>5. /\ BinaryFirst(i) \in Nat
      /\ BinaryFirst(i + 1) = BinaryFirst(i) + (IF i < r THEN a + 1 ELSE a)
    BY <1>1, <1>3, <1>4
<1> QED
    BY <1>5 DEF a, r

LEMMA BinaryShares == EvenShares([i \in 0 .. numPes |-> BinaryFirst(i)])
<1> DEFINE F == [i \in 0 .. numPes |-> BinaryFirst(i)]
<1>1. /\ \A i \in 0 .. numPes : F[i] = BinaryFirst(i)
      /\ 0 \in 0 .. numPes /\ numPes \in 0 .. numPes /\ 0 \in 0 .. numPes - 1
      /\ \A i \in 0 .. numPes - 1 : i \in 0 .. numPes /\ i + 1 \in 0 .. numPes
    BY NumPes
<1> HIDE DEF F
<1>2. F[0] = 0
  <2>1. 0 * Average = 0 /\ 0 * (Average + 1) = 0
      BY AverageType
  <2>2. ~(0 < Remainder) => Remainder = 0
      BY AverageType, NumPes
  <2>3. BinaryFirst(0) = 0
      BY <2>1, <2>2 DEF BinaryFirst
  <2> QED
      BY <1>1, <2>3
<1>3. F[numPes] = NumParticles
  <2>1. ~(numPes < Remainder)
      BY AverageType, NumPes
  <2> QED
      BY <1>1, <2>1, AverageType DEF BinaryFirst
<1>4. ASSUME NEW i \in 0 .. numPes - 1
      PROVE  F[i] \in Nat /\ F[i] <= F[i + 1] /\ F[i + 1] - F[i] \in {Average, Average + 1}
  <2>1. /\ F[i] \in Nat /\ Average \in Nat
        /\ F[i + 1] = F[i] + (IF i < Remainder THEN Average + 1 ELSE Average)
      BY <1>1, BinaryNext, AverageType
  <2> QED
      BY <2>1
<1>5. \A i \in 0 .. numPes : F[i] \in Nat
  <2> SUFFICES ASSUME NEW i \in 0 .. numPes PROVE F[i] \in Nat
      OBVIOUS
  <2>1. CASE i = numPes
      BY <1>3, <2>1, AverageType
  <2>2. CASE i # numPes
    <3>1. i \in 0 .. numPes - 1
        BY <2>2, NumPes
    <3> QED
        BY <1>4, <3>1
  <2> QED
      BY <2>1, <2>2
<1> QED
    BY <1>2, <1>3, <1>4, <1>5 DEF EvenShares, F

LEMMA Shares ==
    ASSUME NEW f
    PROVE  /\ First(f, 0) = 0 /\ First(f, numPes) = NumParticles
           /\ \A i \in 0 .. numPes : First(f, i) \in 0 .. NumParticles
           /\ \A i \in 0 .. numPes - 1 :
                 /\ First(f, i) <= First(f, i + 1)
                 /\ First(f, i + 1) - First(f, i) \in {Average, Average + 1}
           /\ \A i, j \in 0 .. numPes : i <= j => First(f, i) <= First(f, j)
           /\ \A k \in 0 .. NumParticles - 1 :
                 \E i \in 0 .. numPes - 1 : First(f, i) <= k /\ k < First(f, i + 1)
<1> DEFINE F == [i \in 0 .. numPes |-> First(f, i)]
<1>1. EvenShares(F)
  <2>1. CASE Csv(f)
      BY <2>1, CsvShares DEF First
  <2>2. CASE ~Csv(f)
      BY <2>2, BinaryShares DEF First
  <2> QED
      BY <2>1, <2>2
<1>2. /\ \A i \in 0 .. numPes : F[i] = First(f, i)
      /\ 0 \in 0 .. numPes /\ numPes \in 0 .. numPes
      /\ \A i \in 0 .. numPes - 1 : i \in 0 .. numPes /\ i + 1 \in 0 .. numPes
    BY NumPes
<1> HIDE DEF F
<1>3. /\ F[0] = 0 /\ F[numPes] = NumParticles
      /\ \A i \in 0 .. numPes : F[i] \in Nat
      /\ \A i \in 0 .. numPes - 1 : F[i] <= F[i + 1] /\ F[i + 1] - F[i] \in {Average, Average + 1}
    BY <1>1 DEF EvenShares
<1>4. \A i, j \in 0 .. numPes : i <= j => F[i] <= F[j]
  <2>1. 0 \in Int /\ numPes \in Int
      BY NumPes
  <2> QED
      BY <1>3, <2>1, Grows
<1>5. \A i \in 0 .. numPes : F[i] \in 0 .. NumParticles
  <2> SUFFICES ASSUME NEW i \in 0 .. numPes PROVE F[i] \in 0 .. NumParticles
      OBVIOUS
  <2>1. i <= numPes
      BY NumPes
  <2>2. F[i] <= NumParticles /\ F[i] \in Nat
      BY <1>2, <1>3, <1>4, <2>1
  <2> QED
      BY <2>2, AverageType
<1>6. ASSUME NEW k \in 0 .. NumParticles - 1
      PROVE  \E i \in 0 .. numPes - 1 : F[i] <= k /\ k < F[i + 1]
  <2>1. k \in Nat /\ k < F[numPes]
      BY <1>3, AverageType
  <2> QED
      BY <1>3, <2>1, NumPes, Parts
<1> QED
    BY <1>2, <1>3, <1>4, <1>5, <1>6

----------------------------------------------------------------------------
(* The loader. *)

\* A file that is what it says.
Good(f) ==
    \/ /\ f.format = "csv"
       /\ UsableHeader(f)
       /\ \A n \in Record(f) : Parses(f, n)
    \/ f.format = "binary" /\ f.records = f.declared

\* The share of the PE with number i.
Share(f, i) == Numbered(First(f, i), First(f, i + 1))

\* What the loading rests on, until the first decomposition begins.
LoaderInv ==
    loading # "run" =>
       /\ loading \in {"scan", "load", "aborted"}
       /\ file \in Files
       /\ loading = "scan" => counts = Empty /\ slice = Empty
       /\ loading = "aborted" => ~Good(file)
       /\ loading = "load" =>
             /\ IF Csv(file) THEN UsableHeader(file) ELSE file.records = file.declared
             /\ DOMAIN counts \subseteq PE /\ DOMAIN slice \subseteq PE
             /\ \A i \in 0 .. numPes - 1 :
                   peOf[i] \in DOMAIN counts => counts[peOf[i]] = Cardinality(InRange(file, i))
             /\ \A i \in 0 .. numPes - 1 : peOf[i] \in DOMAIN slice =>
                   /\ slice[peOf[i]] = Share(file, i)
                   /\ Csv(file) =>
                         \A n \in Record(file) :
                            Number(n) \in First(file, i) .. First(file, i + 1) - 1 => Parses(file, n)

LEMMA FormatOf ==
    ASSUME NEW f \in Files
    PROVE  Csv(f) \/ (~Csv(f) /\ f.format = "binary" /\ f.declared = NumParticles)
BY FilesAssumption DEF Csv, Scanned

LEMMA PesNumbered ==
    /\ \A i \in 0 .. numPes - 1 : peOf[i] \in PE
    /\ \A i, j \in 0 .. numPes - 1 : peOf[i] = peOf[j] => i = j
    /\ \A pe \in PE : \E i \in 0 .. numPes - 1 : peOf[i] = pe
<1>1. peOf \in [0 .. numPes - 1 -> PE] /\ \A i, j \in 0 .. numPes - 1 : peOf[i] = peOf[j] => i = j
    BY InputAssumption DEF numPes
<1>2. peOf \in Injection(0 .. numPes - 1, PE)
    BY <1>1 DEF Injection, IsInjective
<1>3. Cardinality(0 .. numPes - 1) = Cardinality(PE)
  <2>1. 0 \in Int /\ numPes - 1 \in Int /\ numPes \in Nat \ {0}
      BY NumPes
  <2>2. Cardinality(0 .. numPes - 1) = numPes
      BY <2>1, FS_Interval
  <2> QED
      BY <2>2 DEF numPes
<1>4. IsFiniteSet(PE)
    BY ConstantsAssumption
<1>5. peOf \in Surjection(0 .. numPes - 1, PE)
    BY <1>2, <1>3, <1>4, FS_Injection
<1> QED
    BY <1>1, <1>5 DEF Surjection

LEMMA ScanInv ==
    ASSUME LoaderInv, Scan
    PROVE  LoaderInv'
<1>1. /\ loading = "scan" /\ file \in Files /\ counts = Empty /\ slice = Empty
      /\ file' = file /\ counts' = counts /\ slice' = slice
    BY DEF LoaderInv, Scan, Abort
<1>2. DOMAIN counts = {} /\ DOMAIN slice = {}
    BY <1>1 DEF Empty
<1>3. CASE Csv(file)
  <2>1. loading' = IF UsableHeader(file) THEN "load" ELSE "aborted"
      BY <1>3 DEF Scan, Abort, Csv
  <2>2. ~UsableHeader(file) => ~Good(file)
      BY <1>3 DEF Good, Csv
  <2> QED
      BY <1>1, <1>2, <1>3, <2>1, <2>2 DEF LoaderInv
<1>4. CASE ~Csv(file)
  <2>1. file.format = "binary"
      BY <1>1, <1>4, FormatOf
  <2>2. loading' = IF file.records = file.declared THEN "load" ELSE "aborted"
      BY <2>1 DEF Scan, Abort
  <2>3. file.records # file.declared => ~Good(file)
      BY <2>1 DEF Good
  <2> QED
      BY <1>1, <1>2, <1>4, <2>2, <2>3 DEF LoaderInv
<1> QED
    BY <1>3, <1>4

LEMMA LoadParticlesCsvInv ==
    ASSUME LoaderInv, NEW i \in 0 .. numPes - 1, LoadParticlesCsv(i)
    PROVE  LoaderInv'
<1>1. /\ loading = "load" /\ Csv(file) /\ file \in Files
      /\ loading' = loading /\ file' = file /\ slice' = slice
    BY DEF LoaderInv, LoadParticlesCsv, Csv
<1>2. peOf[i] \in PE /\ DOMAIN counts \subseteq PE
    BY <1>1, PesNumbered DEF LoaderInv
<1>3. counts' = With(counts, peOf[i], Cardinality(InRange(file, i)))
    BY <1>1, LoadedIsInRange DEF LoadParticlesCsv
<1>4. /\ DOMAIN counts' = DOMAIN counts \cup {peOf[i]}
      /\ counts'[peOf[i]] = Cardinality(InRange(file, i))
      /\ \A pe \in DOMAIN counts : pe # peOf[i] => counts'[pe] = counts[pe]
    BY <1>3 DEF With
<1>5. ASSUME NEW j \in 0 .. numPes - 1, peOf[j] \in DOMAIN counts'
      PROVE  counts'[peOf[j]] = Cardinality(InRange(file, j))
  <2>1. CASE j = i
      BY <1>4, <2>1
  <2>2. CASE j # i
    <3>1. peOf[j] # peOf[i] /\ peOf[j] \in DOMAIN counts
        BY <1>4, <1>5, <2>2, PesNumbered
    <3> QED
        BY <1>1, <1>4, <3>1 DEF LoaderInv
  <2> QED
      BY <2>1, <2>2
<1>6. DOMAIN counts' \subseteq PE
    BY <1>2, <1>4
<1> QED
    BY <1>1, <1>5, <1>6 DEF LoaderInv, Number, Share

\* A PE has read its share: what the actions that read have in common.
LEMMA ReadKeepsInv ==
    ASSUME LoaderInv, loading = "load", NEW i \in 0 .. numPes - 1,
           loading' = loading, file' = file, counts' = counts,
           slice' = With(slice, peOf[i], Share(file, i)),
           Csv(file) => \A n \in Record(file) :
                           Number(n) \in First(file, i) .. First(file, i + 1) - 1 => Parses(file, n)
    PROVE  LoaderInv'
<1>1. peOf[i] \in PE /\ DOMAIN slice \subseteq PE
    BY PesNumbered DEF LoaderInv
<1>2. /\ DOMAIN slice' = DOMAIN slice \cup {peOf[i]}
      /\ slice'[peOf[i]] = Share(file, i)
      /\ \A pe \in DOMAIN slice : pe # peOf[i] => slice'[pe] = slice[pe]
    BY DEF With
<1>3. ASSUME NEW j \in 0 .. numPes - 1, peOf[j] \in DOMAIN slice'
      PROVE  /\ slice'[peOf[j]] = Share(file, j)
             /\ Csv(file) =>
                   \A n \in Record(file) :
                      Number(n) \in First(file, j) .. First(file, j + 1) - 1 => Parses(file, n)
  <2>1. CASE j = i
      BY <1>2, <2>1
  <2>2. CASE j # i
    <3>1. peOf[j] # peOf[i] /\ peOf[j] \in DOMAIN slice
        BY <1>2, <1>3, <2>2, PesNumbered
    <3> QED
        BY <1>2, <3>1 DEF LoaderInv
  <2> QED
      BY <2>1, <2>2
<1>4. DOMAIN slice' \subseteq PE
    BY <1>1, <1>2
<1> QED
    BY <1>3, <1>4 DEF LoaderInv, Number

LEMMA ReceiveCsvCountsInv ==
    ASSUME LoaderInv, NEW i \in 0 .. numPes - 1, ReceiveCsvCounts(i)
    PROVE  LoaderInv'
<1> DEFINE total == Prefix(numPes)
           first == (total * i) \div numPes
           owed == (total * (i + 1)) \div numPes - first
           range == RangeOf(first)
           ahead == RecordsFrom(SeekToRecordStart(file, RangeStart(file, range)),
                                first - Prefix(range))
           mine == {n \in ahead : Cardinality({m \in ahead : m < n}) < owed}
           read == {[id |-> first + Cardinality({m \in mine : m < n}),
                     record |-> Number(n)] : n \in mine}
           refused == \/ total # NumParticles
                      \/ Cardinality(mine) < owed
                      \/ \E n \in mine : ~Parses(file, n)
<1>1. /\ loading = "load" /\ Csv(file) /\ DOMAIN counts = PE
      /\ IF refused THEN Abort
         ELSE /\ slice' = With(slice, peOf[i], read)
              /\ loading' = loading /\ file' = file /\ counts' = counts
    BY DEF ReceiveCsvCounts, Csv
<1>2. file \in Files /\ CountsRight
    BY <1>1, PesNumbered DEF LoaderInv, CountsRight
<1>3. total = NumParticles
    BY <1>1, <1>2, PrefixOfAll
<1>4. /\ i \in 0 .. numPes /\ i + 1 \in 0 .. numPes
    BY NumPes
<1>5. /\ first = First(file, i) /\ (total * (i + 1)) \div numPes = First(file, i + 1)
    BY <1>1, <1>3 DEF First, CsvFirst
<1>6. /\ first \in Nat /\ owed \in Nat /\ first + owed = First(file, i + 1)
      /\ first + owed <= NumParticles
  <2>1. /\ First(file, i) \in 0 .. NumParticles /\ First(file, i + 1) \in 0 .. NumParticles
        /\ First(file, i) <= First(file, i + 1)
      BY <1>4, Shares
  <2> HIDE DEF first, total
  <2> QED
      BY <1>5, <2>1, AverageType
<1>7. /\ Cardinality(mine) = owed
      /\ mine = {n \in Record(file) : Number(n) \in first .. first + owed - 1}
      /\ read = Numbered(first, first + owed)
  <2> HIDE DEF first, owed, total
  <2> QED
      BY <1>1, <1>2, <1>6, ShareIsRead
<1>8. read = Share(file, i)
    BY <1>5, <1>6, <1>7 DEF Share
<1> HIDE DEF first, owed, total, mine, read
<1>9. CASE refused
  <2>1. PICK n \in mine : ~Parses(file, n)
      BY <1>3, <1>6, <1>7, <1>9
  <2>2. n \in Record(file)
      BY <1>7
  <2>3. file.format # "binary"
      BY <1>1 DEF Csv
  <2>4. ~Good(file)
      BY <2>1, <2>2, <2>3 DEF Good
  <2>5. loading' = "aborted" /\ file' = file /\ counts' = counts /\ slice' = slice
      BY <1>1, <1>9 DEF Abort
  <2> QED
      BY <1>2, <2>4, <2>5 DEF LoaderInv
<1>10. CASE ~refused
  <2>1. /\ slice' = With(slice, peOf[i], Share(file, i))
        /\ loading' = loading /\ file' = file /\ counts' = counts
      BY <1>1, <1>8, <1>10
  <2>2. \A n \in Record(file) :
           Number(n) \in First(file, i) .. First(file, i + 1) - 1 => Parses(file, n)
      BY <1>5, <1>6, <1>7, <1>10
  <2> QED
      BY <1>1, <2>1, <2>2, ReadKeepsInv
<1> QED
    BY <1>9, <1>10

\* In a binary file, where each PE begins to read is computed as an int.
OffsetsFit ==
    \A f \in Files : f.format = "binary" =>
       \A i \in 0 .. numPes - 1 : BinaryFirst(i) * RecordBytes + Preamble <= IntMax

LEMMA AsIntExact ==
    ASSUME NEW x \in 0 .. IntMax
    PROVE  AsInt(x) = x
<1>1. IntMax \in Nat
    BY InputAssumption
<1> DEFINE w == 2 * (IntMax + 1)
<1>2. w \in Nat \ {0} /\ x < w
    BY <1>1
<1>3. x % w = x
  <2> HIDE DEF w
  <2> QED
      BY <1>2
<1> QED
    BY <1>1, <1>3 DEF AsInt

LEMMA LoadParticlesBinaryInv ==
    ASSUME LoaderInv, OffsetsFit, NEW i \in 0 .. numPes - 1, LoadParticlesBinary(i)
    PROVE  LoaderInv'
<1> DEFINE first == BinaryFirst(i)
           number == IF i < Remainder THEN Average + 1 ELSE Average
           bytes == first * RecordBytes
           offset == AsInt(AsInt(bytes) + Preamble)
           read == {[id |-> first + n, record |-> (offset - Preamble) \div RecordBytes + n] :
                       n \in 0 .. number - 1}
<1>1. /\ loading = "load" /\ file.format = "binary" /\ file \in Files
      /\ IF offset < 0 THEN Abort
         ELSE /\ slice' = With(slice, peOf[i], read)
              /\ loading' = loading /\ file' = file /\ counts' = counts
    BY DEF LoadParticlesBinary, LoaderInv, BinaryFirst, Average, Remainder
<1>2. ~Csv(file)
    BY <1>1 DEF Csv
<1>3. /\ i \in 0 .. numPes /\ i + 1 \in 0 .. numPes
      /\ first = First(file, i) /\ first + number = First(file, i + 1)
      /\ number \in Nat /\ first \in Nat
    BY <1>2, NumPes, BinaryNext, AverageType DEF First
<1>4. bytes + Preamble <= IntMax
    BY <1>1 DEF OffsetsFit
<1> HIDE DEF first, number
<1>5. RecordBytes \in Nat \ {0} /\ Preamble \in Nat /\ IntMax \in Nat
    BY InputAssumption
<1>6. bytes \in Nat
    BY <1>3, <1>5
<1>7. bytes \in 0 .. IntMax /\ bytes + Preamble \in 0 .. IntMax
  <2> HIDE DEF bytes
  <2> QED
      BY <1>4, <1>5, <1>6
<1>8. offset = bytes + Preamble /\ offset - Preamble = bytes
  <2> HIDE DEF bytes
  <2>1. AsInt(bytes) = bytes /\ AsInt(bytes + Preamble) = bytes + Preamble
      BY <1>7, AsIntExact
  <2>2. offset = bytes + Preamble
      BY <2>1
  <2> HIDE DEF offset
  <2> QED
      BY <1>5, <1>6, <2>2
<1>9. bytes \div RecordBytes = first
  <2>1. RecordBytes * first = bytes
      BY <1>3, <1>5
  <2> HIDE DEF bytes
  <2> QED
      BY <1>3, <1>5, <1>6, <2>1, Quotient
<1>10. read = Share(file, i)
  <2>1. read = {[id |-> first + n, record |-> first + n] : n \in 0 .. number - 1}
      BY <1>8, <1>9
  <2>2. Share(file, i) = {[id |-> k, record |-> k] : k \in first .. first + number - 1}
      BY <1>3 DEF Share, Numbered
  <2>3. \A n \in 0 .. number - 1 : first + n \in first .. first + number - 1
      BY <1>3
  <2>4. \A k \in first .. first + number - 1 : k - first \in 0 .. number - 1 /\ first + (k - first) = k
      BY <1>3
  <2> HIDE DEF read
  <2>5. \A r \in read : r \in Share(file, i)
      BY <2>1, <2>2, <2>3
  <2>6. ASSUME NEW k \in first .. first + number - 1 PROVE [id |-> k, record |-> k] \in read
    <3>1. PICK n \in 0 .. number - 1 : first + n = k
        BY <2>4
    <3> QED
        BY <2>1, <3>1
  <2>7. \A r \in Share(file, i) : r \in read
      BY <2>2, <2>6
  <2> QED
      BY <2>5, <2>7
<1>11. ~(offset < 0)
  <2> HIDE DEF offset, bytes
  <2> QED
      BY <1>5, <1>6, <1>8
<1> HIDE DEF offset, read
<1> QED
    BY <1>1, <1>2, <1>10, <1>11, ReadKeepsInv

LEMMA LoaderNextInv ==
    ASSUME LoaderInv, OffsetsFit, InputNext \/ UNCHANGED allVars
    PROVE  LoaderInv'
<1>1. CASE Scan
    BY <1>1, ScanInv
<1>2. ASSUME NEW i \in DOMAIN peOf,
             LoadParticlesCsv(i) \/ ReceiveCsvCounts(i) \/ LoadParticlesBinary(i)
      PROVE  LoaderInv'
    BY <1>2, NumPes, LoadParticlesCsvInv, ReceiveCsvCountsInv, LoadParticlesBinaryInv
<1>3. CASE Commence
    BY <1>3 DEF Commence, LoaderInv
<1>4. CASE Rounds
    BY <1>4 DEF Rounds, loader, LoaderInv
<1>5. CASE UNCHANGED allVars
  <2>1. loading' = loading /\ file' = file /\ counts' = counts /\ slice' = slice
      BY <1>5 DEF allVars, loader
  <2> QED
      BY <2>1 DEF LoaderInv, Number
<1> QED
    BY <1>1, <1>2, <1>3, <1>4, <1>5 DEF InputNext

LEMMA LoaderInitInv == InputInit => LoaderInv
BY DEF InputInit, LoadInit, LaterInit, LoaderInv

\* When all PEs have read, each record has been read by one of them.
LEMMA SharesAreAll ==
    ASSUME LoaderInv
    PROVE  LoadedExactly
<1> SUFFICES ASSUME loading # "run"
             PROVE  /\ loading = "aborted" => ~Good(file)
                    /\ loading = "load" /\ DOMAIN slice = PE =>
                         /\ Good(file)
                         /\ UNION {slice[pe] : pe \in PE}
                              = {[id |-> p - 1, record |-> p - 1] : p \in Particle}
                         /\ \A pe, q \in PE :
                               /\ Cardinality(slice[pe]) <= Cardinality(slice[q]) + 1
                               /\ pe # q => slice[pe] \cap slice[q] = {}
    BY DEF LoadedExactly, Good
<1>1. loading = "aborted" => ~Good(file)
    BY DEF LoaderInv
<1> SUFFICES ASSUME loading = "load", DOMAIN slice = PE
             PROVE  /\ Good(file)
                    /\ UNION {slice[pe] : pe \in PE}
                         = {[id |-> p - 1, record |-> p - 1] : p \in Particle}
                    /\ \A pe, q \in PE :
                          /\ Cardinality(slice[pe]) <= Cardinality(slice[q]) + 1
                          /\ pe # q => slice[pe] \cap slice[q] = {}
    BY <1>1
<1> DEFINE F(i) == First(file, i)
<1>2. file \in Files /\ \A i \in 0 .. numPes - 1 : slice[peOf[i]] = Numbered(F(i), F(i + 1))
    BY PesNumbered DEF LoaderInv, Share
<1>3. /\ \A i \in 0 .. numPes : F(i) \in 0 .. NumParticles
      /\ \A i \in 0 .. numPes - 1 : F(i) <= F(i + 1) /\ F(i + 1) - F(i) \in {Average, Average + 1}
      /\ \A i, j \in 0 .. numPes : i <= j => F(i) <= F(j)
      /\ \A k \in 0 .. NumParticles - 1 : \E i \in 0 .. numPes - 1 : F(i) <= k /\ k < F(i + 1)
    BY Shares
<1>4. \A i \in 0 .. numPes - 1 : i \in 0 .. numPes /\ i + 1 \in 0 .. numPes
    BY NumPes
<1> HIDE DEF F
<1>5. \A i \in 0 .. numPes - 1 : F(i) \in Nat /\ F(i + 1) \in Nat /\ F(i + 1) <= NumParticles
    BY <1>3, <1>4, AverageType
<1>6. Good(file)
  <2>1. CASE Csv(file)
    <3>1. ASSUME NEW n \in Record(file) PROVE Parses(file, n)
      <4>1. Number(n) \in 0 .. NumParticles - 1
          BY <1>2, <2>1, FileFacts, BeforeGrows DEF Number, Before
      <4>2. PICK i \in 0 .. numPes - 1 : F(i) <= Number(n) /\ Number(n) < F(i + 1)
          BY <1>3, <4>1
      <4>3. Number(n) \in F(i) .. F(i + 1) - 1
          BY <1>5, <4>1, <4>2, AverageType
      <4>4. peOf[i] \in DOMAIN slice
          BY PesNumbered
      <4> QED
          BY <2>1, <4>3, <4>4 DEF LoaderInv, F
    <3>2. UsableHeader(file) /\ file.format = "csv"
        BY <2>1 DEF LoaderInv, Csv
    <3> QED
        BY <3>1, <3>2 DEF Good
  <2>2. CASE ~Csv(file)
    <3>1. file.format = "binary"
        BY <1>2, <2>2, FormatOf
    <3>2. file.records = file.declared
        BY <2>2 DEF LoaderInv
    <3> QED
        BY <3>1, <3>2 DEF Good
  <2> QED
      BY <2>1, <2>2
<1>7. UNION {slice[pe] : pe \in PE} = {[id |-> p - 1, record |-> p - 1] : p \in Particle}
  <2>1. ASSUME NEW pe \in PE, NEW r \in slice[pe]
        PROVE  \E p \in Particle : r = [id |-> p - 1, record |-> p - 1]
    <3>1. PICK i \in 0 .. numPes - 1 : peOf[i] = pe
        BY PesNumbered
    <3>2. PICK k \in F(i) .. F(i + 1) - 1 : r = [id |-> k, record |-> k]
        BY <1>2, <2>1, <3>1 DEF Numbered
    <3>3. k + 1 \in Particle /\ (k + 1) - 1 = k
        BY <1>5, <3>2, AverageType DEF Particle
    <3> QED
        BY <3>2, <3>3
  <2>2. ASSUME NEW p \in Particle
        PROVE  \E pe \in PE : [id |-> p - 1, record |-> p - 1] \in slice[pe]
    <3>1. p - 1 \in 0 .. NumParticles - 1
        BY AverageType DEF Particle
    <3>2. PICK i \in 0 .. numPes - 1 : F(i) <= p - 1 /\ p - 1 < F(i + 1)
        BY <1>3, <3>1
    <3>3. p - 1 \in F(i) .. F(i + 1) - 1
        BY <1>5, <3>1, <3>2, AverageType
    <3>4. [id |-> p - 1, record |-> p - 1] \in Numbered(F(i), F(i + 1))
        BY <3>3 DEF Numbered
    <3> QED
        BY <1>2, <3>4, PesNumbered
  <2> QED
      BY <2>1, <2>2
<1>8. ASSUME NEW pe \in PE, NEW q \in PE
      PROVE  /\ Cardinality(slice[pe]) <= Cardinality(slice[q]) + 1
             /\ pe # q => slice[pe] \cap slice[q] = {}
  <2>1. PICK i \in 0 .. numPes - 1 : peOf[i] = pe
      BY PesNumbered
  <2>2. PICK j \in 0 .. numPes - 1 : peOf[j] = q
      BY PesNumbered
  <2>3. /\ Cardinality(slice[pe]) = F(i + 1) - F(i) /\ Cardinality(slice[q]) = F(j + 1) - F(j)
      BY <1>2, <1>3, <1>5, <2>1, <2>2, NumberedCount
  <2>4. Cardinality(slice[pe]) <= Cardinality(slice[q]) + 1
      BY <1>3, <2>3, AverageType
  <2>5. ASSUME NEW a \in 0 .. numPes - 1, NEW b \in 0 .. numPes - 1, a < b
        PROVE  Numbered(F(a), F(a + 1)) \cap Numbered(F(b), F(b + 1)) = {}
    <3>1. a + 1 \in 0 .. numPes /\ b \in 0 .. numPes /\ a + 1 <= b
        BY <2>5, NumPes
    <3>2. F(a + 1) <= F(b)
        BY <1>3, <3>1
    <3>3. ~(\E k : k \in F(a) .. F(a + 1) - 1 /\ k \in F(b) .. F(b + 1) - 1)
        BY <1>5, <3>2
    <3>4. ASSUME NEW r \in Numbered(F(a), F(a + 1)), r \in Numbered(F(b), F(b + 1)) PROVE FALSE
      <4>1. r.id \in F(a) .. F(a + 1) - 1 /\ r.id \in F(b) .. F(b + 1) - 1
          BY <3>4 DEF Numbered
      <4> QED
          BY <3>3, <4>1
    <3> QED
        BY <3>4
  <2>6. pe # q => slice[pe] \cap slice[q] = {}
    <3> SUFFICES ASSUME pe # q PROVE slice[pe] \cap slice[q] = {}
        OBVIOUS
    <3>1. i < j \/ j < i
        BY <2>1, <2>2, NumPes
    <3> QED
        BY <1>2, <2>1, <2>2, <2>5, <3>1
  <2> QED
      BY <2>4, <2>6
<1> QED
    BY <1>6, <1>7, <1>8

\* Any file of any number of particles is loaded exactly or refused, by any
\* number of PEs and however its lines fall into the ranges of bytes
\* (loadParticlesCsv, receiveCsvCounts, loadParticlesBinary).
THEOREM AlwaysLoadedExactly ==
    ASSUME OffsetsFit
    PROVE  InputSpec => []LoadedExactly
<1>1. InputInit => LoaderInv
    BY LoaderInitInv
<1>2. LoaderInv /\ [InputNext]_allVars => LoaderInv'
    BY LoaderNextInv
<1>3. LoaderInv => LoadedExactly
    BY SharesAreAll
<1> QED
    BY <1>1, <1>2, <1>3, PTL DEF InputSpec

\* Whatever file the run begins with, the leaves agree, the budget is kept and
\* made use of, and what is handed over is true, in the first decomposition as
\* in every later one (commence, decompose).
THEOREM InputDecomposed ==
    ASSUME OffsetsFit
    PROVE  InputSpec => [](LeavesAgree /\ BudgetWellSpent /\ HandedOver)
BY AlwaysLoadedExactly, LoadedAndDecomposed, PTL

=============================================================================

--------------------------- MODULE TtgStepProofs ---------------------------
(* Whatever the bodies, the tree and the accuracy, and in whatever order the   *)
(* tasks of the graph run: the stores are complete when they are read, every   *)
(* walk adds up each other body once, and the steps are a leapfrog's.          *)
(*                                                                             *)
(* Tasks in flight stand for parts of the tree.  The moments that have yet to  *)
(* be combined, and for every target what its walk has yet to visit or to add  *)
(* up, are at any time nodes that have each body below exactly one of them: a  *)
(* task takes a node away and puts its children there, or the other way round. *)
EXTENDS TtgStep, KeyTreeProofs

Place == [x : Int, d : Int]
Domain == [lo : Int, edge : Nat \ {0}]

TypeOK ==
    /\ maxLeaf \in Nat \ {0}
    /\ host \in {"build", "fence", "end"}
    /\ evaluation \in Nat /\ (host # "end" => evaluation <= Steps)
    /\ particles \in [Body -> Place]
    /\ completed \in BOOLEAN

Inner == DOMAIN nodes \ Leaves

\* Nodes that have every body below exactly one of them.
Partition(S) ==
    /\ S \subseteq DOMAIN nodes
    /\ \A i \in Body : \E s \in S : i \in nodes[s]
    /\ \A s, u \in S : s # u => nodes[s] \cap nodes[u] = {}

\* The nodes whose parents wait for them in the upward pass, or will.
Pending == seeds \cup {r.from : r \in raw}

\* The nodes the walk for a target is at, or that are to be added up.
SourcesIn(D, C, t) ==
    {p.source : p \in {q \in D : q.target = t}} \cup {c.from : c \in {d \in C : d.to.target = t}}
Sources(t) == SourcesIn(descend, contribute, t)

\* What the bodies of a target see is what is in S, but for themselves.
Sees(seen, t, S) ==
    \A i \in nodes[t] :
        /\ seen[i] \in [Body -> Int]
        /\ \A j \in Body \ {i} : seen[i][j] = IF j \in S THEN 1 ELSE 0

UpwardOK ==
    /\ seeds \subseteq Leaves \ {RootBin}
    /\ \A r \in raw : /\ r.from \in DOMAIN nodes \ {RootBin} /\ r.from \notin seeds
                      /\ r = Moment(r.from, MassOf(nodes[r.from]))
    /\ DOMAIN leafParticles = Leaves \ seeds
    /\ \A b \in Leaves \ seeds : leafParticles[b] = nodes[b]
    /\ DOMAIN multipoles = {n \in Inner : \A u \in Pending : n \notin Above(u)}
    /\ \A n \in DOMAIN multipoles : multipoles[n] = MassOf(nodes[n])

DescendOK ==
    \A p \in descend : /\ p.target \in Leaves /\ p.source \in DOMAIN nodes
                       /\ p = Pair(p.target, p.source)

ContributeOK ==
    \A c \in contribute :
       /\ c.to.target \in Leaves /\ c.from \in DOMAIN nodes \ {RootBin}
       /\ c.to = Pair(c.to.target, Parent(c.from))
       /\ c = [to |-> c.to, from |-> c.from, seen |-> c.seen]
       /\ Sees(c.seen, c.to.target, nodes[c.from])
       /\ Pair(c.to.target, c.from) \notin descend
       /\ \A d \in contribute : d.to.target = c.to.target /\ d.from = c.from => d = c

FinalOK ==
    \A f \in final : /\ f.target \in Leaves /\ Sees(f.seen, f.target, Body)
                     /\ \A g \in final : g.target = f.target => g = f

UpdatedOK ==
    /\ DOMAIN updated \subseteq Body
    /\ updated = [i \in DOMAIN updated |-> ByOthers(i)]

\* Where the walk for a target is: under way, at the sink, or over.
WalkOK(t) ==
    \/ /\ Partition(Sources(t)) /\ \A f \in final : f.target # t
       /\ nodes[t] \cap DOMAIN updated = {}
    \/ /\ Sources(t) = {} /\ \E f \in final : f.target = t
       /\ nodes[t] \cap DOMAIN updated = {}
    \/ /\ Sources(t) = {} /\ \A f \in final : f.target # t
       /\ nodes[t] \subseteq DOMAIN updated

Idle == descend = {} /\ contribute = {} /\ final = {} /\ DOMAIN updated = {}

PhaseOK ==
    \/ Partition(Pending) /\ ~completed /\ Idle
    \/ Pending = {} /\ completed /\ Idle
    \/ Pending = {} /\ ~completed /\ \A t \in Leaves : WalkOK(t)

InFence ==
    /\ dom \in Domain /\ nodes = BuildRecursive(dom)
    /\ UpwardOK /\ DescendOK /\ ContributeOK /\ FinalOK /\ UpdatedOK /\ PhaseOK

NothingLeft ==
    /\ seeds = {} /\ raw = {} /\ ~completed
    /\ descend = {} /\ contribute = {} /\ final = {}

\* The inductive invariant.
StepInv ==
    /\ TypeOK /\ reference = particles
    /\ host = "fence" => InFence
    /\ host # "fence" => NothingLeft

----------------------------------------------------------------------------
(* Keys. *)

LEMMA MinOfTwo ==
    ASSUME NEW a \in Int, NEW b \in Int
    PROVE  Min({a, b}) = IF a <= b THEN a ELSE b
BY DEF Min

LEMMA MaxOfTwo ==
    ASSUME NEW a \in Int, NEW b \in Int
    PROVE  Max({a, b}) = IF a >= b THEN a ELSE b
BY DEF Max

LEMMA KeyIsKey ==
    ASSUME NEW d \in Domain, NEW x \in Int
    PROVE  MortonKey(d, x) \in Key
<1> DEFINE at == (x - d.lo) * KeySpace
           cell == IF 2 * (x - d.lo) > d.edge
                   THEN (at + d.edge - 1) \div d.edge - 1
                   ELSE at \div d.edge
<1>1. KeySpace \in Nat \ {0}
    BY KeySpaceType
<1>2. d.lo \in Int /\ d.edge \in Nat \ {0}
    BY DEF Domain
<1>3. at \in Int
    BY <1>1, <1>2
<1>4. cell \in Int
  <2> DEFINE e == d.edge
  <2>1. e \in Nat \ {0}
      BY <1>2
  <2> HIDE DEF at, e
  <2>2. (at + e - 1) \div e - 1 \in Int /\ at \div e \in Int
      BY <1>3, <2>1
  <2> QED
      BY <2>2 DEF e
<1> HIDE DEF cell
<1> DEFINE low == Min({cell, KeySpace - 1})
<1>5. low \in Int /\ low <= KeySpace - 1
    BY <1>1, <1>4, MinOfTwo
<1> HIDE DEF low
<1>6. Max({0, low}) \in Int /\ Max({0, low}) >= 0 /\ Max({0, low}) <= KeySpace - 1
    BY <1>1, <1>5, MaxOfTwo
<1>7. MortonKey(d, x) = Max({0, low})
    BY DEF MortonKey, low, cell
<1> QED
    BY <1>1, <1>6, <1>7 DEF Key

LEMMA BodyFacts ==
    NumBodies \in Nat \ {0} /\ IsFiniteSet(Body) /\ 1 \in Body /\ Body \subseteq Nat
BY NumBodiesAssumption, FS_Interval DEF Body

\* A finite list of integers has a smallest and a greatest one.
LEMMA FirstAndLast ==
    ASSUME NEW x \in [Body -> Int]
    PROVE  /\ Min({x[i] : i \in Body}) \in Int
           /\ Max({x[i] : i \in Body}) \in Int
<1> DEFINE lowest(n) == \E m \in 1 .. n : \A i \in 1 .. n : x[m] <= x[i]
           highest(n) == \E m \in 1 .. n : \A i \in 1 .. n : x[m] >= x[i]
           Bad == {n \in 1 .. NumBodies : ~(lowest(n) /\ highest(n))}
<1>1. Bad = {}
  <2> SUFFICES ASSUME Bad # {} PROVE FALSE
      OBVIOUS
  <2>1. Bad \in SUBSET Nat
      BY BodyFacts
  <2>2. PICK n \in Bad : \A m \in Bad : n <= m
    <3> HIDE DEF Bad
    <3> QED
        BY <2>1, Least
  <2>3. n # 1
    <3>1. \A i \in 1 .. 1 : i = 1
        OBVIOUS
    <3>2. x[1] \in Int
        BY BodyFacts
    <3>3. lowest(1) /\ highest(1)
        BY <3>1, <3>2
    <3> QED
        BY <3>3
  <2>4. n - 1 \in 1 .. NumBodies /\ ~(n <= n - 1) /\ n \in 1 .. NumBodies
      BY <2>3, BodyFacts
  <2>5. lowest(n - 1) /\ highest(n - 1)
      BY <2>2, <2>4
  <2>6. PICK m \in 1 .. n - 1 : \A i \in 1 .. n - 1 : x[m] <= x[i]
      BY <2>5
  <2>7. PICK k \in 1 .. n - 1 : \A i \in 1 .. n - 1 : x[k] >= x[i]
      BY <2>5
  <2>8. /\ m \in 1 .. n /\ k \in 1 .. n /\ n \in 1 .. n
        /\ \A i \in 1 .. n : i = n \/ i \in 1 .. n - 1
        /\ \A i \in 1 .. n : x[i] \in Int
      BY <2>4, BodyFacts DEF Body
  <2> DEFINE y == x[n]
  <2>9. y \in Int /\ x[m] \in Int /\ x[k] \in Int /\ x[n] = y
      BY <2>8
  <2>10. lowest(n)
    <3>1. CASE x[m] <= y
      <4>1. \A i \in 1 .. n : x[m] <= x[i]
        <5> HIDE DEF y
        <5> QED
            BY <2>6, <2>8, <2>9, <3>1
      <4> QED
          BY <2>8, <4>1
    <3>2. CASE ~(x[m] <= y)
      <4>1. ASSUME NEW i \in 1 .. n PROVE y <= x[i]
        <5>1. i = n \/ (i \in 1 .. n - 1 /\ x[m] <= x[i])
            BY <2>6, <2>8
        <5>2. x[i] \in Int /\ x[n] = y /\ y <= x[m] /\ y \in Int /\ x[m] \in Int
            BY <2>8, <2>9, <3>2
        <5> HIDE DEF y
        <5> QED
            BY <5>1, <5>2
      <4> QED
          BY <2>8, <4>1
    <3> QED
        BY <3>1, <3>2
  <2>11. highest(n)
    <3>1. CASE x[k] >= y
      <4>1. \A i \in 1 .. n : x[k] >= x[i]
        <5> HIDE DEF y
        <5> QED
            BY <2>7, <2>8, <2>9, <3>1
      <4> QED
          BY <2>8, <4>1
    <3>2. CASE ~(x[k] >= y)
      <4>1. ASSUME NEW i \in 1 .. n PROVE y >= x[i]
        <5>1. i = n \/ (i \in 1 .. n - 1 /\ x[k] >= x[i])
            BY <2>7, <2>8
        <5>2. x[i] \in Int /\ x[n] = y /\ y >= x[k] /\ y \in Int /\ x[k] \in Int
            BY <2>8, <2>9, <3>2
        <5> HIDE DEF y
        <5> QED
            BY <5>1, <5>2
      <4> QED
          BY <2>8, <4>1
    <3> QED
        BY <3>1, <3>2
  <2> QED
      BY <2>10, <2>11
<1>2. lowest(NumBodies) /\ highest(NumBodies)
  <2>1. NumBodies \in 1 .. NumBodies
      BY BodyFacts
  <2> HIDE DEF lowest, highest
  <2> QED
      BY <1>1, <2>1
<1> DEFINE S == {x[i] : i \in Body}
<1>3. (\E u \in S : \A v \in S : u <= v) /\ (\E u \in S : \A v \in S : u >= v) /\ S \subseteq Int
    BY <1>2 DEF Body
<1> HIDE DEF S
<1>4. Min(S) \in S /\ Max(S) \in S
    BY <1>3 DEF Min, Max
<1> QED
    BY <1>3, <1>4 DEF S

LEMMA DomainIsOne ==
    ASSUME NEW p \in [Body -> Place]
    PROVE  LET places == {p[i].x : i \in Body}
           IN  BoundingDomain(Min(places), Max(places)) \in Domain
<1> DEFINE x == [i \in Body |-> p[i].x]
           places == {p[i].x : i \in Body}
<1>1. x \in [Body -> Int]
    BY DEF Place
<1>2. places = {x[i] : i \in Body}
    OBVIOUS
<1>3. Min(places) \in Int /\ Max(places) \in Int
    BY <1>1, <1>2, FirstAndLast
<1> HIDE DEF places
<1>4. BoundingDomain(Min(places), Max(places)) \in Domain
    BY <1>3 DEF BoundingDomain, Domain
<1> QED
    BY <1>4 DEF places

----------------------------------------------------------------------------
(* The shape of the tree. *)

TreeOK ==
    /\ maxLeaf \in Nat \ {0} /\ particles \in [Body -> Place]
    /\ dom \in Domain /\ nodes = BuildRecursive(dom)

LEMMA TreeNodes ==
    ASSUME TreeOK
    PROVE  /\ \A i \in Body : KeyOf(dom, i) \in Key
           /\ DOMAIN nodes = {b \in Bin : /\ Inside(dom, b) # {}
                                          /\ \A a \in Above(b) : ~Few(a, Inside(dom, a))}
           /\ \A b \in DOMAIN nodes :
                 /\ b \in Bin /\ nodes[b] = Inside(dom, b) /\ nodes[b] # {}
                 /\ nodes[b] \subseteq Body
           /\ RootBin \in DOMAIN nodes /\ nodes[RootBin] = Body /\ Above(RootBin) = {}
<1>1. \A i \in Body : KeyOf(dom, i) \in Key
  <2> SUFFICES ASSUME NEW i \in Body PROVE KeyOf(dom, i) \in Key
      OBVIOUS
  <2>1. particles[i].x \in Int /\ dom \in Domain
      BY DEF TreeOK, Place
  <2> QED
      BY <2>1, KeyIsKey DEF KeyOf
<1>2. nodes = BuildRecursive(dom)
    BY DEF TreeOK
<1>3. \A b \in Bin : Inside(dom, b) \subseteq Body
    BY DEF Inside
<1>4. Above(RootBin) = {}
    BY PathOfRoot DEF Above
<1>5. RootBin \in Bin /\ Inside(dom, RootBin) = Body
    BY <1>1, RootIsBin DEF Inside
<1>6. DOMAIN nodes = {b \in Bin : /\ Inside(dom, b) # {}
                                  /\ \A a \in Above(b) : ~Few(a, Inside(dom, a))}
      /\ \A b \in DOMAIN nodes : nodes[b] = Inside(dom, b)
  <2> HIDE DEF Inside, Few
  <2> QED
      BY <1>2 DEF BuildRecursive
<1>7. RootBin \in DOMAIN nodes
    BY <1>4, <1>5, <1>6, BodyFacts
<1> QED
    BY <1>1, <1>3, <1>4, <1>5, <1>6, <1>7

\* The children of an inner node are nodes, and part its particles.
LEMMA TreeDown ==
    ASSUME TreeOK, NEW b \in Inner
    PROVE  /\ b \in DOMAIN nodes /\ b.size > 1 /\ IsFiniteSet(ChildrenOf(b))
           /\ NumChildren(b) = Cardinality(ChildrenOf(b))
           /\ \A c \in ChildrenOf(b) :
                 /\ c \in DOMAIN nodes /\ c # RootBin /\ Parent(c) = b
                 /\ c.size < b.size
                 /\ Above(c) = Above(b) \cup {b} /\ nodes[c] \subseteq nodes[b]
           /\ \A i \in nodes[b] : \E c \in ChildrenOf(b) :
                 i \in nodes[c] /\ \A d \in ChildrenOf(b) : i \in nodes[d] => d = c
<1>1. /\ b \in DOMAIN nodes /\ b \in Bin /\ ~Few(b, nodes[b])
      /\ nodes[b] = Inside(dom, b) /\ b \notin Leaves
    BY TreeNodes DEF Inner, Leaves
<1>2. b.size > 1
    BY <1>1, BinWithin DEF Few
<1>3. ChildrenOf(b) = Children(b) \cap DOMAIN nodes
    BY <1>1 DEF ChildrenOf
<1>4. \A c \in Children(b) : /\ c \in Bin /\ c # RootBin /\ Parent(c) = b /\ c.size < b.size
                             /\ Above(c) = Above(b) \cup {b}
  <2> SUFFICES ASSUME NEW c \in Children(b)
               PROVE  /\ c \in Bin /\ c # RootBin /\ Parent(c) = b /\ c.size < b.size
                      /\ Above(c) = Above(b) \cup {b}
      OBVIOUS
  <2>1. /\ c \in Bin /\ c # RootBin /\ Parent(c) = b /\ c.size < b.size
        /\ Path(c) = Path(b) \cup {c} /\ c \notin Path(b) /\ b \in Path(b)
      BY <1>1, <1>2, AboveChild
  <2> QED
      BY <2>1 DEF Above
<1>5. \A c \in Children(b) : Inside(dom, c) \subseteq Inside(dom, b)
  <2> SUFFICES ASSUME NEW j \in ChildIndex, NEW i \in Inside(dom, Child(b, j))
               PROVE  i \in Inside(dom, b)
      BY DEF Children
  <2>1. i \in Body /\ Covers(Child(b, j), KeyOf(dom, i)) /\ KeyOf(dom, i) \in Key
      BY TreeNodes DEF Inside
  <2> QED
      BY <1>1, <1>2, <2>1, ChildCoveredByParent DEF Inside
<1>6. \A c \in Children(b) : Inside(dom, c) # {} => c \in DOMAIN nodes
  <2>1. /\ \A a \in Above(b) : ~Few(a, Inside(dom, a))
        /\ ~Few(b, Inside(dom, b))
      BY <1>1, TreeNodes
  <2>2. \A c \in Children(b) : \A a \in Above(c) : ~Few(a, Inside(dom, a))
      BY <1>4, <2>1
  <2> QED
      BY <1>4, <2>2, TreeNodes
<1>7. \A c \in ChildrenOf(b) : nodes[c] = Inside(dom, c)
    BY <1>3, TreeNodes
<1>8. ASSUME NEW i \in nodes[b]
      PROVE  \E c \in ChildrenOf(b) :
                i \in nodes[c] /\ \A d \in ChildrenOf(b) : i \in nodes[d] => d = c
  <2>1. i \in Body /\ Covers(b, KeyOf(dom, i)) /\ KeyOf(dom, i) \in Key
      BY <1>1, TreeNodes DEF Inside
  <2>2. PICK j \in ChildIndex :
           /\ Covers(Child(b, j), KeyOf(dom, i))
           /\ \A k \in ChildIndex : Covers(Child(b, k), KeyOf(dom, i)) => k = j
      BY <1>1, <1>2, <2>1, OneChildCovers
  <2>3. Child(b, j) \in Children(b) /\ i \in Inside(dom, Child(b, j))
      BY <2>1, <2>2 DEF Children, Inside
  <2>4. Child(b, j) \in ChildrenOf(b) /\ i \in nodes[Child(b, j)]
      BY <1>3, <1>6, <1>7, <2>3
  <2>5. ASSUME NEW d \in ChildrenOf(b), i \in nodes[d] PROVE d = Child(b, j)
    <3>1. PICK k \in ChildIndex : d = Child(b, k)
        BY <1>3 DEF Children
    <3>2. Covers(d, KeyOf(dom, i))
        BY <1>7, <2>5 DEF Inside
    <3> QED
        BY <2>2, <3>1, <3>2
  <2> QED
      BY <2>4, <2>5
<1>9. IsFiniteSet(ChildrenOf(b))
  <2>1. IsFiniteSet(ChildIndex)
      BY KeyTreeAssumption, FS_Interval DEF ChildIndex
  <2>2. IsFiniteSet({Child(b, i) : i \in ChildIndex})
    <3> DEFINE cut == [i \in ChildIndex |-> Child(b, i)]
    <3>1. DOMAIN cut = ChildIndex /\ \A i \in ChildIndex : cut[i] = Child(b, i)
        OBVIOUS
    <3> HIDE DEF cut
    <3>2. IsFiniteSet({cut[i] : i \in ChildIndex})
        BY <2>1, <3>1, ImageFinite
    <3>3. {cut[i] : i \in ChildIndex} = {Child(b, i) : i \in ChildIndex}
        BY <3>1
    <3> QED
        BY <3>2, <3>3
  <2>3. IsFiniteSet(Children(b))
      BY <2>2 DEF Children
  <2> QED
      BY <1>3, <2>3, FS_Subset
<1>10. \A c \in ChildrenOf(b) :
          /\ c \in DOMAIN nodes /\ c # RootBin /\ Parent(c) = b /\ c.size < b.size
          /\ Above(c) = Above(b) \cup {b} /\ nodes[c] \subseteq nodes[b]
    BY <1>1, <1>3, <1>4, <1>5, <1>7
<1> QED
    BY <1>1, <1>2, <1>8, <1>9, <1>10 DEF NumChildren

\* Every node but the root is a child of an inner node.
LEMMA TreeUp ==
    ASSUME TreeOK, NEW c \in DOMAIN nodes, c # RootBin
    PROVE  Parent(c) \in Inner /\ c \in ChildrenOf(Parent(c))
<1> DEFINE b == Parent(c)
<1>1. /\ c \in Bin /\ Inside(dom, c) # {}
      /\ \A a \in Above(c) : ~Few(a, Inside(dom, a))
    BY TreeNodes
<1>2. b \in Bin /\ b.size > 1 /\ c \in Children(b)
    BY <1>1, ParentOf
<1> HIDE DEF b
<1>3. Path(c) = Path(b) \cup {c} /\ c \notin Path(b) /\ b \in Path(b)
    BY <1>2, AboveChild
<1>4. Above(c) = Above(b) \cup {b}
    BY <1>3 DEF Above
<1>5. Inside(dom, b) # {}
  <2>1. PICK i \in Inside(dom, c) : TRUE
      BY <1>1
  <2>2. PICK j \in ChildIndex : c = Child(b, j)
      BY <1>2 DEF Children
  <2>3. i \in Body /\ Covers(Child(b, j), KeyOf(dom, i)) /\ KeyOf(dom, i) \in Key
      BY <2>1, <2>2, TreeNodes DEF Inside
  <2>4. Covers(b, KeyOf(dom, i))
      BY <1>2, <2>3, ChildCoveredByParent
  <2> QED
      BY <2>3, <2>4 DEF Inside
<1>6. b \in DOMAIN nodes /\ nodes[b] = Inside(dom, b) /\ ~Few(b, Inside(dom, b))
    BY <1>1, <1>2, <1>4, <1>5, TreeNodes
<1>7. b \in Inner
    BY <1>6 DEF Inner, Leaves
<1>8. c \in ChildrenOf(b)
    BY <1>2, <1>6 DEF ChildrenOf, Leaves
<1> QED
    BY <1>7, <1>8 DEF b

\* What is above a node is cut, and has the node's particles.
LEMMA TreeAbove ==
    ASSUME TreeOK
    PROVE  \A b \in DOMAIN nodes :
              Above(b) \subseteq Inner /\ \A a \in Above(b) : nodes[b] \subseteq nodes[a]
<1> DEFINE Right(b) == Above(b) \subseteq Inner /\ \A a \in Above(b) : nodes[b] \subseteq nodes[a]
           Bad == {m \in Nat : \E b \in DOMAIN nodes : m = KeySpace - b.size /\ ~Right(b)}
<1>1. Bad = {}
  <2> SUFFICES ASSUME Bad # {} PROVE FALSE
      OBVIOUS
  <2>1. Bad \in SUBSET Nat
      OBVIOUS
  <2>2. PICK m \in Bad : \A n \in Bad : m <= n
    <3> HIDE DEF Bad
    <3> QED
        BY <2>1, Least
  <2>3. PICK b \in DOMAIN nodes : m = KeySpace - b.size /\ ~Right(b)
      OBVIOUS
  <2>4. b # RootBin
      BY <2>3, TreeNodes
  <2> DEFINE a == Parent(b)
  <2>5. a \in Inner /\ b \in ChildrenOf(a)
      BY <2>4, TreeUp
  <2> HIDE DEF a
  <2>6. /\ a \in DOMAIN nodes /\ b.size < a.size
        /\ Above(b) = Above(a) \cup {a} /\ nodes[b] \subseteq nodes[a]
      BY <2>5, TreeDown
  <2>7. a \in Bin /\ b \in Bin
      BY <2>6, TreeNodes
  <2>8. a.size \in Nat /\ b.size \in Nat /\ a.size <= KeySpace /\ KeySpace \in Nat
      BY <2>7, BinWithin, KeySpaceType
  <2>9. KeySpace - a.size \in Nat /\ ~(m <= KeySpace - a.size)
      BY <2>3, <2>6, <2>8
  <2>10. Right(a)
    <3> HIDE DEF Right
    <3> QED
        BY <2>2, <2>6, <2>9
  <2> QED
      BY <2>3, <2>5, <2>6, <2>10
<1> SUFFICES ASSUME NEW b \in DOMAIN nodes PROVE Right(b)
    OBVIOUS
<1>2. KeySpace - b.size \in Nat
  <2>1. b \in Bin
      BY TreeNodes
  <2> QED
      BY <2>1, BinWithin, KeySpaceType
<1> HIDE DEF Right
<1> QED
    BY <1>1, <1>2

\* Nodes with a particle in common are above one another.
LEMMA TreeOrder ==
    ASSUME TreeOK, NEW b \in DOMAIN nodes, NEW c \in DOMAIN nodes, nodes[b] \cap nodes[c] # {}
    PROVE  c = b \/ c \in Above(b) \/ b \in Above(c)
<1>1. /\ b \in Bin /\ nodes[b] = Inside(dom, b)
      /\ c \in Bin /\ nodes[c] = Inside(dom, c)
    BY TreeNodes
<1>2. PICK i \in Body : Covers(b, KeyOf(dom, i)) /\ Covers(c, KeyOf(dom, i))
    BY <1>1 DEF Inside
<1>3. KeyOf(dom, i) \in Key
    BY TreeNodes
<1>4. b.size \in Nat /\ c.size \in Nat
    BY <1>1, BinWithin
<1>5. b.size <= c.size => c \in Path(b)
    BY <1>1, <1>2, <1>3, Nested
<1>6. c.size <= b.size => b \in Path(c)
    BY <1>1, <1>2, <1>3, Nested
<1> QED
    BY <1>4, <1>5, <1>6 DEF Above

\* Every particle is in one leaf.
LEMMA LeavesPart ==
    ASSUME TreeOK
    PROVE  Partition(Leaves)
<1>1. Leaves \subseteq DOMAIN nodes
    BY DEF Leaves
<1>2. ASSUME NEW i \in Body PROVE \E s \in Leaves : i \in nodes[s]
  <2> DEFINE Has == {m \in Nat : \E b \in DOMAIN nodes : m = b.size /\ i \in nodes[b]}
  <2>1. RootBin.size \in Has
    <3>1. RootBin \in DOMAIN nodes /\ i \in nodes[RootBin] /\ RootBin.size \in Nat
        BY TreeNodes, RootIsBin, BinWithin
    <3> QED
        BY <3>1
  <2>2. PICK m \in Has : \A n \in Has : m <= n
    <3>1. Has \in SUBSET Nat /\ Has # {}
        BY <2>1
    <3> HIDE DEF Has
    <3> QED
        BY <3>1, Least
  <2>3. PICK b \in DOMAIN nodes : m = b.size /\ i \in nodes[b]
      OBVIOUS
  <2>4. ASSUME b \in Inner PROVE FALSE
    <3>1. PICK c \in ChildrenOf(b) : i \in nodes[c]
        BY <2>3, <2>4, TreeDown
    <3>2. c \in DOMAIN nodes /\ c.size < b.size
        BY <2>4, <3>1, TreeDown
    <3>3. c.size \in Nat /\ b.size \in Nat
        BY <3>2, TreeNodes, BinWithin
    <3>4. c.size \in Has
        BY <3>1, <3>2, <3>3
    <3> HIDE DEF Has
    <3>5. b.size <= c.size
        BY <2>2, <2>3, <3>4
    <3> QED
        BY <3>2, <3>3, <3>5
  <2> QED
      BY <2>3, <2>4 DEF Inner
<1>3. ASSUME NEW s \in Leaves, NEW u \in Leaves, s # u PROVE nodes[s] \cap nodes[u] = {}
  <2>1. s \notin Inner /\ u \notin Inner
      BY DEF Inner
  <2>2. s \notin Above(u) /\ u \notin Above(s)
      BY <1>1, <2>1, TreeAbove
  <2> QED
      BY <1>1, <1>3, <2>2, TreeOrder
<1> QED
    BY <1>1, <1>2, <1>3 DEF Partition

----------------------------------------------------------------------------
(* Nodes that part the particles. *)

LEMMA PartRoot ==
    ASSUME TreeOK
    PROVE  /\ Partition({RootBin}) /\ ~Partition({})
           /\ \A S : Partition(S) /\ RootBin \in S => S = {RootBin}
<1>1. Partition({RootBin})
    BY TreeNodes DEF Partition
<1>2. ~Partition({})
    BY BodyFacts DEF Partition
<1>3. ASSUME NEW S, Partition(S), RootBin \in S, NEW s \in S PROVE s = RootBin
  <2>1. s \in DOMAIN nodes /\ nodes[s] # {} /\ nodes[s] \subseteq Body /\ nodes[RootBin] = Body
      BY <1>3, TreeNodes DEF Partition
  <2>2. s # RootBin => nodes[s] \cap nodes[RootBin] = {}
      BY <1>3 DEF Partition
  <2> QED
      BY <2>1, <2>2
<1> QED
    BY <1>1, <1>2, <1>3

\* An inner node, and its children in its place.
LEMMA PartReplace ==
    ASSUME TreeOK, NEW S, Partition(S), NEW n \in S, n \in Inner
    PROVE  /\ Partition((S \ {n}) \cup ChildrenOf(n))
           /\ ChildrenOf(n) \cap S = {}
<1> DEFINE T == (S \ {n}) \cup ChildrenOf(n)
<1>1. /\ S \subseteq DOMAIN nodes /\ \A i \in Body : \E s \in S : i \in nodes[s]
      /\ \A s, u \in S : s # u => nodes[s] \cap nodes[u] = {}
    BY DEF Partition
<1>2. /\ \A c \in ChildrenOf(n) : c \in DOMAIN nodes /\ nodes[c] \subseteq nodes[n] /\ Parent(c) = n
      /\ \A i \in nodes[n] : \E c \in ChildrenOf(n) :
            i \in nodes[c] /\ \A d \in ChildrenOf(n) : i \in nodes[d] => d = c
    BY TreeDown
<1>3. \A c \in ChildrenOf(n) : nodes[c] # {}
    BY <1>2, TreeNodes
<1>4. T \subseteq DOMAIN nodes
    BY <1>1, <1>2
<1>5. \A i \in Body : \E s \in T : i \in nodes[s]
    BY <1>1, <1>2
<1>6. \A c \in ChildrenOf(n), s \in S \ {n} : nodes[c] \cap nodes[s] = {}
    BY <1>1, <1>2
<1>7. \A c, d \in ChildrenOf(n) : c # d => nodes[c] \cap nodes[d] = {}
    BY <1>2
<1>8. \A s, u \in T : s # u => nodes[s] \cap nodes[u] = {}
    BY <1>1, <1>6, <1>7
<1>9. ChildrenOf(n) \cap S = {}
  <2>1. n \notin ChildrenOf(n)
    <3>1. \A c \in ChildrenOf(n) : c.size < n.size /\ c \in DOMAIN nodes
        BY TreeDown
    <3>2. n \in Bin
        BY <1>1, TreeNodes
    <3>3. n.size \in Nat
        BY <3>2, BinWithin
    <3> QED
        BY <3>1, <3>3
  <2> QED
      BY <1>3, <1>6, <2>1
<1> QED
    BY <1>4, <1>5, <1>8, <1>9 DEF Partition

\* All children of a node, and the node in their place.
LEMMA PartGather ==
    ASSUME TreeOK, NEW S, Partition(S), NEW n \in Inner, ChildrenOf(n) \subseteq S
    PROVE  /\ Partition((S \ ChildrenOf(n)) \cup {n})
           /\ n \notin S
           /\ \A u \in S \ ChildrenOf(n) : n \notin Above(u)
<1> DEFINE T == (S \ ChildrenOf(n)) \cup {n}
<1>1. /\ S \subseteq DOMAIN nodes /\ \A i \in Body : \E s \in S : i \in nodes[s]
      /\ \A s, u \in S : s # u => nodes[s] \cap nodes[u] = {}
    BY DEF Partition
<1>2. /\ n \in DOMAIN nodes /\ \A c \in ChildrenOf(n) : nodes[c] \subseteq nodes[n]
      /\ \A i \in nodes[n] : \E c \in ChildrenOf(n) : i \in nodes[c]
    BY TreeDown
<1>3. n \in Bin /\ n.size \in Nat /\ nodes[n] # {} /\ \A c \in ChildrenOf(n) : c.size < n.size
    BY <1>2, TreeNodes, BinWithin, TreeDown
<1>4. n \notin ChildrenOf(n)
    BY <1>3
<1>5. \A u \in S \ ChildrenOf(n) : nodes[u] \cap nodes[n] = {}
    BY <1>1, <1>2
<1>6. n \notin S
    BY <1>3, <1>4, <1>5
<1>7. T \subseteq DOMAIN nodes /\ \A i \in Body : \E s \in T : i \in nodes[s]
    BY <1>1, <1>2
<1>8. \A s, u \in T : s # u => nodes[s] \cap nodes[u] = {}
    BY <1>1, <1>5
<1>9. \A u \in S \ ChildrenOf(n) : n \notin Above(u)
  <2>1. \A u \in S : nodes[u] # {} /\ (n \in Above(u) => nodes[u] \subseteq nodes[n])
      BY <1>1, TreeNodes, TreeAbove
  <2> QED
      BY <1>5, <2>1
<1> QED
    BY <1>6, <1>7, <1>8, <1>9 DEF Partition

----------------------------------------------------------------------------
(* Sums over children. *)

\* As many records of different children as there are come from all of them.
LEMMA AllChildren ==
    ASSUME TreeOK, NEW n \in Inner, NEW R, \A r \in R : r.from \in ChildrenOf(n),
           \A r, q \in R : r.from = q.from => r = q,
           Cardinality(R) = NumChildren(n)
    PROVE  IsFiniteSet(R) /\ ChildrenOf(n) = {r.from : r \in R}
<1> DEFINE f == [r \in R |-> r.from]
<1>1. f \in [R -> ChildrenOf(n)] /\ \A r \in R : f[r] = r.from
    OBVIOUS
<1>2. IsFiniteSet(ChildrenOf(n)) /\ Cardinality(R) = Cardinality(ChildrenOf(n))
    BY TreeDown
<1> HIDE DEF f
<1>3. IsFiniteSet(R) /\ ChildrenOf(n) = {f[r] : r \in R}
    BY <1>1, <1>2, AllOfThem
<1> QED
    BY <1>1, <1>3

\* What all children say of a particle is what the node does.
LEMMA TotalOfChildren ==
    ASSUME TreeOK, NEW n \in Inner, NEW R, IsFiniteSet(R),
           ChildrenOf(n) = {r.from : r \in R},
           \A r, q \in R : r.from = q.from => r = q,
           NEW j \in Body, \A r \in R : r.mass[j] = IF j \in nodes[r.from] THEN 1 ELSE 0
    PROVE  Total(R)[j] = IF j \in nodes[n] THEN 1 ELSE 0
<1> DEFINE f == [r \in R |-> r.mass[j]]
<1>1. Total(R)[j] = SumFunctionOnSet(f, R)
    BY DEF Total
<1>2. \A r \in R : f[r] = IF j \in nodes[r.from] THEN 1 ELSE 0
    OBVIOUS
<1> HIDE DEF f
<1>3. CASE j \in nodes[n]
  <2>1. PICK c \in ChildrenOf(n) : j \in nodes[c] /\ \A d \in ChildrenOf(n) : j \in nodes[d] => d = c
      BY <1>3, TreeDown
  <2>2. PICK r \in R : r.from = c
      OBVIOUS
  <2>3. f[r] = 1 /\ \A q \in R \ {r} : f[q] = 0
    <3>1. \A q \in R \ {r} : q.from # c
        BY <2>2
    <3> QED
        BY <1>2, <2>1, <2>2, <3>1
  <2>4. \A q \in R : f[q] \in Int
      BY <1>2
  <2>5. SumFunctionOnSet(f, R) = f[r] + SumFunctionOnSet(f, R \ {r})
      BY <2>4, SumLessOne
  <2>6. SumFunctionOnSet(f, R \ {r}) = 0
    <3>1. IsFiniteSet(R \ {r})
        BY FS_RemoveElement
    <3> QED
        BY <2>3, <3>1, SumOfZeros
  <2> QED
      BY <1>1, <1>3, <2>3, <2>5, <2>6
<1>4. CASE j \notin nodes[n]
  <2>1. \A r \in R : f[r] = 0
    <3>1. \A c \in ChildrenOf(n) : nodes[c] \subseteq nodes[n]
        BY TreeDown
    <3> QED
        BY <1>2, <1>4, <3>1
  <2>2. SumFunctionOnSet(f, R) = 0
      BY <2>1, SumOfZeros
  <2> QED
      BY <1>1, <1>4, <2>2
<1> QED
    BY <1>3, <1>4

LEMMA TotalType ==
    ASSUME NEW R, IsFiniteSet(R), \A r \in R : r.mass \in [Body -> Int]
    PROVE  Total(R) \in [Body -> Int]
<1> SUFFICES ASSUME NEW i \in Body
             PROVE  SumFunctionOnSet([r \in R |-> r.mass[i]], R) \in Int
    BY DEF Total
<1> DEFINE f == [r \in R |-> r.mass[i]]
<1>1. \A r \in R : f[r] \in Int
    OBVIOUS
<1> HIDE DEF f
<1>2. SumFunctionOnSet(f, R) \in Int
    BY <1>1, SumTypeInt
<1> QED
    BY <1>2 DEF f

----------------------------------------------------------------------------
(* Moving a body. *)

LEMMA MassType ==
    ASSUME NEW S
    PROVE  MassOf(S) \in [Body -> {0, 1}] /\ MassOf(S) \in [Body -> Int]
BY DEF MassOf

LEMMA SignType ==
    ASSUME NEW n \in Int
    PROVE  Sign(n) \in Int /\ (n = 0 => Sign(n) = 0)
BY DEF Sign

\* What a body sees of itself does not matter.
LEMMA PullOfOthers ==
    ASSUME particles \in [Body -> Place], NEW i \in Body, NEW seen \in [Body -> Int]
    PROVE  /\ Pull(i, seen) \in Int
           /\ (\A j \in Body \ {i} : seen[j] = 1) => Pull(i, seen) = Others(i)
<1> DEFINE towards(j) == Sign(particles[j].x - particles[i].x)
           f == [j \in Body |-> seen[j] * towards(j)]
           all == MassOf(Body \ {i})
           g == [j \in Body |-> all[j] * towards(j)]
<1>1. \A j \in Body : particles[j].x - particles[i].x \in Int
    BY DEF Place
<1>2. \A j \in Body : towards(j) \in Int /\ (j = i => towards(j) = 0)
  <2>1. particles[i].x - particles[i].x = 0
      BY DEF Place
  <2> QED
      BY <1>1, <2>1, SignType
<1>3. Pull(i, seen) = SumFunctionOnSet(f, Body) /\ Others(i) = SumFunctionOnSet(g, Body)
    BY DEF Pull, Others
<1>4. \A j \in Body : all[j] = IF j = i THEN 0 ELSE 1
    BY DEF MassOf
<1> HIDE DEF towards, all
<1>5. \A j \in Body : f[j] \in Int
    BY <1>2
<1>6. ASSUME \A j \in Body \ {i} : seen[j] = 1 PROVE f = g
  <2>1. ASSUME NEW j \in Body PROVE seen[j] * towards(j) = all[j] * towards(j)
    <3>1. CASE j = i
        BY <1>2, <1>4, <3>1
    <3>2. CASE j # i
        BY <1>4, <1>6, <3>2
    <3> QED
        BY <3>1, <3>2
  <2> QED
      BY <2>1
<1> HIDE DEF f, g
<1>7. SumFunctionOnSet(f, Body) \in Int
    BY <1>5, BodyFacts, SumTypeInt
<1> QED
    BY <1>3, <1>6, <1>7

\* The kicks and drifts of main are a leapfrog's.
LEMMA LeapfrogStep ==
    ASSUME TypeOK, evaluation <= Steps, reference = particles, NEW i \in Body
    PROVE  /\ Integrated(particles[i], Others(i)) = ByOthers(i)
           /\ ByOthers(i) \in Place
<1> DEFINE x == particles[i].x
           d == particles[i].d
           o == Others(i)
<1>1. x \in Int /\ d \in Int /\ particles[i] = [x |-> x, d |-> d] /\ reference[i] = [x |-> x, d |-> d]
    BY DEF TypeOK, Place
<1>2. o \in Int
  <2>1. particles \in [Body -> Place] /\ MassOf(Body \ {i}) \in [Body -> Int]
      BY MassType DEF TypeOK
  <2>2. Pull(i, MassOf(Body \ {i})) \in Int
      BY <2>1, PullOfOthers
  <2> QED
      BY <2>2 DEF Others
<1>3. evaluation \in Nat /\ evaluation <= Steps /\ Steps \in Nat \ {0}
    BY TtgStepAssumption DEF TypeOK
<1>4. Integrated(particles[i], o) =
         [x |-> x + DriftDt(evaluation) * (d + KickDt(evaluation) * o),
          d |-> d + KickDt(evaluation) * o]
  <2> DEFINE kick == KickDt(evaluation)
             drift == DriftDt(evaluation)
             kicked == [x |-> x, d |-> d + kick * o]
  <2>1. Integrated(particles[i], o) = DriftOne(KickOne(particles[i], o))
      BY DEF Integrated
  <2> HIDE DEF x, d, o
  <2>2. KickOne(particles[i], o) = kicked
    <3>1. KickOne(particles[i], o) = [particles[i] EXCEPT !.d = particles[i].d + kick * o]
        BY DEF KickOne
    <3> HIDE DEF kick
    <3> QED
        BY <1>1, <3>1
  <2>3. DriftOne(kicked) = [x |-> x + drift * (d + kick * o), d |-> d + kick * o]
    <3> DEFINE e == d + kick * o
    <3>1. DriftOne(kicked) = [[x |-> x, d |-> e] EXCEPT !.x = x + drift * e]
        BY DEF DriftOne
    <3> HIDE DEF e, drift
    <3>2. DriftOne(kicked) = [x |-> x + drift * e, d |-> e]
        BY <3>1
    <3> QED
        BY <3>2 DEF e
  <2> QED
      BY <2>1, <2>2, <2>3
<1>5. ByOthers(i) =
         LET ended == IF evaluation > 0 THEN d + o ELSE d
             begun == ended + o
         IN  IF evaluation = Steps THEN [x |-> x, d |-> ended]
             ELSE [x |-> x + begun, d |-> begun]
    BY <1>1 DEF ByOthers
<1> HIDE DEF x, d, o
<1>6. CASE evaluation = 0
  <2>1. KickDt(evaluation) = 1 /\ DriftDt(evaluation) = 1 /\ evaluation # Steps /\ ~(evaluation > 0)
      BY <1>3, <1>6 DEF KickDt, DriftDt
  <2> QED
      BY <1>1, <1>2, <1>4, <1>5, <2>1 DEF Place, o
<1>7. CASE evaluation = Steps
  <2>1. KickDt(evaluation) = 1 /\ DriftDt(evaluation) = 0 /\ evaluation > 0
      BY <1>3, <1>7 DEF KickDt, DriftDt
  <2> QED
      BY <1>1, <1>2, <1>4, <1>5, <1>7, <2>1 DEF Place, o
<1>8. CASE evaluation # 0 /\ evaluation # Steps
  <2>1. KickDt(evaluation) = 2 /\ DriftDt(evaluation) = 1 /\ evaluation > 0
      BY <1>3, <1>8 DEF KickDt, DriftDt
  <2> QED
      BY <1>1, <1>2, <1>4, <1>5, <1>8, <2>1 DEF Place, o
<1> QED
    BY <1>6, <1>7, <1>8

----------------------------------------------------------------------------
(* Tasks. *)

LEMMA WriteFacts ==
    ASSUME NEW n, NEW value, NEW store
    PROVE  /\ DOMAIN Write(n, value, store) = {n} \cup DOMAIN store
           /\ Write(n, value, store)[n] = value
BY DEF Write, Written

\* While there is a task, the host is in the fence.
LEMMA InTask ==
    ASSUME StepInv, ~NothingLeft
    PROVE  /\ host = "fence" /\ InFence /\ TreeOK /\ TypeOK
           /\ evaluation <= Steps /\ reference = particles
BY DEF StepInv, TypeOK, InFence, TreeOK

\* What a task leaves alone.
LEMMA TaskKeeps ==
    ASSUME Task
    PROVE  /\ nodes' = nodes /\ dom' = dom /\ Leaves' = Leaves /\ Inner' = Inner
           /\ BuildRecursive(dom)' = BuildRecursive(dom)
           /\ \A i \in Body : ByOthers(i)' = ByOthers(i)
<1>1. UNCHANGED <<maxLeaf, host, evaluation, particles, nodes, dom, reference>>
    BY DEF Task, tree
<1>2. \A b, S : Few(b, S)' = Few(b, S)
    BY <1>1 DEF Few
<1>3. Leaves' = Leaves
    BY <1>1 DEF Leaves, Few
<1>4. BuildRecursive(dom)' = BuildRecursive(dom)
    BY <1>1 DEF BuildRecursive, Inside, KeyOf, Few
<1>5. \A i \in Body : ByOthers(i)' = ByOthers(i)
    BY <1>1 DEF ByOthers, Others, Pull
<1> QED
    BY <1>1, <1>3, <1>4, <1>5 DEF Inner

LEMMA TaskInv ==
    ASSUME StepInv, Task, ~NothingLeft, completed' \in BOOLEAN,
           UpwardOK', DescendOK', ContributeOK', FinalOK', UpdatedOK', PhaseOK'
    PROVE  StepInv'
<1>1. UNCHANGED <<maxLeaf, host, evaluation, particles, nodes, dom, reference>>
    BY DEF Task, tree
<1>2. TypeOK' /\ reference' = particles' /\ host' = "fence"
    BY <1>1, InTask DEF TypeOK
<1>3. dom' \in Domain /\ nodes' = BuildRecursive(dom)'
    BY <1>1, InTask, TaskKeeps DEF TreeOK
<1> QED
    BY <1>2, <1>3 DEF StepInv, InFence

LEMMA UpwardSame ==
    ASSUME Task, UpwardOK, UNCHANGED <<seeds, raw, leafParticles, multipoles>>
    PROVE  UpwardOK' /\ Pending' = Pending
<1>1. nodes' = nodes /\ Leaves' = Leaves /\ Inner' = Inner
    BY TaskKeeps
<1>2. Pending' = Pending
    BY DEF Pending
<1> QED
    BY <1>1, <1>2 DEF UpwardOK

LEMMA DownwardSame ==
    ASSUME Task, UNCHANGED downward
    PROVE  /\ DescendOK => DescendOK'
           /\ ContributeOK => ContributeOK'
           /\ FinalOK => FinalOK'
<1>1. UNCHANGED <<descend, contribute, final>>
    BY DEF downward
<1>2. nodes' = nodes /\ Leaves' = Leaves
    BY TaskKeeps
<1> QED
    BY <1>1, <1>2 DEF DescendOK, ContributeOK, FinalOK, Sees

LEMMA UpdatedSame ==
    ASSUME Task, UpdatedOK, updated' = updated
    PROVE  UpdatedOK'
<1>1. \A i \in DOMAIN updated : ByOthers(i)' = ByOthers(i)
    BY TaskKeeps DEF UpdatedOK
<1> QED
    BY <1>1 DEF UpdatedOK

\* The walk of a target that a task is not about.
LEMMA WalkSame ==
    ASSUME Task, NEW t, WalkOK(t), Sources(t)' = Sources(t),
           (\E f \in final' : f.target = t) <=> (\E f \in final : f.target = t),
           \A i \in nodes[t] : i \in DOMAIN updated' <=> i \in DOMAIN updated
    PROVE  WalkOK(t)'
<1>1. nodes' = nodes
    BY TaskKeeps
<1>2. Partition(Sources(t)) => Partition(Sources(t))'
    BY <1>1 DEF Partition
<1> QED
    BY <1>1, <1>2 DEF WalkOK

----------------------------------------------------------------------------
(* The upward pass. *)

LEMMA SeedLeafInv ==
    ASSUME StepInv, NEW n, SeedLeaf(n)
    PROVE  StepInv'
<1>1. /\ n \in seeds /\ seeds' = seeds \ {n}
      /\ leafParticles' = Write(n, nodes[n], leafParticles)
      /\ raw' = raw \cup {Moment(n, MassOf(nodes[n]))}
      /\ completed' = completed /\ multipoles' = multipoles /\ updated' = updated
      /\ UNCHANGED downward /\ Task
    BY DEF SeedLeaf
<1>2. ~NothingLeft
    BY <1>1 DEF NothingLeft
<1>3. InFence /\ TypeOK /\ TreeOK
    BY <1>2, InTask
<1>4. UpwardOK
    BY <1>3 DEF InFence
<1>5. n \in Leaves \ {RootBin} /\ n \in DOMAIN nodes
    BY <1>1, <1>4 DEF UpwardOK, Leaves
<1> DEFINE new == Moment(n, MassOf(nodes[n]))
<1>6. new.from = n
    BY DEF Moment
<1>7. {r.from : r \in raw'} = {r.from : r \in raw} \cup {n}
    BY <1>1, <1>6
<1>8. Pending' = Pending /\ n \in Pending
    BY <1>1, <1>7 DEF Pending
<1>9. nodes' = nodes /\ Leaves' = Leaves /\ Inner' = Inner
    BY <1>1, TaskKeeps
<1>10. UpwardOK'
  <2>1. seeds' \subseteq Leaves \ {RootBin}
      BY <1>1, <1>4 DEF UpwardOK
  <2>2. \A r \in raw' : /\ r.from \in DOMAIN nodes \ {RootBin} /\ r.from \notin seeds'
                        /\ r = Moment(r.from, MassOf(nodes[r.from]))
      BY <1>1, <1>4, <1>5, <1>6 DEF UpwardOK
  <2>3. DOMAIN leafParticles' = Leaves \ seeds'
    <3>1. DOMAIN leafParticles' = {n} \cup DOMAIN leafParticles
        BY <1>1, WriteFacts
    <3> QED
        BY <1>1, <1>4, <1>5, <3>1 DEF UpwardOK
  <2>4. \A b \in Leaves \ seeds' : leafParticles'[b] = nodes[b]
    <3>0. leafParticles' = Write(n, nodes[n], leafParticles)
        BY <1>1
    <3>1. leafParticles'[n] = nodes[n]
        BY <3>0, WriteFacts
    <3>2. \A b \in DOMAIN leafParticles \ {n} : leafParticles'[b] = leafParticles[b]
      <4>1. \A b \in DOMAIN leafParticles \ {n} :
               Write(n, nodes[n], leafParticles)[b] = leafParticles[b]
          BY DEF Write, Written
      <4> QED
          BY <3>0, <4>1
    <3>3. \A b \in Leaves \ seeds' : b = n \/ b \in DOMAIN leafParticles \ {n}
        BY <1>1, <1>4 DEF UpwardOK
    <3>4. \A b \in DOMAIN leafParticles : leafParticles[b] = nodes[b]
        BY <1>4 DEF UpwardOK
    <3> QED
        BY <3>1, <3>2, <3>3, <3>4
  <2>5. /\ DOMAIN multipoles' = {m \in Inner : \A u \in Pending' : m \notin Above(u)}
        /\ \A m \in DOMAIN multipoles' : multipoles'[m] = MassOf(nodes[m])
      BY <1>1, <1>4, <1>8 DEF UpwardOK
  <2> QED
      BY <1>9, <2>1, <2>2, <2>3, <2>4, <2>5 DEF UpwardOK
<1>11. PhaseOK'
  <2>1. Partition(Pending) /\ ~completed /\ Idle
      BY <1>3, <1>8 DEF InFence, PhaseOK
  <2>2. Partition(Pending)'
      BY <1>8, <1>9, <2>1 DEF Partition
  <2>3. Idle'
      BY <1>1, <2>1 DEF Idle, downward
  <2> QED
      BY <1>1, <2>1, <2>2, <2>3 DEF PhaseOK
<1>12. DescendOK' /\ ContributeOK' /\ FinalOK' /\ UpdatedOK'
    BY <1>1, <1>3, DownwardSame, UpdatedSame DEF InFence
<1>13. completed' \in BOOLEAN
    BY <1>1, <1>3 DEF TypeOK
<1> QED
    BY <1>1, <1>2, <1>10, <1>11, <1>12, <1>13, TaskInv

LEMMA CombineUpInv ==
    ASSUME StepInv, NEW n, CombineUp(n)
    PROVE  StepInv'
<1> DEFINE arrived == {r \in raw : r.to = n}
           multipole == Total(arrived)
<1>1. /\ arrived # {} /\ Cardinality(arrived) = NumChildren(n)
      /\ multipoles' = Write(n, multipole, multipoles)
      /\ raw' = (raw \ arrived) \cup (IF n # RootBin THEN {Moment(n, multipole)} ELSE {})
      /\ completed' = (completed \/ n = RootBin)
      /\ seeds' = seeds /\ leafParticles' = leafParticles /\ updated' = updated
      /\ UNCHANGED downward /\ Task
    BY DEF CombineUp
<1>2. ~NothingLeft
    BY <1>1 DEF NothingLeft
<1>3. InFence /\ TypeOK /\ TreeOK
    BY <1>2, InTask
<1>4. UpwardOK
    BY <1>3 DEF InFence
<1>5. nodes' = nodes /\ Leaves' = Leaves /\ Inner' = Inner
    BY <1>1, TaskKeeps
<1>6. \A r \in raw : /\ r.from \in DOMAIN nodes \ {RootBin} /\ r.from \notin seeds
                     /\ r = Moment(r.from, MassOf(nodes[r.from]))
                     /\ r.to = Parent(r.from) /\ r.mass = MassOf(nodes[r.from])
    BY <1>4 DEF UpwardOK, Moment
<1>7. n \in Inner /\ \A r \in arrived : r.from \in ChildrenOf(n)
  <2>1. \A r \in arrived : n = Parent(r.from) /\ r.from \in DOMAIN nodes /\ r.from # RootBin
      BY <1>6
  <2>2. \A r \in arrived : n \in Inner /\ r.from \in ChildrenOf(n)
      BY <1>3, <2>1, TreeUp
  <2> QED
      BY <1>1, <2>2
<1>8. \A r, q \in arrived : r.from = q.from => r = q
    BY <1>6
<1>9. IsFiniteSet(arrived) /\ ChildrenOf(n) = {r.from : r \in arrived}
  <2> HIDE DEF arrived
  <2> QED
      BY <1>1, <1>3, <1>7, <1>8, AllChildren
<1>10. multipole = MassOf(nodes[n])
  <2>1. ASSUME NEW j \in Body PROVE multipole[j] = MassOf(nodes[n])[j]
    <3>1. \A r \in arrived : r.mass[j] = IF j \in nodes[r.from] THEN 1 ELSE 0
        BY <1>6 DEF MassOf
    <3> HIDE DEF arrived
    <3>2. Total(arrived)[j] = IF j \in nodes[n] THEN 1 ELSE 0
        BY <1>3, <1>7, <1>8, <1>9, <3>1, TotalOfChildren
    <3> QED
        BY <3>2 DEF MassOf
  <2>2. /\ multipole = [j \in Body |-> multipole[j]]
        /\ MassOf(nodes[n]) = [j \in Body |-> MassOf(nodes[n])[j]]
      BY DEF Total, MassOf
  <2> HIDE DEF multipole
  <2> QED
      BY <2>1, <2>2
<1>11. Partition(Pending) /\ ~completed /\ Idle
  <2>1. Pending # {}
      BY <1>1 DEF Pending
  <2> QED
      BY <1>3, <2>1 DEF InFence, PhaseOK
<1>12. ChildrenOf(n) \subseteq Pending
    BY <1>9 DEF Pending
<1>13. /\ Partition((Pending \ ChildrenOf(n)) \cup {n}) /\ n \notin Pending
       /\ \A u \in Pending \ ChildrenOf(n) : n \notin Above(u)
    BY <1>3, <1>7, <1>11, <1>12, PartGather
<1>14. {r.from : r \in raw \ arrived} = {r.from : r \in raw} \ ChildrenOf(n)
  <2>1. ASSUME NEW r \in raw, r.from \in ChildrenOf(n) PROVE r \in arrived
    <3>1. PICK q \in arrived : q.from = r.from
        BY <1>9, <2>1
    <3> QED
        BY <1>6, <3>1
  <2> QED
      BY <1>7, <2>1
<1>15. \A c \in ChildrenOf(n) : c \notin seeds
    BY <1>6, <1>9
<1>16. Pending' = (Pending \ ChildrenOf(n)) \cup (IF n # RootBin THEN {n} ELSE {})
  <2>1. Moment(n, multipole).from = n
      BY DEF Moment
  <2> HIDE DEF arrived, multipole
  <2>2. {r.from : r \in raw'} =
           {r.from : r \in raw \ arrived} \cup (IF n # RootBin THEN {n} ELSE {})
      BY <1>1, <2>1
  <2> QED
      BY <1>1, <1>14, <1>15, <2>2 DEF Pending
<1>17. n = RootBin => Pending' = {}
  <2>1. n = RootBin => (Pending \ ChildrenOf(n)) \cup {n} = {RootBin}
      BY <1>3, <1>13, PartRoot
  <2> QED
      BY <1>13, <1>16, <2>1
<1>18. n \in DOMAIN nodes /\ \A c \in ChildrenOf(n) : Above(c) = Above(n) \cup {n}
    BY <1>3, <1>7, TreeDown
<1>19. n \notin Above(n) /\ (n = RootBin => Above(n) = {})
    BY <1>3, TreeNodes DEF Above
<1>20. UpwardOK'
  <2>1. seeds' \subseteq Leaves \ {RootBin} /\ n \notin seeds
      BY <1>1, <1>4, <1>7 DEF UpwardOK, Inner
  <2>2. \A r \in raw' : /\ r.from \in DOMAIN nodes \ {RootBin} /\ r.from \notin seeds'
                        /\ r = Moment(r.from, MassOf(nodes[r.from]))
    <3> SUFFICES ASSUME NEW r \in raw'
                 PROVE  /\ r.from \in DOMAIN nodes \ {RootBin} /\ r.from \notin seeds'
                        /\ r = Moment(r.from, MassOf(nodes[r.from]))
        OBVIOUS
    <3>1. CASE r \in raw
        BY <1>1, <1>6, <3>1
    <3>2. CASE r \notin raw
      <4>1. n # RootBin /\ r = Moment(n, MassOf(nodes[n]))
          BY <1>1, <1>10, <3>2
      <4>2. r.from = n
          BY <4>1 DEF Moment
      <4> QED
          BY <1>1, <1>18, <2>1, <4>1, <4>2
    <3> QED
        BY <3>1, <3>2
  <2>3. DOMAIN leafParticles' = Leaves \ seeds' /\ \A b \in Leaves \ seeds' : leafParticles'[b] = nodes[b]
      BY <1>1, <1>4 DEF UpwardOK
  <2>4. DOMAIN multipoles' = {n} \cup DOMAIN multipoles
      BY <1>1, WriteFacts
  <2>5. DOMAIN multipoles = {m \in Inner : \A u \in Pending : m \notin Above(u)}
      BY <1>4 DEF UpwardOK
  <2>6. \A m \in DOMAIN multipoles' : multipoles'[m] = MassOf(nodes[m])
    <3>0. multipoles' = Write(n, multipole, multipoles)
        BY <1>1
    <3> HIDE DEF multipole
    <3>1. multipoles'[n] = MassOf(nodes[n])
      <4>1. Write(n, multipole, multipoles)[n] = multipole
          BY WriteFacts
      <4> QED
          BY <1>10, <3>0, <4>1
    <3>2. \A m \in DOMAIN multipoles \ {n} : multipoles'[m] = multipoles[m]
      <4>1. \A m \in DOMAIN multipoles \ {n} :
               Write(n, multipole, multipoles)[m] = multipoles[m]
          BY DEF Write, Written
      <4> QED
          BY <3>0, <4>1
    <3>3. \A m \in DOMAIN multipoles : multipoles[m] = MassOf(nodes[m])
        BY <1>4 DEF UpwardOK
    <3> QED
        BY <2>4, <3>1, <3>2, <3>3
  <2>7. ASSUME NEW m \in Inner
        PROVE  (\A u \in Pending' : m \notin Above(u)) <=> m = n \/ \A u \in Pending : m \notin Above(u)
    <3>1. PICK c \in ChildrenOf(n) : TRUE
        BY <1>1, <1>9
    <3>2. ASSUME m = n PROVE \A u \in Pending' : m \notin Above(u)
        BY <1>13, <1>16, <1>19, <3>2
    <3>3. ASSUME \A u \in Pending : m \notin Above(u) PROVE \A u \in Pending' : m \notin Above(u)
        BY <1>12, <1>16, <1>18, <3>1, <3>3
    <3>4. ASSUME \A u \in Pending' : m \notin Above(u), m # n, NEW u \in Pending
          PROVE  m \notin Above(u)
      <4>1. CASE u \in ChildrenOf(n)
        <5>1. m \notin Above(n)
            BY <1>16, <1>19, <3>4
        <5> QED
            BY <1>18, <3>4, <4>1, <5>1
      <4>2. CASE u \notin ChildrenOf(n)
          BY <1>16, <3>4, <4>2
      <4> QED
          BY <4>1, <4>2
    <3> QED
        BY <3>2, <3>3, <3>4
  <2>8. DOMAIN multipoles' = {m \in Inner : \A u \in Pending' : m \notin Above(u)}
      BY <1>7, <2>4, <2>5, <2>7
  <2> QED
      BY <1>5, <2>1, <2>2, <2>3, <2>6, <2>8, <1>1 DEF UpwardOK
<1>21. PhaseOK'
  <2>1. Idle'
      BY <1>1, <1>11 DEF Idle, downward
  <2>2. CASE n = RootBin
      BY <1>1, <1>17, <2>1, <2>2 DEF PhaseOK
  <2>3. CASE n # RootBin
    <3>1. Pending' = (Pending \ ChildrenOf(n)) \cup {n}
        BY <1>16, <2>3
    <3>2. Partition(Pending)'
        BY <1>5, <1>13, <3>1 DEF Partition
    <3> QED
        BY <1>1, <1>11, <2>1, <2>3, <3>2 DEF PhaseOK
  <2> QED
      BY <2>2, <2>3
<1>22. DescendOK' /\ ContributeOK' /\ FinalOK' /\ UpdatedOK'
    BY <1>1, <1>3, DownwardSame, UpdatedSame DEF InFence
<1>23. completed' \in BOOLEAN
    BY <1>1
<1> QED
    BY <1>1, <1>2, <1>20, <1>21, <1>22, <1>23, TaskInv

----------------------------------------------------------------------------
(* The downward pass. *)

LEMMA SeedFromUpwardInv ==
    ASSUME StepInv, SeedFromUpward
    PROVE  StepInv'
<1>1. /\ completed /\ completed' = FALSE
      /\ descend' = descend \cup {Pair(t, RootBin) : t \in DOMAIN leafParticles}
      /\ seeds' = seeds /\ raw' = raw /\ contribute' = contribute /\ final' = final
      /\ leafParticles' = leafParticles /\ multipoles' = multipoles /\ updated' = updated /\ Task
    BY DEF SeedFromUpward, stores
<1>2. ~NothingLeft
    BY <1>1 DEF NothingLeft
<1>3. InFence /\ TypeOK /\ TreeOK
    BY <1>2, InTask
<1>4. Pending = {} /\ Idle /\ UpwardOK
    BY <1>1, <1>3 DEF InFence, PhaseOK
<1>5. nodes' = nodes /\ Leaves' = Leaves
    BY <1>1, TaskKeeps
<1>6. DOMAIN leafParticles = Leaves
    BY <1>4 DEF Pending, UpwardOK
<1>7. descend' = {Pair(t, RootBin) : t \in Leaves} /\ contribute' = {} /\ final' = {} /\ DOMAIN updated = {}
    BY <1>1, <1>4, <1>6 DEF Idle
<1>8. DescendOK'
    BY <1>3, <1>5, <1>7, TreeNodes DEF DescendOK, Pair
<1>9. ContributeOK' /\ FinalOK'
    BY <1>7 DEF ContributeOK, FinalOK
<1>10. UpwardOK' /\ Pending' = Pending /\ UpdatedOK'
    BY <1>1, <1>3, <1>4, UpwardSame, UpdatedSame DEF InFence
<1>11. ASSUME NEW t \in Leaves PROVE WalkOK(t)'
  <2>1. Pair(t, RootBin) \in descend' /\ Pair(t, RootBin).target = t /\ Pair(t, RootBin).source = RootBin
      BY <1>7, <1>11 DEF Pair
  <2>2. \A q \in descend' : q.source = RootBin
      BY <1>7 DEF Pair
  <2>3. Sources(t)' = {RootBin}
      BY <1>7, <2>1, <2>2 DEF Sources, SourcesIn
  <2>4. Partition(Sources(t))'
    <3>1. Partition({RootBin})
        BY <1>3, PartRoot
    <3> QED
        BY <1>5, <2>3, <3>1 DEF Partition
  <2> QED
      BY <1>1, <1>7, <2>4 DEF WalkOK
<1>12. PhaseOK'
    BY <1>1, <1>4, <1>5, <1>10, <1>11 DEF PhaseOK
<1>13. completed' \in BOOLEAN
    BY <1>1
<1> QED
    BY <1>1, <1>2, <1>8, <1>9, <1>10, <1>12, <1>13, TaskInv

\* Once the walks are under way nothing is left of the upward pass.
LEMMA Walking ==
    ASSUME StepInv, descend # {} \/ contribute # {} \/ final # {}
    PROVE  /\ ~NothingLeft /\ InFence /\ TypeOK /\ TreeOK
           /\ Pending = {} /\ ~completed /\ \A t \in Leaves : WalkOK(t)
           /\ DOMAIN leafParticles = Leaves /\ \A b \in Leaves : leafParticles[b] = nodes[b]
           /\ DOMAIN multipoles = Inner /\ \A n \in Inner : multipoles[n] = MassOf(nodes[n])
<1>1. ~NothingLeft
    BY DEF NothingLeft
<1>2. InFence /\ TypeOK /\ TreeOK
    BY <1>1, InTask
<1>3. Pending = {} /\ ~completed /\ \A t \in Leaves : WalkOK(t)
    BY <1>2 DEF InFence, PhaseOK, Idle
<1>4. seeds = {} /\ UpwardOK
    BY <1>2, <1>3 DEF Pending, InFence
<1>5. DOMAIN leafParticles = Leaves /\ \A b \in Leaves : leafParticles[b] = nodes[b]
    BY <1>4 DEF UpwardOK
<1>6. DOMAIN multipoles = Inner /\ \A n \in Inner : multipoles[n] = MassOf(nodes[n])
    BY <1>3, <1>4 DEF UpwardOK
<1> QED
    BY <1>1, <1>2, <1>3, <1>5, <1>6

\* What a source has given to a target takes the place of what it was made of.
LEMMA Contributed ==
    ASSUME StepInv, descend # {} \/ contribute # {}, Task,
           UNCHANGED <<upward, stores, updated>>,
           NEW t \in Leaves, NEW s \in DOMAIN nodes, NEW seen, Sees(seen, t, nodes[s]),
           NEW taken \in SUBSET contribute, descend' \in SUBSET descend,
           Contributes(t, s, seen, taken),
           s \notin SourcesIn(descend', contribute \ taken, t),
           Partition(SourcesIn(descend', contribute \ taken, t) \cup {s}),
           \A u \in Leaves \ {t} : SourcesIn(descend', contribute \ taken, u) = Sources(u),
           Sources(t) # {}
    PROVE  StepInv'
<1> DEFINE rest == SourcesIn(descend', contribute \ taken, t)
           new == [to |-> Pair(t, Parent(s)), from |-> s, seen |-> seen]
<1>1. /\ ~NothingLeft /\ InFence /\ TypeOK /\ TreeOK /\ UpwardOK
      /\ Pending = {} /\ ~completed /\ \A u \in Leaves : WalkOK(u)
    BY Walking DEF InFence
<1>2. /\ seeds' = seeds /\ raw' = raw /\ completed' = completed /\ updated' = updated
      /\ leafParticles' = leafParticles /\ multipoles' = multipoles
    BY DEF upward, stores
<1>3. nodes' = nodes /\ Leaves' = Leaves
    BY TaskKeeps
<1>4. UpwardOK' /\ Pending' = Pending /\ UpdatedOK'
    BY <1>1, <1>2, UpwardSame, UpdatedSame DEF InFence
<1>5. DescendOK'
    BY <1>1, <1>3 DEF InFence, DescendOK
<1>6. (\A f \in final : f.target # t) /\ nodes[t] \cap DOMAIN updated = {}
    BY <1>1 DEF WalkOK
<1>7. ContributeOK /\ FinalOK
    BY <1>1 DEF InFence
<1>8. \A c \in contribute : Sees(c.seen, c.to.target, nodes[c.from])' <=> Sees(c.seen, c.to.target, nodes[c.from])
    BY <1>3 DEF Sees
<1>9. CASE s = RootBin
  <2> DEFINE last == [target |-> t, seen |-> seen]
  <2>1. final' = final \cup {last} /\ contribute' = contribute \ taken
      BY <1>9 DEF Contributes
  <2>2. rest = {}
    <3>1. rest \cup {s} = {RootBin} /\ s \notin rest
        BY <1>1, <1>9, PartRoot
    <3> HIDE DEF rest
    <3> QED
        BY <1>9, <3>1
  <2>3. ContributeOK'
      BY <1>3, <1>7, <1>8, <2>1 DEF ContributeOK
  <2>4. Sees(seen, t, Body)'
    <3>1. nodes[s] = Body
        BY <1>1, <1>9, TreeNodes
    <3> QED
        BY <1>3, <3>1 DEF Sees
  <2>5. FinalOK'
    <3> SUFFICES ASSUME NEW f \in final'
                 PROVE  /\ f.target \in Leaves' /\ Sees(f.seen, f.target, Body)'
                        /\ \A g \in final' : g.target = f.target => g = f
        BY DEF FinalOK
    <3>1. CASE f = last
        BY <1>3, <1>6, <2>1, <2>4, <3>1
    <3>2. CASE f \in final
        BY <1>3, <1>6, <1>7, <2>1, <3>2 DEF FinalOK, Sees
    <3> QED
        BY <2>1, <3>1, <3>2
  <2>6. WalkOK(t)'
    <3>1. Sources(t)' = {}
        BY <2>1, <2>2 DEF Sources
    <3>2. \E f \in final' : f.target = t
      <4>1. last \in final' /\ last.target = t
          BY <2>1
      <4> HIDE DEF last
      <4> QED
          BY <4>1
    <3> QED
        BY <1>2, <1>3, <1>6, <3>1, <3>2 DEF WalkOK
  <2>7. ASSUME NEW u \in Leaves \ {t} PROVE WalkOK(u)'
    <3>1. Sources(u)' = Sources(u)
        BY <2>1, <2>7 DEF Sources
    <3>2. (\E f \in final' : f.target = u) <=> (\E f \in final : f.target = u)
        BY <2>1, <2>7
    <3>3. WalkOK(u)
        BY <1>1, <2>7
    <3> QED
        BY <1>2, <3>1, <3>2, <3>3, WalkSame
  <2>8. PhaseOK'
      BY <1>1, <1>2, <1>3, <1>4, <2>6, <2>7 DEF PhaseOK
  <2>9. completed' \in BOOLEAN
      BY <1>1, <1>2 DEF TypeOK
  <2> QED
      BY <1>1, <1>4, <1>5, <2>3, <2>5, <2>8, <2>9, TaskInv
<1>10. CASE s # RootBin
  <2>1. contribute' = (contribute \ taken) \cup {new} /\ final' = final
      BY <1>10 DEF Contributes
  <2>2. new.to = Pair(t, Parent(s)) /\ new.to.target = t /\ new.from = s /\ new.seen = seen
      BY DEF Pair
  <2>3. Pair(t, s) \notin descend' /\ \A c \in contribute \ taken : ~(c.to.target = t /\ c.from = s)
    <3>1. Pair(t, s).target = t /\ Pair(t, s).source = s
        BY DEF Pair
    <3> QED
        BY <3>1 DEF SourcesIn
  <2>4. ContributeOK'
    <3> SUFFICES ASSUME NEW c \in contribute'
                 PROVE  /\ c.to.target \in Leaves' /\ c.from \in DOMAIN nodes' \ {RootBin}
                        /\ c.to = Pair(c.to.target, Parent(c.from))
                        /\ c = [to |-> c.to, from |-> c.from, seen |-> c.seen]
                        /\ Sees(c.seen, c.to.target, nodes[c.from])'
                        /\ Pair(c.to.target, c.from) \notin descend'
                        /\ \A d \in contribute' : d.to.target = c.to.target /\ d.from = c.from => d = c
        BY DEF ContributeOK
    <3>1. CASE c = new
      <4>1. Sees(seen, t, nodes[s])'
          BY <1>3 DEF Sees
      <4>2. Sees(c.seen, c.to.target, nodes[c.from])'
          BY <1>3, <2>2, <3>1, <4>1 DEF Sees
      <4> QED
          BY <1>3, <1>10, <2>1, <2>2, <2>3, <3>1, <4>2
    <3>2. CASE c \in contribute \ taken
      <4>1. /\ c.to.target \in Leaves /\ c.from \in DOMAIN nodes \ {RootBin}
            /\ c.to = Pair(c.to.target, Parent(c.from))
            /\ c = [to |-> c.to, from |-> c.from, seen |-> c.seen]
            /\ Sees(c.seen, c.to.target, nodes[c.from])
            /\ Pair(c.to.target, c.from) \notin descend
            /\ \A d \in contribute : d.to.target = c.to.target /\ d.from = c.from => d = c
          BY <1>7, <3>2 DEF ContributeOK
      <4>2. \A d \in contribute' : d.to.target = c.to.target /\ d.from = c.from => d = c
          BY <2>1, <2>2, <2>3, <3>2, <4>1
      <4> QED
          BY <1>3, <1>8, <3>2, <4>1, <4>2
    <3> QED
        BY <2>1, <3>1, <3>2
  <2>5. FinalOK'
      BY <1>3, <1>7, <2>1 DEF FinalOK, Sees
  <2>6. WalkOK(t)'
    <3>1. Sources(t)' = rest \cup {s}
        BY <2>1, <2>2 DEF Sources, SourcesIn
    <3>2. Partition(Sources(t))'
        BY <1>3, <3>1 DEF Partition
    <3> QED
        BY <1>2, <1>3, <1>6, <2>1, <3>2 DEF WalkOK
  <2>7. ASSUME NEW u \in Leaves \ {t} PROVE WalkOK(u)'
    <3>1. Sources(u)' = SourcesIn(descend', contribute \ taken, u)
        BY <2>1, <2>2, <2>7 DEF Sources, SourcesIn
    <3>2. Sources(u)' = Sources(u)
        BY <2>7, <3>1
    <3>3. WalkOK(u)
        BY <1>1, <2>7
    <3> QED
        BY <1>2, <2>1, <3>2, <3>3, WalkSame
  <2>8. PhaseOK'
      BY <1>1, <1>2, <1>3, <1>4, <2>6, <2>7 DEF PhaseOK
  <2>9. completed' \in BOOLEAN
      BY <1>1, <1>2 DEF TypeOK
  <2> QED
      BY <1>1, <1>4, <1>5, <2>4, <2>5, <2>8, <2>9, TaskInv
<1> QED
    BY <1>9, <1>10

LEMMA DispatchInv ==
    ASSUME StepInv, NEW p, Dispatch(p)
    PROVE  StepInv'
<1> DEFINE t == p.target
           s == p.source
           far == s \notin Leaves /\ MacAcceptBox(t, multipoles[s], s)
           seen == IF far THEN FromMultipole(t, s) ELSE DirectSum(t, s)
<1>1. /\ p \in descend /\ UNCHANGED <<upward, stores, updated>> /\ Task
      /\ \/ /\ s \in Leaves \/ far
            /\ Contributes(t, s, seen, {}) /\ descend' = descend \ {p}
         \/ /\ s \notin Leaves /\ ~far
            /\ descend' = (descend \ {p}) \cup {Pair(t, c) : c \in ChildrenOf(s)}
            /\ UNCHANGED <<contribute, final>>
    BY DEF Dispatch
<1>2. /\ ~NothingLeft /\ InFence /\ TypeOK /\ TreeOK
      /\ Pending = {} /\ ~completed /\ \A u \in Leaves : WalkOK(u)
      /\ DOMAIN leafParticles = Leaves /\ \A b \in Leaves : leafParticles[b] = nodes[b]
      /\ DOMAIN multipoles = Inner /\ \A n \in Inner : multipoles[n] = MassOf(nodes[n])
    BY <1>1, Walking
<1>3. DescendOK /\ ContributeOK /\ FinalOK
    BY <1>2 DEF InFence
<1>4. t \in Leaves /\ s \in DOMAIN nodes /\ p = Pair(t, s)
    BY <1>1, <1>3 DEF DescendOK
<1>5. s \in Sources(t)
    BY <1>1 DEF Sources, SourcesIn
<1>6. Partition(Sources(t)) /\ (\A f \in final : f.target # t) /\ nodes[t] \cap DOMAIN updated = {}
    BY <1>2, <1>4, <1>5 DEF WalkOK
<1>7. \A q \in descend \ {p} : ~(q.target = t /\ q.source = s)
    BY <1>3, <1>4 DEF DescendOK
<1>8. \A c \in contribute : ~(c.to.target = t /\ c.from = s)
    BY <1>1, <1>3, <1>4 DEF ContributeOK
<1>9. SourcesIn(descend \ {p}, contribute, t) = Sources(t) \ {s}
    BY <1>1, <1>7, <1>8 DEF Sources, SourcesIn
<1>10. \A u \in Leaves \ {t} : SourcesIn(descend \ {p}, contribute, u) = Sources(u)
    BY DEF Sources, SourcesIn
<1> HIDE DEF t, s, seen
<1>11. CASE (s \in Leaves \/ far) /\ Contributes(t, s, seen, {}) /\ descend' = descend \ {p}
  <2>1. Sees(seen, t, nodes[s])
    <3> SUFFICES ASSUME NEW i \in nodes[t]
                 PROVE  /\ seen[i] \in [Body -> Int]
                        /\ \A j \in Body \ {i} : seen[i][j] = IF j \in nodes[s] THEN 1 ELSE 0
        BY DEF Sees
    <3>1. CASE far
      <4>1. s \in Inner
          BY <1>4, <3>1 DEF Inner
      <4>2. seen[i] = MassOf(nodes[s])
          BY <1>2, <3>1, <4>1 DEF seen, FromMultipole
      <4>3. seen[i] \in [Body -> Int]
          BY <4>2, MassType
      <4> QED
          BY <4>2, <4>3 DEF MassOf
    <3>2. CASE ~far
      <4>1. s \in Leaves
          BY <1>11, <3>2
      <4>2. seen[i] = MassOf(nodes[s] \ {i})
          BY <1>2, <3>2, <4>1 DEF seen, DirectSum
      <4>3. seen[i] \in [Body -> Int]
          BY <4>2, MassType
      <4> QED
          BY <4>2, <4>3 DEF MassOf
    <3> QED
        BY <3>1, <3>2
  <2>2. contribute \ {} = contribute /\ {} \in SUBSET contribute
      OBVIOUS
  <2>3. SourcesIn(descend', contribute \ {}, t) = Sources(t) \ {s}
      BY <1>9, <1>11, <2>2
  <2>4. Partition(SourcesIn(descend', contribute \ {}, t) \cup {s})
    <3>1. (Sources(t) \ {s}) \cup {s} = Sources(t)
        BY <1>5
    <3> QED
        BY <1>6, <2>3, <3>1
  <2>5. \A u \in Leaves \ {t} : SourcesIn(descend', contribute \ {}, u) = Sources(u)
      BY <1>10, <1>11, <2>2
  <2>6. descend # {} /\ descend' \in SUBSET descend /\ Sources(t) # {}
      BY <1>1, <1>5, <1>11
  <2>7. s \notin SourcesIn(descend', contribute \ {}, t)
      BY <2>3
  <2> QED
      BY <1>1, <1>4, <1>11, <2>1, <2>2, <2>4, <2>5, <2>6, <2>7, Contributed
<1>12. CASE /\ s \notin Leaves /\ ~far
            /\ descend' = (descend \ {p}) \cup {Pair(t, c) : c \in ChildrenOf(s)}
            /\ UNCHANGED <<contribute, final>>
  <2>1. s \in Inner
      BY <1>4, <1>12 DEF Inner
  <2>2. nodes' = nodes /\ Leaves' = Leaves
      BY <1>1, TaskKeeps
  <2>3. /\ seeds' = seeds /\ raw' = raw /\ completed' = completed /\ updated' = updated
        /\ leafParticles' = leafParticles /\ multipoles' = multipoles
        /\ contribute' = contribute /\ final' = final
      BY <1>1, <1>12 DEF upward, stores
  <2>4. UpwardOK' /\ Pending' = Pending /\ UpdatedOK'
      BY <1>1, <1>2, <2>3, UpwardSame, UpdatedSame DEF InFence
  <2>5. /\ Partition((Sources(t) \ {s}) \cup ChildrenOf(s))
        /\ ChildrenOf(s) \cap Sources(t) = {}
      BY <1>2, <1>5, <1>6, <2>1, PartReplace
  <2>6. \A c \in ChildrenOf(s) : c \in DOMAIN nodes
      BY <1>2, <2>1, TreeDown
  <2>7. \A c : Pair(t, c).target = t /\ Pair(t, c).source = c
      BY DEF Pair
  <2>8. DescendOK'
    <3> SUFFICES ASSUME NEW q \in descend'
                 PROVE  /\ q.target \in Leaves /\ q.source \in DOMAIN nodes
                        /\ q = Pair(q.target, q.source)
        BY <2>2 DEF DescendOK
    <3>1. CASE q \in descend
        BY <1>3, <3>1 DEF DescendOK
    <3>2. CASE q \notin descend
      <4>1. PICK c \in ChildrenOf(s) : q = Pair(t, c)
          BY <1>12, <3>2
      <4> QED
          BY <1>4, <2>6, <2>7, <4>1
    <3> QED
        BY <3>1, <3>2
  <2>9. ContributeOK'
    <3> SUFFICES ASSUME NEW c \in contribute, Pair(c.to.target, c.from) \in descend'
                 PROVE  FALSE
        BY <1>3, <2>2, <2>3 DEF ContributeOK, Sees
    <3>1. Pair(c.to.target, c.from) \notin descend
        BY <1>3 DEF ContributeOK
    <3>2. PICK d \in ChildrenOf(s) : Pair(c.to.target, c.from) = Pair(t, d)
        BY <1>12, <3>1
    <3>3. c.to.target = t /\ c.from = d
        BY <3>2 DEF Pair
    <3>4. d \in Sources(t)
        BY <3>3 DEF Sources, SourcesIn
    <3> QED
        BY <2>5, <3>4
  <2>10. FinalOK'
      BY <1>3, <2>2, <2>3 DEF FinalOK, Sees
  <2>11. WalkOK(t)'
    <3>1. {q.source : q \in {x \in descend' : x.target = t}} =
             {q.source : q \in {x \in descend \ {p} : x.target = t}} \cup ChildrenOf(s)
        BY <1>12, <2>7
    <3>2. Sources(t)' = SourcesIn(descend \ {p}, contribute, t) \cup ChildrenOf(s)
        BY <2>3, <3>1 DEF Sources, SourcesIn
    <3>3. Partition(Sources(t))'
        BY <1>9, <2>2, <2>5, <3>2 DEF Partition
    <3> QED
        BY <1>6, <2>2, <2>3, <3>3 DEF WalkOK
  <2>12. ASSUME NEW u \in Leaves \ {t} PROVE WalkOK(u)'
    <3>1. {q.source : q \in {x \in descend' : x.target = u}} =
             {q.source : q \in {x \in descend \ {p} : x.target = u}}
        BY <1>12, <2>7, <2>12
    <3>2. Sources(u)' = SourcesIn(descend \ {p}, contribute, u)
        BY <2>3, <3>1 DEF Sources, SourcesIn
    <3>3. Sources(u)' = Sources(u) /\ WalkOK(u)
        BY <1>2, <1>10, <2>12, <3>2
    <3> QED
        BY <1>1, <2>3, <3>3, WalkSame
  <2>13. PhaseOK'
      BY <1>2, <2>2, <2>3, <2>4, <2>11, <2>12 DEF PhaseOK
  <2>14. completed' \in BOOLEAN
      BY <1>2, <2>3 DEF TypeOK
  <2> QED
      BY <1>1, <1>2, <2>4, <2>8, <2>9, <2>10, <2>13, <2>14, TaskInv
<1> QED
    BY <1>1, <1>11, <1>12

LEMMA CombineDownInv ==
    ASSUME StepInv, NEW p, CombineDown(p)
    PROVE  StepInv'
<1> DEFINE arrived == {c \in contribute : c.to = p}
           t == p.target
           s == p.source
           table(i) == {[from |-> c.from, mass |-> c.seen[i]] : c \in arrived}
           sum == [i \in nodes[t] |-> Total(table(i))]
<1>1. /\ arrived # {} /\ Cardinality(arrived) = NumChildren(s)
      /\ Contributes(t, s, sum, arrived)
      /\ UNCHANGED <<upward, stores, updated>> /\ descend' = descend /\ Task
    BY DEF CombineDown
<1>2. contribute # {} /\ arrived \in SUBSET contribute
    BY <1>1
<1>3. /\ InFence /\ TypeOK /\ TreeOK /\ \A u \in Leaves : WalkOK(u)
    BY <1>2, Walking
<1>4. \A c \in contribute :
         /\ c.to.target \in Leaves /\ c.from \in DOMAIN nodes \ {RootBin}
         /\ c.to = Pair(c.to.target, Parent(c.from))
         /\ Sees(c.seen, c.to.target, nodes[c.from])
         /\ Pair(c.to.target, c.from) \notin descend
         /\ \A d \in contribute : d.to.target = c.to.target /\ d.from = c.from => d = c
    BY <1>3 DEF InFence, ContributeOK
<1>5. \A c \in contribute : c.to.target = t /\ Parent(c.from) = s <=> c \in arrived
  <2>1. PICK c \in arrived : TRUE
      BY <1>1
  <2>2. p = Pair(t, s)
    <3>1. p = Pair(c.to.target, Parent(c.from))
        BY <1>4, <2>1
    <3> QED
        BY <3>1 DEF Pair
  <2> HIDE DEF t, s
  <2>3. \A d \in contribute : d.to = Pair(t, s) <=> d.to.target = t /\ Parent(d.from) = s
    <3>1. \A d \in contribute : d.to = Pair(d.to.target, Parent(d.from))
        BY <1>4
    <3>2. \A a, b : Pair(a, b) = Pair(t, s) <=> a = t /\ b = s
        BY DEF Pair
    <3> QED
        BY <3>1, <3>2
  <2> QED
      BY <2>2, <2>3
<1>6. t \in Leaves /\ s \in Inner /\ \A c \in arrived : c.from \in ChildrenOf(s)
  <2>1. \A c \in arrived : c.to.target = t /\ Parent(c.from) = s
      BY <1>5
  <2> HIDE DEF t, s
  <2>2. \A c \in arrived : t \in Leaves /\ s \in Inner /\ c.from \in ChildrenOf(s)
      BY <1>3, <1>4, <2>1, TreeUp
  <2> QED
      BY <1>1, <2>2
<1>7. \A c, d \in arrived : c.from = d.from => c = d
    BY <1>4
<1>8. IsFiniteSet(arrived) /\ ChildrenOf(s) = {c.from : c \in arrived}
  <2> HIDE DEF arrived, s
  <2> QED
      BY <1>1, <1>3, <1>6, <1>7, AllChildren
<1>9. Sees(sum, t, nodes[s])
  <2> SUFFICES ASSUME NEW i \in nodes[t]
               PROVE  /\ sum[i] \in [Body -> Int]
                      /\ \A j \in Body \ {i} : sum[i][j] = IF j \in nodes[s] THEN 1 ELSE 0
      BY DEF Sees
  <2> DEFINE R == table(i)
  <2>1. sum[i] = Total(R)
      OBVIOUS
  <2>2. \A c \in arrived : /\ c.seen[i] \in [Body -> Int]
                           /\ \A j \in Body \ {i} : c.seen[i][j] = IF j \in nodes[c.from] THEN 1 ELSE 0
      BY <1>4, <1>5 DEF Sees
  <2>3. IsFiniteSet(R)
    <3> DEFINE f == [c \in arrived |-> [from |-> c.from, mass |-> c.seen[i]]]
    <3>1. DOMAIN f = arrived /\ R = {f[c] : c \in arrived}
        OBVIOUS
    <3> HIDE DEF f, arrived, R
    <3> QED
        BY <1>8, <3>1, ImageFinite
  <2>4. \A r \in R : \E c \in arrived : r = [from |-> c.from, mass |-> c.seen[i]]
      OBVIOUS
  <2>5. \A c \in arrived : [from |-> c.from, mass |-> c.seen[i]] \in R
      OBVIOUS
  <2> HIDE DEF R, sum, s, t, arrived
  <2>6. \A r, q \in R : r.from = q.from => r = q
      BY <1>7, <2>4
  <2>7. ChildrenOf(s) = {r.from : r \in R}
    <3>1. ASSUME NEW c \in ChildrenOf(s) PROVE \E r \in R : r.from = c
      <4>1. PICK d \in arrived : d.from = c
          BY <1>8, <3>1
      <4> DEFINE r == [from |-> d.from, mass |-> d.seen[i]]
      <4>2. r \in R /\ r.from = c
          BY <2>5, <4>1
      <4> HIDE DEF r
      <4> QED
          BY <4>2
    <3>2. \A r \in R : r.from \in ChildrenOf(s)
        BY <1>6, <2>4
    <3> QED
        BY <3>1, <3>2
  <2>8. \A r \in R : /\ r.mass \in [Body -> Int]
                     /\ \A j \in Body \ {i} : r.mass[j] = IF j \in nodes[r.from] THEN 1 ELSE 0
      BY <2>2, <2>4
  <2>9. Total(R) \in [Body -> Int]
      BY <2>3, <2>8, TotalType
  <2>10. ASSUME NEW j \in Body \ {i} PROVE Total(R)[j] = IF j \in nodes[s] THEN 1 ELSE 0
    <3>1. \A r \in R : r.mass[j] = IF j \in nodes[r.from] THEN 1 ELSE 0
        BY <2>8
    <3> QED
        BY <1>3, <1>6, <2>3, <2>6, <2>7, <3>1, TotalOfChildren
  <2> QED
      BY <2>1, <2>9, <2>10
<1> HIDE DEF sum, t, s
<1>10. ChildrenOf(s) \subseteq Sources(t)
    BY <1>5, <1>8 DEF Sources, SourcesIn
<1>11. Sources(t) # {} /\ Partition(Sources(t))
  <2>1. Sources(t) # {}
      BY <1>1, <1>8, <1>10
  <2> QED
      BY <1>3, <1>6, <2>1 DEF WalkOK
<1>12. Partition((Sources(t) \ ChildrenOf(s)) \cup {s}) /\ s \notin Sources(t)
    BY <1>3, <1>6, <1>10, <1>11, PartGather
<1>13. SourcesIn(descend', contribute \ arrived, t) = Sources(t) \ ChildrenOf(s)
  <2>1. \A q \in descend : q.target = t => q.source \notin ChildrenOf(s)
    <3>1. \A q \in descend : q = Pair(q.target, q.source)
        BY <1>3 DEF InFence, DescendOK
    <3>2. \A c \in ChildrenOf(s) : Pair(t, c) \notin descend
        BY <1>4, <1>5, <1>8
    <3> QED
        BY <3>1, <3>2
  <2>2. \A c \in contribute \ arrived : c.to.target = t => c.from \notin ChildrenOf(s)
    <3>1. \A c \in ChildrenOf(s) : Parent(c) = s
        BY <1>3, <1>6, TreeDown
    <3> QED
        BY <1>5, <3>1
  <2>3. \A c \in arrived : c.from \in ChildrenOf(s)
      BY <1>6
  <2> HIDE DEF arrived
  <2> QED
      BY <1>1, <1>2, <2>1, <2>2, <2>3 DEF Sources, SourcesIn
<1>14. \A u \in Leaves \ {t} : SourcesIn(descend', contribute \ arrived, u) = Sources(u)
  <2>1. \A c \in arrived : c.to.target = t
      BY <1>5
  <2> HIDE DEF arrived
  <2> QED
      BY <1>1, <2>1 DEF Sources, SourcesIn
<1>15. s \in DOMAIN nodes
    BY <1>6 DEF Inner
<1>16. s \notin SourcesIn(descend', contribute \ arrived, t)
    BY <1>12, <1>13
<1> HIDE DEF arrived
<1> QED
    BY <1>1, <1>2, <1>6, <1>9, <1>11, <1>12, <1>13, <1>14, <1>15, <1>16, Contributed

LEMMA SinkInv ==
    ASSUME StepInv, NEW f, Sink(f)
    PROVE  StepInv'
<1> DEFINE t == f.target
           moved == [i \in leafParticles[t] |-> Integrated(particles[i], Pull(i, f.seen[i]))]
<1>1. /\ f \in final /\ final' = final \ {f}
      /\ updated' = Written(moved, updated)
      /\ UNCHANGED <<upward, descend, contribute, stores>> /\ Task
    BY DEF Sink
<1>2. /\ ~NothingLeft /\ InFence /\ TypeOK /\ TreeOK
      /\ Pending = {} /\ ~completed /\ \A u \in Leaves : WalkOK(u)
      /\ \A b \in Leaves : leafParticles[b] = nodes[b]
    BY <1>1, Walking
<1>3. /\ DescendOK /\ ContributeOK /\ FinalOK /\ UpdatedOK /\ UpwardOK
      /\ evaluation <= Steps /\ reference = particles
    BY <1>2, InTask DEF InFence
<1>4. /\ t \in Leaves /\ Sees(f.seen, t, Body) /\ \A g \in final' : g.target # t
    BY <1>1, <1>3 DEF FinalOK
<1>5. Sources(t) = {} /\ nodes[t] \cap DOMAIN updated = {}
    BY <1>1, <1>2, <1>4 DEF WalkOK
<1>6. nodes' = nodes /\ Leaves' = Leaves
    BY <1>1, TaskKeeps
<1>7. /\ seeds' = seeds /\ raw' = raw /\ completed' = completed
      /\ leafParticles' = leafParticles /\ multipoles' = multipoles
      /\ descend' = descend /\ contribute' = contribute
    BY <1>1 DEF upward, stores
<1>8. UpwardOK' /\ Pending' = Pending
    BY <1>1, <1>3, <1>7, UpwardSame
<1>9. nodes[t] \subseteq Body
    BY <1>2, <1>4, TreeNodes DEF Leaves
<1>10. DOMAIN updated' = nodes[t] \cup DOMAIN updated
    BY <1>1, <1>2, <1>4 DEF Written
<1>11. UpdatedOK'
  <2>1. \A i \in nodes[t] : moved[i] = ByOthers(i)
    <3> SUFFICES ASSUME NEW i \in nodes[t] PROVE moved[i] = ByOthers(i)
        OBVIOUS
    <3>1. i \in Body /\ f.seen[i] \in [Body -> Int] /\ \A j \in Body \ {i} : f.seen[i][j] = 1
        BY <1>4, <1>9 DEF Sees
    <3>2. Pull(i, f.seen[i]) = Others(i)
        BY <1>2, <3>1, PullOfOthers DEF TreeOK
    <3>3. moved[i] = Integrated(particles[i], Pull(i, f.seen[i]))
        BY <1>2, <1>4
    <3> QED
        BY <1>2, <1>3, <3>1, <3>2, <3>3, LeapfrogStep
  <2>2. \A i \in DOMAIN updated : updated[i] = ByOthers(i)
      BY <1>3 DEF UpdatedOK
  <2>3. DOMAIN moved = nodes[t]
      BY <1>2, <1>4
  <2> HIDE DEF moved
  <2>4. updated' = [i \in nodes[t] \cup DOMAIN updated |-> ByOthers(i)]
      BY <1>1, <2>1, <2>2, <2>3 DEF Written
  <2>5. DOMAIN updated' \subseteq Body
      BY <1>3, <1>9, <1>10 DEF UpdatedOK
  <2>6. \A i \in DOMAIN updated' : ByOthers(i)' = ByOthers(i)
      BY <1>1, <2>5, TaskKeeps
  <2> QED
      BY <1>10, <2>4, <2>5, <2>6 DEF UpdatedOK
<1>12. DescendOK' /\ ContributeOK' /\ FinalOK'
    BY <1>1, <1>3, <1>6, <1>7 DEF DescendOK, ContributeOK, FinalOK, Sees
<1>13. \A u : Sources(u)' = Sources(u)
    BY <1>7 DEF Sources
<1>14. WalkOK(t)'
    BY <1>4, <1>5, <1>6, <1>10, <1>13 DEF WalkOK
<1>15. ASSUME NEW u \in Leaves \ {t} PROVE WalkOK(u)'
  <2>1. (\E g \in final' : g.target = u) <=> (\E g \in final : g.target = u)
      BY <1>1, <1>15
  <2>2. nodes[u] \cap nodes[t] = {}
      BY <1>2, <1>4, <1>15, LeavesPart DEF Partition
  <2>3. \A i \in nodes[u] : i \in DOMAIN updated' <=> i \in DOMAIN updated
      BY <1>10, <2>2
  <2>4. WalkOK(u)
      BY <1>2, <1>15
  <2> QED
      BY <1>1, <1>13, <2>1, <2>3, <2>4, WalkSame
<1>16. PhaseOK'
    BY <1>2, <1>6, <1>7, <1>8, <1>14, <1>15 DEF PhaseOK
<1>17. completed' \in BOOLEAN
    BY <1>2, <1>7 DEF TypeOK
<1> QED
    BY <1>1, <1>2, <1>8, <1>11, <1>12, <1>16, <1>17, TaskInv

----------------------------------------------------------------------------
(* The host. *)

LEMMA NewTree ==
    TreeOK => /\ (Few(RootBin, Body) => Leaves = {RootBin} /\ Inner = {})
              /\ (~Few(RootBin, Body) => RootBin \notin Leaves)
              /\ \A n \in Inner : \E u \in Leaves : n \in Above(u)
              /\ Partition(Leaves) /\ Partition({RootBin})
              /\ RootBin \in DOMAIN nodes /\ nodes[RootBin] = Body
<1> SUFFICES ASSUME TreeOK
             PROVE  /\ (Few(RootBin, Body) => Leaves = {RootBin} /\ Inner = {})
                    /\ (~Few(RootBin, Body) => RootBin \notin Leaves)
                    /\ \A n \in Inner : \E u \in Leaves : n \in Above(u)
    BY LeavesPart, PartRoot, TreeNodes
<1>1. RootBin \in DOMAIN nodes /\ nodes[RootBin] = Body
    BY TreeNodes
<1>2. ASSUME Few(RootBin, Body) PROVE Leaves = {RootBin} /\ Inner = {}
  <2>1. RootBin \in Leaves
      BY <1>1, <1>2 DEF Leaves
  <2>2. ASSUME NEW b \in DOMAIN nodes PROVE b = RootBin
    <3>1. b \in Bin
        BY TreeNodes
    <3>2. b = RootBin \/ RootBin \in Above(b)
        BY <3>1, RootAbove DEF Above
    <3>3. RootBin \notin Inner
        BY <2>1 DEF Inner
    <3> QED
        BY <3>2, <3>3, TreeAbove
  <2> QED
      BY <2>1, <2>2 DEF Leaves, Inner
<1>3. ~Few(RootBin, Body) => RootBin \notin Leaves
    BY <1>1 DEF Leaves
<1>4. ASSUME NEW n \in Inner PROVE \E u \in Leaves : n \in Above(u)
  <2>1. n \in DOMAIN nodes /\ n \notin Leaves
      BY DEF Inner
  <2>2. nodes[n] # {} /\ nodes[n] \subseteq Body
      BY <2>1, TreeNodes
  <2>3. PICK u \in Leaves : nodes[n] \cap nodes[u] # {}
      BY <2>2, LeavesPart DEF Partition
  <2>4. u \in DOMAIN nodes /\ u \notin Inner
      BY DEF Leaves, Inner
  <2>5. u = n \/ u \in Above(n) \/ n \in Above(u)
      BY <2>1, <2>3, <2>4, TreeOrder
  <2> QED
      BY <2>1, <2>4, <2>5, TreeAbove
<1> QED
    BY <1>2, <1>3, <1>4

LEMMA StepParticlesInv ==
    ASSUME StepInv, StepParticles
    PROVE  StepInv'
<1> DEFINE places == {particles[i].x : i \in Body}
<1>1. /\ host = "build" /\ host' = "fence"
      /\ dom' = BoundingDomain(Min(places), Max(places))
      /\ nodes' = BuildRecursive(dom')
      /\ IF Few(RootBin, Body)
         THEN /\ leafParticles' = [b \in {RootBin} |-> Body]
              /\ descend' = {Pair(RootBin, RootBin)}
              /\ seeds' = {}
         ELSE /\ leafParticles' = <<>>
              /\ descend' = {}
              /\ seeds' = {b \in DOMAIN nodes' : Few(b, nodes'[b])}
      /\ multipoles' = <<>> /\ updated' = <<>>
      /\ UNCHANGED <<maxLeaf, evaluation, particles, raw, completed, contribute, final, reference>>
    BY DEF StepParticles
<1>2. NothingLeft /\ TypeOK /\ reference = particles
    BY <1>1 DEF StepInv
<1>3. TypeOK' /\ reference' = particles'
    BY <1>1, <1>2 DEF TypeOK
<1>4. dom' \in Domain
    BY <1>1, <1>2, DomainIsOne DEF TypeOK
<1>5. nodes' = BuildRecursive(dom)'
    BY <1>1 DEF BuildRecursive, Inside, KeyOf, Few
<1>6. TreeOK'
    BY <1>3, <1>4, <1>5 DEF TreeOK, TypeOK
<1>7. (/\ (Few(RootBin, Body) => Leaves = {RootBin} /\ Inner = {})
       /\ (~Few(RootBin, Body) => RootBin \notin Leaves)
       /\ \A n \in Inner : \E u \in Leaves : n \in Above(u)
       /\ Partition(Leaves) /\ Partition({RootBin})
       /\ RootBin \in DOMAIN nodes /\ nodes[RootBin] = Body)'
    BY <1>6, NewTree, PTL
<1>8. Few(RootBin, Body)' <=> Few(RootBin, Body)
    BY <1>1 DEF Few
<1>9. raw' = {} /\ contribute' = {} /\ final' = {} /\ completed' = FALSE
    BY <1>1, <1>2 DEF NothingLeft, TypeOK
<1>10. DOMAIN multipoles' = {} /\ DOMAIN updated' = {}
    BY <1>1
<1>11. UpdatedOK'
  <2>1. updated' = [i \in {} |-> ByOthers(i)']
      BY <1>1
  <2> QED
      BY <1>10, <2>1 DEF UpdatedOK
<1>12. ContributeOK' /\ FinalOK'
    BY <1>9 DEF ContributeOK, FinalOK
<1>13. CASE Few(RootBin, Body)
  <2>1. /\ leafParticles' = [b \in {RootBin} |-> Body]
        /\ descend' = {Pair(RootBin, RootBin)} /\ seeds' = {}
        /\ Leaves' = {RootBin} /\ Inner' = {}
      BY <1>1, <1>7, <1>8, <1>13
  <2>2. Pending' = {}
      BY <1>9, <2>1 DEF Pending
  <2>3. UpwardOK'
      BY <1>7, <1>9, <1>10, <2>1 DEF UpwardOK
  <2>4. DescendOK'
      BY <1>7, <2>1 DEF DescendOK, Pair
  <2>5. Sources(RootBin)' = {RootBin}
    <3> DEFINE first == Pair(RootBin, RootBin)
    <3>1. first.target = RootBin /\ first.source = RootBin /\ descend' = {first} /\ contribute' = {}
        BY <1>9, <2>1 DEF Pair
    <3> HIDE DEF first
    <3> QED
        BY <3>1 DEF Sources, SourcesIn
  <2>6. WalkOK(RootBin)'
    <3>1. Partition(Sources(RootBin))'
        BY <1>7, <2>5 DEF Partition
    <3> QED
        BY <1>9, <1>10, <3>1 DEF WalkOK
  <2>7. PhaseOK'
      BY <1>9, <2>1, <2>2, <2>6 DEF PhaseOK
  <2> QED
      BY <1>1, <1>3, <1>4, <1>5, <1>11, <1>12, <2>3, <2>4, <2>7 DEF StepInv, InFence
<1>14. CASE ~Few(RootBin, Body)
  <2>1. leafParticles' = <<>> /\ descend' = {} /\ RootBin \notin Leaves'
      BY <1>1, <1>7, <1>8, <1>14
  <2>2. seeds' = Leaves'
      BY <1>1, <1>14 DEF Leaves, Few
  <2>3. Pending' = Leaves'
      BY <1>9, <2>2 DEF Pending
  <2>4. DOMAIN leafParticles' = {}
      BY <2>1
  <2>5. {n \in Inner' : \A u \in Pending' : n \notin Above(u)} = {}
      BY <1>7, <2>3
  <2>6. UpwardOK'
      BY <1>9, <1>10, <2>1, <2>2, <2>4, <2>5 DEF UpwardOK
  <2>7. DescendOK'
      BY <2>1 DEF DescendOK
  <2>8. Partition(Pending)'
      BY <1>7, <2>3 DEF Partition
  <2>9. PhaseOK'
      BY <1>9, <1>10, <2>1, <2>8 DEF PhaseOK, Idle
  <2> QED
      BY <1>1, <1>3, <1>4, <1>5, <1>11, <1>12, <2>6, <2>7, <2>9 DEF StepInv, InFence
<1> QED
    BY <1>13, <1>14

LEMMA FenceInv ==
    ASSUME StepInv, Fence
    PROVE  StepInv'
<1>1. /\ host = "fence" /\ NothingLeft
      /\ evaluation' = evaluation + 1
      /\ host' = IF evaluation = Steps THEN "end" ELSE "build"
      /\ particles' = updated
      /\ reference' = [i \in Body |-> ByOthers(i)]
      /\ UNCHANGED <<maxLeaf, tree, graph, stores, updated>>
    BY DEF Fence, NothingLeft
<1>2. InFence /\ TypeOK /\ TreeOK /\ evaluation <= Steps /\ reference = particles
    BY <1>1 DEF StepInv, InFence, TypeOK, TreeOK
<1>3. ~Partition({})
    BY <1>2, PartRoot
<1>4. Pending = {} /\ \A t \in Leaves : Sources(t) = {}
    BY <1>1 DEF NothingLeft, Pending, Sources, SourcesIn
<1>5. \A t \in Leaves : WalkOK(t)
  <2>1. ~Partition(Pending)
      BY <1>3, <1>4
  <2> QED
      BY <1>1, <1>2, <2>1 DEF InFence, PhaseOK, NothingLeft
<1>6. \A t \in Leaves : nodes[t] \subseteq DOMAIN updated
  <2> SUFFICES ASSUME NEW t \in Leaves PROVE nodes[t] \subseteq DOMAIN updated
      OBVIOUS
  <2>1. ~Partition(Sources(t))
      BY <1>3, <1>4
  <2> QED
      BY <1>1, <1>5, <2>1 DEF WalkOK, NothingLeft
<1>7. DOMAIN updated = Body
    BY <1>2, <1>6, LeavesPart DEF Partition, InFence, UpdatedOK
<1>8. particles' = reference'
    BY <1>1, <1>2, <1>7 DEF InFence, UpdatedOK
<1>9. \A i \in Body : ByOthers(i) \in Place
    BY <1>2, LeapfrogStep
<1>10. particles' \in [Body -> Place]
    BY <1>1, <1>8, <1>9
<1>11. /\ host' \in {"build", "end"} /\ completed' = completed
       /\ evaluation' \in Nat /\ (host' # "end" => evaluation' <= Steps)
    BY <1>1, <1>2, TtgStepAssumption DEF TypeOK, graph, upward
<1>12. TypeOK'
    BY <1>1, <1>2, <1>10, <1>11 DEF TypeOK
<1>13. NothingLeft'
    BY <1>1 DEF NothingLeft, graph, upward, downward
<1> QED
    BY <1>8, <1>11, <1>12, <1>13 DEF StepInv

LEMMA StutterInv ==
    ASSUME StepInv, UNCHANGED vars
    PROVE  StepInv'
<1>1. /\ UNCHANGED <<maxLeaf, host, evaluation, particles, nodes, dom, seeds, raw, completed>>
      /\ UNCHANGED <<descend, contribute, final, leafParticles, multipoles, updated, reference>>
    BY DEF vars, graph, upward, downward, stores, tree
<1>2. TypeOK' /\ (NothingLeft' <=> NothingLeft)
    BY <1>1 DEF StepInv, TypeOK, NothingLeft
<1>3. CASE host # "fence"
    BY <1>1, <1>2, <1>3 DEF StepInv
<1>4. CASE host = "fence"
  <2>1. Task
      BY <1>1 DEF Task, tree
  <2>2. InFence
      BY <1>4 DEF StepInv
  <2>3. UpwardOK' /\ Pending' = Pending
      BY <1>1, <2>1, <2>2, UpwardSame DEF InFence
  <2>4. DescendOK' /\ ContributeOK' /\ FinalOK'
      BY <1>1, <2>1, <2>2, DownwardSame DEF InFence, downward
  <2>5. UpdatedOK'
      BY <1>1, <2>1, <2>2, UpdatedSame DEF InFence
  <2>6. nodes' = nodes /\ Leaves' = Leaves /\ nodes' = BuildRecursive(dom)'
      BY <2>1, <2>2, TaskKeeps DEF InFence
  <2>7. PhaseOK'
    <3>1. CASE Partition(Pending) /\ ~completed /\ Idle
      <4>1. Partition(Pending)'
          BY <2>3, <2>6, <3>1 DEF Partition
      <4> QED
          BY <1>1, <3>1, <4>1 DEF PhaseOK, Idle
    <3>2. CASE Pending = {} /\ completed /\ Idle
        BY <1>1, <2>3, <3>2 DEF PhaseOK, Idle
    <3>3. CASE Pending = {} /\ ~completed /\ \A t \in Leaves : WalkOK(t)
      <4>1. \A t \in Leaves : WalkOK(t)'
        <5> SUFFICES ASSUME NEW t \in Leaves PROVE WalkOK(t)'
            OBVIOUS
        <5>1. Sources(t)' = Sources(t)
            BY <1>1 DEF Sources
        <5> QED
            BY <1>1, <2>1, <3>3, <5>1, WalkSame
      <4> QED
          BY <1>1, <2>3, <2>6, <3>3, <4>1 DEF PhaseOK
    <3> QED
        BY <2>2, <3>1, <3>2, <3>3 DEF InFence, PhaseOK
  <2> QED
      BY <1>1, <1>2, <1>4, <2>2, <2>3, <2>4, <2>5, <2>6, <2>7 DEF StepInv, InFence
<1> QED
    BY <1>3, <1>4

----------------------------------------------------------------------------
(* The results. *)

\* The inductive invariant: at any time the moments under way part the bodies,
\* and so does what the walk for a leaf has yet to visit or to add up.
THEOREM Invariant ==
    Spec => []StepInv
<1>1. Init => StepInv
  <2> SUFFICES ASSUME Init PROVE StepInv
      OBVIOUS
  <2>1. PICK start \in Starts :
           /\ maxLeaf \in MaxLeaves /\ host = "build" /\ evaluation = 0
           /\ particles = start /\ reference = start
           /\ seeds = {} /\ raw = {} /\ completed = FALSE
           /\ descend = {} /\ contribute = {} /\ final = {}
      BY DEF Init
  <2>2. start \in [Body -> Place]
      BY TtgStepAssumption DEF Place
  <2>3. maxLeaf \in Nat \ {0} /\ particles \in [Body -> Place] /\ 0 <= Steps
      BY <2>1, <2>2, TtgStepAssumption
  <2>4. TypeOK
      BY <2>1, <2>3 DEF TypeOK
  <2> QED
      BY <2>1, <2>4 DEF StepInv, NothingLeft
<1>2. StepInv /\ [Next]_vars => StepInv'
  <2> SUFFICES ASSUME StepInv, [Next]_vars PROVE StepInv'
      OBVIOUS
  <2>1. CASE StepParticles
      BY <2>1, StepParticlesInv
  <2>2. CASE Fence
      BY <2>2, FenceInv
  <2>3. CASE Terminated
      BY <2>3, StutterInv DEF Terminated
  <2>4. ASSUME NEW n \in seeds, SeedLeaf(n) PROVE StepInv'
      BY <2>4, SeedLeafInv
  <2>5. ASSUME NEW n \in {r.to : r \in raw}, CombineUp(n) PROVE StepInv'
      BY <2>5, CombineUpInv
  <2>6. CASE SeedFromUpward
      BY <2>6, SeedFromUpwardInv
  <2>7. ASSUME NEW p \in descend, Dispatch(p) PROVE StepInv'
      BY <2>7, DispatchInv
  <2>8. ASSUME NEW p \in {c.to : c \in contribute}, CombineDown(p) PROVE StepInv'
      BY <2>8, CombineDownInv
  <2>9. ASSUME NEW f \in final, Sink(f) PROVE StepInv'
      BY <2>9, SinkInv
  <2>10. CASE UNCHANGED vars
      BY <2>10, StutterInv
  <2> QED
      BY <2>1, <2>2, <2>3, <2>4, <2>5, <2>6, <2>7, <2>8, <2>9, <2>10 DEF Next
<1> QED
    BY <1>1, <1>2, PTL DEF Spec

\* When a task is there that reads the stores, none is left that writes to them.
THEOREM StoresAreSettled ==
    Spec => []StoresSettled
<1>1. StepInv => StoresSettled
  <2> SUFFICES ASSUME StepInv, descend # {} \/ completed \/ contribute # {} \/ final # {}
               PROVE  /\ seeds = {} /\ raw = {}
                      /\ DOMAIN leafParticles = Leaves
                      /\ DOMAIN multipoles = DOMAIN nodes \ Leaves
      BY DEF StoresSettled
  <2>1. InFence
      BY InTask DEF NothingLeft
  <2>2. Pending = {} /\ UpwardOK
      BY <2>1 DEF InFence, PhaseOK, Idle
  <2>3. seeds = {} /\ raw = {}
      BY <2>2 DEF Pending
  <2> QED
      BY <2>2, <2>3 DEF UpwardOK, Inner
<1> QED
    BY <1>1, Invariant, PTL

\* After every evaluation the bodies are where a leapfrog has them that adds up
\* all others for each: for any accuracy, tree and order of the tasks.
THEOREM BruteForceMatched ==
    Spec => []MatchesBruteForce
<1>1. StepInv => MatchesBruteForce
    BY DEF StepInv, MatchesBruteForce
<1> QED
    BY <1>1, Invariant, PTL
=============================================================================

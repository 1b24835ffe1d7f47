------------------------ MODULE CharmTraversalProofs ------------------------
(* That the walks of a step end when nothing waits, and do not end before,     *)
(* that a PE is asked only for what it has, and that every bucket interacts    *)
(* with the entire system once, whatever the particles, the TreePieces, the    *)
(* PEs they are on and the groups they walk in, and in whatever order requests *)
(* and answers come.                                                           *)
EXTENDS CharmTraversal, KeyTreeProofs

----------------------------------------------------------------------------
(* What hangs together in a tree. *)

LEMMA ExtendedFacts ==
    ASSUME NEW f, NEW g
    PROVE  /\ DOMAIN Extended(f, g) = DOMAIN f \cup DOMAIN g
           /\ \A x \in DOMAIN f : Extended(f, g)[x] = f[x]
           /\ \A x \in DOMAIN g \ DOMAIN f : Extended(f, g)[x] = g[x]
BY DEF Extended

----------------------------------------------------------------------------
(* One walk. *)

\* The parts of Walk.
Within(T, starts) ==
    {k \in DOMAIN T : \E s \in starts : Covers(s, k.first) /\ k.size <= s.size}
KeptBy(T, side, starts) == {k \in Within(T, starts) : T[k].type \in Keep(side)}
OpeningBody(T, side, starts, mask, f) ==
    [k \in Within(T, starts) |->
        IF k \in KeptBy(T, side, starts)
        THEN {b \in IF k \in starts THEN mask ELSE f[Parent(k)] : Opens(k, b)}
        ELSE {}]
Opening(T, side, starts, mask) ==
    CHOOSE f : f = OpeningBody(T, side, starts, mask, f)
Reached(T, side, starts, mask) ==
    {k \in KeptBy(T, side, starts) :
        T[k].numChildren = 0 /\ Opening(T, side, starts, mask)[k] # {}}
AtHand(pe, T, held, side, starts, mask) ==
    Extended([k \in {l \in Reached(T, side, starts, mask) : T[l].type = "Bucket"} |-> Mine(pe, k)],
             held)
AsksOf(pe, T, held, side, starts, mask) ==
    {[kind |-> IF T[k].type = "Remote" THEN "node" ELSE "particles",
      node |-> k, mask |-> Opening(T, side, starts, mask)[k]] :
        k \in {l \in Reached(T, side, starts, mask)
                       \ DOMAIN AtHand(pe, T, held, side, starts, mask) :
                  T[l].type \in {"Remote", "RemoteBucket"}}}

LEMMA WalkIs ==
    ASSUME NEW pe, NEW T, NEW held, NEW side, NEW starts, NEW mask
    PROVE  Walk(pe, T, held, side, starts, mask).asks = AsksOf(pe, T, held, side, starts, mask)
BY DEF Walk, AsksOf, AtHand, Reached, Opening, OpeningBody, KeptBy, Within

\* Whom a node is opened for: those of the mask that open it and all above it.
OpenFor(T, side, starts, mask) ==
    [k \in Within(T, starts) |->
        {b \in mask : \A a \in Within(T, starts) :
            Covers(a, k.first) /\ k.size <= a.size
                => a \in KeptBy(T, side, starts) /\ Opens(a, b)}]

\* Nodes a walk may start from: the root, or the children of a node.
Level(starts) == starts \subseteq Bin /\ \A s, q \in starts : s.size = q.size

LEMMA WithinUp ==
    ASSUME NEW T, Rooted(T), NEW starts, Level(starts), NEW k \in Within(T, starts)
    PROVE  /\ k \in Bin /\ Covers(k, k.first)
           /\ k \in starts =>
                 \A a \in Within(T, starts) : Covers(a, k.first) /\ k.size <= a.size => a = k
           /\ k \notin starts =>
                 /\ k # RootBin /\ Parent(k) \in Within(T, starts)
                 /\ T[Parent(k)].numChildren # 0
                 /\ \A a \in Within(T, starts) :
                       Covers(a, k.first) /\ k.size <= a.size =>
                          a = k \/ (Covers(a, Parent(k).first) /\ Parent(k).size <= a.size)
                 /\ \A a \in Within(T, starts) :
                       Covers(a, Parent(k).first) /\ Parent(k).size <= a.size =>
                          Covers(a, k.first) /\ k.size <= a.size
<1>1. k \in Bin /\ k \in DOMAIN T /\ DOMAIN T \subseteq Bin /\ starts \subseteq Bin
  BY DEF Within, Rooted, Level
<1>2. Covers(k, k.first) /\ k.first \in Key
  BY <1>1, CoversFirst
<1>3. ASSUME k \in starts, NEW a \in Within(T, starts), Covers(a, k.first), k.size <= a.size
      PROVE  a = k
  <2>1. PICK s \in starts : Covers(s, a.first) /\ a.size <= s.size
    BY DEF Within
  <2>2. a \in Bin /\ a.size \in Nat /\ k.size \in Nat /\ s.size = k.size
    BY <1>1, <1>3, <2>1, BinWithin DEF Within, Level
  <2>3. k.size = a.size
    BY <1>3, <2>1, <2>2
  <2> QED
    BY <1>1, <1>3, <2>2, <2>3, BelowOne
<1>4. ASSUME k \notin starts
      PROVE  /\ k # RootBin /\ Parent(k) \in Within(T, starts)
             /\ T[Parent(k)].numChildren # 0
  <2>1. PICK s \in starts : Covers(s, k.first) /\ k.size <= s.size
    BY DEF Within
  <2>2. k # RootBin /\ Covers(s, Parent(k).first) /\ Parent(k).size <= s.size
    BY <1>1, <1>4, <2>1, BelowOne
  <2> QED
    BY <1>1, <2>1, <2>2 DEF Within, Rooted
<1>5. ASSUME k \notin starts, NEW a \in Within(T, starts)
      PROVE  /\ Covers(a, k.first) /\ k.size <= a.size =>
                   a = k \/ (Covers(a, Parent(k).first) /\ Parent(k).size <= a.size)
             /\ Covers(a, Parent(k).first) /\ Parent(k).size <= a.size =>
                   Covers(a, k.first) /\ k.size <= a.size
  <2>1. a \in Bin
    BY <1>1 DEF Within
  <2>2. Parent(k) \in Bin /\ k.size < Parent(k).size /\ Covers(Parent(k), k.first)
    BY <1>1, <1>2, <1>4, <1>5, ParentAbove
  <2>3. k.size \in Nat /\ a.size \in Nat /\ Parent(k).size \in Nat
    BY <1>1, <2>1, <2>2, BinWithin
  <2>4. ASSUME Covers(a, Parent(k).first), Parent(k).size <= a.size
        PROVE  Covers(a, k.first) /\ k.size <= a.size
    BY <1>2, <2>1, <2>2, <2>3, <2>4, BelowOne
  <2>5. ASSUME Covers(a, k.first), k.size <= a.size
        PROVE  a = k \/ (Covers(a, Parent(k).first) /\ Parent(k).size <= a.size)
    BY <1>1, <2>1, <2>5, BelowOne
  <2> QED
    BY <2>4, <2>5
<1> QED
  BY <1>1, <1>2, <1>3, <1>4, <1>5

\* The recursion of a walk says just that.
LEMMA OpeningIs ==
    ASSUME NEW T, Rooted(T), NEW starts, Level(starts), NEW side, NEW mask
    PROVE  Opening(T, side, starts, mask) = OpenFor(T, side, starts, mask)
<1> DEFINE W == Within(T, starts)
           K == KeptBy(T, side, starts)
           h == OpenFor(T, side, starts, mask)
           came(k, f) == IF k \in starts THEN mask ELSE f[Parent(k)]
           body(f) == OpeningBody(T, side, starts, mask, f)
<1>1. ASSUME NEW k \in W
      PROVE  h[k] = IF k \in K THEN {b \in came(k, h) : Opens(k, b)} ELSE {}
  <2>1. h[k] = {b \in mask : \A a \in W : Covers(a, k.first) /\ k.size <= a.size
                                             => a \in K /\ Opens(a, b)}
    BY DEF OpenFor
  <2>2. k \in Bin /\ Covers(k, k.first) /\ k.size <= k.size
    <3>1. k \in Bin /\ Covers(k, k.first)
      BY <1>1, WithinUp
    <3> QED
      BY <3>1, BinWithin
  <2>3. CASE k \notin K
    BY <2>1, <2>2, <2>3
  <2>4. CASE k \in K /\ k \in starts
    <3>1. \A a \in W : Covers(a, k.first) /\ k.size <= a.size => a = k
      BY <2>4, WithinUp
    <3> QED
      BY <2>1, <2>2, <2>4, <3>1
  <2>5. CASE k \in K /\ k \notin starts
    <3>1. /\ Parent(k) \in W
          /\ \A a \in W : Covers(a, k.first) /\ k.size <= a.size =>
                a = k \/ (Covers(a, Parent(k).first) /\ Parent(k).size <= a.size)
          /\ \A a \in W : Covers(a, Parent(k).first) /\ Parent(k).size <= a.size =>
                Covers(a, k.first) /\ k.size <= a.size
      BY <2>5, WithinUp
    <3>2. h[Parent(k)] = {b \in mask : \A a \in W :
              Covers(a, Parent(k).first) /\ Parent(k).size <= a.size => a \in K /\ Opens(a, b)}
      BY <3>1 DEF OpenFor
    <3> HIDE DEF h, W, K
    <3> QED
      BY <1>1, <2>1, <2>2, <2>5, <3>1, <3>2
  <2> QED
    BY <2>3, <2>4, <2>5
<1>2. h = body(h)
  BY <1>1 DEF OpenFor, OpeningBody
<1> DEFINE g == Opening(T, side, starts, mask)
<1>3. g = body(g)
  <2>1. \E f : f = body(f)
    BY <1>2
  <2> QED
    BY <2>1 DEF Opening
<1>4. /\ DOMAIN g = W
      /\ \A k \in W : g[k] = IF k \in K THEN {b \in came(k, g) : Opens(k, b)} ELSE {}
  <2> HIDE DEF g
  <2>1. DOMAIN body(g) = W
        /\ \A k \in W : body(g)[k] = IF k \in K THEN {b \in came(k, g) : Opens(k, b)} ELSE {}
    BY DEF OpeningBody
  <2> QED
    BY <1>3, <2>1
<1> DEFINE Bad == {n \in Nat : \E k \in W : n = KeySpace - k.size /\ g[k] # h[k]}
<1>5. Bad = {}
  <2> SUFFICES ASSUME Bad # {} PROVE FALSE
    OBVIOUS
  <2>1. Bad \in SUBSET Nat
    OBVIOUS
  <2>2. PICK n \in Bad : \A m \in Bad : n <= m
    <3> HIDE DEF Bad
    <3> QED
      BY <2>1, Least
  <2>3. PICK k \in W : n = KeySpace - k.size /\ g[k] # h[k]
    BY <2>2
  <2>4. k \notin starts
    <3> SUFFICES ASSUME k \in starts PROVE FALSE
      OBVIOUS
    <3> HIDE DEF g, h, W, K
    <3> QED
      BY <1>1, <1>4, <2>3
  <2>5. Parent(k) \in W /\ k # RootBin
    BY <2>3, <2>4, WithinUp
  <2>6. g[Parent(k)] = h[Parent(k)]
    <3> DEFINE m == KeySpace - Parent(k).size
    <3>1. k \in Bin /\ Parent(k) \in Bin /\ k.size < Parent(k).size
      <4>1. k \in Bin
        BY <2>3, WithinUp
      <4> QED
        BY <2>5, <4>1, ParentAbove
    <3>2. /\ Parent(k).size \in Nat \ {0} /\ k.size \in Nat \ {0}
          /\ Parent(k).first + Parent(k).size <= KeySpace /\ Parent(k).first \in Nat
          /\ KeySpace \in Nat
      BY <3>1, BinWithin, KeySpaceType
    <3>3. m \in Nat /\ ~(n <= m)
      BY <2>3, <3>1, <3>2
    <3>4. m \notin Bad
      BY <2>2, <3>3
    <3> QED
      BY <2>5, <3>3, <3>4
  <2>7. came(k, g) = came(k, h)
    BY <2>4, <2>6
  <2> HIDE DEF g, h, W, K, came
  <2> QED
    BY <1>1, <1>4, <2>3, <2>7
<1>6. \A k \in W : g[k] = h[k]
  <2> SUFFICES ASSUME NEW k \in W, g[k] # h[k] PROVE FALSE
    OBVIOUS
  <2>1. k \in Bin
    BY WithinUp
  <2>2. KeySpace - k.size \in Nat
    <3>1. k.first \in Nat /\ k.size \in Nat \ {0} /\ k.first + k.size <= KeySpace /\ KeySpace \in Nat
      BY <2>1, BinWithin, KeySpaceType
    <3> QED
      BY <3>1
  <2> HIDE DEF g, h, W
  <2> QED
    BY <1>5, <2>2
<1>7. DOMAIN h = W /\ h = [k \in W |-> h[k]] /\ g = [k \in W |-> g[k]]
  <2>1. h = [k \in W |-> h[k]] /\ DOMAIN h = W
    BY DEF OpenFor
  <2>2. g = [k \in W |-> g[k]]
    <3>1. body(g) = [k \in W |-> body(g)[k]]
      BY DEF OpeningBody
    <3> HIDE DEF g, body
    <3> QED
      BY <1>3, <3>1
  <2> QED
    BY <2>1, <2>2
<1> HIDE DEF g, h
<1>8. g = h
  BY <1>6, <1>7
<1> QED
  BY <1>8 DEF g, h

\* Node and Bucket requests, by the type of the node.
KindOf(type) == IF type = "Remote" THEN "node" ELSE "particles"

\* What a walk asks for.
AskOK(T, held, mask, a) ==
    /\ a = [kind |-> a.kind, node |-> a.node, mask |-> a.mask]
    /\ a.node \in DOMAIN T /\ T[a.node].numChildren = 0
    /\ T[a.node].type \in {"Remote", "RemoteBucket"}
    /\ a.kind = KindOf(T[a.node].type)
    /\ a.kind = "particles" => a.node \notin DOMAIN held
    /\ a.mask # {} /\ a.mask \subseteq mask

AsksOK(T, held, mask, starts, A) ==
    /\ \A a \in A :
          /\ AskOK(T, held, mask, a)
          /\ \E s \in starts : Covers(s, a.node.first) /\ a.node.size <= s.size
    /\ \A a, c \in A : a # c => Apart(a.node, c.node)
    /\ IsFiniteSet(A)

\* A walk asks for leaves below where it started, each once and for a part of its
\* mask, and not for what it has; and a local walk for none.
LEMMA WalkAsks ==
    ASSUME NEW pe, NEW T, Rooted(T), NEW held, NEW side \in Side,
           NEW starts, Level(starts), NEW mask
    PROVE  /\ AsksOK(T, held, mask, starts, Walk(pe, T, held, side, starts, mask).asks)
           /\ side = "local" => Walk(pe, T, held, side, starts, mask).asks = {}
<1> DEFINE open == Opening(T, side, starts, mask)
           R == Reached(T, side, starts, mask)
           hand == AtHand(pe, T, held, side, starts, mask)
           askable == {l \in R \ DOMAIN hand : T[l].type \in {"Remote", "RemoteBucket"}}
           ask(k) == [kind |-> KindOf(T[k].type), node |-> k, mask |-> open[k]]
           A == Walk(pe, T, held, side, starts, mask).asks
<1>1. A = {ask(k) : k \in askable}
  <2>1. A = AsksOf(pe, T, held, side, starts, mask)
    BY WalkIs
  <2> QED
    BY <2>1 DEF AsksOf, KindOf
<1>2. \A k \in R : /\ k \in DOMAIN T /\ T[k].numChildren = 0 /\ T[k].type \in Keep(side)
                   /\ k \in Within(T, starts) /\ open[k] # {}
  BY DEF Reached, KeptBy, Within
<1>3. \A k \in R : open[k] \subseteq mask
  BY <1>2, OpeningIs DEF OpenFor
<1>4. DOMAIN held \subseteq DOMAIN hand
  BY ExtendedFacts DEF AtHand
<1>5. ASSUME NEW a \in A
      PROVE  /\ AskOK(T, held, mask, a)
             /\ \E s \in starts : Covers(s, a.node.first) /\ a.node.size <= s.size
  <2>1. PICK k \in askable : a = ask(k)
    BY <1>1
  <2>2. k \in R /\ k \notin DOMAIN hand /\ T[k].type \in {"Remote", "RemoteBucket"}
    BY <2>1
  <2>3. a.kind = KindOf(T[k].type) /\ a.node = k /\ a.mask = open[k]
    BY <2>1
  <2> HIDE DEF R, hand, open
  <2>4. \E s \in starts : Covers(s, k.first) /\ k.size <= s.size
    BY <1>2, <2>2 DEF Within
  <2> QED
    BY <1>2, <1>3, <1>4, <2>1, <2>2, <2>3, <2>4 DEF AskOK
<1>6. ASSUME NEW a \in A, NEW c \in A, a # c
      PROVE  Apart(a.node, c.node)
  <2>1. PICK k \in askable : a = ask(k)
    BY <1>1
  <2>2. PICK l \in askable : c = ask(l)
    BY <1>1
  <2>3. a.node = k /\ c.node = l /\ k # l
    BY <1>6, <2>1, <2>2
  <2> QED
    BY <1>5, <2>3, LeavesApart DEF AskOK
<1>7. ASSUME side = "local" PROVE A = {}
  BY <1>1, <1>2, <1>7 DEF Keep
<1>8. IsFiniteSet(A)
  <2> DEFINE asked == [k \in askable |-> ask(k)]
  <2>1. IsFiniteSet(askable)
    <3>1. askable \subseteq Bin
      BY <1>2 DEF Rooted
    <3> HIDE DEF askable
    <3> QED
      BY <3>1, BinFinite, FS_Subset
  <2>2. A = {asked[k] : k \in askable} /\ DOMAIN asked = askable
    BY <1>1
  <2> HIDE DEF A, askable, asked
  <2> QED
    BY <2>1, <2>2, ImageFinite
<1> HIDE DEF A
<1>9. AsksOK(T, held, mask, starts, A)
  BY <1>5, <1>6, <1>8 DEF AsksOK
<1> QED
  BY <1>7, <1>9 DEF A

----------------------------------------------------------------------------
(* The trees a step begins with. *)

\* The parts of Walked.
Nodes(pe) == {b \in Bin : \A a \in Path(b) \ {b} : Splits(pe, a, Ownership)}
Inner(pe) == {b \in Nodes(pe) : Splits(pe, b, Ownership)}
TypeBody(pe, f) ==
    [b \in Nodes(pe) |->
        IF b \in Inner(pe) THEN TypeFromChildren({f[c] : c \in Children(b)})
        ELSE LeafType(pe, b, Ownership[b])]
TypesOf(pe) == CHOOSE f : f = TypeBody(pe, f)

LEMMA WalkedIs ==
    ASSUME NEW pe
    PROVE  Walked(pe) =
              [b \in Nodes(pe) |->
                  [type |-> TypesOf(pe)[b],
                   owners |-> Ownership[b],
                   numChildren |-> IF b \in Inner(pe) THEN BranchFactor ELSE 0,
                   ready |-> IF b \in Inner(pe)
                             THEN Cardinality({c \in Children(b) : TypesOf(pe)[c] \in Here})
                             ELSE 0,
                   mass |-> IF TypesOf(pe)[b] \in Here THEN Mass(Mine(pe, b)) ELSE 0]]
BY DEF Walked, Nodes, Inner, TypeBody, TypesOf

LEMMA NodesDown ==
    ASSUME NEW pe, NEW b \in Inner(pe)
    PROVE  /\ b \in Bin /\ b.size > 1
           /\ \A c \in Children(b) :
                 /\ c \in Nodes(pe) /\ c \in Bin /\ c.size < b.size /\ Path(c) = Path(b) \cup {c}
                 /\ \A k \in Key : Covers(c, k) => Covers(b, k)
<1>1. b \in Bin /\ b.size > 1 /\ Splits(pe, b, Ownership)
      /\ \A a \in Path(b) \ {b} : Splits(pe, a, Ownership)
  BY DEF Inner, Nodes, Splits
<1>2. ASSUME NEW c \in Children(b)
      PROVE  /\ c \in Nodes(pe) /\ c \in Bin /\ c.size < b.size /\ Path(c) = Path(b) \cup {c}
             /\ \A k \in Key : Covers(c, k) => Covers(b, k)
  <2>1. c \in Bin /\ c.size < b.size /\ Path(c) = Path(b) \cup {c} /\ c \notin Path(b)
    BY <1>1, AboveChild
  <2>2. \A k \in Key : Covers(c, k) => Covers(b, k)
    BY <1>1, ChildCoveredByParent DEF Children
  <2>3. c \in Nodes(pe)
    BY <1>1, <2>1 DEF Nodes
  <2> QED
    BY <2>1, <2>2, <2>3
<1> QED
  BY <1>1, <1>2

\* The type of a node of one's own tree: a leaf's is that of its owners, and
\* another's says whether all leaves below it are here.
LEMMA TypesAre ==
    ASSUME NEW pe
    PROVE  \A b \in Nodes(pe) :
              TypesOf(pe)[b] =
                 IF b \in Inner(pe)
                 THEN TypeFromChildren({TypesOf(pe)[c] : c \in Children(b)})
                 ELSE LeafType(pe, b, Ownership[b])
<1> DEFINE N == Nodes(pe)
           I == Inner(pe)
           leaf(b) == LeafType(pe, b, Ownership[b])
           here(b) == \A l \in N \ I : Covers(b, l.first) /\ l.size <= b.size => leaf(l) \in Here
           h == [b \in N |-> IF b \in I THEN IF here(b) THEN "Internal" ELSE "Boundary"
                             ELSE leaf(b)]
<1>1. I \subseteq N /\ N \subseteq Bin
  BY DEF Inner, Nodes
<1>2. \A b \in N : b \notin I => (h[b] \in Here <=> here(b))
  <2> SUFFICES ASSUME NEW b \in N, b \notin I
               PROVE  h[b] \in Here <=> here(b)
    OBVIOUS
  <2>1. b \in Bin /\ Covers(b, b.first) /\ b.size <= b.size
    <3>1. b \in Bin
      BY <1>1
    <3> QED
      BY <3>1, CoversFirst, BinWithin
  <2>2. here(b) => leaf(b) \in Here
    BY <2>1
  <2>3. ASSUME leaf(b) \in Here, NEW l \in N \ I, Covers(b, l.first), l.size <= b.size
        PROVE  leaf(l) \in Here
    <3>1. CASE l = b
      BY <2>3, <3>1
    <3>2. CASE l # b
      <4>1. l.size < b.size /\ l \in Bin /\ l.first \in Key /\ Covers(l, l.first)
        BY <1>1, <2>1, <2>3, <3>2, BelowOne, CoversFirst
      <4>2. b \in Path(l) \ {l}
        BY <2>1, <2>3, <3>2, <4>1, Nested
      <4>3. b \in I
        BY <2>1, <4>2 DEF Inner, Nodes
      <4> QED
        BY <4>3
    <3> QED
      BY <3>1, <3>2
  <2> QED
    BY <2>2, <2>3
<1>3. \A b \in N : h[b] \in Here <=> here(b)
  BY <1>2 DEF Here
<1>4. ASSUME NEW b \in I
      PROVE  here(b) <=> \A c \in Children(b) : h[c] \in Here
  <2>1. /\ b \in Bin /\ b.size > 1
        /\ \A c \in Children(b) : /\ c \in N /\ c \in Bin /\ c.size < b.size
                                  /\ \A k \in Key : Covers(c, k) => Covers(b, k)
    BY NodesDown
  <2>2. \A x \in Bin : x.size \in Nat /\ x.first \in Key
    BY BinWithin, CoversFirst
  <2>3. ASSUME here(b), NEW c \in Children(b) PROVE h[c] \in Here
    <3>1. here(c)
      <4> SUFFICES ASSUME NEW l \in N \ I, Covers(c, l.first), l.size <= c.size
                   PROVE  leaf(l) \in Here
        OBVIOUS
      <4>1. l \in Bin /\ Covers(b, l.first) /\ l.size <= b.size
        BY <1>1, <2>1, <2>2
      <4> QED
        BY <2>3, <4>1
    <3> QED
      BY <1>3, <2>1, <3>1
  <2>4. ASSUME \A c \in Children(b) : h[c] \in Here,
               NEW l \in N \ I, Covers(b, l.first), l.size <= b.size
        PROVE  leaf(l) \in Here
    <3>1. l # b /\ l \in Bin
      BY <1>1
    <3>2. l.size < b.size
      BY <2>1, <2>4, <3>1, BelowOne
    <3>3. PICK c \in Children(b) : Covers(c, l.first) /\ l.size <= c.size
      BY <2>1, <2>4, <3>1, <3>2, BelowAChild
    <3>4. here(c)
      BY <1>3, <2>1, <2>4
    <3> QED
      BY <3>3, <3>4
  <2> QED
    BY <2>3, <2>4
<1>5. ASSUME NEW b \in I
      PROVE  h[b] = TypeFromChildren({h[c] : c \in Children(b)})
  <2>1. h[b] = IF here(b) THEN "Internal" ELSE "Boundary"
    BY <1>1
  <2> HIDE DEF h, here
  <2> QED
    BY <1>4, <2>1 DEF TypeFromChildren
<1>6. h = TypeBody(pe, h)
  <2>1. \A b \in N : h[b] = IF b \in I THEN TypeFromChildren({h[c] : c \in Children(b)})
                            ELSE leaf(b)
    BY <1>5
  <2>2. h = [b \in N |-> h[b]]
    OBVIOUS
  <2> HIDE DEF h, leaf
  <2> QED
    BY <2>1, <2>2 DEF TypeBody, leaf
<1>7. TypesOf(pe) = TypeBody(pe, TypesOf(pe))
  <2>1. \E f : f = TypeBody(pe, f)
    BY <1>6
  <2> QED
    BY <2>1 DEF TypesOf
<1> DEFINE f == TypesOf(pe)
<1>8. \A b \in N : TypeBody(pe, f)[b] =
          IF b \in I THEN TypeFromChildren({f[c] : c \in Children(b)}) ELSE leaf(b)
  BY DEF TypeBody
<1> HIDE DEF f
<1> QED
  BY <1>7, <1>8 DEF f

\* The parts of FinalTree.
Known(pe, b) ==
    LET owners == Serving(walked[pe][b].owners)
    IN  IF owners = {} THEN "RemoteEmptyBucket"
        ELSE MakeRemote(walked[homeOf[Min(owners)]][b].type)
FinalOwnersBody(pe, f) ==
    [b \in DOMAIN walked[pe] |->
        IF walked[pe][b].type # "Boundary" THEN walked[pe][b].owners
        ELSE OwnersFromChildren({f[c] : c \in Children(b)})]
FinalOwners(pe) == CHOOSE f : f = FinalOwnersBody(pe, f)

LEMMA FinalTreeIs ==
    ASSUME NEW pe
    PROVE  FinalTree(pe) =
              [b \in DOMAIN walked[pe] |->
                  [type |-> IF walked[pe][b].type = "Remote" THEN Known(pe, b)
                            ELSE walked[pe][b].type,
                   owners |-> FinalOwners(pe)[b],
                   numChildren |-> walked[pe][b].numChildren,
                   ready |-> walked[pe][b].numChildren,
                   mass |-> Mass(Present(b))]]
BY DEF FinalTree, Known, FinalOwnersBody, FinalOwners

\* Buckets are leaves, and apart.
BucketsApart(T) ==
    \A b, c \in DOMAIN T :
       T[b].type = "Bucket" /\ T[c].type = "Bucket" /\ b # c => Apart(b, c)

LEMMA FinalTreeFacts ==
    ASSUME Input, NEW pe \in PE
    PROVE  /\ Rooted(FinalTree(pe)) /\ BucketsApart(FinalTree(pe))
           /\ RootBin \in DOMAIN FinalTree(pe)
           /\ DOMAIN FinalTree(pe) = Nodes(pe)
<1> DEFINE T == FinalTree(pe)
           W == walked[pe]
<1>1. W = Walked(pe)
  BY DEF Input
<1>2. /\ DOMAIN W = Nodes(pe)
      /\ \A b \in Nodes(pe) : /\ W[b].type = TypesOf(pe)[b]
                              /\ W[b].numChildren = IF b \in Inner(pe) THEN BranchFactor ELSE 0
  <2> HIDE DEF W
  <2> DEFINE node(b) ==
          [type |-> TypesOf(pe)[b],
           owners |-> Ownership[b],
           numChildren |-> IF b \in Inner(pe) THEN BranchFactor ELSE 0,
           ready |-> IF b \in Inner(pe)
                     THEN Cardinality({c \in Children(b) : TypesOf(pe)[c] \in Here})
                     ELSE 0,
           mass |-> IF TypesOf(pe)[b] \in Here THEN Mass(Mine(pe, b)) ELSE 0]
  <2>1. W = [b \in Nodes(pe) |-> node(b)]
    BY <1>1, WalkedIs, Zenon
  <2>2. \A b : /\ node(b).type = TypesOf(pe)[b]
               /\ node(b).numChildren = IF b \in Inner(pe) THEN BranchFactor ELSE 0
    OBVIOUS
  <2> HIDE DEF node
  <2> QED
    BY <2>1, <2>2
<1> HIDE DEF W
<1>3. /\ DOMAIN T = Nodes(pe)
      /\ \A b \in Nodes(pe) :
            /\ T[b].numChildren = IF b \in Inner(pe) THEN BranchFactor ELSE 0
            /\ T[b].type = IF TypesOf(pe)[b] = "Remote" THEN Known(pe, b) ELSE TypesOf(pe)[b]
  BY <1>2, FinalTreeIs DEF W
<1>4. BranchFactor # 0 /\ Nodes(pe) \subseteq Bin
  BY KeyTreeAssumption DEF Nodes
<1>5. RootBin \in Nodes(pe)
  BY RootIsBin, PathOfRoot DEF Nodes
<1> HIDE DEF T
<1>6. Rooted(T)
  <2> SUFFICES ASSUME NEW b \in DOMAIN T \ {RootBin}
               PROVE  Parent(b) \in DOMAIN T /\ T[Parent(b)].numChildren # 0
    BY <1>3, <1>4 DEF Rooted
  <2>1. /\ b \in Nodes(pe) /\ b \in Bin /\ b # RootBin
        /\ Parent(b) \in Bin /\ Parent(b).size > 1 /\ b \in Children(Parent(b))
    BY <1>3, <1>4, ParentOf
  <2>2. Path(b) = Path(Parent(b)) \cup {b} /\ b \notin Path(Parent(b)) /\ Parent(b) \in Path(Parent(b))
    BY <2>1, AboveChild
  <2>3. Parent(b) \in Inner(pe) /\ Parent(b) \in Nodes(pe)
    BY <2>1, <2>2 DEF Nodes, Inner
  <2> QED
    BY <1>3, <1>4, <2>3
<1>7. ASSUME NEW b \in Nodes(pe), T[b].type = "Bucket"
      PROVE  T[b].numChildren = 0
  <2>1. TypesOf(pe)[b] = "Bucket"
    <3>1. Known(pe, b) # "Bucket"
      BY DEF Known, MakeRemote
    <3> QED
      BY <1>3, <1>7, <3>1
  <2>2. b \notin Inner(pe)
    BY <2>1, TypesAre DEF TypeFromChildren
  <2> QED
    BY <1>3, <2>2
<1>8. BucketsApart(T)
  BY <1>3, <1>6, <1>7, LeavesApart DEF BucketsApart
<1> QED
  BY <1>3, <1>5, <1>6, <1>8 DEF T

\* TreePieces are numbered, and each has a PE.
LEMMA InputFacts ==
    ASSUME Input
    PROVE  /\ homeOf \in [TreePiece -> PE]
           /\ \E n \in Nat : TreePiece = 0 .. n - 1
           /\ IsFiniteSet(TreePiece)
<1>1. homeOf \in [TreePiece -> PE]
  BY DEF Input
<1>2. PICK split \in SUBSET {b \in Bin : Separable(Present(b))} :
          LET cells == {b \in Bin \ split : Path(b) \ {b} \subseteq split}
          IN  cellOf = [t \in 0 .. Cardinality(cells) - 1 |-> At(cells, t + 1)]
  BY DEF Input
<1> DEFINE cells == {b \in Bin \ split : Path(b) \ {b} \subseteq split}
<1>3. Cardinality(cells) \in Nat
  <2>1. IsFiniteSet(cells)
    BY BinFinite, FS_Subset
  <2> QED
    BY <2>1, FS_CardinalityType
<1>4. TreePiece = 0 .. Cardinality(cells) - 1
  BY <1>2 DEF TreePiece
<1>5. IsFiniteSet(TreePiece)
  BY <1>3, <1>4, FS_Interval
<1> QED
  BY <1>1, <1>3, <1>4, <1>5

----------------------------------------------------------------------------
(* The groups a TreePiece walks in. *)

\* The parts of Groups.
Closing(pe, group, b) ==
    \/ Cardinality(group) = GroupSize
    \/ Cardinality(UNION {Mine(pe, c) : c \in group \cup {b}}) > GroupParticles
Joined(pe, q, b) ==
    IF q = <<>> \/ Closing(pe, Last(q), b) THEN Append(q, {b})
    ELSE [q EXCEPT ![Len(q)] = @ \cup {b}]
OrderOf(buckets) == [i \in 1 .. Cardinality(buckets) |-> At(buckets, i)]
FoldBody(pe, order, f) ==
    [s \in SUBSET DOMAIN order |->
        IF s = {} THEN <<>> ELSE Joined(pe, f[s \ {Max(s)}], order[Max(s)])]

LEMMA GroupsAreFolded ==
    ASSUME NEW pe, NEW buckets
    PROVE  Groups(pe, buckets) =
              (CHOOSE f : f = FoldBody(pe, OrderOf(buckets), f))[DOMAIN OrderOf(buckets)]
BY DEF Groups, FoldLeft, MapThenFoldSet, FoldBody, OrderOf, Joined, Closing

\* Groups of some buckets, no bucket in two.
Disjoint(q) == \A g, h \in DOMAIN q : g # h => q[g] \cap q[h] = {}
Grouping(q, S) == q \in Seq(SUBSET S) /\ Disjoint(q)

LEMMA JoinedGroups ==
    ASSUME NEW pe, NEW S, NEW b \in S, NEW U \in SUBSET (S \ {b}), NEW q, Grouping(q, U)
    PROVE  Grouping(Joined(pe, q, b), U \cup {b}) /\ Joined(pe, q, b) \in Seq(SUBSET S)
<1> DEFINE r == Joined(pe, q, b)
           V == U \cup {b}
<1>1. q \in Seq(SUBSET U) /\ q \in Seq(SUBSET V) /\ Len(q) \in Nat /\ DOMAIN q = 1 .. Len(q)
      /\ \A g \in DOMAIN q : q[g] \subseteq U
  BY DEF Grouping
<1>2. CASE r = Append(q, {b})
  <2>1. r \in Seq(SUBSET V)
    BY <1>1, <1>2
  <2>2. DOMAIN r = 1 .. Len(q) + 1 /\ r[Len(q) + 1] = {b} /\ \A g \in DOMAIN q : r[g] = q[g]
    BY <1>1, <1>2
  <2>3. Disjoint(r)
    <3> SUFFICES ASSUME NEW g \in DOMAIN r, NEW h \in DOMAIN r, g # h
                 PROVE  r[g] \cap r[h] = {}
      BY DEF Disjoint
    <3>1. \A x \in DOMAIN r : x \in DOMAIN q \/ x = Len(q) + 1
      BY <1>1, <2>2
    <3>2. \A x \in DOMAIN q : b \notin r[x]
      BY <1>1, <2>2
    <3> HIDE DEF r
    <3> QED
      BY <2>2, <3>1, <3>2 DEF Grouping, Disjoint
  <2> QED
    BY <2>1, <2>3 DEF Grouping
<1>3. CASE q # <<>> /\ r = [q EXCEPT ![Len(q)] = @ \cup {b}]
  <2>1. Len(q) \in DOMAIN q
    BY <1>1, <1>3
  <2>2. DOMAIN r = DOMAIN q
        /\ \A g \in DOMAIN q : r[g] = IF g = Len(q) THEN q[g] \cup {b} ELSE q[g]
    <3> HIDE DEF r
    <3> QED
      BY <1>3, <2>1
  <2>3. r \in Seq(SUBSET V)
    <3>1. \A g \in DOMAIN q : r[g] \in SUBSET V
      BY <1>1, <2>2
    <3> QED
      BY <1>1, <1>3, <3>1
  <2>4. Disjoint(r)
    <3> SUFFICES ASSUME NEW g \in DOMAIN q, NEW h \in DOMAIN q, g # h
                 PROVE  r[g] \cap r[h] = {}
      BY <2>2 DEF Disjoint
    <3>1. q[g] \cap q[h] = {} /\ b \notin q[g] /\ b \notin q[h]
      BY <1>1 DEF Grouping, Disjoint
    <3> HIDE DEF r
    <3> QED
      BY <2>2, <3>1
  <2> QED
    BY <2>3, <2>4 DEF Grouping
<1>4. Grouping(r, V)
  BY <1>2, <1>3 DEF Joined
<1>5. V \subseteq S
  OBVIOUS
<1> HIDE DEF r, V
<1>6. r \in Seq(SUBSET S)
  BY <1>4, <1>5 DEF Grouping
<1> QED
  BY <1>4, <1>6 DEF r, V

LEMMA GroupsOfBuckets ==
    ASSUME NEW pe, NEW buckets, InKeyOrder(buckets)
    PROVE  Grouping(Groups(pe, buckets), buckets)
<1> DEFINE n == Cardinality(buckets)
           o == OrderOf(buckets)
           D == 1 .. n
           Used(s) == {o[i] : i \in s}
<1>1. /\ n \in Nat /\ DOMAIN o = D /\ IsFiniteSet(D)
      /\ \A i \in D : o[i] \in buckets
      /\ \A i, j \in D : o[i] = o[j] => i = j
  <2>1. n \in Nat
    BY FS_CardinalityType DEF InKeyOrder
  <2>2. \A i \in D : o[i] = At(buckets, i)
    BY DEF OrderOf
  <2>3. \A i \in D : At(buckets, i) \in buckets /\ Position(buckets, At(buckets, i)) = i
    BY PositionsInOrder
  <2> QED
    BY <2>1, <2>2, <2>3, FS_Interval DEF OrderOf
<1> DEFINE X == Seq(SUBSET buckets)
           last == [s \in SUBSET D |-> Max(s)]
           Plain(q) == Grouping(q, buckets)
<1>2. \A s \in SUBSET D : s # {} => last[s] \in s /\ last[s] = Max(s)
  <2>1. \A s \in SUBSET D : s \in SUBSET (0 .. n)
    BY <1>1
  <2> QED
    BY <1>1, <2>1, GreatestOf
<1> DEFINE body(f) == FoldBody(pe, o, f)
           step(i, q) == IF Joined(pe, q, o[i]) \in X THEN Joined(pe, q, o[i]) ELSE <<>>
           row(i) == [q \in X |-> step(i, q)]
           G == [i \in D |-> row(i)]
<1>3. G \in [D -> [X -> X]]
  <2>1. \A i \in D, q \in X : step(i, q) \in X
    <3>1. <<>> \in X
      OBVIOUS
    <3> QED
      BY <3>1
  <2> HIDE DEF step, X
  <2>2. \A i \in D : row(i) \in [X -> X]
    BY <2>1
  <2> HIDE DEF row
  <2> QED
    BY <2>2
<1>4. \A s \in SUBSET D : s \in SubsetsUpTo(D, n)
  <2>1. Cardinality(D) = n
    BY <1>1, FS_Interval
  <2> HIDE DEF D
  <2>2. \A s \in SUBSET D : Cardinality(s) <= n
    BY <1>1, <2>1, FS_Subset
  <2> QED
    BY <2>2 DEF SubsetsUpTo
<1>5. PICK h \in [SUBSET D -> X] :
         \A s \in SUBSET D : h[s] = IF s = {} THEN <<>> ELSE G[last[s]][h[s \ {last[s]}]]
  <2> HIDE DEF X, G, last
  <2>1. FoldTable(D, X, <<>>, last, G, n) # {}
    <3>1. <<>> \in X
      BY DEF X
    <3>2. IsFiniteSet(D) /\ n \in Nat /\ \A s \in SUBSET D : s # {} => last[s] \in s
      BY <1>1, <1>2
    <3> HIDE DEF D, n
    <3>3. \A m \in Nat : FoldTable(D, X, <<>>, last, G, m) # {}
      BY <1>3, <3>1, <3>2, FoldsExist, Zenon
    <3> QED
      BY <3>2, <3>3
  <2>2. PICK f \in FoldTable(D, X, <<>>, last, G, n) : TRUE
    BY <2>1
  <2>3. SubsetsUpTo(D, n) = SUBSET D
    BY <1>4 DEF SubsetsUpTo
  <2> HIDE DEF D
  <2> QED
    BY <2>2, <2>3 DEF FoldTable
\* Anything that is made that way is a grouping.
<1> DEFINE Made(f) == \A s \in SUBSET D :
                         f[s] = IF s = {} THEN <<>> ELSE Joined(pe, f[s \ {Max(s)}], o[Max(s)])
<1>6. ASSUME NEW s \in SUBSET D, s # {}, NEW q, Grouping(q, Used(s \ {Max(s)}))
      PROVE  /\ Grouping(Joined(pe, q, o[Max(s)]), Used(s))
             /\ Joined(pe, q, o[Max(s)]) \in X
  <2> DEFINE m == Max(s)
             U == Used(s \ {m})
  <2>1. m \in s
    BY <1>2, <1>6
  <2> HIDE DEF m
  <2>2. o[m] \in buckets /\ U \in SUBSET (buckets \ {o[m]}) /\ Used(s) = U \cup {o[m]}
    BY <1>1, <2>1
  <2>3. Grouping(q, U)
    BY <1>6 DEF m
  <2> HIDE DEF U, Used, o
  <2>4. Grouping(Joined(pe, q, o[m]), U \cup {o[m]}) /\ Joined(pe, q, o[m]) \in X
    BY <2>2, <2>3, JoinedGroups
  <2>5. Grouping(Joined(pe, q, o[m]), Used(s)) /\ Joined(pe, q, o[m]) \in X
    BY <2>2, <2>4
  <2> QED
    BY <2>5 DEF m
<1>7. ASSUME NEW f, \A s \in SUBSET D : s # {} /\ Grouping(f[s \ {Max(s)}], Used(s \ {Max(s)}))
                                           => Grouping(f[s], Used(s)),
             f[{}] = <<>>
      PROVE  \A s \in SUBSET D : Grouping(f[s], Used(s))
  <2> DEFINE Bad == {c \in Nat : \E s \in SUBSET D : c = Cardinality(s) /\ ~Grouping(f[s], Used(s))}
  <2>1. Bad = {}
    <3> SUFFICES ASSUME Bad # {} PROVE FALSE
      OBVIOUS
    <3>1. Bad \in SUBSET Nat
      OBVIOUS
    <3>2. PICK c \in Bad : \A d \in Bad : c <= d
      <4> HIDE DEF Bad
      <4> QED
        BY <3>1, Least
    <3>3. PICK s \in SUBSET D : c = Cardinality(s) /\ ~Grouping(f[s], Used(s))
      BY <3>2
    <3>4. s # {}
      <4>1. Grouping(<<>>, Used({}))
        BY DEF Grouping, Disjoint
      <4> HIDE DEF Used
      <4> QED
        BY <1>7, <3>3, <4>1
    <3> DEFINE r == s \ {Max(s)}
    <3>5. Max(s) \in s
      BY <1>2, <3>4
    <3>6. r \in SUBSET D /\ Cardinality(s) \in Nat \ {0} /\ Cardinality(r) = Cardinality(s) - 1
      <4> DEFINE m == Max(s)
      <4> HIDE DEF m, D
      <4>1. m \in s
        BY <3>5 DEF m
      <4>2. /\ s \ {m} \in SUBSET D /\ Cardinality(s) \in Nat \ {0}
            /\ Cardinality(s \ {m}) = Cardinality(s) - 1
        BY <1>1, <4>1, LessOne
      <4> QED
        BY <4>2 DEF m
    <3>7. Cardinality(r) \in Nat /\ ~(c <= Cardinality(r))
      BY <3>3, <3>6
    <3>8. Grouping(f[r], Used(r))
      <4> HIDE DEF r, Used, D
      <4> QED
        BY <3>2, <3>6, <3>7
    <3> HIDE DEF Used, D, Bad
    <3> QED
      BY <1>7, <3>3, <3>4, <3>8
  <2>2. \A s \in SUBSET D : Cardinality(s) \in Nat
    BY <1>1, FS_Subset, FS_CardinalityType
  <2> HIDE DEF D, Used
  <2> QED
    BY <2>1, <2>2
<1>8. Made(h)
  <2>1. \A s \in SUBSET D : Grouping(h[s], Used(s))
    <3>1. h[{}] = <<>>
      BY <1>5
    <3>2. ASSUME NEW s \in SUBSET D, s # {}, Grouping(h[s \ {Max(s)}], Used(s \ {Max(s)}))
          PROVE  Grouping(h[s], Used(s))
      <4> DEFINE m == Max(s)
                 r == s \ {m}
      <4>1. /\ Grouping(Joined(pe, h[r], o[m]), Used(s)) /\ Joined(pe, h[r], o[m]) \in X
        BY <1>6, <3>2
      <4>2. m \in D /\ r \in SUBSET D /\ last[s] = m
        BY <1>2, <3>2
      <4>3. h[s] = G[m][h[r]] /\ h[r] \in X
        <5> HIDE DEF G, last, X
        <5> QED
          BY <1>5, <3>2, <4>2
      <4>4. G[m][h[r]] = step(m, h[r])
        <5> HIDE DEF step, m, r, X
        <5> QED
          BY <4>2, <4>3
      <4> HIDE DEF G
      <4> QED
        BY <4>1, <4>3, <4>4
    <3> HIDE DEF Used
    <3> QED
      BY <1>7, <3>1, <3>2
  <2> SUFFICES ASSUME NEW s \in SUBSET D, s # {}
               PROVE  h[s] = Joined(pe, h[s \ {Max(s)}], o[Max(s)])
    BY <1>5
  <2> DEFINE m == Max(s)
             r == s \ {m}
  <2>2. m \in D /\ r \in SUBSET D /\ last[s] = m
    BY <1>2
  <2>3. Joined(pe, h[r], o[m]) \in X
    BY <1>6, <2>1, <2>2
  <2>4. h[s] = G[m][h[r]] /\ h[r] \in X
    <3> HIDE DEF G, last, X
    <3> QED
      BY <1>5, <2>2
  <2>5. G[m][h[r]] = step(m, h[r])
    <3> HIDE DEF step, m, r, X
    <3> QED
      BY <2>2, <2>4
  <2> HIDE DEF G
  <2> QED
    BY <2>3, <2>4, <2>5
<1> DEFINE g == CHOOSE f : f = body(f)
<1>9. Made(g)
  <2>1. h = body(h)
    <3>1. h = [s \in SUBSET D |-> h[s]]
      BY <1>5
    <3> HIDE DEF o
    <3> QED
      BY <1>1, <1>8, <3>1 DEF FoldBody
  <2>2. g = body(g)
    <3>1. \E f : f = body(f)
      BY <2>1
    <3> QED
      BY <3>1
  <2>3. \A s \in SUBSET D :
           body(g)[s] = IF s = {} THEN <<>> ELSE Joined(pe, g[s \ {Max(s)}], o[Max(s)])
    <3> HIDE DEF o, g
    <3> QED
      BY <1>1 DEF FoldBody
  <2> HIDE DEF g, body
  <2> QED
    BY <2>2, <2>3
<1>10. \A s \in SUBSET D : Grouping(g[s], Used(s))
  <2> HIDE DEF g
  <2>1. g[{}] = <<>>
    BY <1>9
  <2>2. ASSUME NEW s \in SUBSET D, s # {}, Grouping(g[s \ {Max(s)}], Used(s \ {Max(s)}))
        PROVE  Grouping(g[s], Used(s))
    <3>1. g[s] = Joined(pe, g[s \ {Max(s)}], o[Max(s)])
      BY <1>9, <2>2
    <3> HIDE DEF Used, o
    <3> QED
      BY <1>6, <2>2, <3>1
  <2> HIDE DEF Used
  <2> QED
    BY <1>7, <2>1, <2>2
<1>11. Groups(pe, buckets) = g[D]
  BY <1>1, GroupsAreFolded
<1>12. Used(D) \subseteq buckets
  BY <1>1
<1> HIDE DEF g, Used
<1>13. Grouping(g[D], Used(D))
  BY <1>10
<1> QED
  BY <1>11, <1>12, <1>13 DEF Grouping

----------------------------------------------------------------------------
(* The invariant. *)

\* A node of a tree.
IsNode(n) ==
    n = [type |-> n.type, owners |-> n.owners, numChildren |-> n.numChildren,
         ready |-> n.ready, mass |-> n.mass]
AreNodes(T) == \A b \in DOMAIN T : IsNode(T[b])

\* The shape of what is kept per PE and per TreePiece.
Shapes ==
    /\ homeOf \in [TreePiece -> PE] /\ IsFiniteSet(TreePiece)
    /\ phase \in [PE -> {"building", "walking", "finished", "advanced"}]
    /\ DOMAIN nodeTable = PE /\ DOMAIN cached = PE /\ DOMAIN fetched = PE
    /\ DOMAIN sent = PE /\ DOMAIN waiting = PE /\ DOMAIN buffered = PE
    /\ requests \subseteq Request /\ \A pe \in PE : buffered[pe] \subseteq Request
    /\ prepared \subseteq TreePiece
    /\ walkGroups \in [TreePiece -> Seq(SUBSET Bin)]
    /\ current \in [TreePiece -> [Side -> Nat]] /\ pending \in [TreePiece -> [Side -> Int]]
    /\ walksDone \in [TreePiece -> 0 .. 1] /\ reports \in [TreePiece -> 0 .. 1]
    /\ piecesDone \in [PE -> Nat]

\* A PE's tree hangs together, with what was fetched apart from what was built.
TreeOK(pe) ==
    /\ Rooted(Tree(pe))
    /\ AreNodes(nodeTable[pe]) /\ AreNodes(cached[pe])
    /\ DOMAIN cached[pe] \cap DOMAIN nodeTable[pe] = {}
    /\ DOMAIN fetched[pe] \subseteq DOMAIN Tree(pe)
    /\ BucketsApart(nodeTable[pe])

\* What is below k, as it hangs there.
Hangs(nodes, k) ==
    \A b \in DOMAIN nodes :
       /\ b \in Bin /\ Covers(k, b.first) /\ b.size < k.size
       /\ Parent(b) # k => Parent(b) \in DOMAIN nodes /\ nodes[Parent(b)].numChildren # 0

ReplyOK(m) ==
    /\ m.to \in PE /\ m.kind \in Kind /\ m.node \in Bin
    /\ Hangs(m.nodes, m.node) /\ AreNodes(m.nodes)
    /\ m.kind = "particles" => m.nodes = <<>>

\* Everything asked for and not answered yet.
Asked == requests \cup UNION {buffered[pe] : pe \in PE}
Awaits(pe, kind, k) == \E w \in waiting[pe] : w.kind = kind /\ w.node = k
Flying(pe, kind, k) ==
    \/ \E r \in Asked : r.from = pe /\ r.kind = kind /\ r.node = k
    \/ \E m \in replies : m.to = pe /\ m.kind = kind /\ m.node = k
Came(pe, kind, k) ==
    IF kind = "node" THEN Tree(pe)[k].numChildren # 0 ELSE k \in DOMAIN fetched[pe]

\* A node or its particles are asked for once, by someone who waits for them, and
\* as long as someone does they are on the way.
FlightOK ==
    /\ \A pe \in PE : \A r \in buffered[pe] :
          r.to = pe /\ phase[pe] = "building" /\ r \notin requests
    /\ \A r \in Asked : <<r.kind, r.node>> \in sent[r.from] /\ Awaits(r.from, r.kind, r.node)
    /\ \A m \in replies : <<m.kind, m.node>> \in sent[m.to] /\ Awaits(m.to, m.kind, m.node)
    /\ \A r, q \in Asked : r.from = q.from /\ r.kind = q.kind /\ r.node = q.node => r = q
    /\ \A m, n \in replies : m.to = n.to /\ m.kind = n.kind /\ m.node = n.node => m = n
    /\ \A r \in Asked, m \in replies : ~(r.from = m.to /\ r.kind = m.kind /\ r.node = m.node)
    /\ \A pe \in PE : \A w \in waiting[pe] : Flying(pe, w.kind, w.node)
    /\ \A pe \in PE : \A key \in sent[pe] :
          /\ key \in Kind \X DOMAIN Tree(pe)
          /\ Awaits(pe, key[1], key[2]) \/ Came(pe, key[1], key[2])

\* The walks that wait, wait for leaves that have not come, each for some of the
\* buckets of a group that has been begun, and never two for the same bucket and
\* overlapping leaves.
WaitOK(pe, w) ==
    /\ w = [kind |-> w.kind, node |-> w.node, tp |-> w.tp, mask |-> w.mask]
    /\ w.tp \in LocalPieces(pe) /\ w.mask # {}
    /\ w.node \in DOMAIN Tree(pe) /\ Tree(pe)[w.node].numChildren = 0
    /\ Tree(pe)[w.node].type \in {"Remote", "RemoteBucket"}
    /\ w.kind = KindOf(Tree(pe)[w.node].type)
    /\ w.kind = "particles" => w.node \notin DOMAIN fetched[pe]
    /\ \E g \in 1 .. current[w.tp]["remote"] : w.mask \subseteq walkGroups[w.tp][g]
WaitingOK(pe) ==
    /\ IsFiniteSet(waiting[pe])
    /\ \A w \in waiting[pe] : WaitOK(pe, w)
    /\ \A v, w \in waiting[pe] :
          v.tp = w.tp /\ v # w /\ v.mask \cap w.mask # {} => Apart(v.node, w.node)

\* A TreePiece is unstarted, at work, has something to report, or is over.
Unstarted(t) == phase[homeOf[t]] = "building" \/ t \in prepared
WaitingOf(t) == {w \in waiting[homeOf[t]] : w.tp = t}
BothEnded(t) == \A side \in Side : pending[t][side] = 0
NoneEnded(t) == \A side \in Side : pending[t][side] # 0
Over(t) == ~Unstarted(t) /\ reports[t] = 0 /\ (NumGroups(t) = 0 \/ BothEnded(t))
AtRest(t) ==
    /\ current[t] = [side \in Side |-> 0] /\ pending[t] = Reset(-1)
    /\ walksDone[t] = 0 /\ WaitingOf(t) = {}
AtWork(t) ==
    /\ \A side \in Side :
          /\ current[t][side] <= NumGroups(t)
          /\ pending[t][side] = NumGroups(t) - current[t][side]
                + (IF side = "local" THEN 0 ELSE Cardinality(WaitingOf(t)))
    /\ walksDone[t] = IF BothEnded(t) \/ NoneEnded(t) THEN 0 ELSE 1
    /\ reports[t] = 1 => BothEnded(t)
PieceOK(t) ==
    /\ t \in prepared => phase[homeOf[t]] = "walking"
    /\ Disjoint(walkGroups[t])
    /\ Unstarted(t) => walkGroups[t] = <<>> /\ reports[t] = 0
    /\ IF NumGroups(t) = 0 THEN AtRest(t) ELSE AtWork(t)

\* A PE counts the TreePieces that are over.
PhaseOK(pe) ==
    /\ phase[pe] # "advanced" => piecesDone[pe] = Cardinality({t \in LocalPieces(pe) : Over(t)})
    /\ phase[pe] = "walking" => \E t \in LocalPieces(pe) : ~Over(t)
    /\ phase[pe] \in {"finished", "advanced"} => \A t \in LocalPieces(pe) : Over(t)
    /\ phase[pe] = "advanced" => \A q \in PE : phase[q] \in {"finished", "advanced"}

TravInv ==
    /\ Shapes /\ FlightOK
    /\ \A pe \in PE : TreeOK(pe) /\ WaitingOK(pe) /\ PhaseOK(pe)
    /\ \A m \in replies : ReplyOK(m)
    /\ \A t \in TreePiece : PieceOK(t)

----------------------------------------------------------------------------
(* What is sent, and what it becomes part of. *)

LEMMA OneNode ==
    ASSUME NEW n, IsNode(n), NEW type, NEW count
    PROVE  /\ IsNode([n EXCEPT !.type = type])
           /\ [n EXCEPT !.type = type].type = type
           /\ [n EXCEPT !.type = type].numChildren = n.numChildren
           /\ IsNode([n EXCEPT !.numChildren = count])
           /\ [n EXCEPT !.numChildren = count].type = n.type
           /\ [n EXCEPT !.numChildren = count].numChildren = count
<1>1. /\ IsNode([n EXCEPT !.type = type])
      /\ [n EXCEPT !.type = type].type = type
      /\ [n EXCEPT !.type = type].numChildren = n.numChildren
  BY DEF IsNode
<1>2. /\ IsNode([n EXCEPT !.numChildren = count])
      /\ [n EXCEPT !.numChildren = count].type = n.type
      /\ [n EXCEPT !.numChildren = count].numChildren = count
  BY DEF IsNode
<1> QED
  BY <1>1, <1>2

\* What is served of a tree hangs together below the node asked for.
LEMMA SerializedHangs ==
    ASSUME NEW T, Rooted(T), AreNodes(T), NEW k \in Bin
    PROVE  Hangs(Serialized(T, k), k) /\ AreNodes(Serialized(T, k))
<1> DEFINE levels(c) == Cardinality(Path(c) \ Path(k))
           sub == {c \in DOMAIN T :
                      Covers(k, c.first) /\ c.size < k.size /\ levels(c) <= CacheLine}
           remote(c) == [T[c] EXCEPT !.type = MakeRemote(@)]
           N == Serialized(T, k)
<1>1. N = [c \in sub |-> IF levels(c) = CacheLine THEN [remote(c) EXCEPT !.numChildren = 0]
                                                  ELSE remote(c)]
  BY DEF Serialized
<1>2. ASSUME NEW c \in sub
      PROVE  IsNode(N[c]) /\ (levels(c) # CacheLine => N[c].numChildren = T[c].numChildren)
  <2>1. IsNode(T[c])
    BY DEF AreNodes
  <2>2. IsNode(remote(c)) /\ remote(c).numChildren = T[c].numChildren
    BY <2>1, OneNode
  <2>3. IsNode([remote(c) EXCEPT !.numChildren = 0])
    <3> HIDE DEF remote
    <3> QED
      BY <2>2, OneNode
  <2>4. N[c] = IF levels(c) = CacheLine THEN [remote(c) EXCEPT !.numChildren = 0] ELSE remote(c)
    BY <1>1
  <2> HIDE DEF remote, N, levels
  <2> QED
    BY <2>2, <2>3, <2>4
<1>3. DOMAIN N = sub
  BY <1>1
<1>4. ASSUME NEW b \in sub
      PROVE  /\ b \in Bin /\ Covers(k, b.first) /\ b.size < k.size
             /\ Parent(b) # k => Parent(b) \in sub /\ N[Parent(b)].numChildren # 0
  <2>1. b \in Bin /\ b \in DOMAIN T
    BY DEF Rooted
  <2>2. b.size \in Nat /\ k.size \in Nat
    BY <2>1, BinWithin
  <2>3. b # RootBin /\ Covers(k, Parent(b).first) /\ Parent(b).size <= k.size
    BY <2>1, <2>2, BelowOne
  <2>4. Parent(b) \in DOMAIN T /\ T[Parent(b)].numChildren # 0 /\ Parent(b) \in Bin
    BY <2>1, <2>3 DEF Rooted
  <2>5. levels(b) = levels(Parent(b)) + 1 /\ levels(Parent(b)) \in Nat /\ CacheLine \in Nat
        /\ levels(b) <= CacheLine
    BY <2>1, OneLevel, TraversalAssumption
  <2>6. levels(Parent(b)) <= CacheLine /\ levels(Parent(b)) # CacheLine
    BY <2>5
  <2>7. ASSUME Parent(b) # k PROVE Parent(b) \in sub
    <3>1. Parent(b).size < k.size
      BY <2>3, <2>4, <2>7, BelowOne
    <3> HIDE DEF levels
    <3> QED
      BY <2>3, <2>4, <2>6, <3>1
  <2> HIDE DEF N, sub, levels
  <2>8. ASSUME Parent(b) # k PROVE N[Parent(b)].numChildren # 0
    BY <1>2, <2>4, <2>6, <2>7, <2>8
  <2>9. Covers(k, b.first) /\ b.size < k.size
    BY DEF sub
  <2> QED
    BY <2>1, <2>7, <2>8, <2>9
<1> HIDE DEF N, sub
<1>5. Hangs(N, k)
  BY <1>3, <1>4 DEF Hangs
<1>6. AreNodes(N)
  BY <1>2, <1>3 DEF AreNodes
<1> QED
  BY <1>5, <1>6 DEF N

\* A tree of which a node has got children.
Attached(T, m) ==
    [k \in DOMAIN T |-> IF k = m.node /\ m.kind = "node"
                        THEN [T[k] EXCEPT !.numChildren = BranchFactor]
                        ELSE T[k]]
\* And with them in it.
Grown(pe, m) == Extended(Extended(m.nodes, Attached(cached[pe], m)), Attached(nodeTable[pe], m))

LEMMA AttachedFacts ==
    ASSUME NEW T, AreNodes(T), NEW m
    PROVE  /\ DOMAIN Attached(T, m) = DOMAIN T /\ AreNodes(Attached(T, m))
           /\ \A k \in DOMAIN T :
                 /\ Attached(T, m)[k].type = T[k].type
                 /\ Attached(T, m)[k].numChildren =
                       IF k = m.node /\ m.kind = "node" THEN BranchFactor ELSE T[k].numChildren
<1> DEFINE A == Attached(T, m)
<1>1. DOMAIN A = DOMAIN T
  BY DEF Attached
<1>2. ASSUME NEW k \in DOMAIN T
      PROVE  /\ IsNode(A[k]) /\ A[k].type = T[k].type
             /\ A[k].numChildren =
                   IF k = m.node /\ m.kind = "node" THEN BranchFactor ELSE T[k].numChildren
  <2>1. A[k] = IF k = m.node /\ m.kind = "node" THEN [T[k] EXCEPT !.numChildren = BranchFactor]
               ELSE T[k]
    BY DEF Attached
  <2>2. IsNode(T[k])
    BY DEF AreNodes
  <2>3. /\ IsNode([T[k] EXCEPT !.numChildren = BranchFactor])
        /\ [T[k] EXCEPT !.numChildren = BranchFactor].type = T[k].type
        /\ [T[k] EXCEPT !.numChildren = BranchFactor].numChildren = BranchFactor
    BY <2>2, OneNode
  <2> HIDE DEF A
  <2> QED
    BY <2>1, <2>2, <2>3
<1> HIDE DEF A
<1>3. AreNodes(A)
  BY <1>1, <1>2 DEF AreNodes
<1> QED
  BY <1>1, <1>2, <1>3 DEF A

\* The answer fits: nothing of it is in the tree before, and the tree still
\* hangs together.
GrownOK(pe, m) ==
    /\ DOMAIN Grown(pe, m) = DOMAIN Tree(pe) \cup DOMAIN m.nodes
    /\ DOMAIN Tree(pe) \cap DOMAIN m.nodes = {}
    /\ \A b \in DOMAIN Tree(pe) : ~(Covers(m.node, b.first) /\ b.size < m.node.size) \/ m.kind # "node"
    /\ \A k \in DOMAIN Tree(pe) :
          /\ Grown(pe, m)[k].type = Tree(pe)[k].type
          /\ Grown(pe, m)[k].numChildren =
                IF k = m.node /\ m.kind = "node" THEN BranchFactor ELSE Tree(pe)[k].numChildren
    /\ Rooted(Grown(pe, m))
    /\ AreNodes(Extended(m.nodes, Attached(cached[pe], m)))
    /\ DOMAIN Extended(m.nodes, Attached(cached[pe], m)) = DOMAIN m.nodes \cup DOMAIN cached[pe]

LEMMA GrownFacts ==
    ASSUME NEW pe \in PE, TreeOK(pe), NEW m, ReplyOK(m), m.node \in DOMAIN Tree(pe),
           m.kind = "node" => Tree(pe)[m.node].numChildren = 0
    PROVE  GrownOK(pe, m)
<1> DEFINE N == m.nodes
           C == cached[pe]
           B == nodeTable[pe]
           T == Tree(pe)
           C2 == Attached(C, m)
           B2 == Attached(B, m)
           E == Extended(N, C2)
           T2 == Grown(pe, m)
<1>1. /\ DOMAIN T = DOMAIN C \cup DOMAIN B /\ DOMAIN C \cap DOMAIN B = {}
      /\ \A k \in DOMAIN C : T[k] = C[k]
      /\ \A k \in DOMAIN B : T[k] = B[k]
  <2>1. T = Extended(C, B) /\ DOMAIN C \cap DOMAIN B = {}
    BY DEF Tree, TreeOK
  <2> HIDE DEF T, C, B
  <2>2. /\ DOMAIN Extended(C, B) = DOMAIN C \cup DOMAIN B
        /\ \A k \in DOMAIN C : Extended(C, B)[k] = C[k]
        /\ \A k \in DOMAIN B \ DOMAIN C : Extended(C, B)[k] = B[k]
    BY ExtendedFacts, Zenon
  <2> QED
    BY <2>1, <2>2
<1>2. /\ DOMAIN C2 = DOMAIN C /\ AreNodes(C2) /\ DOMAIN B2 = DOMAIN B
      /\ \A k \in DOMAIN C :
            /\ C2[k].type = C[k].type
            /\ C2[k].numChildren =
                  IF k = m.node /\ m.kind = "node" THEN BranchFactor ELSE C[k].numChildren
      /\ \A k \in DOMAIN B :
            /\ B2[k].type = B[k].type
            /\ B2[k].numChildren =
                  IF k = m.node /\ m.kind = "node" THEN BranchFactor ELSE B[k].numChildren
  BY AttachedFacts DEF TreeOK
<1>3. Rooted(T) /\ DOMAIN T \subseteq Bin
  BY DEF TreeOK, Rooted
<1>4. ASSUME m.kind = "node", NEW b \in DOMAIN T, Covers(m.node, b.first), b.size < m.node.size
      PROVE  FALSE
  BY <1>3, <1>4, AllAbove DEF ReplyOK
<1>5. DOMAIN T \cap DOMAIN N = {} /\ (m.kind # "node" => DOMAIN N = {})
  <2>1. CASE m.kind = "node"
    <3>1. \A b \in DOMAIN N : Covers(m.node, b.first) /\ b.size < m.node.size
      BY DEF ReplyOK, Hangs
    <3> QED
      BY <1>4, <2>1, <3>1
  <2>2. CASE m.kind # "node"
    <3>1. N = <<>>
      BY <2>2 DEF ReplyOK, Kind
    <3> QED
      BY <2>2, <3>1
  <2> QED
    BY <2>1, <2>2
<1> HIDE DEF N, C, B, C2, B2, T
<1>6. /\ DOMAIN E = DOMAIN N \cup DOMAIN C
      /\ \A k \in DOMAIN N : E[k] = N[k]
      /\ \A k \in DOMAIN C : E[k] = C2[k]
  <2>1. DOMAIN C \cap DOMAIN N = {}
    BY <1>1, <1>5
  <2>2. /\ DOMAIN E = DOMAIN N \cup DOMAIN C2
        /\ \A k \in DOMAIN N : E[k] = N[k]
        /\ \A k \in DOMAIN C2 \ DOMAIN N : E[k] = C2[k]
    BY ExtendedFacts, Zenon
  <2> HIDE DEF E
  <2> QED
    BY <1>2, <2>1, <2>2
<1>7. AreNodes(E)
  <2>1. AreNodes(N)
    BY DEF ReplyOK, N
  <2> HIDE DEF E
  <2> QED
    BY <1>2, <1>6, <2>1 DEF AreNodes
<1> HIDE DEF E
<1>8. /\ DOMAIN T2 = DOMAIN T \cup DOMAIN N
      /\ \A k \in DOMAIN N : T2[k] = N[k]
      /\ \A k \in DOMAIN C : T2[k] = C2[k]
      /\ \A k \in DOMAIN B : T2[k] = B2[k]
  <2>1. T2 = Extended(E, B2)
    BY DEF Grown, E, N, C2, B2, C, B
  <2> HIDE DEF T2
  <2>2. /\ DOMAIN Extended(E, B2) = DOMAIN E \cup DOMAIN B2
        /\ \A k \in DOMAIN E : Extended(E, B2)[k] = E[k]
        /\ \A k \in DOMAIN B2 \ DOMAIN E : Extended(E, B2)[k] = B2[k]
    BY ExtendedFacts, Zenon
  <2> QED
    BY <1>1, <1>2, <1>5, <1>6, <2>1, <2>2
<1> HIDE DEF T2
<1>9. \A k \in DOMAIN T :
         /\ T2[k].type = T[k].type
         /\ T2[k].numChildren =
               IF k = m.node /\ m.kind = "node" THEN BranchFactor ELSE T[k].numChildren
  BY <1>1, <1>2, <1>8
<1>10. BranchFactor # 0 /\ m.node \in Bin
  BY KeyTreeAssumption DEF ReplyOK
<1>11. Rooted(T2)
  <2>1. DOMAIN T2 \subseteq Bin
    <3>1. DOMAIN N \subseteq Bin
      BY DEF ReplyOK, Hangs, N
    <3> QED
      BY <1>3, <1>8, <3>1
  <2>2. ASSUME NEW b \in DOMAIN T, b # RootBin
        PROVE  Parent(b) \in DOMAIN T2 /\ T2[Parent(b)].numChildren # 0
    <3>1. Parent(b) \in DOMAIN T /\ T[Parent(b)].numChildren # 0
      BY <1>3, <2>2 DEF Rooted
    <3> QED
      BY <1>8, <1>9, <1>10, <3>1
  <2>3. ASSUME NEW b \in DOMAIN N
        PROVE  Parent(b) \in DOMAIN T2 /\ T2[Parent(b)].numChildren # 0
    <3>1. m.kind = "node"
      BY <1>5, <2>3
    <3>2. Parent(b) # m.node => Parent(b) \in DOMAIN N /\ N[Parent(b)].numChildren # 0
      BY DEF ReplyOK, Hangs, N
    <3>3. m.node \in DOMAIN T
      BY DEF T
    <3> QED
      BY <1>8, <1>9, <1>10, <3>1, <3>2, <3>3
  <2> QED
    BY <1>8, <2>1, <2>2, <2>3 DEF Rooted
<1> QED
  BY <1>1, <1>4, <1>5, <1>6, <1>7, <1>8, <1>9, <1>11 DEF N, C, T, T2, E, C2, GrownOK

\* A walk that goes on below a node asks for leaves below it.
LEMMA WalkGoesOn ==
    ASSUME NEW pe, NEW T, Rooted(T), NEW held, NEW k \in Bin, NEW mask, NEW A,
           A = Walk(pe, T, held, "remote", Children(k), mask).asks
    PROVE  /\ \A a \in A :
                 AskOK(T, held, mask, a) /\ Covers(k, a.node.first) /\ a.node.size < k.size
           /\ \A a, c \in A : a # c => Apart(a.node, c.node)
           /\ IsFiniteSet(A)
<1>1. CASE k.size > 1
  <2>1. \A c \in Children(k) : /\ c \in Bin /\ c.size < k.size
                               /\ \A x \in Key : Covers(c, x) => Covers(k, x)
    <3> TAKE c \in Children(k)
    <3>1. c \in Bin /\ c.size < k.size
      BY <1>1, AboveChild
    <3> QED
      BY <1>1, <3>1, ChildCoveredByParent DEF Children
  <2>2. \A c \in Children(k) : c.size = k.size \div BranchFactor
    BY DEF Children, Child
  <2>3. Level(Children(k))
    BY <2>1, <2>2 DEF Level
  <2>4. "remote" \in Side
    BY DEF Side
  <2>5. AsksOK(T, held, mask, Children(k), A)
    BY <2>3, <2>4, WalkAsks
  <2>6. \A a \in A : a.node \in Bin
    BY <2>5 DEF Rooted, AskOK, AsksOK
  <2>7. \A a \in A : Covers(k, a.node.first) /\ a.node.size < k.size
    <3> TAKE a \in A
    <3>1. PICK s \in Children(k) : Covers(s, a.node.first) /\ a.node.size <= s.size
      BY <2>5 DEF AsksOK
    <3>2. a.node.first \in Key /\ a.node.size \in Nat /\ s.size \in Nat /\ k.size \in Nat
      BY <2>1, <2>6, BinWithin, CoversFirst
    <3> QED
      BY <2>1, <3>1, <3>2
  <2> QED
    BY <2>5, <2>7 DEF AsksOK
<1>2. CASE k.size = 1
  <2>1. A = AsksOf(pe, T, held, "remote", Children(k), mask)
    BY WalkIs
  <2>2. ASSUME NEW s \in Children(k), NEW b \in Bin, Covers(s, b.first) PROVE FALSE
    <3>1. k.size \div BranchFactor = 0
      BY <1>2, KeyTreeAssumption
    <3>2. s.size = 0
      BY <3>1 DEF Children, Child
    <3>3. PICK i \in ChildIndex : s = Child(k, i)
      BY DEF Children
    <3>4. s.first \in Int
      <4>1. k.first \in Nat /\ i \in Nat /\ i * 0 = 0
        BY BinWithin, KeyTreeAssumption DEF ChildIndex
      <4>2. s.first = k.first + i * (k.size \div BranchFactor)
        BY <3>3 DEF Child
      <4> QED
        BY <3>1, <4>1, <4>2
    <3>5. b.first \in Nat
      BY BinWithin
    <3> QED
      BY <2>2, <3>2, <3>4, <3>5 DEF Covers
  <2>3. Within(T, Children(k)) = {}
    BY <2>2 DEF Within, Rooted
  <2>4. A = {}
    BY <2>1, <2>3 DEF AsksOf, Reached, KeptBy
  <2> QED
    BY <2>4, FS_EmptySet
<1>3. k.size \in Nat \ {0}
  BY BinWithin
<1> QED
  BY <1>1, <1>2, <1>3

----------------------------------------------------------------------------
(* Counting. *)

\* The buckets of a TreePiece come in an order.
LEMMA BucketsInOrder ==
    ASSUME NEW t \in TreePiece, homeOf[t] \in PE, TreeOK(homeOf[t])
    PROVE  InKeyOrder(BucketsOf(t)) /\ BucketsOf(t) \subseteq DOMAIN nodeTable[homeOf[t]]
<1> DEFINE pe == homeOf[t]
           T == nodeTable[pe]
           S == BucketsOf(t)
<1>1. S \subseteq DOMAIN T /\ \A b \in S : T[b].type = "Bucket"
  BY DEF BucketsOf
<1>2. DOMAIN T \subseteq Bin
  <2>1. DOMAIN Tree(pe) \subseteq Bin
    BY DEF TreeOK, Rooted
  <2>2. DOMAIN Extended(cached[pe], T) = DOMAIN cached[pe] \cup DOMAIN T
    BY ExtendedFacts, Zenon
  <2> HIDE DEF T
  <2> QED
    BY <2>1, <2>2 DEF Tree, T
<1>3. ASSUME NEW b \in S, NEW c \in S, b.first = c.first PROVE b = c
  <2> SUFFICES ASSUME b # c PROVE FALSE
    OBVIOUS
  <2>1. Apart(b, c)
    BY <1>1, <1>3 DEF TreeOK, BucketsApart
  <2>2. b \in Bin /\ c \in Bin
    BY <1>1, <1>2
  <2> QED
    BY <1>3, <2>1, <2>2, CoversFirst DEF Apart
<1>4. IsFiniteSet(S)
  BY <1>1, <1>2, BinFinite, FS_Subset
<1> QED
  BY <1>1, <1>2, <1>3, <1>4 DEF InKeyOrder

LEMMA UntilIs ==
    ASSUME NEW t \in TreePiece, NumGroups(t) \in Nat, NEW g \in Nat, g < NumGroups(t)
    PROVE  Until(t, g) \in g + 1 .. NumGroups(t)
<1> DEFINE S == {h \in g + 1 .. NumGroups(t) :
                    Cardinality(UNION {walkGroups[t][i] : i \in g + 1 .. h}) >= YieldPeriod}
                \cup {NumGroups(t)}
<1>1. S \in SUBSET Nat /\ S # {} /\ S \subseteq g + 1 .. NumGroups(t)
  OBVIOUS
<1>2. Until(t, g) = Min(S)
  BY DEF Until
<1> HIDE DEF S
<1> QED
  BY <1>1, <1>2, LeastOf

----------------------------------------------------------------------------
(* Ends of walks. *)

LEMMA DoneIs ==
    ASSUME NEW E, TraversalDone(E)
    PROVE  /\ DOMAIN walksDone' = TreePiece /\ DOMAIN reports' = TreePiece
           /\ \A t \in TreePiece : \A n :
                 n = walksDone[t] + Cardinality({e \in E : e[1] = t}) =>
                    /\ walksDone'[t] = IF n >= 2 THEN 0 ELSE n
                    /\ reports'[t] = reports[t] + n \div 2
BY DEF TraversalDone

LEMMA NoneEnds ==
    ASSUME NEW E, TraversalDone(E), NEW t \in TreePiece,
           walksDone[t] \in 0 .. 1, reports[t] \in Nat, {e \in E : e[1] = t} = {}
    PROVE  walksDone'[t] = walksDone[t] /\ reports'[t] = reports[t]
<1>1. Cardinality({e \in E : e[1] = t}) = 0
  BY FS_EmptySet
<1> DEFINE n == walksDone[t] + Cardinality({e \in E : e[1] = t})
<1>2. n = walksDone[t]
  BY <1>1
<1>3. walksDone'[t] = (IF n >= 2 THEN 0 ELSE n) /\ reports'[t] = reports[t] + n \div 2
  BY DoneIs
<1> HIDE DEF n
<1>4. n \div 2 = 0
  BY <1>2
<1> QED
  BY <1>2, <1>3, <1>4

LEMMA OneEnds ==
    ASSUME NEW E, TraversalDone(E), NEW t \in TreePiece,
           walksDone[t] \in 0 .. 1, reports[t] \in Nat, Cardinality({e \in E : e[1] = t}) = 1
    PROVE  walksDone'[t] = 1 - walksDone[t] /\ reports'[t] = reports[t] + walksDone[t]
<1> DEFINE n == walksDone[t] + Cardinality({e \in E : e[1] = t})
<1>1. n = walksDone[t] + 1
  OBVIOUS
<1>2. walksDone'[t] = (IF n >= 2 THEN 0 ELSE n) /\ reports'[t] = reports[t] + n \div 2
  BY DoneIs
<1> HIDE DEF n
<1>3. n \div 2 = walksDone[t] /\ (IF n >= 2 THEN 0 ELSE n) = 1 - walksDone[t]
  BY <1>1
<1> QED
  BY <1>2, <1>3

LEMMA BothEnd ==
    ASSUME NEW t \in TreePiece, TraversalDone({<<t, side>> : side \in Side}),
           walksDone[t] = 0, reports[t] \in Nat
    PROVE  walksDone'[t] = 0 /\ reports'[t] = reports[t] + 1
<1> DEFINE E == {<<t, side>> : side \in Side}
<1>1. {e \in E : e[1] = t} = {<<t, "local">>, <<t, "remote">>}
  BY DEF Side
<1>2. Cardinality({<<t, "local">>, <<t, "remote">>}) = 2
  <2> DEFINE a == <<t, "local">>
             b == <<t, "remote">>
  <2>1. a # b /\ {a, b} = {a} \cup {b}
    OBVIOUS
  <2> HIDE DEF a, b
  <2>2. Cardinality({a}) = 1 /\ IsFiniteSet({a}) /\ b \notin {a}
    BY <2>1, FS_Singleton
  <2>3. Cardinality({a} \cup {b}) = 1 + 1
    BY <2>2, FS_AddElement
  <2> QED
    BY <2>1, <2>3 DEF a, b
<1> HIDE DEF E
<1> DEFINE n == walksDone[t] + Cardinality({e \in E : e[1] = t})
<1>3. n = 2
  <2>1. Cardinality({e \in E : e[1] = t}) = 2
    BY <1>1, <1>2, Zenon
  <2> QED
    BY <2>1
<1>4. TraversalDone(E)
  BY DEF E
<1>5. walksDone'[t] = (IF n >= 2 THEN 0 ELSE n) /\ reports'[t] = reports[t] + n \div 2
  BY <1>4, DoneIs
<1> HIDE DEF n
<1> QED
  BY <1>3, <1>5

----------------------------------------------------------------------------
(* Requests. *)

\* New requests, one for each key.
Fresh(pe, K, N) ==
    /\ \A r \in N : r.from = pe /\ <<r.kind, r.node>> \in K
    /\ \A key \in K : \E r \in N : r.kind = key[1] /\ r.node = key[2]
    /\ \A r, q \in N : r.kind = q.kind /\ r.node = q.node => r = q

LEMMA AskIs ==
    ASSUME homeOf \in [TreePiece -> PE], NEW pe \in PE, NEW T, NEW A, Ask(pe, T, A),
           \A a \in A : a.kind \in Kind /\ a.node \in Bin,
           NEW K, K = {<<a.kind, a.node>> : a \in A} \ sent[pe]
    PROVE  /\ sent' = [sent EXCEPT ![pe] = @ \cup K]
           /\ \E N \in SUBSET Request : requests' = requests \cup N /\ Fresh(pe, K, N)
<1> DEFINE servers(key) == LET o == T[key[2]].owners
                           IN  IF key[1] = "node" THEN Serving(o) ELSE {o.start}
<1>1. /\ sent' = [sent EXCEPT ![pe] = @ \cup K]
      /\ \E server \in [K -> TreePiece] :
            /\ \A key \in K : server[key] \in servers(key)
            /\ requests' = requests \cup
                  {[to |-> homeOf[server[key]], kind |-> key[1], node |-> key[2],
                    from |-> pe] : key \in K}
  BY DEF Ask
<1>2. PICK server \in [K -> TreePiece] :
         requests' = requests \cup
            {[to |-> homeOf[server[key]], kind |-> key[1], node |-> key[2],
              from |-> pe] : key \in K}
  BY <1>1
<1> DEFINE request(key) == [to |-> homeOf[server[key]], kind |-> key[1], node |-> key[2],
                            from |-> pe]
           N == {request(key) : key \in K}
<1>3. \A key \in K : key[1] \in Kind /\ key[2] \in Bin /\ key = <<key[1], key[2]>>
  OBVIOUS
<1>4. \A key \in K : /\ request(key) \in Request
                     /\ request(key).from = pe /\ request(key).kind = key[1]
                     /\ request(key).node = key[2]
  <2> TAKE key \in K
  <2>1. homeOf[server[key]] \in PE
    OBVIOUS
  <2> QED
    BY <1>3, <2>1 DEF Request
<1> HIDE DEF request
<1>5. Fresh(pe, K, N)
  <2>1. \A r \in N : r.from = pe /\ <<r.kind, r.node>> \in K
    BY <1>3, <1>4
  <2>2. \A key \in K : \E r \in N : r.kind = key[1] /\ r.node = key[2]
    BY <1>4
  <2>3. \A r, q \in N : r.kind = q.kind /\ r.node = q.node => r = q
    <3> TAKE r, q \in N
    <3>1. PICK x \in K : r = request(x)
      OBVIOUS
    <3>2. PICK y \in K : q = request(y)
      OBVIOUS
    <3>3. ASSUME r.kind = q.kind, r.node = q.node PROVE r = q
      <4>1. x[1] = y[1] /\ x[2] = y[2]
        BY <1>4, <3>1, <3>2, <3>3
      <4>2. x = y
        BY <1>3, <4>1
      <4> QED
        BY <3>1, <3>2, <4>2
    <3> QED
      BY <3>3
  <2> HIDE DEF N
  <2> QED
    BY <2>1, <2>2, <2>3 DEF Fresh
<1>6. N \in SUBSET Request
  BY <1>4
<1>7. requests' = requests \cup N
  BY <1>2 DEF request
<1> HIDE DEF N
<1> QED
  BY <1>1, <1>5, <1>6, <1>7

\* pe takes the answers `gone', and those who waited for them, R, no longer do.
Told(pe, gone, R) ==
    /\ gone \in SUBSET replies /\ replies' = replies \ gone
    /\ \A m \in gone : m.to = pe /\ Came(pe, m.kind, m.node)'
    /\ R \in SUBSET waiting[pe]
    /\ \A w \in waiting[pe], m \in gone : w.kind = m.kind /\ w.node = m.node => w \in R
    /\ \A w \in R : \E m \in gone : w.kind = m.kind /\ w.node = m.node

\* pe asks for A, which it does not have, for W in the place of R.
AskedFor(pe, A, R, W) ==
    /\ \A a \in A : /\ a.kind \in Kind /\ a.node \in Bin /\ a.node \in (DOMAIN Tree(pe))'
                    /\ ~Came(pe, a.kind, a.node)'
    /\ waiting' = [waiting EXCEPT ![pe] = (@ \ R) \cup W]
    /\ \A a \in A : \E w \in W : w.kind = a.kind /\ w.node = a.node
    /\ \A w \in W : \E a \in A : w.kind = a.kind /\ w.node = a.node

\* Nothing is lost of a tree.
TreesGrow ==
    /\ \A q \in PE : DOMAIN Tree(q) \subseteq (DOMAIN Tree(q))'
    /\ \A q \in PE : \A key \in sent[q] : Came(q, key[1], key[2]) => Came(q, key[1], key[2])'

\* Once a PE has asked for what it does not have, and told those who waited for
\* what has come, those who wait are just those whose answers are on the way.
LEMMA FlightAfterAsk ==
    ASSUME Shapes, FlightOK, \A m \in replies : m.to \in PE,
           NEW pe \in PE, NEW T, NEW A, Ask(pe, T, A), NEW gone, NEW R, NEW W,
           Told(pe, gone, R), AskedFor(pe, A, R, W), TreesGrow, UNCHANGED <<buffered, phase>>
    PROVE  /\ FlightOK' /\ requests' \subseteq Request /\ DOMAIN sent' = PE
<1> USE DEF Told, AskedFor, TreesGrow
<1> DEFINE K == {<<a.kind, a.node>> : a \in A} \ sent[pe]
<1>1. sent' = [sent EXCEPT ![pe] = @ \cup K]
      /\ \E N \in SUBSET Request : requests' = requests \cup N /\ Fresh(pe, K, N)
  BY AskIs DEF Shapes
<1>2. PICK N \in SUBSET Request : requests' = requests \cup N /\ Fresh(pe, K, N)
  BY <1>1
<1>3. /\ DOMAIN sent' = PE /\ sent'[pe] = sent[pe] \cup K
      /\ \A q \in PE : q # pe => sent'[q] = sent[q]
      /\ \A q \in PE : sent[q] \subseteq sent'[q]
  <2>1. DOMAIN sent = PE
    BY DEF Shapes
  <2> HIDE DEF K
  <2> QED
    BY <1>1, <2>1
<1>4. /\ waiting'[pe] = (waiting[pe] \ R) \cup W
      /\ \A q \in PE : q # pe => waiting'[q] = waiting[q]
  BY DEF Shapes
<1>5. Asked' = Asked \cup N
  BY <1>2 DEF Asked
<1>6. \A r \in N : r.from = pe /\ <<r.kind, r.node>> \in K
  BY <1>2 DEF Fresh
<1>7. \A r \in Asked : r.from \in PE /\ r.kind \in Kind /\ r.node \in Bin
  BY DEF Shapes, Asked, Request
\* A key that is new, and one that is not.
<1>8. ASSUME NEW a \in A PROVE \E w \in waiting'[pe] : w.kind = a.kind /\ w.node = a.node
  BY <1>4
<1>9. ASSUME NEW q \in PE, NEW kind, NEW k, Awaits(q, kind, k),
             \A m \in gone : ~(q = pe /\ kind = m.kind /\ k = m.node)
      PROVE  Awaits(q, kind, k)'
  <2>1. PICK w \in waiting[q] : w.kind = kind /\ w.node = k
    BY <1>9 DEF Awaits
  <2>2. CASE q # pe
    BY <1>4, <2>1, <2>2 DEF Awaits
  <2>3. CASE q = pe
    <3>1. w \notin R
      BY <1>9, <2>1, <2>3
    <3> QED
      BY <1>4, <2>1, <2>3, <3>1 DEF Awaits
  <2> QED
    BY <2>2, <2>3
<1> HIDE DEF K
<1>10. ASSUME NEW q \in PE, NEW r \in buffered'[q]
       PROVE  r.to = q /\ phase'[q] = "building" /\ r \notin requests'
  <2>1. r.to = q /\ phase[q] = "building" /\ r \notin requests /\ r \in Asked
    BY DEF FlightOK, Asked
  <2>2. <<r.kind, r.node>> \in sent[r.from]
    BY <2>1 DEF FlightOK
  <2>3. r \notin N
    BY <1>6, <2>2 DEF K
  <2> QED
    BY <1>2, <2>1, <2>3
<1>11. ASSUME NEW r \in Asked'
       PROVE  <<r.kind, r.node>> \in sent'[r.from] /\ Awaits(r.from, r.kind, r.node)'
  <2>1. CASE r \in Asked
    <3>1. r.from \in PE /\ <<r.kind, r.node>> \in sent[r.from] /\ Awaits(r.from, r.kind, r.node)
      BY <1>7, <2>1 DEF FlightOK
    <3>2. \A m \in gone : ~(r.from = pe /\ r.kind = m.kind /\ r.node = m.node)
      BY <2>1 DEF FlightOK
    <3> QED
      BY <1>3, <1>9, <3>1, <3>2
  <2>2. CASE r \in N
    <3>1. r.from = pe /\ <<r.kind, r.node>> \in K
      BY <1>6, <2>2
    <3>2. PICK a \in A : r.kind = a.kind /\ r.node = a.node
      BY <3>1 DEF K
    <3> QED
      BY <1>3, <1>8, <3>1, <3>2 DEF Awaits
  <2> QED
    BY <1>5, <2>1, <2>2
<1>12. ASSUME NEW m \in replies'
       PROVE  <<m.kind, m.node>> \in sent'[m.to] /\ Awaits(m.to, m.kind, m.node)'
  <2>1. m \in replies /\ m \notin gone
    OBVIOUS
  <2>2. <<m.kind, m.node>> \in sent[m.to] /\ Awaits(m.to, m.kind, m.node)
    BY <2>1 DEF FlightOK
  <2>3. m.to \in PE
    BY <2>1
  <2>4. \A n \in gone : ~(m.to = pe /\ m.kind = n.kind /\ m.node = n.node)
    BY <2>1 DEF FlightOK
  <2> QED
    BY <1>3, <1>9, <2>2, <2>3, <2>4
<1>13. ASSUME NEW r \in Asked', NEW q \in Asked', r.from = q.from, r.kind = q.kind, r.node = q.node
       PROVE  r = q
  <2>1. CASE r \in Asked /\ q \in Asked
    BY <1>13, <2>1 DEF FlightOK
  <2>2. CASE r \in N /\ q \in N
    BY <1>2, <1>13, <2>2 DEF Fresh
  <2>3. ASSUME NEW x \in Asked, NEW y \in N, x.from = y.from, x.kind = y.kind, x.node = y.node
        PROVE  FALSE
    <3>1. <<x.kind, x.node>> \in sent[pe] /\ <<y.kind, y.node>> \in K
      BY <1>6, <2>3 DEF FlightOK
    <3> QED
      BY <2>3, <3>1 DEF K
  <2> QED
    BY <1>5, <1>13, <2>1, <2>2, <2>3
<1>14. \A m, n \in replies' : m.to = n.to /\ m.kind = n.kind /\ m.node = n.node => m = n
  BY DEF FlightOK
<1>15. ASSUME NEW r \in Asked', NEW m \in replies', r.from = m.to, r.kind = m.kind, r.node = m.node
       PROVE  FALSE
  <2>1. m \in replies /\ <<m.kind, m.node>> \in sent[m.to]
    BY DEF FlightOK
  <2>2. CASE r \in Asked
    BY <1>15, <2>1, <2>2 DEF FlightOK
  <2>3. CASE r \in N
    <3>1. r.from = pe /\ <<r.kind, r.node>> \in K
      BY <1>6, <2>3
    <3> QED
      BY <1>15, <2>1, <3>1 DEF K
  <2> QED
    BY <1>5, <2>2, <2>3
<1>16. ASSUME NEW q \in PE, NEW kind, NEW k, Flying(q, kind, k),
              \A m \in gone : ~(q = pe /\ kind = m.kind /\ k = m.node)
       PROVE  Flying(q, kind, k)'
  <2>1. CASE \E r \in Asked : r.from = q /\ r.kind = kind /\ r.node = k
    BY <1>5, <2>1 DEF Flying
  <2>2. CASE \E m \in replies : m.to = q /\ m.kind = kind /\ m.node = k
    <3>1. PICK m \in replies : m.to = q /\ m.kind = kind /\ m.node = k
      BY <2>2
    <3>2. m \in replies'
      BY <1>16, <3>1
    <3> QED
      BY <3>1, <3>2 DEF Flying
  <2> QED
    BY <1>16, <2>1, <2>2 DEF Flying
<1>17. ASSUME NEW q \in PE, NEW w \in waiting'[q]
       PROVE  Flying(q, w.kind, w.node)'
  <2>1. CASE w \in waiting[q] /\ (q # pe \/ w \notin R)
    <3>1. Flying(q, w.kind, w.node)
      BY <2>1 DEF FlightOK
    <3>2. \A m \in gone : ~(q = pe /\ w.kind = m.kind /\ w.node = m.node)
      BY <2>1
    <3> QED
      BY <1>16, <3>1, <3>2
  <2>2. CASE q = pe /\ w \in W
    <3>1. PICK a \in A : w.kind = a.kind /\ w.node = a.node
      BY <2>2
    <3>2. CASE <<a.kind, a.node>> \in K
      <4>1. PICK r \in N : r.kind = a.kind /\ r.node = a.node
        BY <1>2, <3>2 DEF Fresh
      <4>2. r \in Asked' /\ r.from = pe
        BY <1>5, <1>6
      <4> QED
        BY <2>2, <3>1, <4>1, <4>2 DEF Flying
    <3>3. CASE <<a.kind, a.node>> \in sent[pe]
      <4> DEFINE key == <<a.kind, a.node>>
      <4>1. key[1] = a.kind /\ key[2] = a.node /\ key \in sent[pe]
        BY <3>3
      <4> HIDE DEF key
      <4>2. Awaits(pe, a.kind, a.node) \/ Came(pe, a.kind, a.node)
        BY <4>1 DEF FlightOK
      <4>3. ~Came(pe, a.kind, a.node)
        BY <4>1
      <4>4. PICK v \in waiting[pe] : v.kind = a.kind /\ v.node = a.node
        BY <4>2, <4>3 DEF Awaits
      <4>5. Flying(pe, a.kind, a.node)
        BY <4>4 DEF FlightOK
      <4>6. \A m \in gone : ~(a.kind = m.kind /\ a.node = m.node)
        OBVIOUS
      <4>7. Flying(pe, a.kind, a.node)'
        BY <1>16, <4>5, <4>6
      <4> QED
        BY <2>2, <3>1, <4>7
    <3> QED
      BY <3>2, <3>3 DEF K
  <2> QED
    BY <1>4, <2>1, <2>2
<1>18. ASSUME NEW q \in PE, NEW key \in sent'[q]
       PROVE  /\ key \in Kind \X (DOMAIN Tree(q))'
              /\ Awaits(q, key[1], key[2])' \/ Came(q, key[1], key[2])'
  <2>1. CASE key \in sent[q]
    <3>1. /\ key \in Kind \X DOMAIN Tree(q)
          /\ Awaits(q, key[1], key[2]) \/ Came(q, key[1], key[2])
      BY <2>1 DEF FlightOK
    <3>2. DOMAIN Tree(q) \subseteq (DOMAIN Tree(q))'
          /\ (Came(q, key[1], key[2]) => Came(q, key[1], key[2])')
      BY <2>1
    <3>3. key \in Kind \X (DOMAIN Tree(q))'
      BY <3>1, <3>2
    <3>4. CASE \E m \in gone : q = pe /\ key[1] = m.kind /\ key[2] = m.node
      BY <3>3, <3>4
    <3>5. CASE \A m \in gone : ~(q = pe /\ key[1] = m.kind /\ key[2] = m.node)
      BY <1>9, <3>1, <3>2, <3>3, <3>5
    <3> QED
      BY <3>4, <3>5
  <2>2. CASE q = pe /\ key \in K
    <3>1. PICK a \in A : key = <<a.kind, a.node>>
      BY <2>2 DEF K
    <3>2. key[1] = a.kind /\ key[2] = a.node /\ key \in Kind \X (DOMAIN Tree(q))'
      BY <2>2, <3>1
    <3> QED
      BY <1>8, <2>2, <3>2 DEF Awaits
  <2> QED
    BY <1>3, <2>1, <2>2
<1>19. FlightOK'
  BY <1>10, <1>11, <1>12, <1>13, <1>14, <1>15, <1>17, <1>18 DEF FlightOK
<1> QED
  BY <1>2, <1>3, <1>19 DEF Shapes

----------------------------------------------------------------------------
(* What a step leaves as it is. *)

LEMMA TreesKept ==
    ASSUME NEW pe \in PE, UNCHANGED <<nodeTable[pe], cached[pe], fetched[pe]>>
    PROVE  /\ Tree(pe)' = Tree(pe) /\ (TreeOK(pe) => TreeOK(pe)')
           /\ \A kind, k : Came(pe, kind, k) => Came(pe, kind, k)'
<1>1. Tree(pe)' = Tree(pe)
  BY DEF Tree
<1>2. ASSUME TreeOK(pe) PROVE TreeOK(pe)'
  BY <1>1, <1>2 DEF TreeOK
<1>3. \A kind, k : Came(pe, kind, k) => Came(pe, kind, k)'
  BY <1>1 DEF Came
<1> QED
  BY <1>1, <1>2, <1>3

LEMMA WaitsKept ==
    ASSUME NEW pe \in PE, WaitingOK(pe),
           UNCHANGED <<input, nodeTable[pe], cached[pe], fetched[pe], waiting[pe]>>,
           \A w \in waiting[pe] : UNCHANGED <<current[w.tp]["remote"], walkGroups[w.tp]>>
    PROVE  WaitingOK(pe)'
<1>1. Tree(pe)' = Tree(pe)
  BY TreesKept
<1>2. LocalPieces(pe)' = LocalPieces(pe)
  BY DEF LocalPieces, TreePiece, input
<1>3. ASSUME NEW w \in waiting[pe] PROVE WaitOK(pe, w)'
  <2>1. WaitOK(pe, w)
    BY DEF WaitingOK
  <2>2. current'[w.tp]["remote"] = current[w.tp]["remote"] /\ walkGroups'[w.tp] = walkGroups[w.tp]
    OBVIOUS
  <2> QED
    BY <1>1, <1>2, <2>1, <2>2 DEF WaitOK
<1>4. waiting'[pe] = waiting[pe]
  OBVIOUS
<1> QED
  BY <1>3, <1>4 DEF WaitingOK

LEMMA PieceKept ==
    ASSUME UNCHANGED <<input, phase, prepared, walkGroups, current, pending, walksDone, reports,
                       waiting>>,
           NEW t \in TreePiece
    PROVE  (PieceOK(t) => PieceOK(t)') /\ Over(t)' = Over(t)
<1>1. homeOf' = homeOf
  BY DEF input
<1>2. /\ WaitingOf(t)' = WaitingOf(t) /\ NumGroups(t)' = NumGroups(t)
      /\ Unstarted(t)' = Unstarted(t) /\ BothEnded(t)' = BothEnded(t) /\ NoneEnded(t)' = NoneEnded(t)
  BY <1>1 DEF WaitingOf, NumGroups, Unstarted, BothEnded, NoneEnded
<1>3. AtRest(t)' = AtRest(t)
  BY <1>2 DEF AtRest, Reset
<1>4. AtWork(t)' = AtWork(t)
  BY <1>2 DEF AtWork
<1> QED
  BY <1>1, <1>2, <1>3, <1>4 DEF PieceOK, Over

LEMMA PhaseKept ==
    ASSUME UNCHANGED <<input, phase, piecesDone>>, NEW pe \in PE, PhaseOK(pe),
           \A t \in TreePiece : Over(t)' <=> Over(t)
    PROVE  PhaseOK(pe)'
<1>1. LocalPieces(pe)' = LocalPieces(pe) /\ LocalPieces(pe) \subseteq TreePiece
  BY DEF LocalPieces, TreePiece, input
<1>2. {t \in LocalPieces(pe) : Over(t)}' = {t \in LocalPieces(pe) : Over(t)}
  BY <1>1
<1> QED
  BY <1>1, <1>2 DEF PhaseOK

----------------------------------------------------------------------------
(* Serving. *)

LEMMA ReplyIs ==
    ASSUME NEW pe \in PE, TreeOK(pe), NEW r \in Request, NEW m, m = Reply(pe, Tree(pe), r),
           AreNodes(Tree(pe))
    PROVE  ReplyOK(m) /\ m.to = r.from /\ m.kind = r.kind /\ m.node = r.node
<1>1. r.from \in PE /\ r.kind \in Kind /\ r.node \in Bin
  BY DEF Request
<1>2. m.to = r.from /\ m.kind = r.kind /\ m.node = r.node
      /\ m.nodes = IF r.kind = "node" THEN Serialized(Tree(pe), r.node) ELSE <<>>
  BY DEF Reply
<1>3. Hangs(Serialized(Tree(pe), r.node), r.node) /\ AreNodes(Serialized(Tree(pe), r.node))
  BY <1>1, SerializedHangs DEF TreeOK
<1>4. Hangs(<<>>, r.node) /\ AreNodes(<<>>)
  BY DEF Hangs, AreNodes
<1> QED
  BY <1>1, <1>2, <1>3, <1>4 DEF ReplyOK

LEMMA NodesOfTree ==
    ASSUME NEW pe \in PE, TreeOK(pe)
    PROVE  AreNodes(Tree(pe))
<1> DEFINE C == cached[pe]
           B == nodeTable[pe]
<1>1. Tree(pe) = Extended(C, B) /\ AreNodes(C) /\ AreNodes(B)
  BY DEF Tree, TreeOK
<1> HIDE DEF C, B
<1>2. /\ DOMAIN Extended(C, B) = DOMAIN C \cup DOMAIN B
      /\ \A k \in DOMAIN C : Extended(C, B)[k] = C[k]
      /\ \A k \in DOMAIN B \ DOMAIN C : Extended(C, B)[k] = B[k]
  BY ExtendedFacts, Zenon
<1> QED
  BY <1>1, <1>2 DEF AreNodes

\* Requests that are answered, each with one answer.
Answers(Q, A) ==
    /\ \A r \in Q : \E m \in A : m.to = r.from /\ m.kind = r.kind /\ m.node = r.node
    /\ \A m \in A : \E r \in Q : m.to = r.from /\ m.kind = r.kind /\ m.node = r.node
    /\ \A m, n \in A : m.to = n.to /\ m.kind = n.kind /\ m.node = n.node => m = n

LEMMA FlightAnswered ==
    ASSUME FlightOK, UNCHANGED <<nodeTable, cached, fetched, sent, waiting>>,
           NEW Q \in SUBSET Asked, NEW A, replies' = replies \cup A,
           Asked' = Asked \ Q, Answers(Q, A),
           \A pe \in PE : \A r \in buffered'[pe] :
              r.to = pe /\ phase'[pe] = "building" /\ r \notin requests'
    PROVE  FlightOK'
<1> USE DEF Answers
<1>1. \A pe \in PE : Tree(pe)' = Tree(pe) /\ \A kind, k : Came(pe, kind, k) => Came(pe, kind, k)'
  BY TreesKept
<1>2. \A pe, kind, k : Awaits(pe, kind, k) => Awaits(pe, kind, k)'
  BY DEF Awaits
<1>3. \A r \in Asked' : r \in Asked /\ r \notin Q
  OBVIOUS
<1>4. \A r \in Asked' : <<r.kind, r.node>> \in sent'[r.from] /\ Awaits(r.from, r.kind, r.node)'
  BY <1>2, <1>3 DEF FlightOK
<1>5. ASSUME NEW m \in replies'
      PROVE  <<m.kind, m.node>> \in sent'[m.to] /\ Awaits(m.to, m.kind, m.node)'
  <2>1. CASE m \in replies
    BY <1>2, <2>1 DEF FlightOK
  <2>2. CASE m \in A
    <3>1. PICK r \in Q : m.to = r.from /\ m.kind = r.kind /\ m.node = r.node
      BY <2>2
    <3>2. <<r.kind, r.node>> \in sent[r.from] /\ Awaits(r.from, r.kind, r.node)
      BY DEF FlightOK
    <3> QED
      BY <1>2, <3>1, <3>2
  <2> QED
    BY <2>1, <2>2
<1>6. \A r, q \in Asked' : r.from = q.from /\ r.kind = q.kind /\ r.node = q.node => r = q
  BY <1>3 DEF FlightOK
<1>7. ASSUME NEW m \in replies', NEW n \in replies', m.to = n.to, m.kind = n.kind, m.node = n.node
      PROVE  m = n
  <2>1. ASSUME NEW x \in replies, NEW y \in A, x.to = y.to, x.kind = y.kind, x.node = y.node
        PROVE  FALSE
    <3>1. PICK r \in Q : y.to = r.from /\ y.kind = r.kind /\ y.node = r.node
      OBVIOUS
    <3> QED
      BY <2>1, <3>1 DEF FlightOK
  <2>2. CASE m \in replies /\ n \in replies
    BY <1>7, <2>2 DEF FlightOK
  <2>3. CASE m \in A /\ n \in A
    BY <1>7, <2>3
  <2> QED
    BY <1>7, <2>1, <2>2, <2>3
<1>8. ASSUME NEW r \in Asked', NEW m \in replies', r.from = m.to, r.kind = m.kind, r.node = m.node
      PROVE  FALSE
  <2>1. CASE m \in replies
    BY <1>3, <1>8, <2>1 DEF FlightOK
  <2>2. CASE m \in A
    <3>1. PICK q \in Q : m.to = q.from /\ m.kind = q.kind /\ m.node = q.node
      BY <2>2
    <3>2. q = r
      BY <1>3, <1>8, <3>1 DEF FlightOK
    <3> QED
      BY <1>3, <3>2
  <2> QED
    BY <2>1, <2>2
<1>9. ASSUME NEW pe \in PE, NEW w \in waiting'[pe] PROVE Flying(pe, w.kind, w.node)'
  <2>1. Flying(pe, w.kind, w.node)
    BY DEF FlightOK
  <2>2. ASSUME NEW r \in Asked, r.from = pe, r.kind = w.kind, r.node = w.node
        PROVE  Flying(pe, w.kind, w.node)'
    <3>1. CASE r \in Q
      <4>1. PICK m \in A : m.to = r.from /\ m.kind = r.kind /\ m.node = r.node
        BY <3>1
      <4> QED
        BY <2>2, <4>1 DEF Flying
    <3>2. CASE r \notin Q
      BY <2>2, <3>2 DEF Flying
    <3> QED
      BY <3>1, <3>2
  <2>3. ASSUME NEW m \in replies, m.to = pe, m.kind = w.kind, m.node = w.node
        PROVE  Flying(pe, w.kind, w.node)'
    BY <2>3 DEF Flying
  <2> QED
    BY <2>1, <2>2, <2>3 DEF Flying
<1>10. \A pe \in PE : \A key \in sent'[pe] :
          /\ key \in Kind \X (DOMAIN Tree(pe))'
          /\ Awaits(pe, key[1], key[2])' \/ Came(pe, key[1], key[2])'
  BY <1>1, <1>2 DEF FlightOK
<1> QED
  BY <1>4, <1>5, <1>6, <1>7, <1>8, <1>9, <1>10 DEF FlightOK

LEMMA ServeStep ==
    ASSUME TravInv, NEW r \in requests, Serve(r)
    PROVE  TravInv'
<1> USE DEF TravInv
<1>1. r \in Request /\ r.to \in PE /\ r \in Asked
  BY DEF Shapes, Request, Asked
<1>2. UNCHANGED <<input, phase, nodeTable, cached, fetched, sent, waiting, walkGroups, prepared,
                  current, pending, walksDone, reports, piecesDone>>
      /\ requests' = requests \ {r}
  BY DEF Serve, walking
<1>3. UNCHANGED TreePiece
  BY <1>2 DEF input, TreePiece
<1>4. CASE phase[r.to] = "building"
  <2>1. buffered' = [buffered EXCEPT ![r.to] = @ \cup {r}] /\ replies' = replies
    BY <1>4 DEF Serve
  <2>2. /\ DOMAIN buffered' = PE /\ buffered'[r.to] = buffered[r.to] \cup {r}
        /\ \A q \in PE : q # r.to => buffered'[q] = buffered[q]
    BY <1>1, <2>1 DEF Shapes
  <2>3. Asked' = Asked
    BY <1>1, <1>2, <2>2 DEF Asked
  <2>4. \A pe \in PE : \A q \in buffered'[pe] :
           q.to = pe /\ phase'[pe] = "building" /\ q \notin requests'
    BY <1>2, <1>4, <2>2 DEF FlightOK
  <2>5. FlightOK'
    <3> DEFINE none == {}
    <3>1. /\ none \in SUBSET Asked /\ replies' = replies \cup none /\ Asked' = Asked \ none
          /\ UNCHANGED <<nodeTable, cached, fetched, sent, waiting>> /\ FlightOK
          /\ Answers(none, none)
      BY <1>2, <2>1, <2>3 DEF Answers
    <3> HIDE DEF none
    <3> QED
      BY <2>4, <3>1, FlightAnswered
  <2>6. Shapes'
    <3>1. requests' \subseteq Request /\ \A pe \in PE : buffered'[pe] \subseteq Request
      <4>1. requests \subseteq Request /\ \A pe \in PE : buffered[pe] \subseteq Request
        BY DEF Shapes
      <4>2. requests' \subseteq Request
        BY <1>2, <4>1
      <4>3. \A pe \in PE : buffered'[pe] \subseteq Request
        BY <1>1, <2>2, <4>1
      <4> QED
        BY <4>2, <4>3
    <3> QED
      BY <1>2, <1>3, <2>2, <3>1 DEF Shapes, input
  <2>7. \A m \in replies' : ReplyOK(m)'
    BY <2>1 DEF ReplyOK
  <2> QED
    BY <2>5, <2>6, <2>7, <1>2, <1>3, TreesKept, WaitsKept, PieceKept, PhaseKept
<1>5. CASE phase[r.to] # "building"
  <2> DEFINE m == Reply(r.to, Tree(r.to), r)
  <2>1. replies' = replies \cup {m} /\ buffered' = buffered
    BY <1>5 DEF Serve
  <2>2. ReplyOK(m) /\ m.to = r.from /\ m.kind = r.kind /\ m.node = r.node
    BY <1>1, ReplyIs, NodesOfTree
  <2> HIDE DEF m
  <2>3. Asked' = Asked \ {r}
    BY <1>1, <1>2, <2>1 DEF Asked, FlightOK
  <2>4. \A pe \in PE : \A q \in buffered'[pe] :
           q.to = pe /\ phase'[pe] = "building" /\ q \notin requests'
    BY <1>2, <2>1 DEF FlightOK
  <2>5. FlightOK'
    <3> DEFINE Q == {r}
               A == {m}
    <3>1. /\ Q \in SUBSET Asked /\ replies' = replies \cup A /\ Asked' = Asked \ Q
          /\ UNCHANGED <<nodeTable, cached, fetched, sent, waiting>> /\ FlightOK
          /\ Answers(Q, A)
      BY <1>1, <1>2, <2>1, <2>2, <2>3 DEF Answers
    <3> HIDE DEF Q, A
    <3> QED
      BY <2>4, <3>1, FlightAnswered
  <2>6. Shapes'
    BY <1>1, <1>2, <1>3, <2>1 DEF Shapes, input
  <2>7. \A n \in replies' : ReplyOK(n)'
    BY <2>1, <2>2 DEF ReplyOK
  <2> QED
    BY <2>5, <2>6, <2>7, <1>2, <1>3, TreesKept, WaitsKept, PieceKept, PhaseKept
<1> QED
  BY <1>4, <1>5

LEMMA TreeReadyStep ==
    ASSUME TravInv, NEW pe \in PE, TreeReady(pe)
    PROVE  TravInv'
<1> USE DEF TravInv
<1> DEFINE Q == buffered[pe]
           A == {Reply(pe, Tree(pe), r) : r \in Q}
<1>1. /\ phase[pe] = "building"
      /\ phase' = [phase EXCEPT ![pe] = IF LocalPieces(pe) = {} THEN "finished" ELSE "walking"]
      /\ buffered' = [buffered EXCEPT ![pe] = {}] /\ replies' = replies \cup A
      /\ prepared' = prepared \cup LocalPieces(pe)
      /\ UNCHANGED <<input, nodeTable, cached, fetched, sent, waiting, requests, walkGroups, current,
                     pending, walksDone, reports, piecesDone>>
  BY DEF TreeReady, asking
<1>2. TreePiece' = TreePiece /\ homeOf' = homeOf /\ LocalPieces(pe) \subseteq TreePiece
      /\ \A q \in PE : LocalPieces(q)' = LocalPieces(q)
  BY <1>1 DEF input, TreePiece, LocalPieces
<1>3. /\ DOMAIN buffered' = PE /\ buffered'[pe] = {}
      /\ \A q \in PE : q # pe => buffered'[q] = buffered[q]
  BY <1>1 DEF Shapes
<1>4. /\ phase'[pe] = IF LocalPieces(pe) = {} THEN "finished" ELSE "walking"
      /\ \A q \in PE : q # pe => phase'[q] = phase[q]
      /\ phase' \in [PE -> {"building", "walking", "finished", "advanced"}]
  BY <1>1 DEF Shapes
<1>5. \A r \in Q : r \in Request /\ r \in Asked /\ r \notin requests /\ r.to = pe
  BY DEF Shapes, FlightOK, Asked
<1>6. \A r \in Q : LET m == Reply(pe, Tree(pe), r)
                   IN  ReplyOK(m) /\ m.to = r.from /\ m.kind = r.kind /\ m.node = r.node
  BY <1>5, ReplyIs, NodesOfTree
<1>7. Answers(Q, A)
  <2>1. \A r \in Q : \E m \in A : m.to = r.from /\ m.kind = r.kind /\ m.node = r.node
    BY <1>6
  <2>2. \A m \in A : \E r \in Q : m.to = r.from /\ m.kind = r.kind /\ m.node = r.node
    BY <1>6
  <2>3. \A m, n \in A : m.to = n.to /\ m.kind = n.kind /\ m.node = n.node => m = n
    <3> TAKE m, n \in A
    <3>1. PICK r \in Q : m = Reply(pe, Tree(pe), r)
      OBVIOUS
    <3>2. PICK q \in Q : n = Reply(pe, Tree(pe), q)
      OBVIOUS
    <3>3. ASSUME m.to = n.to, m.kind = n.kind, m.node = n.node PROVE r = q
      BY <1>5, <1>6, <3>1, <3>2, <3>3 DEF FlightOK
    <3> QED
      BY <3>1, <3>2, <3>3
  <2> QED
    BY <2>1, <2>2, <2>3 DEF Answers
<1>8. Asked' = Asked \ Q
  <2>1. ASSUME NEW q \in PE, q # pe, NEW r \in buffered[q] PROVE r \notin Q
    BY <1>5, <2>1 DEF FlightOK
  <2> HIDE DEF A
  <2> QED
    BY <1>1, <1>3, <1>5, <2>1 DEF Asked
<1>9. \A q \in PE : \A r \in buffered'[q] : r.to = q /\ phase'[q] = "building" /\ r \notin requests'
  BY <1>1, <1>3, <1>4 DEF FlightOK
<1>10. \A m \in replies' : ReplyOK(m)'
  <2>1. \A m \in A : ReplyOK(m)
    BY <1>6
  <2>2. \A m \in replies' : ReplyOK(m)
    BY <1>1, <2>1
  <2> QED
    BY <2>2 DEF ReplyOK
<1> HIDE DEF A
<1>11. FlightOK'
  BY <1>1, <1>5, <1>7, <1>8, <1>9, FlightAnswered
<1>12. prepared' \subseteq TreePiece'
  BY <1>1, <1>2 DEF Shapes
<1>13. Shapes'
  <2>1. \A q \in PE : buffered'[q] \subseteq Request
    BY <1>3 DEF Shapes
  <2> QED
    BY <1>1, <1>2, <1>3, <1>4, <1>12, <2>1 DEF Shapes
<1>14. ASSUME NEW t \in TreePiece
       PROVE  Unstarted(t)' <=> Unstarted(t)
  <2>1. homeOf[t] \in PE
    BY DEF Shapes
  <2>2. CASE homeOf[t] = pe
    <3>1. t \in LocalPieces(pe)
      BY <2>2 DEF LocalPieces
    <3> QED
      BY <1>1, <2>2, <3>1 DEF Unstarted
  <2>3. CASE homeOf[t] # pe
    <3>1. t \notin LocalPieces(pe)
      BY <2>3 DEF LocalPieces
    <3> QED
      BY <1>1, <1>2, <1>4, <2>1, <2>3, <3>1 DEF Unstarted
  <2> QED
    BY <2>2, <2>3
<1>15. ASSUME NEW t \in TreePiece
       PROVE  PieceOK(t)' /\ (Over(t)' <=> Over(t))
  <2>1. /\ WaitingOf(t)' = WaitingOf(t) /\ NumGroups(t)' = NumGroups(t)
        /\ BothEnded(t)' = BothEnded(t) /\ NoneEnded(t)' = NoneEnded(t)
    BY <1>1, <1>2 DEF WaitingOf, NumGroups, BothEnded, NoneEnded
  <2>2. AtRest(t)' = AtRest(t)
    BY <1>1, <2>1 DEF AtRest, Reset
  <2>3. AtWork(t)' = AtWork(t)
    BY <1>1, <2>1 DEF AtWork
  <2>4. ASSUME t \in prepared' PROVE phase'[homeOf'[t]] = "walking"
    <3>1. homeOf[t] \in PE
      BY DEF Shapes
    <3>2. CASE t \in LocalPieces(pe)
      BY <1>2, <1>4, <3>2 DEF LocalPieces
    <3>3. CASE t \in prepared
      <4>1. phase[homeOf[t]] = "walking"
        BY <3>3 DEF PieceOK
      <4> QED
        BY <1>1, <1>2, <1>4, <3>1, <4>1
    <3> QED
      BY <1>1, <2>4, <3>2, <3>3
  <2>5. PieceOK(t)
    OBVIOUS
  <2> QED
    BY <1>1, <1>14, <2>1, <2>2, <2>3, <2>4, <2>5 DEF PieceOK, Over
<1>16. ASSUME NEW q \in PE PROVE PhaseOK(q)'
  <2>1. PhaseOK(q) /\ LocalPieces(q) \subseteq TreePiece
    BY DEF LocalPieces
  <2>2. {t \in LocalPieces(q) : Over(t)}' = {t \in LocalPieces(q) : Over(t)}
    BY <1>2, <1>15, <2>1
  <2>3. CASE q = pe
    <3>1. ASSUME LocalPieces(pe) # {} PROVE \E t \in LocalPieces(pe) : ~Over(t)
      <4>1. PICK t \in LocalPieces(pe) : TRUE
        BY <3>1
      <4>2. Unstarted(t)
        BY <1>1 DEF Unstarted, LocalPieces
      <4> QED
        BY <4>2 DEF Over
    <3>2. ASSUME LocalPieces(pe) # {} PROVE \E t \in LocalPieces(pe)' : ~Over(t)'
      BY <1>2, <1>15, <3>1, <3>2
    <3>3. piecesDone'[q] = Cardinality({t \in LocalPieces(q) : Over(t)}')
      BY <1>1, <2>1, <2>2, <2>3 DEF PhaseOK
    <3> QED
      BY <1>2, <1>4, <2>3, <3>2, <3>3 DEF PhaseOK
  <2>4. CASE q # pe
    <3>1. phase[q] # "advanced"
      BY <1>1, <2>1 DEF PhaseOK
    <3>2. /\ phase'[q] = phase[q] /\ LocalPieces(q)' = LocalPieces(q)
          /\ \A t \in LocalPieces(q) : Over(t)' <=> Over(t)
      BY <1>2, <1>4, <1>15, <2>1, <2>4
    <3> QED
      BY <1>1, <2>1, <2>2, <3>1, <3>2 DEF PhaseOK
  <2> QED
    BY <2>3, <2>4
<1>17. \A q \in PE : TreeOK(q)' /\ WaitingOK(q)'
  BY <1>1, TreesKept, WaitsKept
<1> QED
  BY <1>2, <1>10, <1>11, <1>13, <1>15, <1>16, <1>17

----------------------------------------------------------------------------
(* Reporting and going on. *)

\* Nothing is asked for, and nothing comes.
LEMMA FlightKept ==
    ASSUME FlightOK, UNCHANGED <<nodeTable, cached, fetched, sent, waiting, buffered, requests, replies>>,
           \A pe \in PE : phase[pe] = "building" => phase'[pe] = "building"
    PROVE  FlightOK'
<1> DEFINE none == {}
<1>1. /\ none \in SUBSET Asked /\ replies' = replies \cup none /\ Asked' = Asked \ none
      /\ Answers(none, none)
  BY DEF Answers, Asked
<1>2. \A pe \in PE : \A r \in buffered'[pe] : r.to = pe /\ phase'[pe] = "building" /\ r \notin requests'
  BY DEF FlightOK
<1> HIDE DEF none
<1> QED
  BY <1>1, <1>2, FlightAnswered

LEMMA TraversalsDoneStep ==
    ASSUME TravInv, NEW t \in TreePiece, TraversalsDone(t)
    PROVE  TravInv'
<1> USE DEF TravInv
<1> DEFINE pe == homeOf[t]
           all == Cardinality(LocalPieces(pe))
           ended(q) == {u \in LocalPieces(q) : Over(u)}
<1>1. /\ reports[t] > 0 /\ reports' = [reports EXCEPT ![t] = @ - 1]
      /\ piecesDone' = [piecesDone EXCEPT ![pe] = @ + 1]
      /\ phase' = [phase EXCEPT ![pe] = IF piecesDone[pe] + 1 = all THEN "finished" ELSE @]
      /\ UNCHANGED <<input, nodeTable, cached, fetched, buffered, sent, waiting, requests, replies,
                     walkGroups, prepared, current, pending, walksDone>>
  BY DEF TraversalsDone, serving, asking
<1>2. /\ TreePiece' = TreePiece /\ homeOf' = homeOf /\ pe \in PE /\ t \in LocalPieces(pe)
      /\ \A q \in PE : LocalPieces(q)' = LocalPieces(q) /\ LocalPieces(q) \subseteq TreePiece
  BY <1>1 DEF input, TreePiece, LocalPieces, Shapes
<1>3. /\ reports[t] = 1 /\ reports'[t] = 0 /\ \A u \in TreePiece : u # t => reports'[u] = reports[u]
      /\ reports' \in [TreePiece -> 0 .. 1]
  <2>1. reports \in [TreePiece -> 0 .. 1] /\ reports[t] \in 0 .. 1
    BY DEF Shapes
  <2>2. reports[t] = 1
    BY <1>1, <2>1
  <2> QED
    BY <1>1, <2>1, <2>2
<1>4. ~Unstarted(t) /\ ~Over(t) /\ (NumGroups(t) = 0 \/ BothEnded(t))
  BY <1>3 DEF PieceOK, AtWork, Over
<1>5. phase[pe] = "walking"
  <2>1. phase[pe] \in {"building", "walking", "finished", "advanced"} /\ PhaseOK(pe)
    BY <1>2 DEF Shapes
  <2> QED
    BY <1>2, <1>4, <2>1 DEF PhaseOK, Unstarted
<1>6. /\ piecesDone'[pe] = piecesDone[pe] + 1 /\ piecesDone[pe] \in Nat
      /\ \A q \in PE : q # pe => piecesDone'[q] = piecesDone[q]
      /\ piecesDone' \in [PE -> Nat]
  BY <1>1, <1>2 DEF Shapes
<1>7. /\ phase'[pe] = IF piecesDone[pe] + 1 = all THEN "finished" ELSE "walking"
      /\ \A q \in PE : q # pe => phase'[q] = phase[q]
      /\ phase' \in [PE -> {"building", "walking", "finished", "advanced"}]
  BY <1>1, <1>2, <1>5 DEF Shapes
<1>8. Shapes'
  BY <1>1, <1>2, <1>3, <1>6, <1>7 DEF Shapes
<1>9. \A q \in PE : phase[q] = "building" => phase'[q] = "building"
  BY <1>5, <1>7
<1>10. FlightOK'
  BY <1>1, <1>9, FlightKept
<1>11. \A q \in PE : TreeOK(q)' /\ WaitingOK(q)'
  BY <1>1, TreesKept, WaitsKept
<1>12. \A m \in replies' : ReplyOK(m)'
  BY <1>1 DEF ReplyOK
<1>13. ASSUME NEW u \in TreePiece
       PROVE  /\ Unstarted(u)' <=> Unstarted(u)
              /\ WaitingOf(u)' = WaitingOf(u) /\ NumGroups(u)' = NumGroups(u)
              /\ BothEnded(u)' = BothEnded(u) /\ NoneEnded(u)' = NoneEnded(u)
              /\ Over(u)' <=> Over(u) \/ u = t
  <2>1. homeOf[u] \in PE
    BY DEF Shapes
  <2>2. Unstarted(u)' <=> Unstarted(u)
    BY <1>1, <1>2, <1>5, <1>7, <2>1 DEF Unstarted
  <2>3. /\ WaitingOf(u)' = WaitingOf(u) /\ NumGroups(u)' = NumGroups(u)
        /\ BothEnded(u)' = BothEnded(u) /\ NoneEnded(u)' = NoneEnded(u)
    BY <1>1, <1>2 DEF WaitingOf, NumGroups, BothEnded, NoneEnded
  <2>4. Over(u)' <=> Over(u) \/ u = t
    BY <1>3, <1>4, <2>2, <2>3 DEF Over
  <2> QED
    BY <2>2, <2>3, <2>4
<1>14. \A q \in PE : q # pe => ended(q)' = ended(q)
  <2> TAKE q \in PE
  <2> HAVE q # pe
  <2>1. \A u \in LocalPieces(q) : u \in TreePiece /\ u # t
    BY DEF LocalPieces
  <2> QED
    BY <1>2, <1>13, <2>1
<1>15. /\ ended(pe)' = ended(pe) \cup {t} /\ t \notin ended(pe)
  <2>1. \A u \in LocalPieces(pe) : u \in TreePiece
    BY <1>2
  <2> QED
    BY <1>2, <1>4, <1>13, <2>1
<1>16. /\ IsFiniteSet(LocalPieces(pe)) /\ IsFiniteSet(ended(pe)) /\ IsFiniteSet(ended(pe)')
       /\ ended(pe)' \subseteq LocalPieces(pe)
  <2>1. IsFiniteSet(LocalPieces(pe))
    BY FS_Subset DEF Shapes, LocalPieces
  <2>2. ended(pe)' \subseteq LocalPieces(pe) /\ ended(pe) \subseteq LocalPieces(pe)
    BY <1>2
  <2> QED
    BY <2>1, <2>2, FS_Subset
<1>17. Cardinality(ended(pe)') = piecesDone'[pe]
  <2>1. piecesDone[pe] = Cardinality(ended(pe))
    BY <1>2, <1>5 DEF PhaseOK
  <2> DEFINE old == ended(pe)
             new == ended(pe)'
  <2>2. new = old \cup {t} /\ t \notin old /\ IsFiniteSet(old) /\ piecesDone[pe] = Cardinality(old)
    BY <1>15, <1>16, <2>1
  <2> HIDE DEF old, new
  <2>3. Cardinality(new) = Cardinality(old) + 1
    BY <2>2, FS_AddElement
  <2>4. Cardinality(new) = piecesDone'[pe]
    BY <1>6, <2>2, <2>3
  <2> QED
    BY <2>4 DEF new
<1>18. piecesDone[pe] + 1 = all <=> \A u \in LocalPieces(pe) : Over(u)'
  <2> DEFINE new == ended(pe)'
             L == LocalPieces(pe)
  <2>1. /\ IsFiniteSet(L) /\ new \in SUBSET L /\ Cardinality(new) = piecesDone[pe] + 1
        /\ all = Cardinality(L)
    BY <1>6, <1>16, <1>17
  <2>2. new = L <=> \A u \in L : Over(u)'
    BY <1>2
  <2> HIDE DEF new, L, all
  <2>3. Cardinality(new) = Cardinality(L) <=> new = L
    BY <2>1, FS_Subset
  <2> QED
    BY <2>1, <2>2, <2>3 DEF L
<1>19. ASSUME NEW u \in TreePiece PROVE PieceOK(u)'
  <2>1. PieceOK(u) /\ homeOf[u] \in PE
    BY DEF Shapes
  <2>2. AtRest(u)' = AtRest(u)
    BY <1>1, <1>13 DEF AtRest, Reset
  <2>3. AtWork(u) => AtWork(u)'
    BY <1>1, <1>3, <1>13 DEF AtWork
  <2>4. ASSUME u \in prepared' PROVE phase'[homeOf'[u]] = "walking"
    <3>1. Unstarted(u)' /\ phase[homeOf[u]] = "walking"
      BY <1>1, <1>13, <2>1, <2>4 DEF PieceOK, Unstarted
    <3>2. CASE homeOf[u] = pe
      <4>1. u \in LocalPieces(pe) /\ ~Over(u)'
        BY <3>1, <3>2 DEF LocalPieces, Over
      <4>2. phase'[pe] = "walking"
        BY <1>7, <1>18, <4>1
      <4> QED
        BY <1>2, <3>2, <4>2
    <3>3. CASE homeOf[u] # pe
      BY <1>2, <1>7, <2>1, <3>1, <3>3
    <3> QED
      BY <3>2, <3>3
  <2>5. Unstarted(u)' => walkGroups'[u] = <<>> /\ reports'[u] = 0
    BY <1>1, <1>3, <1>4, <1>13, <2>1 DEF PieceOK
  <2> QED
    BY <1>1, <1>13, <2>1, <2>2, <2>3, <2>4, <2>5 DEF PieceOK
<1>20. ASSUME NEW q \in PE PROVE PhaseOK(q)'
  <2>1. CASE q = pe
    BY <1>2, <1>7, <1>17, <1>18, <2>1 DEF PhaseOK
  <2>2. CASE q # pe
    <3>1. PhaseOK(q)
      OBVIOUS
    <3>2. phase[q] # "advanced"
      BY <1>2, <1>5, <3>1 DEF PhaseOK
    <3>3. /\ phase'[q] = phase[q] /\ piecesDone'[q] = piecesDone[q] /\ ended(q)' = ended(q)
          /\ LocalPieces(q)' = LocalPieces(q)
          /\ \A u \in LocalPieces(q) : Over(u)' <=> Over(u)
      <4>1. \A u \in LocalPieces(q) : u \in TreePiece /\ u # t
        BY <2>2 DEF LocalPieces
      <4> QED
        BY <1>2, <1>6, <1>7, <1>13, <1>14, <2>2, <4>1
    <3> QED
      BY <3>1, <3>2, <3>3 DEF PhaseOK
  <2> QED
    BY <2>1, <2>2
<1> QED
  BY <1>2, <1>8, <1>10, <1>11, <1>12, <1>19, <1>20

\* Nothing waits for a PE that is finished.
LEMMA NothingWaits ==
    ASSUME TravInv, NEW pe \in PE, phase[pe] \in {"finished", "advanced"}
    PROVE  waiting[pe] = {}
<1> USE DEF TravInv
<1>1. ASSUME NEW t \in LocalPieces(pe) PROVE WaitingOf(t) = {}
  <2>1. t \in TreePiece /\ homeOf[t] = pe /\ Over(t) /\ PieceOK(t)
    BY DEF LocalPieces, PhaseOK
  <2>2. CASE NumGroups(t) = 0
    BY <2>1, <2>2 DEF PieceOK, AtRest
  <2>3. CASE NumGroups(t) # 0
    <3>1. AtWork(t) /\ BothEnded(t) /\ "remote" \in Side /\ "remote" # "local"
      BY <2>1, <2>3 DEF PieceOK, Over, Side
    <3>2. /\ pending[t]["remote"] = 0 /\ current[t]["remote"] <= NumGroups(t)
          /\ pending[t]["remote"] = NumGroups(t) - current[t]["remote"] + Cardinality(WaitingOf(t))
      BY <3>1 DEF AtWork, BothEnded
    <3>3. IsFiniteSet(WaitingOf(t))
      BY <2>1, FS_Subset DEF WaitingOf, WaitingOK
    <3>4. Cardinality(WaitingOf(t)) \in Nat
      BY <3>3, FS_CardinalityType
    <3>5. current[t]["remote"] \in Nat /\ NumGroups(t) \in Nat
      <4>1. current \in [TreePiece -> [Side -> Nat]] /\ walkGroups[t] \in Seq(SUBSET Bin)
        BY <2>1 DEF Shapes
      <4> QED
        BY <2>1, <3>1, <4>1 DEF NumGroups
    <3>6. Cardinality(WaitingOf(t)) = 0
      BY <3>2, <3>4, <3>5
    <3> QED
      BY <3>3, <3>6, FS_EmptySet
  <2> QED
    BY <2>2, <2>3
<1>2. \A w \in waiting[pe] : w.tp \in LocalPieces(pe) /\ homeOf[w.tp] = pe
  BY DEF WaitingOK, WaitOK, LocalPieces
<1> QED
  BY <1>1, <1>2 DEF WaitingOf

LEMMA AdvanceStep ==
    ASSUME TravInv, NEW pe \in PE, Advance(pe)
    PROVE  TravInv'
<1> USE DEF TravInv
<1>1. /\ phase[pe] = "finished" /\ \A q \in PE : phase[q] \in {"finished", "advanced"}
      /\ phase' = [phase EXCEPT ![pe] = "advanced"]
      /\ nodeTable' = [nodeTable EXCEPT ![pe] = <<>>] /\ cached' = [cached EXCEPT ![pe] = <<>>]
      /\ fetched' = [fetched EXCEPT ![pe] = <<>>] /\ sent' = [sent EXCEPT ![pe] = {}]
      /\ piecesDone' = [piecesDone EXCEPT ![pe] = 0]
      /\ UNCHANGED <<input, buffered, waiting, requests, replies, walkGroups, prepared, current,
                     pending, walksDone, reports>>
  BY DEF Advance, MayAdvance
<1>2. /\ TreePiece' = TreePiece /\ homeOf' = homeOf
      /\ \A q \in PE : LocalPieces(q)' = LocalPieces(q) /\ LocalPieces(q) \subseteq TreePiece
  BY <1>1 DEF input, TreePiece, LocalPieces
<1>3. /\ phase'[pe] = "advanced" /\ \A q \in PE : q # pe => phase'[q] = phase[q]
      /\ phase' \in [PE -> {"building", "walking", "finished", "advanced"}]
  BY <1>1 DEF Shapes
<1>4. /\ nodeTable'[pe] = <<>> /\ cached'[pe] = <<>> /\ fetched'[pe] = <<>> /\ sent'[pe] = {}
      /\ DOMAIN nodeTable' = PE /\ DOMAIN cached' = PE /\ DOMAIN fetched' = PE /\ DOMAIN sent' = PE
      /\ \A q \in PE : q # pe => /\ nodeTable'[q] = nodeTable[q] /\ cached'[q] = cached[q]
                                 /\ fetched'[q] = fetched[q] /\ sent'[q] = sent[q]
  BY <1>1 DEF Shapes
<1>5. /\ piecesDone' \in [PE -> Nat] /\ \A q \in PE : q # pe => piecesDone'[q] = piecesDone[q]
  BY <1>1 DEF Shapes
<1>6. Shapes'
  BY <1>1, <1>2, <1>3, <1>4, <1>5 DEF Shapes
<1>7. waiting[pe] = {}
  BY <1>1, NothingWaits
<1>8. DOMAIN Tree(pe)' = {} /\ \A q \in PE : q # pe => Tree(q)' = Tree(q)
  <2>1. DOMAIN Extended(<<>>, <<>>) = {}
    BY DEF Extended
  <2> QED
    BY <1>4, <2>1 DEF Tree
<1>9. TreeOK(pe)'
  BY <1>4, <1>8 DEF TreeOK, Rooted, AreNodes, BucketsApart
<1>10. \A q \in PE : q # pe => TreeOK(q)'
  BY <1>3, <1>4, <1>8 DEF TreeOK
<1>11. ASSUME NEW q \in PE PROVE WaitingOK(q)'
  <2>1. WaitingOK(q)
    OBVIOUS
  <2>2. CASE q = pe
    BY <1>1, <1>7, <2>2, FS_EmptySet DEF WaitingOK
  <2>3. CASE q # pe
    <3>1. \A w \in waiting[q] : WaitOK(q, w)'
      BY <1>1, <1>2, <1>4, <1>8, <2>1, <2>3 DEF WaitingOK, WaitOK
    <3> QED
      BY <1>1, <2>1, <3>1 DEF WaitingOK
  <2> QED
    BY <2>2, <2>3
<1>12. FlightOK'
  <2>1. Asked' = Asked /\ \A q, kind, k : Awaits(q, kind, k)' <=> Awaits(q, kind, k)
    BY <1>1 DEF Asked, Awaits
  <2>2. \A q \in PE : buffered'[q] = {}
    BY <1>1 DEF FlightOK
  <2>3. ASSUME NEW r \in Asked'
        PROVE  <<r.kind, r.node>> \in sent'[r.from] /\ Awaits(r.from, r.kind, r.node)'
    <3>1. <<r.kind, r.node>> \in sent[r.from] /\ Awaits(r.from, r.kind, r.node) /\ r.from \in PE
      BY <2>1 DEF FlightOK, Asked, Shapes, Request
    <3>2. r.from # pe
      BY <1>7, <3>1 DEF Awaits
    <3> QED
      BY <1>4, <2>1, <3>1, <3>2
  <2>4. ASSUME NEW m \in replies'
        PROVE  <<m.kind, m.node>> \in sent'[m.to] /\ Awaits(m.to, m.kind, m.node)'
    <3>1. <<m.kind, m.node>> \in sent[m.to] /\ Awaits(m.to, m.kind, m.node) /\ m.to \in PE
      BY <1>1 DEF FlightOK, ReplyOK
    <3>2. m.to # pe
      BY <1>7, <3>1 DEF Awaits
    <3> QED
      BY <1>4, <2>1, <3>1, <3>2
  <2>5. /\ \A r, q \in Asked' : r.from = q.from /\ r.kind = q.kind /\ r.node = q.node => r = q
        /\ \A m, n \in replies' : m.to = n.to /\ m.kind = n.kind /\ m.node = n.node => m = n
        /\ \A r \in Asked', m \in replies' : ~(r.from = m.to /\ r.kind = m.kind /\ r.node = m.node)
    BY <1>1, <2>1 DEF FlightOK
  <2>6. \A q \in PE : \A w \in waiting'[q] : Flying(q, w.kind, w.node)'
    BY <1>1, <2>1 DEF FlightOK, Flying
  <2>7. ASSUME NEW q \in PE, NEW key \in sent'[q]
        PROVE  /\ key \in Kind \X (DOMAIN Tree(q))'
               /\ Awaits(q, key[1], key[2])' \/ Came(q, key[1], key[2])'
    <3>1. q # pe /\ key \in sent[q]
      BY <1>4, <2>7
    <3>2. /\ key \in Kind \X DOMAIN Tree(q)
          /\ Awaits(q, key[1], key[2]) \/ Came(q, key[1], key[2])
      BY <3>1 DEF FlightOK
    <3> QED
      BY <1>4, <1>8, <2>1, <3>1, <3>2 DEF Came
  <2> QED
    BY <2>2, <2>3, <2>4, <2>5, <2>6, <2>7 DEF FlightOK
<1>13. ASSUME NEW t \in TreePiece
       PROVE  PieceOK(t)' /\ (Over(t)' <=> Over(t))
  <2>1. PieceOK(t) /\ homeOf[t] \in PE
    BY DEF Shapes
  <2>2. /\ WaitingOf(t)' = WaitingOf(t) /\ NumGroups(t)' = NumGroups(t)
        /\ BothEnded(t)' = BothEnded(t) /\ NoneEnded(t)' = NoneEnded(t)
    BY <1>1, <1>2 DEF WaitingOf, NumGroups, BothEnded, NoneEnded
  <2>3. Unstarted(t)' <=> Unstarted(t)
    BY <1>1, <1>2, <1>3, <2>1 DEF Unstarted
  <2>4. t \notin prepared'
    BY <1>1, <2>1 DEF PieceOK
  <2>5. AtRest(t)' = AtRest(t) /\ AtWork(t)' = AtWork(t)
    BY <1>1, <2>2 DEF AtRest, AtWork, Reset
  <2> QED
    BY <1>1, <2>1, <2>2, <2>3, <2>4, <2>5 DEF PieceOK, Over
<1>14. ASSUME NEW q \in PE PROVE PhaseOK(q)'
  <2>1. PhaseOK(q) /\ PhaseOK(pe)
    OBVIOUS
  <2>2. \A t \in LocalPieces(q) : Over(t)' <=> Over(t)
    BY <1>2, <1>13
  <2>3. \A x \in PE : phase'[x] \in {"finished", "advanced"}
    BY <1>1, <1>3
  <2>4. \A t \in LocalPieces(q)' : Over(t)'
    BY <1>1, <1>2, <2>1, <2>2 DEF PhaseOK
  <2>5. phase'[q] # "advanced" => piecesDone'[q] = Cardinality({t \in LocalPieces(q) : Over(t)}')
    <3> SUFFICES ASSUME phase'[q] # "advanced"
                 PROVE  piecesDone'[q] = Cardinality({t \in LocalPieces(q) : Over(t)}')
      OBVIOUS
    <3>1. q # pe /\ phase[q] # "advanced"
      BY <1>3
    <3>2. {t \in LocalPieces(q) : Over(t)}' = {t \in LocalPieces(q) : Over(t)}
      BY <1>2, <2>2
    <3> QED
      BY <1>5, <2>1, <3>1, <3>2 DEF PhaseOK
  <2> QED
    BY <2>3, <2>4, <2>5 DEF PhaseOK
<1>15. \A m \in replies' : ReplyOK(m)'
  BY <1>1 DEF ReplyOK
<1> QED
  BY <1>2, <1>6, <1>9, <1>10, <1>11, <1>12, <1>13, <1>14, <1>15

----------------------------------------------------------------------------
(* Starting. *)

LEMMA StartTraversalStep ==
    ASSUME TravInv, NEW t \in TreePiece, StartTraversal(t)
    PROVE  TravInv'
<1> USE DEF TravInv
<1> DEFINE pe == homeOf[t]
           groups == Groups(pe, BucketsOf(t))
           n == Len(groups)
           E == {<<t, side>> : side \in Side}
<1>1. /\ t \in prepared /\ prepared' = prepared \ {t}
      /\ walkGroups' = [walkGroups EXCEPT ![t] = groups]
      /\ UNCHANGED <<input, phase, nodeTable, cached, fetched, buffered, sent, waiting, requests,
                     replies, current, piecesDone>>
  BY DEF StartTraversal, serving, asking
<1>2. IF groups = <<>> THEN TraversalDone(E) /\ UNCHANGED pending
      ELSE pending' = [pending EXCEPT ![t] = Reset(n)] /\ UNCHANGED <<walksDone, reports>>
  BY DEF StartTraversal
<1>3. /\ TreePiece' = TreePiece /\ homeOf' = homeOf /\ pe \in PE
      /\ \A q \in PE : LocalPieces(q)' = LocalPieces(q)
  BY <1>1 DEF input, TreePiece, LocalPieces, Shapes
<1>4. groups \in Seq(SUBSET Bin) /\ Disjoint(groups)
  <2> DEFINE buckets == BucketsOf(t)
  <2>1. InKeyOrder(buckets) /\ buckets \subseteq DOMAIN nodeTable[pe]
    BY <1>3, BucketsInOrder
  <2>2. buckets \subseteq Bin
    <3>1. DOMAIN Tree(pe) \subseteq Bin
      BY <1>3 DEF TreeOK, Rooted
    <3> DEFINE B == nodeTable[pe]
               C == cached[pe]
    <3>2. Tree(pe) = Extended(C, B)
      BY DEF Tree
    <3> HIDE DEF B, C
    <3>3. DOMAIN Extended(C, B) = DOMAIN C \cup DOMAIN B
      BY ExtendedFacts, Zenon
    <3>4. DOMAIN B \subseteq Bin
      BY <3>1, <3>2, <3>3
    <3> QED
      BY <2>1, <3>4 DEF B
  <2> HIDE DEF buckets
  <2>3. Grouping(Groups(pe, buckets), buckets)
    BY <2>1, GroupsOfBuckets
  <2>4. Groups(pe, buckets) \in Seq(SUBSET Bin) /\ Disjoint(Groups(pe, buckets))
    <3>1. SUBSET buckets \subseteq SUBSET Bin
      BY <2>2
    <3> QED
      BY <2>3, <3>1 DEF Grouping
  <2> QED
    BY <2>4 DEF buckets
<1> HIDE DEF groups
<1>5. n \in Nat /\ (n = 0 <=> groups = <<>>)
  BY <1>4
<1>6. /\ phase[pe] = "walking" /\ Unstarted(t) /\ walkGroups[t] = <<>> /\ reports[t] = 0
      /\ AtRest(t) /\ ~Over(t)
  BY <1>1, <1>3 DEF PieceOK, Unstarted, NumGroups, Over
<1>7. /\ walkGroups'[t] = groups /\ \A u \in TreePiece : u # t => walkGroups'[u] = walkGroups[u]
      /\ walkGroups' \in [TreePiece -> Seq(SUBSET Bin)]
  BY <1>1, <1>4 DEF Shapes
<1>8. NumGroups(t)' = n
  BY <1>7 DEF NumGroups
<1>9. current[t] = [side \in Side |-> 0] /\ pending[t] = Reset(-1) /\ walksDone[t] = 0
      /\ WaitingOf(t) = {}
  BY <1>6 DEF AtRest
<1>10. WaitingOf(t)' = {} /\ ~Unstarted(t)' /\ current'[t] = current[t]
  BY <1>1, <1>3, <1>6, <1>9 DEF WaitingOf, Unstarted
<1>11. ASSUME NEW u \in TreePiece
       PROVE  walksDone[u] \in 0 .. 1 /\ reports[u] \in 0 .. 1 /\ reports[u] \in Nat
  <2>1. walksDone[u] \in 0 .. 1 /\ reports[u] \in 0 .. 1
    BY DEF Shapes
  <2> QED
    BY <2>1
<1>12. /\ pending' \in [TreePiece -> [Side -> Int]] /\ walksDone' \in [TreePiece -> 0 .. 1]
       /\ reports' \in [TreePiece -> 0 .. 1]
       /\ \A u \in TreePiece : u # t => UNCHANGED <<pending[u], walksDone[u], reports[u]>>
       /\ walksDone'[t] = 0
       /\ IF n = 0 THEN pending'[t] = Reset(-1) /\ reports'[t] = 1
          ELSE pending'[t] = Reset(n) /\ reports'[t] = 0
  <2>1. CASE groups = <<>>
    <3>1. TraversalDone(E) /\ pending' = pending
      BY <1>2, <2>1
    <3>2. walksDone'[t] = 0 /\ reports'[t] = 1
      BY <1>6, <1>9, <1>11, <3>1, BothEnd
    <3>3. \A u \in TreePiece : u # t => {e \in E : e[1] = u} = {}
      OBVIOUS
    <3>4. DOMAIN walksDone' = TreePiece /\ DOMAIN reports' = TreePiece
      BY <3>1, DoneIs
    <3> HIDE DEF E
    <3>5. \A u \in TreePiece : u # t => walksDone'[u] = walksDone[u] /\ reports'[u] = reports[u]
      BY <1>11, <3>1, <3>3, NoneEnds
    <3>6. \A u \in TreePiece : walksDone'[u] \in 0 .. 1 /\ reports'[u] \in 0 .. 1
      <4> TAKE u \in TreePiece
      <4>1. CASE u = t
        BY <3>2, <4>1
      <4>2. CASE u # t
        BY <1>11, <3>5, <4>2
      <4> QED
        BY <4>1, <4>2
    <3>7. walksDone' = [u \in TreePiece |-> walksDone'[u]] /\ reports' = [u \in TreePiece |-> reports'[u]]
      <4>1. \E E0 : TraversalDone(E0)
        BY <3>1
      <4> QED
        BY <4>1 DEF TraversalDone
    <3>8. walksDone' \in [TreePiece -> 0 .. 1] /\ reports' \in [TreePiece -> 0 .. 1]
      BY <3>6, <3>7
    <3>9. pending' \in [TreePiece -> [Side -> Int]]
      BY <3>1 DEF Shapes
    <3> QED
      BY <1>5, <1>9, <2>1, <3>1, <3>2, <3>5, <3>8, <3>9
  <2>2. CASE groups # <<>>
    <3>1. pending' = [pending EXCEPT ![t] = Reset(n)] /\ walksDone' = walksDone /\ reports' = reports
      BY <1>2, <2>2
    <3>2. Reset(n) \in [Side -> Int]
      BY <1>5 DEF Reset
    <3>3. /\ pending \in [TreePiece -> [Side -> Int]] /\ walksDone \in [TreePiece -> 0 .. 1]
          /\ reports \in [TreePiece -> 0 .. 1]
      BY DEF Shapes
    <3> QED
      BY <1>5, <1>6, <1>9, <2>2, <3>1, <3>2, <3>3
  <2> QED
    BY <2>1, <2>2
<1>13. Shapes'
  BY <1>1, <1>3, <1>7, <1>12 DEF Shapes
<1>14. FlightOK'
  BY <1>1, FlightKept
<1>15. ASSUME NEW q \in PE PROVE TreeOK(q)' /\ WaitingOK(q)'
  <2>1. TreeOK(q)'
    BY <1>1, TreesKept
  <2>2. \A w \in waiting[q] : w.tp \in TreePiece /\ w.tp # t
    <3> TAKE w \in waiting[q]
    <3>1. w.tp \in LocalPieces(q)
      BY DEF WaitingOK, WaitOK
    <3>2. w.tp # t
      BY <1>9, <3>1 DEF WaitingOf, LocalPieces
    <3> QED
      BY <3>1, <3>2 DEF LocalPieces
  <2>3. \A w \in waiting[q] : UNCHANGED <<current[w.tp]["remote"], walkGroups[w.tp]>>
    BY <1>1, <1>7, <2>2
  <2> QED
    BY <1>1, <2>1, <2>3, WaitsKept
<1>16. \A m \in replies' : ReplyOK(m)'
  BY <1>1 DEF ReplyOK
<1>17. PieceOK(t)' /\ ~Over(t)'
  <2>1. t \notin prepared' /\ Disjoint(walkGroups'[t])
    BY <1>1, <1>4, <1>7
  <2>2. CASE n = 0
    <3>1. pending'[t] = Reset(-1) /\ reports'[t] = 1
      BY <1>12, <2>2
    <3>2. AtRest(t)'
      BY <1>9, <1>10, <1>12, <3>1 DEF AtRest, Reset
    <3> QED
      BY <1>8, <1>10, <2>1, <2>2, <3>1, <3>2 DEF PieceOK, Over
  <2>3. CASE n # 0
    <3>1. pending'[t] = Reset(n) /\ reports'[t] = 0
      BY <1>12, <2>3
    <3>2. \A side \in Side : current'[t][side] = 0 /\ pending'[t][side] = n
      BY <1>9, <1>10, <3>1 DEF Reset
    <3>3. NoneEnded(t)' /\ ~BothEnded(t)'
      BY <2>3, <3>2 DEF NoneEnded, BothEnded, Side
    <3>4. Cardinality(WaitingOf(t)') = 0
      BY <1>10, FS_EmptySet
    <3>5. AtWork(t)'
      <4>1. \A side \in Side :
               /\ current'[t][side] <= n
               /\ pending'[t][side] = n - current'[t][side]
                     + (IF side = "local" THEN 0 ELSE Cardinality(WaitingOf(t)'))
        BY <1>5, <3>2, <3>4
      <4> QED
        BY <1>8, <1>12, <3>1, <3>3, <4>1 DEF AtWork
    <3> QED
      BY <1>8, <1>10, <2>1, <2>3, <3>3, <3>5 DEF PieceOK, Over
  <2> QED
    BY <2>2, <2>3
<1>18. ASSUME NEW u \in TreePiece, u # t
       PROVE  PieceOK(u)' /\ (Over(u)' <=> Over(u))
  <2>1. PieceOK(u)
    OBVIOUS
  <2>2. UNCHANGED <<pending[u], walksDone[u], reports[u], walkGroups[u], current[u]>>
    BY <1>1, <1>7, <1>12, <1>18
  <2>3. /\ WaitingOf(u)' = WaitingOf(u) /\ NumGroups(u)' = NumGroups(u)
        /\ BothEnded(u)' = BothEnded(u) /\ NoneEnded(u)' = NoneEnded(u)
        /\ (Unstarted(u)' <=> Unstarted(u)) /\ (u \in prepared' <=> u \in prepared)
    BY <1>1, <1>3, <1>18, <2>2 DEF WaitingOf, NumGroups, BothEnded, NoneEnded, Unstarted
  <2>4. AtRest(u)' = AtRest(u) /\ AtWork(u)' = AtWork(u)
    BY <2>2, <2>3 DEF AtRest, AtWork, Reset
  <2> QED
    BY <1>1, <1>3, <2>1, <2>2, <2>3, <2>4 DEF PieceOK, Over
<1>19. \A q \in PE : PhaseOK(q)'
  <2>1. \A u \in TreePiece : Over(u)' <=> Over(u)
    BY <1>6, <1>17, <1>18
  <2> QED
    BY <1>1, <2>1, PhaseKept
<1> QED
  BY <1>3, <1>13, <1>14, <1>15, <1>16, <1>17, <1>18, <1>19

----------------------------------------------------------------------------
(* Walking. *)

LEMMA SideChanged ==
    ASSUME NEW S, NEW f \in [TreePiece -> [Side -> S]], NEW t \in TreePiece, NEW side \in Side,
           NEW v \in S, NEW g, g = [f EXCEPT ![t][side] = v]
    PROVE  /\ g \in [TreePiece -> [Side -> S]] /\ g[t][side] = v
           /\ \A s \in Side : s # side => g[t][s] = f[t][s]
           /\ \A u \in TreePiece : u # t => g[u] = f[u]
<1> DEFINE h == [f[t] EXCEPT ![side] = v]
<1>1. /\ h \in [Side -> S] /\ h[side] = v
      /\ \A s \in Side : s # side => h[s] = f[t][s]
  OBVIOUS
<1>2. g = [f EXCEPT ![t] = h]
  OBVIOUS
<1> HIDE DEF h
<1> QED
  BY <1>1, <1>2

\* The walk of one side of a TreePiece comes to its end, or not: it is counted
\* once, and the second to end reports.
LEMMA SideEnds ==
    ASSUME NEW t \in TreePiece, NEW side \in Side, pending[t][side] # 0,
           walksDone[t] \in 0 .. 1, reports[t] \in 0 .. 1,
           walksDone[t] = IF BothEnded(t) \/ NoneEnded(t) THEN 0 ELSE 1,
           reports[t] = 1 => BothEnded(t),
           NEW E, TraversalDone(E),
           {e \in E : e[1] = t} = IF pending'[t][side] = 0 THEN {<<t, side>>} ELSE {},
           \A s \in Side : s # side => pending'[t][s] = pending[t][s]
    PROVE  /\ walksDone'[t] \in 0 .. 1 /\ reports'[t] \in 0 .. 1
           /\ walksDone'[t] = IF BothEnded(t)' \/ NoneEnded(t)' THEN 0 ELSE 1
           /\ reports'[t] = 1 => BothEnded(t)'
           /\ reports'[t] = 0 => ~BothEnded(t)'
<1>1. reports[t] = 0 /\ reports[t] \in Nat
  BY DEF BothEnded
<1>2. PICK other \in Side : other # side /\ Side = {side, other}
  BY DEF Side
<1>3. walksDone[t] = IF pending[t][other] = 0 THEN 1 ELSE 0
  BY <1>2 DEF BothEnded, NoneEnded
<1>4. pending'[t][other] = pending[t][other]
  BY <1>2
<1>5. CASE pending'[t][side] = 0
  <2>1. walksDone'[t] = 1 - walksDone[t] /\ reports'[t] = reports[t] + walksDone[t]
    <3> DEFINE d == <<t, side>>
               ended == {e \in E : e[1] = t}
    <3>1. ended = {d}
      BY <1>5
    <3> HIDE DEF d, ended
    <3>2. Cardinality(ended) = 1
      BY <3>1, FS_Singleton
    <3> QED
      BY <1>1, <3>2, OneEnds DEF ended
  <2>2. walksDone'[t] = IF pending'[t][other] = 0 THEN 0 ELSE 1
    BY <1>3, <1>4, <2>1
  <2>3. reports'[t] = IF pending'[t][other] = 0 THEN 1 ELSE 0
    BY <1>1, <1>3, <1>4, <2>1
  <2>4. BothEnded(t)' <=> pending'[t][other] = 0
    BY <1>2, <1>5 DEF BothEnded
  <2>5. ~NoneEnded(t)'
    BY <1>5 DEF NoneEnded
  <2> QED
    BY <2>2, <2>3, <2>4, <2>5
<1>6. CASE pending'[t][side] # 0
  <2>1. walksDone'[t] = walksDone[t] /\ reports'[t] = reports[t]
    BY <1>1, <1>6, NoneEnds
  <2>2. ~BothEnded(t)'
    BY <1>6 DEF BothEnded
  <2>3. NoneEnded(t)' <=> pending'[t][other] # 0
    BY <1>2, <1>6 DEF NoneEnded
  <2> QED
    BY <1>1, <1>3, <1>4, <2>1, <2>2, <2>3
<1> QED
  BY <1>5, <1>6

\* What the walks of several groups ask for, from the root.
GroupsAskOK(T, held, side, t, G, A) ==
    /\ IsFiniteSet(A)
    /\ \A a \in A : \E g \in G : AskOK(T, held, AllBuckets(t, g), a)
    /\ \A a, c \in A : a # c /\ a.mask \cap c.mask # {} => Apart(a.node, c.node)
    /\ side = "local" => A = {}

LEMMA GroupsAsk ==
    ASSUME NEW pe, NEW T, Rooted(T), NEW held, NEW side \in Side, NEW t, NEW G, IsFiniteSet(G),
           \A g, h \in G : g # h => AllBuckets(t, g) \cap AllBuckets(t, h) = {},
           NEW A, A = UNION {w.asks : w \in {Walk(pe, T, held, side, {RootBin}, AllBuckets(t, g)) :
                                                g \in G}}
    PROVE  GroupsAskOK(T, held, side, t, G, A)
<1> DEFINE of(g) == Walk(pe, T, held, side, {RootBin}, AllBuckets(t, g)).asks
           f == [g \in G |-> of(g)]
           start == {RootBin}
<1>1. Level(start)
  BY RootIsBin DEF Level
<1>2. \A g \in G : /\ AsksOK(T, held, AllBuckets(t, g), start, of(g))
                   /\ side = "local" => of(g) = {}
  <2> TAKE g \in G
  <2> DEFINE mask == AllBuckets(t, g)
  <2> HIDE DEF start, mask
  <2>1. /\ AsksOK(T, held, mask, start, Walk(pe, T, held, side, start, mask).asks)
        /\ side = "local" => Walk(pe, T, held, side, start, mask).asks = {}
    BY <1>1, WalkAsks
  <2> QED
    BY <2>1 DEF mask, start
<1>3. A = UNION {f[g] : g \in G}
  OBVIOUS
<1>4. DOMAIN f = G /\ \A g \in G : f[g] = of(g)
  OBVIOUS
<1> HIDE DEF f, of
<1>5. \A g \in G : /\ IsFiniteSet(f[g]) /\ \A a \in f[g] : AskOK(T, held, AllBuckets(t, g), a)
                   /\ \A a, c \in f[g] : a # c => Apart(a.node, c.node)
  BY <1>2, <1>4 DEF AsksOK
<1>6. \A a \in A : \E g \in G : a \in f[g] /\ AskOK(T, held, AllBuckets(t, g), a)
  BY <1>3, <1>5
<1>7. ASSUME NEW a \in A, NEW c \in A, a # c, a.mask \cap c.mask # {}
      PROVE  Apart(a.node, c.node)
  <2>1. PICK g \in G : a \in f[g] /\ AskOK(T, held, AllBuckets(t, g), a)
    BY <1>6
  <2>2. PICK h \in G : c \in f[h] /\ AskOK(T, held, AllBuckets(t, h), c)
    BY <1>6
  <2>3. g = h
    BY <1>7, <2>1, <2>2 DEF AskOK
  <2> QED
    BY <1>5, <1>7, <2>1, <2>2, <2>3
<1>8. IsFiniteSet(A)
  <2> DEFINE S == {f[g] : g \in G}
  <2>1. IsFiniteSet(S)
    <3>1. IsFiniteSet({f[g] : g \in DOMAIN f})
      BY <1>4, ImageFinite
    <3> QED
      BY <1>4, <3>1
  <2>2. \A s \in S : IsFiniteSet(s)
    BY <1>5
  <2>3. A = UNION S
    BY <1>3
  <2> HIDE DEF S
  <2> QED
    BY <2>1, <2>2, <2>3, FS_UNION
<1>9. ASSUME side = "local" PROVE A = {}
  <2>1. \A g \in G : f[g] = {}
    BY <1>2, <1>4, <1>9
  <2> QED
    BY <1>3, <2>1
<1> QED
  BY <1>6, <1>7, <1>8, <1>9 DEF GroupsAskOK

LEMMA DoGravityStep ==
    ASSUME TravInv, NEW t \in TreePiece, NEW side \in Side, DoGravity(t, side),
           NEW pe \in PE, pe = homeOf[t]
    PROVE  TravInv'
<1> USE DEF TravInv
<1> DEFINE T == Tree(pe)
           cur == current[t][side]
           N == NumGroups(t)
           U == Until(t, cur)
           begun == cur + 1 .. U
           A == UNION {w.asks : w \in {Walk(pe, T, fetched[pe], side, {RootBin}, AllBuckets(t, g)) :
                                          g \in begun}}
           wait(a) == [kind |-> a.kind, node |-> a.node, tp |-> t, mask |-> a.mask]
           W == {wait(a) : a \in A}
           left == Left(pending[t][side], Cardinality(A), Cardinality(begun))
           E == IF left = 0 THEN {<<t, side>>} ELSE {}
<1>1. /\ pending[t][side] > 0 /\ cur < N
      /\ Ask(pe, T, A) /\ waiting' = [waiting EXCEPT ![pe] = @ \cup W]
      /\ current' = [current EXCEPT ![t][side] = @ + Cardinality(begun)]
      /\ pending' = [pending EXCEPT ![t][side] = left] /\ TraversalDone(E)
      /\ UNCHANGED <<input, phase, nodeTable, cached, fetched, buffered, replies, walkGroups, prepared,
                     piecesDone>>
  BY Zenon DEF DoGravity, serving
<1>2. /\ TreePiece' = TreePiece /\ homeOf' = homeOf /\ pe \in PE /\ t \in LocalPieces(pe)
      /\ \A q \in PE : LocalPieces(q)' = LocalPieces(q)
  BY <1>1 DEF input, TreePiece, LocalPieces, Shapes
<1>3. /\ current \in [TreePiece -> [Side -> Nat]] /\ pending \in [TreePiece -> [Side -> Int]]
      /\ walkGroups[t] \in Seq(SUBSET Bin)
  BY DEF Shapes
<1>4. cur \in Nat /\ pending[t][side] \in Int /\ N \in Nat /\ N # 0
  BY <1>1, <1>3 DEF NumGroups
<1>5. U \in cur + 1 .. N
  <2> DEFINE g == cur
  <2> HIDE DEF g
  <2>1. g \in Nat /\ g < NumGroups(t) /\ NumGroups(t) \in Nat
    BY <1>1, <1>4 DEF g
  <2>2. Until(t, g) \in g + 1 .. NumGroups(t)
    BY <2>1, UntilIs
  <2> QED
    BY <2>2 DEF g
<1>6. PieceOK(t) /\ AtWork(t) /\ ~Unstarted(t)
  <2>1. PieceOK(t)
    OBVIOUS
  <2> QED
    BY <1>4, <2>1 DEF PieceOK, NumGroups
<1> HIDE DEF N, U, cur
<1>7. IsFiniteSet(begun) /\ Cardinality(begun) = U - cur /\ \A g \in begun : g \in 1 .. N /\ g > cur
  <2>1. U \in Int /\ cur + 1 \in Int
    BY <1>4, <1>5
  <2>2. IsFiniteSet(cur + 1 .. U)
        /\ Cardinality(cur + 1 .. U) = IF cur + 1 > U THEN 0 ELSE U - (cur + 1) + 1
    BY <2>1, FS_Interval
  <2> QED
    BY <1>4, <1>5, <2>2
<1>8. \A g, h \in 1 .. N : g # h => AllBuckets(t, g) \cap AllBuckets(t, h) = {}
  <2>1. Disjoint(walkGroups[t]) /\ DOMAIN walkGroups[t] = 1 .. N
    BY <1>3, <1>6 DEF PieceOK, NumGroups, N
  <2> QED
    BY <2>1 DEF AllBuckets, Disjoint
<1>9. /\ IsFiniteSet(A)
      /\ \A a \in A : \E g \in begun : AskOK(T, fetched[pe], AllBuckets(t, g), a)
      /\ \A a, c \in A : a # c /\ a.mask \cap c.mask # {} => Apart(a.node, c.node)
      /\ side = "local" => A = {}
  <2>1. Rooted(T)
    BY <1>2 DEF TreeOK
  <2>2. \A g, h \in begun : g # h => AllBuckets(t, g) \cap AllBuckets(t, h) = {}
    BY <1>7, <1>8
  <2> DEFINE held == fetched[pe]
             G == begun
             P == pe
             B == A
  <2>3. B = UNION {w.asks : w \in {Walk(P, T, held, side, {RootBin}, AllBuckets(t, g)) : g \in G}}
    OBVIOUS
  <2>4. IsFiniteSet(G) /\ \A g, h \in G : g # h => AllBuckets(t, g) \cap AllBuckets(t, h) = {}
    BY <1>7, <2>2
  <2> HIDE DEF held, G, P, B, T
  <2>5. GroupsAskOK(T, held, side, t, G, B)
    BY <2>1, <2>3, <2>4, GroupsAsk
  <2> QED
    BY <2>5 DEF held, G, P, B, T, GroupsAskOK
<1>10. A \subseteq A /\ \A a \in A : /\ wait(a).kind = a.kind /\ wait(a).node = a.node /\ wait(a).tp = t
                                    /\ wait(a).mask = a.mask
                                    /\ wait(a) = [kind |-> wait(a).kind, node |-> wait(a).node,
                                                  tp |-> wait(a).tp, mask |-> wait(a).mask]
  OBVIOUS
<1> HIDE DEF A, E, left, begun, wait
<1>11. IsFiniteSet(W) /\ Cardinality(W) = Cardinality(A)
  <2> DEFINE f == [a \in A |-> wait(a)]
  <2>1. DOMAIN f = A /\ W = {f[a] : a \in A} /\ \A a \in A : f[a] = wait(a)
    OBVIOUS
  <2>2. \A a, c \in A : f[a] = f[c] => a = c
    <3> TAKE a, c \in A
    <3> HAVE f[a] = f[c]
    <3>1. a.kind = c.kind /\ a.node = c.node /\ a.mask = c.mask
      BY <1>10, <2>1
    <3>2. a = [kind |-> a.kind, node |-> a.node, mask |-> a.mask]
          /\ c = [kind |-> c.kind, node |-> c.node, mask |-> c.mask]
      BY <1>9 DEF AskOK
    <3> QED
      BY <3>1, <3>2
  <2> HIDE DEF f, W
  <2> QED
    BY <1>9, <2>1, <2>2, ImageCount
<1>12. Tree(pe)' = T /\ \A q \in PE : Tree(q)' = Tree(q)
  BY <1>1, <1>2 DEF Tree
\* What is new about those who wait.
<1>13. ASSUME NEW w \in W
       PROVE  /\ w = [kind |-> w.kind, node |-> w.node, tp |-> w.tp, mask |-> w.mask] /\ w.tp = t
              /\ \E a \in A : w = wait(a)
              /\ w.mask # {} /\ w.node \in DOMAIN T /\ T[w.node].numChildren = 0
              /\ T[w.node].type \in {"Remote", "RemoteBucket"} /\ w.kind = KindOf(T[w.node].type)
              /\ w.kind = "particles" => w.node \notin DOMAIN fetched[pe]
              /\ \E g \in begun : w.mask \subseteq AllBuckets(t, g)
  <2>1. PICK a \in A : w = wait(a)
    OBVIOUS
  <2>2. PICK g \in begun : AskOK(T, fetched[pe], AllBuckets(t, g), a)
    BY <1>9
  <2> QED
    BY <1>10, <2>1, <2>2 DEF AskOK
<1>14. side = "local" => W = {}
  BY <1>9
<1>15. /\ waiting'[pe] = waiting[pe] \cup W /\ DOMAIN waiting' = PE
       /\ \A q \in PE : q # pe => waiting'[q] = waiting[q]
  BY <1>1, <1>2 DEF Shapes
<1> HIDE DEF W
<1>16. ASSUME NEW v \in waiting[pe], v.tp = t, NEW w \in W PROVE v.mask \cap w.mask = {} /\ v # w
  <2>1. side = "remote"
    BY <1>14 DEF Side
  <2>2. WaitOK(pe, v)
    BY <1>2 DEF WaitingOK
  <2>3. PICK h \in 1 .. cur : v.mask \subseteq AllBuckets(t, h)
    BY <1>16, <2>1, <2>2 DEF WaitOK, AllBuckets, cur
  <2>4. PICK g \in begun : w.mask \subseteq AllBuckets(t, g)
    BY <1>13
  <2>5. cur <= N
    BY <1>1, <1>4
  <2>6. g # h /\ g \in 1 .. N /\ h \in 1 .. N
    BY <1>4, <1>7, <2>5
  <2>7. v.mask \cap w.mask = {}
    BY <1>8, <2>3, <2>4, <2>6
  <2> QED
    BY <1>13, <2>7
<1>17. WaitingOf(t)' = WaitingOf(t) \cup W /\ WaitingOf(t) \cap W = {}
  <2>1. \A w \in W : w.tp = t
    BY <1>13
  <2> QED
    BY <1>2, <1>15, <1>16, <2>1 DEF WaitingOf
<1>18. Cardinality(WaitingOf(t)') = Cardinality(WaitingOf(t)) + Cardinality(A)
       /\ Cardinality(WaitingOf(t)) \in Nat /\ Cardinality(A) \in Nat
  <2> DEFINE S == WaitingOf(t)
  <2>1. IsFiniteSet(S)
    BY <1>2, FS_Subset DEF WaitingOf, WaitingOK
  <2> HIDE DEF S
  <2>2. IsFiniteSet(S \cap W) /\ Cardinality(S \cap W) = 0
    BY <1>17, FS_EmptySet DEF S
  <2>3. Cardinality(S \cup W) = Cardinality(S) + Cardinality(W) - Cardinality(S \cap W)
    BY <1>11, <2>1, FS_Union
  <2>4. Cardinality(S) \in Nat /\ Cardinality(A) \in Nat
    BY <1>9, <2>1, FS_CardinalityType
  <2> QED
    BY <1>11, <1>17, <2>2, <2>3, <2>4 DEF S
<1>19. side = "local" => WaitingOf(t)' = WaitingOf(t) /\ Cardinality(A) = 0
  BY <1>9, <1>14, <1>17, FS_EmptySet
<1>20. \A u \in TreePiece : u # t => WaitingOf(u)' = WaitingOf(u)
  <2>1. \A w \in W : w.tp = t
    BY <1>13
  <2> QED
    BY <1>2, <1>15, <2>1 DEF WaitingOf, Shapes
<1>21. /\ current' \in [TreePiece -> [Side -> Nat]] /\ current'[t][side] = U
       /\ \A s \in Side : s # side => current'[t][s] = current[t][s]
       /\ \A u \in TreePiece : u # t => current'[u] = current[u]
  <2>1. current' = [current EXCEPT ![t][side] = U] /\ U \in Nat
    <3>1. current[t][side] + Cardinality(begun) = U /\ U \in Nat
      BY <1>4, <1>5, <1>7 DEF cur
    <3>2. current' = [current EXCEPT ![t][side] = current[t][side] + Cardinality(begun)]
      BY <1>1
    <3> QED
      BY <3>1, <3>2
  <2> QED
    BY <1>3, <2>1, SideChanged
<1>22. /\ pending' \in [TreePiece -> [Side -> Int]] /\ pending'[t][side] = left
       /\ \A s \in Side : s # side => pending'[t][s] = pending[t][s]
       /\ \A u \in TreePiece : u # t => pending'[u] = pending[u]
  <2>1. left \in Int
    BY <1>4, <1>5, <1>7, <1>18 DEF left, Left
  <2> QED
    BY <1>1, <1>3, <2>1, SideChanged
<1>23. ASSUME NEW u \in TreePiece
       PROVE  walksDone[u] \in 0 .. 1 /\ reports[u] \in 0 .. 1 /\ reports[u] \in Nat
  <2>1. walksDone[u] \in 0 .. 1 /\ reports[u] \in 0 .. 1
    BY DEF Shapes
  <2> QED
    BY <2>1
<1>24. /\ walksDone'[t] \in 0 .. 1 /\ reports'[t] \in 0 .. 1
       /\ walksDone'[t] = IF BothEnded(t)' \/ NoneEnded(t)' THEN 0 ELSE 1
       /\ reports'[t] = 1 => BothEnded(t)'
       /\ reports'[t] = 0 => ~BothEnded(t)'
  <2>1. {e \in E : e[1] = t} = IF pending'[t][side] = 0 THEN {<<t, side>>} ELSE {}
    BY <1>22 DEF E
  <2>2. pending[t][side] # 0
    BY <1>1, <1>4
  <2> QED
    BY <1>1, <1>6, <1>22, <1>23, <2>1, <2>2, SideEnds DEF AtWork
<1>25. \A u \in TreePiece : u # t => walksDone'[u] = walksDone[u] /\ reports'[u] = reports[u]
  <2>1. \A u \in TreePiece : u # t => {e \in E : e[1] = u} = {}
    BY DEF E
  <2> QED
    BY <1>1, <1>23, <2>1, NoneEnds
\* The requests.
<1>26. FlightOK' /\ requests' \subseteq Request /\ DOMAIN sent' = PE
  <2> DEFINE none == {}
  <2>1. \A a \in A : /\ a.kind \in Kind /\ a.node \in Bin /\ a.node \in (DOMAIN Tree(pe))'
                     /\ ~Came(pe, a.kind, a.node)'
    <3> TAKE a \in A
    <3>1. PICK g \in begun : AskOK(T, fetched[pe], AllBuckets(t, g), a)
      BY <1>9
    <3>2. a.node \in Bin
      BY <1>2, <3>1 DEF TreeOK, Rooted, AskOK
    <3>3. a.kind \in Kind
      BY <3>1 DEF AskOK, KindOf, Kind
    <3>4. ~Came(pe, a.kind, a.node)'
      <4>1. fetched' = fetched /\ Tree(pe)' = T
        BY <1>1, <1>12
      <4>2. a.kind = "node" => T[a.node].numChildren = 0
        BY <3>1 DEF AskOK
      <4>3. a.kind = "particles" => a.node \notin DOMAIN fetched[pe]
        BY <3>1 DEF AskOK
      <4> QED
        BY <3>3, <4>1, <4>2, <4>3 DEF Came, Kind
    <3> QED
      BY <1>12, <3>1, <3>2, <3>3, <3>4 DEF AskOK
  <2>2. /\ Told(pe, none, none)
        /\ waiting' = [waiting EXCEPT ![pe] = (@ \ none) \cup W]
    <3>1. waiting' = [waiting EXCEPT ![pe] = waiting[pe] \cup W]
      BY <1>1
    <3>2. waiting[pe] \cup W = (waiting[pe] \ none) \cup W
      OBVIOUS
    <3>3. waiting' = [waiting EXCEPT ![pe] = (waiting[pe] \ none) \cup W]
      BY <3>1, <3>2
    <3> QED
      BY <1>1, <3>3 DEF Told
  <2>3. \A a \in A : \E w \in W : w.kind = a.kind /\ w.node = a.node
    BY <1>10 DEF W
  <2>4. \A w \in W : \E a \in A : w.kind = a.kind /\ w.node = a.node
    BY <1>10, <1>13
  <2>5. \A q \in PE : DOMAIN Tree(q) \subseteq (DOMAIN Tree(q))'
    BY <1>12
  <2>6. \A q \in PE : \A key \in sent[q] :
           Came(q, key[1], key[2]) => Came(q, key[1], key[2])'
    BY <1>1, <1>12 DEF Came
  <2>7. \A m \in replies : m.to \in PE
    BY DEF ReplyOK
  <2>8. Shapes /\ FlightOK /\ UNCHANGED <<buffered, phase>> /\ Ask(pe, T, A)
    BY <1>1
  <2> HIDE DEF none
  <2>9. AskedFor(pe, A, none, W) /\ TreesGrow
    BY <2>1, <2>2, <2>3, <2>4, <2>5, <2>6 DEF AskedFor, TreesGrow
  <2> HIDE DEF T
  <2> QED
    BY <2>2, <2>7, <2>8, <2>9, FlightAfterAsk
<1>27. Shapes'
  <2>1. \A u \in TreePiece : walksDone'[u] \in 0 .. 1 /\ reports'[u] \in 0 .. 1
    <3> TAKE u \in TreePiece
    <3>1. CASE u = t
      BY <1>24, <3>1
    <3>2. CASE u # t
      BY <1>23, <1>25, <3>2
    <3> QED
      BY <3>1, <3>2
  <2>2. walksDone' = [u \in TreePiece |-> walksDone'[u]] /\ reports' = [u \in TreePiece |-> reports'[u]]
    BY <1>1 DEF TraversalDone
  <2>3. walksDone' \in [TreePiece -> 0 .. 1] /\ reports' \in [TreePiece -> 0 .. 1]
    BY <2>1, <2>2
  <2> QED
    BY <1>1, <1>2, <1>15, <1>21, <1>22, <1>26, <2>3 DEF Shapes
<1>28. \A q \in PE : TreeOK(q)'
  BY <1>1, TreesKept
<1>29. \A m \in replies' : ReplyOK(m)'
  BY <1>1 DEF ReplyOK
<1>30. ASSUME NEW q \in PE, q # pe PROVE WaitingOK(q)'
  <2>1. WaitingOK(q) /\ waiting'[q] = waiting[q]
    BY <1>15, <1>30
  <2>2. \A w \in waiting[q] : w.tp \in TreePiece /\ w.tp # t
    BY <1>30, <2>1 DEF WaitingOK, WaitOK, LocalPieces
  <2>3. \A w \in waiting[q] : UNCHANGED <<current[w.tp]["remote"], walkGroups[w.tp]>>
    BY <1>1, <1>21, <2>2
  <2> QED
    BY <1>1, <2>1, <2>3, WaitsKept
<1>31. WaitingOK(pe)'
  <2>1. WaitingOK(pe)
    BY <1>2
  <2>2. IsFiniteSet(waiting'[pe])
    <3> DEFINE S == waiting[pe]
    <3>1. IsFiniteSet(S) /\ waiting'[pe] = S \cup W
      BY <1>15, <2>1 DEF WaitingOK
    <3> HIDE DEF S
    <3>2. IsFiniteSet(S \cup W)
      BY <1>11, <3>1, FS_Union
    <3> QED
      BY <3>1, <3>2
  <2>3. ASSUME NEW w \in waiting[pe] PROVE WaitOK(pe, w)'
    <3>1. WaitOK(pe, w) /\ w.tp \in TreePiece
      BY <2>1 DEF WaitingOK, WaitOK, LocalPieces
    <3>2. PICK g \in 1 .. current[w.tp]["remote"] : w.mask \subseteq walkGroups[w.tp][g]
      BY <3>1 DEF WaitOK
    <3>3. g \in 1 .. current'[w.tp]["remote"]
      <4>1. "remote" \in Side
        BY DEF Side
      <4>2. CASE w.tp = t /\ side = "remote"
        <5>1. current[w.tp]["remote"] = cur /\ current'[w.tp]["remote"] = U
          BY <1>21, <4>2 DEF cur
        <5> QED
          BY <1>4, <1>5, <5>1
      <4>3. CASE ~(w.tp = t /\ side = "remote")
        BY <1>21, <3>1, <4>1, <4>3
      <4> QED
        BY <4>2, <4>3
    <3>4. walkGroups' = walkGroups /\ fetched' = fetched /\ Tree(pe)' = Tree(pe)
          /\ LocalPieces(pe)' = LocalPieces(pe)
      BY <1>1, <1>2, <1>12
    <3> QED
      BY <3>1, <3>2, <3>3, <3>4 DEF WaitOK
  <2>4. ASSUME NEW w \in W PROVE WaitOK(pe, w)'
    <3>1. PICK g \in begun : w.mask \subseteq AllBuckets(t, g)
      BY <1>13
    <3>2. side = "remote"
      BY <1>14 DEF Side
    <3>3. g \in 1 .. current'[t]["remote"]
      BY <1>4, <1>5, <1>21, <3>2 DEF begun
    <3>4. walkGroups' = walkGroups /\ fetched' = fetched /\ Tree(pe)' = T
          /\ LocalPieces(pe)' = LocalPieces(pe)
      BY <1>1, <1>2, <1>12
    <3>5. \E h \in 1 .. current'[w.tp]["remote"] : w.mask \subseteq walkGroups'[w.tp][h]
      BY <1>13, <3>1, <3>3, <3>4 DEF AllBuckets
    <3> HIDE DEF T
    <3> QED
      BY <1>2, <1>13, <3>4, <3>5 DEF WaitOK
  <2>5. ASSUME NEW v \in waiting'[pe], NEW w \in waiting'[pe], v.tp = w.tp, v # w, v.mask \cap w.mask # {}
        PROVE  Apart(v.node, w.node)
    <3>1. CASE v \in waiting[pe] /\ w \in waiting[pe]
      BY <2>1, <2>5, <3>1 DEF WaitingOK
    <3>2. CASE v \in W /\ w \in W
      <4>1. PICK a \in A : v = wait(a)
        BY <1>13, <3>2
      <4>2. PICK c \in A : w = wait(c)
        BY <1>13, <3>2
      <4>3. a # c /\ a.mask \cap c.mask # {}
        BY <1>10, <2>5, <4>1, <4>2
      <4>4. Apart(a.node, c.node)
        BY <1>9, <4>3
      <4> QED
        BY <1>10, <4>1, <4>2, <4>4
    <3>3. CASE v \in waiting[pe] /\ w \in W
      BY <1>13, <1>16, <2>5, <3>3
    <3>4. CASE v \in W /\ w \in waiting[pe]
      BY <1>13, <1>16, <2>5, <3>4
    <3> QED
      BY <1>15, <3>1, <3>2, <3>3, <3>4
  <2>6. \A w \in waiting'[pe] : WaitOK(pe, w)'
    BY <1>15, <2>3, <2>4
  <2> QED
    BY <2>2, <2>5, <2>6 DEF WaitingOK
<1>32. NumGroups(t)' = N /\ N = NumGroups(t) /\ ~Unstarted(t)'
  BY <1>1, <1>2, <1>6 DEF NumGroups, N, Unstarted
<1>33. AtWork(t)'
  <2>1. ASSUME NEW s \in Side
        PROVE  /\ current'[t][s] <= N
               /\ pending'[t][s] = N - current'[t][s]
                     + (IF s = "local" THEN 0 ELSE Cardinality(WaitingOf(t)'))
    <3>1. /\ current[t][s] <= N /\ current[t][s] \in Nat
          /\ pending[t][s] = N - current[t][s]
                + (IF s = "local" THEN 0 ELSE Cardinality(WaitingOf(t)))
      BY <1>3, <1>6, <1>32 DEF AtWork
    <3>2. CASE s = side
      <4>1. left = pending[t][side] + Cardinality(A) - (U - cur)
        BY <1>7 DEF left, Left
      <4>2. pending[t][side] = N - cur + (IF side = "local" THEN 0 ELSE Cardinality(WaitingOf(t)))
        BY <3>1, <3>2 DEF cur
      <4>3. CASE side = "local"
        BY <1>4, <1>5, <1>19, <1>21, <1>22, <3>2, <4>1, <4>2, <4>3
      <4>4. CASE side # "local"
        BY <1>4, <1>5, <1>18, <1>21, <1>22, <3>2, <4>1, <4>2, <4>4
      <4> QED
        BY <4>3, <4>4
    <3>3. CASE s # side
      <4>1. current'[t][s] = current[t][s] /\ pending'[t][s] = pending[t][s]
        BY <1>21, <1>22, <3>3
      <4>2. s = "local" \/ side = "local"
        BY <3>3 DEF Side
      <4> QED
        BY <1>19, <3>1, <4>1, <4>2
    <3> QED
      BY <3>2, <3>3
  <2>2. \A s \in Side :
           /\ current'[t][s] <= NumGroups(t)'
           /\ pending'[t][s] = NumGroups(t)' - current'[t][s]
                 + (IF s = "local" THEN 0 ELSE Cardinality(WaitingOf(t)'))
    BY <1>32, <2>1
  <2> QED
    BY <1>24, <2>2 DEF AtWork
<1>34. PieceOK(t)' /\ ~Over(t) /\ ~Over(t)'
  <2>1. Disjoint(walkGroups'[t]) /\ (t \in prepared' => phase'[homeOf'[t]] = "walking")
    BY <1>1, <1>2, <1>6 DEF PieceOK
  <2>2. PieceOK(t)'
    BY <1>4, <1>32, <1>33, <2>1 DEF PieceOK
  <2>3. ~Over(t)
    BY <1>1, <1>4, <1>32 DEF Over, BothEnded
  <2>4. ~Over(t)'
    BY <1>4, <1>24, <1>32 DEF Over
  <2> QED
    BY <2>2, <2>3, <2>4
<1>35. ASSUME NEW u \in TreePiece, u # t
       PROVE  PieceOK(u)' /\ (Over(u)' <=> Over(u))
  <2>1. PieceOK(u)
    OBVIOUS
  <2>2. UNCHANGED <<pending[u], walksDone[u], reports[u], walkGroups[u], current[u]>>
    BY <1>1, <1>21, <1>22, <1>25, <1>35
  <2>3. /\ WaitingOf(u)' = WaitingOf(u) /\ NumGroups(u)' = NumGroups(u)
        /\ BothEnded(u)' = BothEnded(u) /\ NoneEnded(u)' = NoneEnded(u)
        /\ (Unstarted(u)' <=> Unstarted(u))
    BY <1>1, <1>2, <1>20, <1>35, <2>2 DEF NumGroups, BothEnded, NoneEnded, Unstarted
  <2>4. AtRest(u)' = AtRest(u) /\ AtWork(u)' = AtWork(u)
    BY <2>2, <2>3 DEF AtRest, AtWork, Reset
  <2> QED
    BY <1>1, <1>2, <2>1, <2>2, <2>3, <2>4 DEF PieceOK, Over
<1>36. \A q \in PE : PhaseOK(q)'
  <2>1. \A u \in TreePiece : Over(u)' <=> Over(u)
    BY <1>34, <1>35
  <2> QED
    BY <1>1, <2>1, PhaseKept
<1>37. \A q \in PE : WaitingOK(q)'
  BY <1>30, <1>31
<1>38. \A u \in TreePiece' : PieceOK(u)'
  BY <1>2, <1>34, <1>35
<1> QED
  BY <1>26, <1>27, <1>28, <1>29, <1>36, <1>37, <1>38

----------------------------------------------------------------------------
(* Going on with what came. *)

\* The particles a PE has then.
HeldThen(pe, m) ==
    IF m.kind = "node" THEN fetched[pe]
    ELSE Extended(fetched[pe], [k \in {m.node} |-> m.particles])

\* The rest of a walk, and for whom it asks.
GoesOn(pe, m, w) ==
    IF m.kind = "node"
    THEN Walk(pe, Grown(pe, m), HeldThen(pe, m), "remote", Children(m.node), w.mask)
    ELSE [seen |-> [b \in w.mask |-> Mass(m.particles)], asks |-> {}]
WaitsThen(pe, m, w) ==
    {[kind |-> a.kind, node |-> a.node, tp |-> w.tp, mask |-> a.mask] : a \in GoesOn(pe, m, w).asks}

\* It waits for leaves below what came, for some of the buckets it was for.
BelowOK(T, held, m, w, v) ==
    /\ v = [kind |-> v.kind, node |-> v.node, tp |-> v.tp, mask |-> v.mask]
    /\ v.tp = w.tp /\ v.mask # {} /\ v.mask \subseteq w.mask
    /\ v.node \in DOMAIN T /\ T[v.node].numChildren = 0
    /\ T[v.node].type \in {"Remote", "RemoteBucket"}
    /\ v.kind = KindOf(T[v.node].type)
    /\ v.kind = "particles" => v.node \notin DOMAIN held
    /\ m.kind = "node" /\ Covers(m.node, v.node.first) /\ v.node.size < m.node.size
    /\ \A k \in Key : Covers(v.node, k) => Covers(m.node, k)
WaitsThenOK(pe, m, w) ==
    /\ IsFiniteSet(WaitsThen(pe, m, w))
    /\ \A v \in WaitsThen(pe, m, w) : BelowOK(Grown(pe, m), HeldThen(pe, m), m, w, v)
    /\ \A u, v \in WaitsThen(pe, m, w) : u # v => Apart(u.node, v.node)

LEMMA GoneOn ==
    ASSUME NEW pe, NEW m, NEW w, Rooted(Grown(pe, m)), m.node \in Bin
    PROVE  WaitsThenOK(pe, m, w)
<1> DEFINE T == Grown(pe, m)
           held == HeldThen(pe, m)
           k == m.node
           mask == w.mask
           A == Walk(pe, T, held, "remote", Children(k), mask).asks
           V == WaitsThen(pe, m, w)
           wait(a) == [kind |-> a.kind, node |-> a.node, tp |-> w.tp, mask |-> a.mask]
<1>1. CASE m.kind = "node"
  <2>1. V = {wait(a) : a \in A}
    BY <1>1 DEF WaitsThen, GoesOn
  <2>2. /\ \A a \in A : AskOK(T, held, mask, a) /\ Covers(k, a.node.first) /\ a.node.size < k.size
        /\ \A a, c \in A : a # c => Apart(a.node, c.node)
        /\ IsFiniteSet(A)
    <3> DEFINE B == A
    <3>1. B = Walk(pe, T, held, "remote", Children(k), mask).asks /\ k \in Bin /\ Rooted(T)
      OBVIOUS
    <3> HIDE DEF B, T, held, k, mask
    <3>2. /\ \A a \in B : AskOK(T, held, mask, a) /\ Covers(k, a.node.first) /\ a.node.size < k.size
          /\ \A a, c \in B : a # c => Apart(a.node, c.node)
          /\ IsFiniteSet(B)
      BY <3>1, WalkGoesOn
    <3> QED
      BY <3>2 DEF B
  <2> HIDE DEF A, V
  <2>3. ASSUME NEW a \in A PROVE BelowOK(T, held, m, w, wait(a))
    <3>1. AskOK(T, held, mask, a) /\ Covers(k, a.node.first) /\ a.node.size < k.size
      BY <2>2
    <3>2. a.node \in Bin /\ a.node \in DOMAIN T
      BY <3>1 DEF AskOK, Rooted
    <3>3. a.node.size <= k.size
      <4>1. a.node.size \in Nat /\ k.size \in Nat
        BY <3>2, BinWithin
      <4> QED
        BY <3>1, <4>1
    <3>4. \A x \in Key : Covers(a.node, x) => Covers(k, x)
      BY <3>1, <3>2, <3>3, BelowOne
    <3>5. /\ wait(a).kind = a.kind /\ wait(a).node = a.node /\ wait(a).tp = w.tp
          /\ wait(a).mask = a.mask
          /\ wait(a) = [kind |-> wait(a).kind, node |-> wait(a).node,
                        tp |-> wait(a).tp, mask |-> wait(a).mask]
      OBVIOUS
    <3> HIDE DEF wait, T, held
    <3> QED
      BY <1>1, <3>1, <3>4, <3>5 DEF BelowOK, AskOK
  <2>4. \A v \in V : BelowOK(T, held, m, w, v)
    BY <2>1, <2>3
  <2>5. \A u, v \in V : u # v => Apart(u.node, v.node)
    <3> TAKE u, v \in V
    <3> HAVE u # v
    <3>1. PICK a \in A : u = wait(a)
      BY <2>1
    <3>2. PICK c \in A : v = wait(c)
      BY <2>1
    <3>3. a # c /\ u.node = a.node /\ v.node = c.node
      BY <3>1, <3>2
    <3> QED
      BY <2>2, <3>3
  <2>6. IsFiniteSet(V)
    <3> DEFINE f == [a \in A |-> wait(a)]
    <3>1. V = {f[a] : a \in A} /\ DOMAIN f = A
      BY <2>1
    <3> HIDE DEF f
    <3> QED
      BY <2>2, <3>1, ImageFinite
  <2> QED
    BY <2>4, <2>5, <2>6 DEF WaitsThenOK, V
<1>2. CASE m.kind # "node"
  <2>1. V = {}
    BY <1>2 DEF WaitsThen, GoesOn
  <2> HIDE DEF V
  <2>2. IsFiniteSet(V)
    BY <2>1, FS_EmptySet
  <2> QED
    BY <2>1, <2>2 DEF WaitsThenOK, V
<1> QED
  BY <1>1, <1>2

\* What is received, as it says in the model.
Received(pe, m) ==
    LET R == Delivered(pe, m.kind, m.node)
        W == UNION {WaitsThen(pe, m, w) : w \in R}
        of(t) == {w \in R : w.tp = t}
        left(t) == Left(pending[t]["remote"],
                        SumFunctionOnSet([w \in R |-> Cardinality(WaitsThen(pe, m, w))], of(t)),
                        Cardinality(of(t)))
    IN  /\ replies' = replies \ {m}
        /\ nodeTable' = [nodeTable EXCEPT ![pe] = Attached(nodeTable[pe], m)]
        /\ cached' = [cached EXCEPT ![pe] = Extended(m.nodes, Attached(cached[pe], m))]
        /\ fetched' = [fetched EXCEPT ![pe] = HeldThen(pe, m)]
        /\ Ask(pe, Grown(pe, m), W)
        /\ waiting' = [waiting EXCEPT ![pe] = (waiting[pe] \ R) \cup W]
        /\ pending' = [t \in TreePiece |-> [pending[t] EXCEPT !["remote"] = left(t)]]
        /\ TraversalDone({<<w.tp, "remote">> : w \in {v \in R : left(v.tp) = 0}})
        /\ UNCHANGED <<input, phase, buffered, walkGroups, prepared, current, piecesDone>>

LEMMA ReceivedIs ==
    ASSUME NEW m, Receive(m)
    PROVE  Received(m.to, m)
<1> DEFINE pe == m.to
           R == Delivered(pe, m.kind, m.node)
           W == UNION {WaitsThen(pe, m, w) : w \in R}
           of(t) == {w \in R : w.tp = t}
           left(t) == Left(pending[t]["remote"],
                           SumFunctionOnSet([w \in R |-> Cardinality(WaitsThen(pe, m, w))], of(t)),
                           Cardinality(of(t)))
<1>1. /\ replies' = replies \ {m}
      /\ nodeTable' = [nodeTable EXCEPT ![pe] = Attached(nodeTable[pe], m)]
  BY Zenon DEF Receive, Attached
<1>2. /\ cached' = [cached EXCEPT ![pe] = Extended(m.nodes, Attached(cached[pe], m))]
      /\ fetched' = [fetched EXCEPT ![pe] = HeldThen(pe, m)]
  BY Zenon DEF Receive, Attached, HeldThen
<1>3. Ask(pe, Grown(pe, m), W)
  BY Zenon DEF Receive, WaitsThen, GoesOn, HeldThen, Grown, Attached
<1>4. waiting' = [waiting EXCEPT ![pe] = (waiting[pe] \ R) \cup W]
  BY Zenon DEF Receive, WaitsThen, GoesOn, HeldThen, Grown, Attached
<1>5. pending' = [t \in TreePiece |-> [pending[t] EXCEPT !["remote"] = left(t)]]
  BY Zenon DEF Receive, WaitsThen, GoesOn, HeldThen, Grown, Attached
<1>6. TraversalDone({<<w.tp, "remote">> : w \in {v \in R : left(v.tp) = 0}})
  BY Zenon DEF Receive, WaitsThen, GoesOn, HeldThen, Grown, Attached
<1>7. UNCHANGED <<input, phase, buffered, walkGroups, prepared, current, piecesDone>>
  BY DEF Receive
<1> QED
  BY <1>1, <1>2, <1>3, <1>4, <1>5, <1>6, <1>7, Zenon DEF Received

\* An answer comes to someone who waits for it, and fits.
LEMMA Expected ==
    ASSUME TravInv, NEW m \in replies, NEW pe, pe = m.to
    PROVE  /\ pe \in PE /\ m.kind \in Kind /\ m.node \in Bin /\ ReplyOK(m)
           /\ m.node \in DOMAIN Tree(pe) /\ Tree(pe)[m.node].numChildren = 0
           /\ m.kind = KindOf(Tree(pe)[m.node].type)
           /\ m.kind = "particles" => m.node \notin DOMAIN fetched[pe]
<1> USE DEF TravInv
<1>1. ReplyOK(m)
  OBVIOUS
<1>2. pe \in PE /\ m.kind \in Kind /\ m.node \in Bin
  BY <1>1 DEF ReplyOK
<1>3. PICK w \in waiting[pe] : w.kind = m.kind /\ w.node = m.node
  BY DEF FlightOK, Awaits
<1>4. WaitOK(pe, w)
  BY <1>2, <1>3 DEF WaitingOK
<1> QED
  BY <1>1, <1>2, <1>3, <1>4 DEF WaitOK

LEMMA TreesThen ==
    ASSUME TravInv, NEW m \in replies, NEW pe \in PE, pe = m.to, Received(pe, m)
    PROVE  /\ Tree(pe)' = Grown(pe, m) /\ fetched'[pe] = HeldThen(pe, m)
           /\ \A q \in PE : q # pe => UNCHANGED <<nodeTable[q], cached[q], fetched[q], waiting[q]>>
           /\ DOMAIN nodeTable' = PE /\ DOMAIN cached' = PE /\ DOMAIN fetched' = PE
           /\ DOMAIN waiting' = PE
           /\ \A q \in PE : TreeOK(q)'
           /\ TreesGrow /\ Came(pe, m.kind, m.node)'
           /\ \A k : k \in DOMAIN HeldThen(pe, m) <=>
                        k \in DOMAIN fetched[pe] \/ (m.kind # "node" /\ k = m.node)
<1> USE DEF TravInv
<1> DEFINE C == cached[pe]
           B == nodeTable[pe]
           C2 == Extended(m.nodes, Attached(C, m))
           B2 == Attached(B, m)
           H == fetched[pe]
           H2 == HeldThen(pe, m)
           T == Tree(pe)
           T2 == Grown(pe, m)
<1>1. /\ nodeTable' = [nodeTable EXCEPT ![pe] = B2] /\ cached' = [cached EXCEPT ![pe] = C2]
      /\ fetched' = [fetched EXCEPT ![pe] = H2]
      /\ \E X : waiting' = [waiting EXCEPT ![pe] = X]
  BY DEF Received
<1> HIDE DEF C2, B2, H2
<1>2. /\ nodeTable'[pe] = B2 /\ cached'[pe] = C2 /\ fetched'[pe] = H2
      /\ DOMAIN nodeTable' = PE /\ DOMAIN cached' = PE /\ DOMAIN fetched' = PE
      /\ DOMAIN waiting' = PE
      /\ \A q \in PE : q # pe => UNCHANGED <<nodeTable[q], cached[q], fetched[q], waiting[q]>>
  BY <1>1 DEF Shapes
<1>3. Tree(pe)' = T2
  BY <1>2 DEF Tree, Grown, C2, B2
<1>4. /\ ReplyOK(m) /\ m.kind \in Kind /\ m.node \in DOMAIN T /\ T[m.node].numChildren = 0 /\ TreeOK(pe)
  BY Expected
<1>5. /\ DOMAIN T2 = DOMAIN T \cup DOMAIN m.nodes
      /\ DOMAIN T \cap DOMAIN m.nodes = {}
      /\ \A k \in DOMAIN T :
            /\ T2[k].type = T[k].type
            /\ T2[k].numChildren = IF k = m.node /\ m.kind = "node" THEN BranchFactor ELSE T[k].numChildren
      /\ Rooted(T2) /\ AreNodes(C2) /\ DOMAIN C2 = DOMAIN m.nodes \cup DOMAIN C
  <2>1. GrownOK(pe, m)
    BY <1>4, GrownFacts
  <2> QED
    BY <2>1 DEF C2, GrownOK
<1>6. /\ DOMAIN B2 = DOMAIN B /\ AreNodes(B2)
      /\ \A k \in DOMAIN B : B2[k].type = B[k].type
  <2>1. AreNodes(B)
    BY DEF TreeOK
  <2> HIDE DEF B
  <2> QED
    BY <2>1, AttachedFacts DEF B2
<1>7. \A k : k \in DOMAIN H2 <=> k \in DOMAIN H \/ (m.kind # "node" /\ k = m.node)
  <2>1. CASE m.kind = "node"
    BY <2>1 DEF H2, HeldThen
  <2>2. CASE m.kind # "node"
    <3> DEFINE new == [k \in {m.node} |-> m.particles]
    <3>1. H2 = Extended(H, new) /\ DOMAIN new = {m.node}
      BY <2>2 DEF H2, HeldThen
    <3> HIDE DEF H, new
    <3>2. DOMAIN Extended(H, new) = DOMAIN H \cup DOMAIN new
      BY ExtendedFacts, Zenon
    <3> QED
      BY <2>2, <3>1, <3>2
  <2> QED
    BY <2>1, <2>2
<1>8. DOMAIN T = DOMAIN C \cup DOMAIN B
  <2>1. T = Extended(C, B)
    BY DEF Tree
  <2> HIDE DEF C, B, T
  <2>2. DOMAIN Extended(C, B) = DOMAIN C \cup DOMAIN B
    BY ExtendedFacts, Zenon
  <2> QED
    BY <2>1, <2>2
<1>9. BucketsApart(B2)
  <2>1. BucketsApart(B)
    BY DEF TreeOK
  <2> QED
    BY <1>6, <2>1 DEF BucketsApart
<1>10. DOMAIN C2 \cap DOMAIN B2 = {}
  <2>1. DOMAIN C \cap DOMAIN B = {}
    BY DEF TreeOK
  <2> QED
    BY <1>5, <1>6, <1>8, <2>1
<1>11. DOMAIN H2 \subseteq DOMAIN T2
  <2>1. DOMAIN H \subseteq DOMAIN T
    BY DEF TreeOK
  <2> QED
    BY <1>4, <1>5, <1>7, <2>1
<1> HIDE DEF T2, T
<1>12. ASSUME NEW q \in PE PROVE TreeOK(q)'
  <2>1. CASE q = pe
    BY <1>2, <1>3, <1>5, <1>6, <1>9, <1>10, <1>11, <2>1 DEF TreeOK
  <2>2. CASE q # pe
    BY <1>2, <2>2, TreesKept
  <2> QED
    BY <2>1, <2>2
<1>13. BranchFactor # 0
  BY KeyTreeAssumption
<1>14. Came(pe, m.kind, m.node)'
  BY <1>2, <1>3, <1>4, <1>5, <1>7, <1>13 DEF Came, Kind
<1>15. TreesGrow
  <2>1. ASSUME NEW q \in PE PROVE DOMAIN Tree(q) \subseteq (DOMAIN Tree(q))'
    <3>1. CASE q = pe
      BY <1>3, <1>5, <3>1 DEF T
    <3>2. CASE q # pe
      BY <1>2, <3>2, TreesKept
    <3> QED
      BY <3>1, <3>2
  <2>2. ASSUME NEW q \in PE, NEW key \in sent[q], Came(q, key[1], key[2])
        PROVE  Came(q, key[1], key[2])'
    <3>1. key[2] \in DOMAIN Tree(q)
      BY DEF FlightOK
    <3>2. CASE q = pe
      <4>1. CASE key[1] = "node"
        BY <1>3, <1>5, <1>13, <2>2, <3>1, <3>2, <4>1 DEF Came, T
      <4>2. CASE key[1] # "node"
        BY <1>2, <1>7, <2>2, <3>2, <4>2 DEF Came
      <4> QED
        BY <4>1, <4>2
    <3>3. CASE q # pe
      BY <1>2, <2>2, <3>3, TreesKept
    <3> QED
      BY <3>2, <3>3
  <2> QED
    BY <2>1, <2>2 DEF TreesGrow
<1> QED
  BY <1>2, <1>3, <1>7, <1>12, <1>14, <1>15 DEF T2, H2

\* Those who go on, and what they wait for then.
Resumed(pe, m) == Delivered(pe, m.kind, m.node)
NewWaits(pe, m) == UNION {WaitsThen(pe, m, w) : w \in Resumed(pe, m)}

ResumedOK(pe, m, R, W) ==
    /\ R \subseteq waiting[pe] /\ \A w \in R : WaitOK(pe, w)
    /\ \A w \in waiting[pe] : w \in R <=> w.kind = m.kind /\ w.node = m.node
    /\ waiting' = [waiting EXCEPT ![pe] = (waiting[pe] \ R) \cup W]
    /\ waiting'[pe] = (waiting[pe] \ R) \cup W
    /\ \A w \in R : WaitsThenOK(pe, m, w)
    /\ \A w, x \in R : w # x /\ w.tp = x.tp => w.mask \cap x.mask = {}
    /\ \A w, x \in R : w # x => WaitsThen(pe, m, w) \cap WaitsThen(pe, m, x) = {}
    /\ W \cap waiting[pe] = {} /\ IsFiniteSet(R) /\ IsFiniteSet(W)
    /\ \A v \in W : \E w \in R : v \in WaitsThen(pe, m, w)
                                 /\ BelowOK(Grown(pe, m), HeldThen(pe, m), m, w, v)

LEMMA ResumedFacts ==
    ASSUME TravInv, NEW m \in replies, NEW pe \in PE, pe = m.to, Received(pe, m)
    PROVE  ResumedOK(pe, m, Resumed(pe, m), NewWaits(pe, m))
<1> DEFINE R == Resumed(pe, m)
           W == NewWaits(pe, m)
<1> USE DEF TravInv
<1>1. R = {w \in waiting[pe] : w.kind = m.kind /\ w.node = m.node}
  BY DEF Resumed, Delivered
<1>2. WaitingOK(pe) /\ m.node \in Bin
  BY Expected
<1>3. R \subseteq waiting[pe] /\ \A w \in R : WaitOK(pe, w)
  BY <1>1, <1>2 DEF WaitingOK
<1>4. /\ waiting' = [waiting EXCEPT ![pe] = (waiting[pe] \ R) \cup W]
      /\ waiting'[pe] = (waiting[pe] \ R) \cup W
  <2>1. waiting' = [waiting EXCEPT ![pe] = (waiting[pe] \ R) \cup W]
    BY DEF Received, Resumed, NewWaits
  <2>2. DOMAIN waiting = PE
    BY DEF Shapes
  <2> QED
    BY <2>1, <2>2
<1>5. \A w \in R : WaitsThenOK(pe, m, w)
  <2>1. Rooted(Grown(pe, m))
    <3>1. (Tree(pe))' = Grown(pe, m) /\ TreeOK(pe)'
      BY TreesThen
    <3> QED
      BY <3>1 DEF TreeOK
  <2> QED
    BY <1>2, <2>1, GoneOn
<1>6. \A w, x \in R : w # x /\ w.tp = x.tp => w.mask \cap x.mask = {}
  <2> TAKE w, x \in R
  <2> SUFFICES ASSUME w # x, w.tp = x.tp, w.mask \cap x.mask # {} PROVE FALSE
    OBVIOUS
  <2>1. Apart(w.node, x.node) /\ w.node = m.node /\ x.node = m.node
    BY <1>1, <1>2 DEF WaitingOK
  <2> QED
    BY <1>2, <2>1, CoversFirst DEF Apart
<1>7. \A w \in R : \A v \in WaitsThen(pe, m, w) : BelowOK(Grown(pe, m), HeldThen(pe, m), m, w, v)
  BY <1>5 DEF WaitsThenOK
<1>8. \A w, x \in R : w # x => WaitsThen(pe, m, w) \cap WaitsThen(pe, m, x) = {}
  <2> TAKE w, x \in R
  <2> HAVE w # x
  <2> SUFFICES ASSUME NEW v \in WaitsThen(pe, m, w), v \in WaitsThen(pe, m, x) PROVE FALSE
    OBVIOUS
  <2>1. v.tp = w.tp /\ v.tp = x.tp /\ v.mask # {} /\ v.mask \subseteq w.mask /\ v.mask \subseteq x.mask
    BY <1>7 DEF BelowOK
  <2> QED
    BY <1>6, <2>1
<1>9. \A v \in W : \E w \in R : v \in WaitsThen(pe, m, w)
                                /\ BelowOK(Grown(pe, m), HeldThen(pe, m), m, w, v)
  BY <1>7 DEF NewWaits
<1>10. W \cap waiting[pe] = {}
  <2> SUFFICES ASSUME NEW v \in W, v \in waiting[pe] PROVE FALSE
    OBVIOUS
  <2>1. m.kind = "node" /\ Covers(m.node, v.node.first) /\ v.node.size < m.node.size
    BY <1>9 DEF BelowOK
  <2>2. v.node \in DOMAIN Tree(pe)
    BY <1>2 DEF WaitingOK, WaitOK
  <2>3. GrownOK(pe, m)
    BY Expected, GrownFacts
  <2> QED
    BY <2>1, <2>2, <2>3 DEF GrownOK
<1>11. IsFiniteSet(R)
  BY <1>2, <1>3, FS_Subset DEF WaitingOK
<1>12. IsFiniteSet(W)
  <2> DEFINE f == [w \in R |-> WaitsThen(pe, m, w)]
             S == {f[w] : w \in R}
  <2>1. W = UNION S /\ DOMAIN f = R /\ \A w \in R : IsFiniteSet(f[w])
    BY <1>5 DEF NewWaits, WaitsThenOK
  <2> HIDE DEF f
  <2>2. IsFiniteSet(S)
    BY <1>11, <2>1, ImageFinite
  <2> HIDE DEF S
  <2>3. \A s \in S : IsFiniteSet(s)
    BY <2>1 DEF S
  <2> QED
    BY <2>1, <2>2, <2>3, FS_UNION
<1> QED
  BY <1>1, <1>3, <1>4, <1>5, <1>6, <1>8, <1>9, <1>10, <1>11, <1>12 DEF ResumedOK

LEMMA WaitsAfter ==
    ASSUME TravInv, NEW m \in replies, NEW pe \in PE, pe = m.to, Received(pe, m)
    PROVE  WaitingOK(pe)'
<1> DEFINE R == Resumed(pe, m)
           W == NewWaits(pe, m)
           T == Tree(pe)
           T2 == Grown(pe, m)
           H2 == HeldThen(pe, m)
<1>1. /\ R \subseteq waiting[pe] /\ \A w \in R : WaitOK(pe, w)
      /\ \A w \in waiting[pe] : w \in R <=> w.kind = m.kind /\ w.node = m.node
      /\ waiting'[pe] = (waiting[pe] \ R) \cup W
      /\ \A w \in R : WaitsThenOK(pe, m, w)
      /\ \A w, x \in R : w # x /\ w.tp = x.tp => w.mask \cap x.mask = {}
      /\ IsFiniteSet(R) /\ IsFiniteSet(W)
      /\ \A v \in W : \E w \in R : v \in WaitsThen(pe, m, w) /\ BelowOK(T2, H2, m, w, v)
  BY ResumedFacts DEF ResumedOK
<1>2. WaitingOK(pe)
  BY DEF TravInv
<1>3. /\ Tree(pe)' = T2 /\ fetched'[pe] = H2
      /\ \A k : k \in DOMAIN H2 <=> k \in DOMAIN fetched[pe] \/ (m.kind # "node" /\ k = m.node)
  BY TreesThen
<1>4. GrownOK(pe, m) /\ m.kind = KindOf(T[m.node].type)
  BY Expected, GrownFacts DEF TravInv
<1>5. UNCHANGED <<input, walkGroups, current>> /\ LocalPieces(pe)' = LocalPieces(pe)
  BY DEF Received, LocalPieces, TreePiece, input
<1> HIDE DEF R, W
<1>6. ASSUME NEW w \in waiting[pe] \ R PROVE WaitOK(pe, w)'
  <2>1. WaitOK(pe, w)
    BY <1>2 DEF WaitingOK
  <2>2. w.node # m.node
    BY <1>1, <1>4, <2>1 DEF WaitOK
  <2>3. w.node \in DOMAIN T2 /\ T2[w.node].numChildren = 0 /\ T2[w.node].type = T[w.node].type
    BY <1>4, <2>1, <2>2 DEF WaitOK, GrownOK
  <2>4. w.kind = "particles" => w.node \notin DOMAIN H2
    BY <1>3, <2>1, <2>2 DEF WaitOK
  <2>5. \E g \in 1 .. current'[w.tp]["remote"] : w.mask \subseteq walkGroups'[w.tp][g]
    BY <1>5, <2>1 DEF WaitOK
  <2> HIDE DEF T2, H2
  <2> QED
    BY <1>3, <1>5, <2>1, <2>3, <2>4, <2>5 DEF WaitOK
<1>7. ASSUME NEW v \in W PROVE WaitOK(pe, v)'
  <2>1. PICK w \in R : v \in WaitsThen(pe, m, w) /\ BelowOK(T2, H2, m, w, v)
    BY <1>1
  <2>2. WaitOK(pe, w)
    BY <1>1
  <2>3. \E g \in 1 .. current'[v.tp]["remote"] : v.mask \subseteq walkGroups'[v.tp][g]
    <3>1. PICK g \in 1 .. current[w.tp]["remote"] : w.mask \subseteq walkGroups[w.tp][g]
      BY <2>2 DEF WaitOK
    <3> QED
      BY <1>5, <2>1, <3>1 DEF BelowOK
  <2>4. v.tp \in LocalPieces(pe)
    BY <2>1, <2>2 DEF WaitOK, BelowOK
  <2> HIDE DEF T2, H2
  <2> QED
    BY <1>3, <1>5, <2>1, <2>3, <2>4 DEF WaitOK, BelowOK
<1>8. ASSUME NEW u \in waiting[pe] \ R, NEW v \in W, u.tp = v.tp, u.mask \cap v.mask # {}
      PROVE  Apart(u.node, v.node) /\ Apart(v.node, u.node)
  <2>1. PICK w \in R : v \in WaitsThen(pe, m, w) /\ BelowOK(T2, H2, m, w, v)
    BY <1>1
  <2>2. w \in waiting[pe] /\ w # u /\ w.tp = u.tp /\ u.mask \cap w.mask # {} /\ w.node = m.node
    BY <1>1, <1>8, <2>1 DEF BelowOK
  <2>3. Apart(u.node, m.node)
    BY <1>2, <2>2 DEF WaitingOK
  <2>4. \A k \in Key : Covers(v.node, k) => Covers(m.node, k)
    BY <2>1 DEF BelowOK
  <2> QED
    BY <2>3, <2>4 DEF Apart
<1>9. ASSUME NEW u \in W, NEW v \in W, u # v, u.tp = v.tp, u.mask \cap v.mask # {}
      PROVE  Apart(u.node, v.node)
  <2>1. PICK w \in R : u \in WaitsThen(pe, m, w) /\ BelowOK(T2, H2, m, w, u)
    BY <1>1
  <2>2. PICK x \in R : v \in WaitsThen(pe, m, x) /\ BelowOK(T2, H2, m, x, v)
    BY <1>1
  <2>3. w = x
    BY <1>1, <1>9, <2>1, <2>2 DEF BelowOK
  <2> QED
    BY <1>1, <1>9, <2>1, <2>2, <2>3 DEF WaitsThenOK
<1>10. IsFiniteSet(waiting'[pe])
  <2> DEFINE S == waiting[pe] \ R
  <2>1. IsFiniteSet(S)
    BY <1>2, FS_Difference DEF WaitingOK
  <2> HIDE DEF S
  <2>2. IsFiniteSet(S \cup W)
    BY <1>1, <2>1, FS_Union
  <2> QED
    BY <1>1, <2>2 DEF S
<1>11. \A w \in waiting'[pe] : WaitOK(pe, w)'
  BY <1>1, <1>6, <1>7
<1>12. ASSUME NEW u \in waiting'[pe], NEW v \in waiting'[pe], u.tp = v.tp, u # v, u.mask \cap v.mask # {}
       PROVE  Apart(u.node, v.node)
  <2>1. CASE u \in W /\ v \in W
    BY <1>9, <1>12, <2>1
  <2>2. CASE u \in waiting[pe] \ R /\ v \in waiting[pe] \ R
    BY <1>2, <1>12, <2>2 DEF WaitingOK
  <2>3. CASE u \in W /\ v \in waiting[pe] \ R
    <3>1. v.mask \cap u.mask # {} /\ v.tp = u.tp
      BY <1>12
    <3> QED
      BY <1>8, <2>3, <3>1
  <2>4. CASE u \in waiting[pe] \ R /\ v \in W
    BY <1>8, <1>12, <2>4
  <2> QED
    BY <1>1, <2>1, <2>2, <2>3, <2>4
<1> QED
  BY <1>10, <1>11, <1>12 DEF WaitingOK

LEMMA FlightAfterReceive ==
    ASSUME TravInv, NEW m \in replies, NEW pe \in PE, pe = m.to, Received(pe, m)
    PROVE  FlightOK' /\ requests' \subseteq Request /\ DOMAIN sent' = PE
<1> DEFINE R == Resumed(pe, m)
           W == NewWaits(pe, m)
           T2 == Grown(pe, m)
           H2 == HeldThen(pe, m)
           gone == {m}
<1>1. /\ R \subseteq waiting[pe]
      /\ \A w \in waiting[pe] : w \in R <=> w.kind = m.kind /\ w.node = m.node
      /\ waiting' = [waiting EXCEPT ![pe] = (waiting[pe] \ R) \cup W]
      /\ \A v \in W : \E w \in R : v \in WaitsThen(pe, m, w) /\ BelowOK(T2, H2, m, w, v)
  BY ResumedFacts DEF ResumedOK
<1>2. /\ Tree(pe)' = T2 /\ fetched'[pe] = H2
      /\ Came(pe, m.kind, m.node)' /\ TreesGrow
  BY TreesThen
<1>3. replies' = replies \ gone /\ Ask(pe, T2, W) /\ UNCHANGED <<buffered, phase>>
  BY DEF Received, Resumed, NewWaits
<1>4. Told(pe, gone, R)
  BY <1>1, <1>2, <1>3 DEF Told
<1>5. DOMAIN T2 \subseteq Bin
  <2>1. TreeOK(pe)'
    BY TreesThen
  <2> QED
    BY <1>2, <2>1 DEF TreeOK, Rooted
<1> HIDE DEF R, W
<1>6. ASSUME NEW v \in W
      PROVE  /\ v.kind \in Kind /\ v.node \in Bin /\ v.node \in (DOMAIN Tree(pe))'
             /\ ~Came(pe, v.kind, v.node)'
  <2>1. PICK w \in R : BelowOK(T2, H2, m, w, v)
    BY <1>1
  <2>2. v.kind \in Kind
    BY <2>1 DEF BelowOK, KindOf, Kind
  <2>3. v.kind = "node" => T2[v.node].numChildren = 0
    BY <2>1 DEF BelowOK
  <2>4. v.kind = "particles" => v.node \notin DOMAIN H2
    BY <2>1 DEF BelowOK
  <2>5. v.node \in DOMAIN T2
    BY <2>1 DEF BelowOK
  <2> HIDE DEF T2, H2
  <2> QED
    BY <1>2, <1>5, <2>2, <2>3, <2>4, <2>5 DEF Came, Kind
<1>7. AskedFor(pe, W, R, W)
  BY <1>1, <1>6 DEF AskedFor
<1>8. Shapes /\ FlightOK /\ \A n \in replies : n.to \in PE
  BY DEF TravInv, ReplyOK
<1> HIDE DEF T2, gone
<1> QED
  BY <1>2, <1>3, <1>4, <1>7, <1>8, FlightAfterAsk

\* How many of a TreePiece wait then, when S of its own go on.
CountedOK(pe, t, S, c) ==
    /\ S = {} => WaitingOf(t)' = WaitingOf(t) /\ SumFunctionOnSet(c, S) = 0
    /\ S # {} =>
          /\ homeOf[t] = pe /\ S \subseteq WaitingOf(t)
          /\ Cardinality(WaitingOf(t)) \in Nat \ {0} /\ Cardinality(S) \in Nat
          /\ Cardinality(WaitingOf(t)')
                = Cardinality(WaitingOf(t)) - Cardinality(S) + SumFunctionOnSet(c, S)
          /\ SumFunctionOnSet(c, S) \in Nat

LEMMA CountAfter ==
    ASSUME TravInv, NEW m \in replies, NEW pe \in PE, pe = m.to, Received(pe, m),
           NEW t \in TreePiece,
           NEW S, S = {w \in Resumed(pe, m) : w.tp = t},
           NEW c, c = [w \in Resumed(pe, m) |-> Cardinality(WaitsThen(pe, m, w))]
    PROVE  CountedOK(pe, t, S, c)
<1> DEFINE R == Resumed(pe, m)
           W == NewWaits(pe, m)
           f == [w \in R |-> WaitsThen(pe, m, w)]
           new == UNION {f[w] : w \in S}
           old == WaitingOf(t)
<1>1. /\ R \subseteq waiting[pe] /\ \A w \in R : WaitOK(pe, w)
      /\ waiting' = [waiting EXCEPT ![pe] = (waiting[pe] \ R) \cup W]
      /\ waiting'[pe] = (waiting[pe] \ R) \cup W
      /\ \A w \in R : WaitsThenOK(pe, m, w)
      /\ \A w, x \in R : w # x => WaitsThen(pe, m, w) \cap WaitsThen(pe, m, x) = {}
      /\ W \cap waiting[pe] = {} /\ IsFiniteSet(R) /\ IsFiniteSet(W)
      /\ \A v \in W : \E w \in R : v \in WaitsThen(pe, m, w)
                                   /\ BelowOK(Grown(pe, m), HeldThen(pe, m), m, w, v)
  BY ResumedFacts DEF ResumedOK
<1>2. homeOf[t] \in PE /\ homeOf' = homeOf /\ WaitingOK(pe)
  BY DEF TravInv, Shapes, Received, input
<1>3. /\ \A w \in R : WaitsThen(pe, m, w) = f[w] /\ c[w] = Cardinality(f[w])
      /\ \A w \in R : \A v \in f[w] : v.tp = w.tp /\ v \in W
      /\ W = UNION {f[w] : w \in R}
  BY <1>1 DEF WaitsThenOK, BelowOK, NewWaits
<1>4. \A w \in R : w.tp \in LocalPieces(pe)
  BY <1>1 DEF WaitOK
<1>5. \A q \in PE : q # pe => waiting'[q] = waiting[q]
  BY <1>1, TreesThen
<1> HIDE DEF R, W, f
<1>6. S = {w \in R : w.tp = t}
  BY DEF R
<1>7. {v \in W : v.tp = t} = new
  BY <1>3, <1>6
<1>8. ASSUME S = {} PROVE WaitingOf(t)' = WaitingOf(t) /\ SumFunctionOnSet(c, S) = 0
  <2>1. new = {}
    BY <1>8
  <2>2. \A w \in R : w.tp # t
    BY <1>6, <1>8
  <2>3. \A w \in waiting'[homeOf[t]] : w.tp = t <=> w \in waiting[homeOf[t]] /\ w.tp = t
    BY <1>1, <1>2, <1>5, <1>7, <2>1
  <2>4. \A w \in waiting[homeOf[t]] : w.tp = t => w \in waiting'[homeOf[t]]
    BY <1>1, <1>2, <1>5, <2>2
  <2>5. WaitingOf(t)' = WaitingOf(t)
    BY <1>2, <2>3, <2>4 DEF WaitingOf
  <2> QED
    BY <1>8, <2>5, SumOfNone
<1>9. ASSUME S # {}
      PROVE  /\ homeOf[t] = pe /\ S \subseteq WaitingOf(t)
             /\ Cardinality(WaitingOf(t)) \in Nat \ {0} /\ Cardinality(S) \in Nat
             /\ Cardinality(WaitingOf(t)')
                   = Cardinality(WaitingOf(t)) - Cardinality(S) + SumFunctionOnSet(c, S)
             /\ SumFunctionOnSet(c, S) \in Nat
  <2>1. homeOf[t] = pe
    BY <1>4, <1>6, <1>9 DEF LocalPieces
  <2>2. S \subseteq old
    BY <1>1, <1>6, <2>1 DEF WaitingOf
  <2>3. (old)' = (old \ S) \cup new
    <3>1. WaitingOf(t)' = {w \in (waiting[pe] \ R) \cup W : w.tp = t}
      BY <1>1, <1>2, <2>1 DEF WaitingOf
    <3>2. WaitingOf(t) = {w \in waiting[pe] : w.tp = t}
      BY <2>1 DEF WaitingOf
    <3> QED
      BY <1>6, <1>7, <3>1, <3>2
  <2>4. old \cap new = {}
    BY <1>1, <1>7, <2>1 DEF WaitingOf
  <2>5. IsFiniteSet(old) /\ IsFiniteSet(S)
    BY <1>2, <2>1, <2>2, FS_Subset DEF WaitingOf, WaitingOK
  <2>6. IsFiniteSet(new) /\ Cardinality(new) = SumFunctionOnSet(c, S)
    <3>1. \A w \in S : IsFiniteSet(f[w]) /\ c[w] = Cardinality(f[w])
      <4> TAKE w \in S
      <4>1. w \in R /\ IsFiniteSet(WaitsThen(pe, m, w))
        BY <1>1, <1>6 DEF WaitsThenOK
      <4> QED
        BY <1>3, <4>1
    <3>2. \A w, x \in S : w # x => f[w] \cap f[x] = {}
      BY <1>1, <1>3, <1>6
    <3>3. IsFiniteSet(UnionOf(f, S)) /\ Cardinality(UnionOf(f, S)) = SumFunctionOnSet(c, S)
      <4>1. /\ IsFiniteSet(S) /\ \A x \in S : IsFiniteSet(f[x])
            /\ \A x \in S : c[x] = Cardinality(f[x])
            /\ \A x, y \in S : x # y => f[x] \cap f[y] = {}
        BY <2>5, <3>1, <3>2
      <4> QED
        BY <4>1, UnionCount
    <3> QED
      BY <3>3 DEF UnionOf
  <2> HIDE DEF old, new
  <2>7. old \cap S = S /\ (old \ S) \cap new = {}
    BY <2>2, <2>4
  <2>8. IsFiniteSet(old \ S) /\ Cardinality(old \ S) = Cardinality(old) - Cardinality(S)
    <3>1. Cardinality(old \ S) = Cardinality(old) - Cardinality(old \cap S)
      BY <2>5, FS_Difference
    <3> QED
      BY <2>5, <2>7, <3>1, FS_Difference
  <2>9. Cardinality((old \ S) \cup new)
           = Cardinality(old \ S) + Cardinality(new) - Cardinality((old \ S) \cap new)
    BY <2>6, <2>8, FS_Union
  <2>10. Cardinality((old \ S) \cap new) = 0
    BY <2>7, FS_EmptySet
  <2>11. /\ Cardinality(old) \in Nat /\ Cardinality(S) \in Nat /\ Cardinality(new) \in Nat
         /\ Cardinality(old) # 0
    BY <1>9, <2>2, <2>5, <2>6, FS_CardinalityType, FS_EmptySet
  <2>12. Cardinality((old)') = Cardinality(old) - Cardinality(S) + Cardinality(new)
    BY <2>3, <2>8, <2>9, <2>10, <2>11
  <2> QED
    BY <2>1, <2>2, <2>6, <2>11, <2>12 DEF old
<1> QED
  BY <1>8, <1>9 DEF CountedOK

LEMMA ReceiveStep ==
    ASSUME TravInv, NEW m \in replies, Receive(m)
    PROVE  TravInv'
<1> USE DEF TravInv
<1>1. PICK pe \in PE : pe = m.to
  BY Expected
<1> DEFINE R == Resumed(pe, m)
           c == [w \in R |-> Cardinality(WaitsThen(pe, m, w))]
           of(t) == {w \in R : w.tp = t}
           left(t) == Left(pending[t]["remote"], SumFunctionOnSet(c, of(t)), Cardinality(of(t)))
           E == {<<w.tp, "remote">> : w \in {v \in R : left(v.tp) = 0}}
<1>2. Received(pe, m)
  BY <1>1, ReceivedIs
<1>3. /\ replies' = replies \ {m}
      /\ pending' = [t \in TreePiece |-> [pending[t] EXCEPT !["remote"] = left(t)]]
      /\ TraversalDone(E)
      /\ UNCHANGED <<input, phase, buffered, walkGroups, prepared, current, piecesDone>>
  BY <1>2 DEF Received, Resumed
<1>4. TreePiece' = TreePiece /\ homeOf' = homeOf
  BY <1>3 DEF input, TreePiece
<1>5. /\ \A q \in PE : q # pe => UNCHANGED <<nodeTable[q], cached[q], fetched[q], waiting[q]>>
      /\ DOMAIN nodeTable' = PE /\ DOMAIN cached' = PE /\ DOMAIN fetched' = PE
      /\ DOMAIN waiting' = PE
      /\ \A q \in PE : TreeOK(q)'
  BY <1>1, <1>2, TreesThen
<1>6. FlightOK' /\ requests' \subseteq Request /\ DOMAIN sent' = PE
  BY <1>1, <1>2, FlightAfterReceive
<1>7. ASSUME NEW q \in PE PROVE WaitingOK(q)'
  <2>1. CASE q = pe
    BY <1>1, <1>2, <2>1, WaitsAfter
  <2>2. CASE q # pe
    BY <1>3, <1>5, <2>2, WaitsKept
  <2> QED
    BY <2>1, <2>2
<1>8. \A n \in replies' : ReplyOK(n)'
  BY <1>3 DEF ReplyOK
<1>9. ASSUME NEW t \in TreePiece
      PROVE  CountedOK(pe, t, of(t), c)
  <2> DEFINE S == of(t)
             d == c
  <2>1. S = {w \in Resumed(pe, m) : w.tp = t}
        /\ d = [w \in Resumed(pe, m) |-> Cardinality(WaitsThen(pe, m, w))]
    OBVIOUS
  <2> HIDE DEF S, d
  <2>2. CountedOK(pe, t, S, d)
    BY <1>1, <1>2, <2>1, CountAfter
  <2> QED
    BY <2>2 DEF S, d
<1>10. ASSUME NEW t \in TreePiece
       PROVE  {e \in E : e[1] = t} = IF of(t) # {} /\ left(t) = 0 THEN {<<t, "remote">>} ELSE {}
  <2> DEFINE over(u) == left(u) = 0
  <2>1. E = {<<w.tp, "remote">> : w \in {v \in R : over(v.tp)}}
    OBVIOUS
  <2>2. of(t) = {w \in R : w.tp = t}
    OBVIOUS
  <2> HIDE DEF over, R, E, of
  <2>3. \A e \in E : e[1] = t => e = <<t, "remote">> /\ of(t) # {} /\ over(t)
    BY <2>1, <2>2
  <2>4. of(t) # {} /\ over(t) => <<t, "remote">> \in E
    BY <2>1, <2>2
  <2>5. <<t, "remote">>[1] = t
    OBVIOUS
  <2>6. {e \in E : e[1] = t} = IF of(t) # {} /\ over(t) THEN {<<t, "remote">>} ELSE {}
    BY <2>3, <2>4, <2>5
  <2> QED
    BY <2>6 DEF over
<1> HIDE DEF R, c, of, left, E
<1>11. ASSUME NEW t \in TreePiece
       PROVE  /\ walksDone[t] \in 0 .. 1 /\ reports[t] \in 0 .. 1 /\ reports[t] \in Nat
              /\ pending[t] \in [Side -> Int] /\ pending[t]["remote"] \in Int
              /\ current[t]["remote"] \in Nat /\ NumGroups(t) \in Nat /\ PieceOK(t)
  <2>1. walksDone[t] \in 0 .. 1 /\ reports[t] \in 0 .. 1 /\ pending[t] \in [Side -> Int]
        /\ current[t] \in [Side -> Nat] /\ walkGroups[t] \in Seq(SUBSET Bin)
    BY DEF Shapes
  <2> QED
    BY <2>1 DEF Side, NumGroups
<1>12. ASSUME NEW t \in TreePiece, left(t) \in Int
       PROVE  /\ pending'[t] \in [Side -> Int] /\ pending'[t]["remote"] = left(t)
              /\ \A s \in Side : s # "remote" => pending'[t][s] = pending[t][s]
  BY <1>3, <1>11, <1>12 DEF Side
\* The TreePieces that nothing comes for, and the others.
<1>13. ASSUME NEW t \in TreePiece, of(t) = {}
       PROVE  /\ pending'[t] \in [Side -> Int]
              /\ UNCHANGED <<walksDone[t], reports[t]>>
              /\ PieceOK(t)' /\ (Over(t)' <=> Over(t))
  <2>1. WaitingOf(t)' = WaitingOf(t) /\ SumFunctionOnSet(c, of(t)) = 0 /\ Cardinality(of(t)) = 0
    BY <1>9, <1>13, FS_EmptySet DEF CountedOK
  <2>2. left(t) = pending[t]["remote"]
    BY <1>11, <2>1 DEF left, Left
  <2>3. pending'[t] = pending[t]
    <3>1. pending'[t] \in [Side -> Int] /\ \A s \in Side : pending'[t][s] = pending[t][s]
      BY <1>11, <1>12, <2>2
    <3> QED
      BY <1>11, <3>1
  <2>4. UNCHANGED <<walksDone[t], reports[t]>>
    <3>1. {e \in E : e[1] = t} = {}
      BY <1>10, <1>13
    <3> QED
      BY <1>3, <1>11, <3>1, NoneEnds
  <2>5. /\ NumGroups(t)' = NumGroups(t) /\ BothEnded(t)' = BothEnded(t)
        /\ NoneEnded(t)' = NoneEnded(t) /\ (Unstarted(t)' <=> Unstarted(t))
        /\ walkGroups'[t] = walkGroups[t]
    BY <1>3, <1>4, <2>3 DEF NumGroups, BothEnded, NoneEnded, Unstarted
  <2>6. AtRest(t)' = AtRest(t) /\ AtWork(t)' = AtWork(t)
    BY <1>3, <2>1, <2>3, <2>4, <2>5 DEF AtRest, AtWork, Reset
  <2> QED
    BY <1>3, <1>4, <1>11, <2>3, <2>4, <2>5, <2>6 DEF PieceOK, Over
<1>14. ASSUME NEW t \in TreePiece, of(t) # {}
       PROVE  /\ pending'[t] \in [Side -> Int]
              /\ walksDone'[t] \in 0 .. 1 /\ reports'[t] \in 0 .. 1
              /\ PieceOK(t)' /\ (Over(t)' <=> Over(t))
  <2> DEFINE N == NumGroups(t)
             cur == current[t]["remote"]
             n == Cardinality(WaitingOf(t))
             sum == SumFunctionOnSet(c, of(t))
             k == Cardinality(of(t))
  <2>1. /\ n \in Nat \ {0} /\ k \in Nat /\ sum \in Nat
        /\ Cardinality(WaitingOf(t)') = n - k + sum
    BY <1>9, <1>14 DEF CountedOK
  <2>2. N # 0 /\ AtWork(t) /\ ~Unstarted(t)
    <3>1. WaitingOf(t) # {}
      BY <2>1, FS_EmptySet
    <3> QED
      BY <1>11, <3>1 DEF PieceOK, AtRest, NumGroups
  <2>3. /\ cur <= N /\ pending[t]["remote"] = N - cur + n
        /\ walksDone[t] = IF BothEnded(t) \/ NoneEnded(t) THEN 0 ELSE 1
        /\ reports[t] = 1 => BothEnded(t)
    BY <2>2 DEF AtWork, Side
  <2>4. left(t) = pending[t]["remote"] + sum - k /\ left(t) \in Int
    BY <1>11, <2>1 DEF left, Left
  <2> HIDE DEF n, sum, k
  <2>5. pending[t]["remote"] # 0 /\ left(t) = N - cur + Cardinality(WaitingOf(t)')
    BY <1>11, <2>1, <2>3, <2>4
  <2>6. /\ pending'[t] \in [Side -> Int] /\ pending'[t]["remote"] = left(t)
        /\ \A s \in Side : s # "remote" => pending'[t][s] = pending[t][s]
    BY <1>12, <2>4
  <2>7. /\ walksDone'[t] \in 0 .. 1 /\ reports'[t] \in 0 .. 1
        /\ walksDone'[t] = IF BothEnded(t)' \/ NoneEnded(t)' THEN 0 ELSE 1
        /\ reports'[t] = 1 => BothEnded(t)'
        /\ reports'[t] = 0 => ~BothEnded(t)'
    <3> DEFINE side == "remote"
    <3>1. side \in Side
      BY DEF Side
    <3>2. {e \in E : e[1] = t} = IF pending'[t][side] = 0 THEN {<<t, side>>} ELSE {}
      BY <1>10, <1>14, <2>6
    <3>3. pending[t][side] # 0 /\ \A s \in Side : s # side => pending'[t][s] = pending[t][s]
      BY <2>5, <2>6
    <3> HIDE DEF side
    <3> QED
      BY <1>3, <1>11, <2>3, <3>1, <3>2, <3>3, SideEnds
  <2>8. NumGroups(t)' = N /\ ~Unstarted(t)' /\ walkGroups'[t] = walkGroups[t] /\ current'[t] = current[t]
    BY <1>3, <1>4, <2>2 DEF NumGroups, Unstarted
  <2>9. AtWork(t)'
    <3>1. ASSUME NEW s \in Side
          PROVE  /\ current'[t][s] <= NumGroups(t)'
                 /\ pending'[t][s] = NumGroups(t)' - current'[t][s]
                       + (IF s = "local" THEN 0 ELSE Cardinality(WaitingOf(t)'))
      <4>1. CASE s = "remote"
        BY <2>3, <2>5, <2>6, <2>8, <4>1
      <4>2. CASE s = "local"
        BY <2>2, <2>6, <2>8, <4>2 DEF AtWork
      <4> QED
        BY <4>1, <4>2 DEF Side
    <3> QED
      BY <2>7, <3>1 DEF AtWork
  <2>10. PieceOK(t)'
    BY <1>3, <1>4, <1>11, <2>2, <2>8, <2>9 DEF PieceOK
  <2>11. ~Over(t)
    BY <2>2, <2>5 DEF Over, BothEnded, Side
  <2>12. ~Over(t)'
    BY <2>2, <2>7, <2>8 DEF Over
  <2> QED
    BY <2>6, <2>7, <2>10, <2>11, <2>12
<1>15. \A t \in TreePiece : PieceOK(t)' /\ (Over(t)' <=> Over(t))
  BY <1>13, <1>14
<1>16. Shapes'
  <2>1. \A t \in TreePiece : walksDone'[t] \in 0 .. 1 /\ reports'[t] \in 0 .. 1
    <3> TAKE t \in TreePiece
    <3>1. CASE of(t) = {}
      BY <1>11, <1>13, <3>1
    <3>2. CASE of(t) # {}
      BY <1>14, <3>2
    <3> QED
      BY <3>1, <3>2
  <2>2. walksDone' = [u \in TreePiece |-> walksDone'[u]] /\ reports' = [u \in TreePiece |-> reports'[u]]
    BY <1>3 DEF TraversalDone
  <2>3. walksDone' \in [TreePiece -> 0 .. 1] /\ reports' \in [TreePiece -> 0 .. 1]
    BY <2>1, <2>2
  <2>4. pending' \in [TreePiece -> [Side -> Int]]
    <3>1. \A t \in TreePiece : pending'[t] \in [Side -> Int]
      BY <1>13, <1>14
    <3>2. pending' = [t \in TreePiece |-> pending'[t]]
      BY <1>3
    <3> QED
      BY <3>1, <3>2
  <2> QED
    BY <1>3, <1>4, <1>5, <1>6, <2>3, <2>4 DEF Shapes
<1>17. \A q \in PE : PhaseOK(q)'
  BY <1>3, <1>15, PhaseKept
<1> QED
  BY <1>4, <1>5, <1>6, <1>7, <1>8, <1>15, <1>16, <1>17

----------------------------------------------------------------------------
(* From the start on. *)

\* Every PE begins with the tree its moments have left, and nothing asked for.
LEMMA InvStarts ==
    ASSUME Init
    PROVE  TravInv
<1>1. /\ Input
      /\ phase = [pe \in PE |-> "building"]
      /\ nodeTable = [pe \in PE |-> FinalTree(pe)]
      /\ cached = [pe \in PE |-> <<>>] /\ fetched = [pe \in PE |-> <<>>]
      /\ sent = [pe \in PE |-> {}] /\ waiting = [pe \in PE |-> {}]
      /\ buffered = [pe \in PE |-> {}] /\ requests = {} /\ replies = {}
      /\ walkGroups = [t \in TreePiece |-> <<>>] /\ prepared = {}
      /\ current = [t \in TreePiece |-> [side \in Side |-> 0]]
      /\ pending = [t \in TreePiece |-> Reset(-1)]
      /\ walksDone = [t \in TreePiece |-> 0] /\ reports = [t \in TreePiece |-> 0]
      /\ piecesDone = [pe \in PE |-> 0]
  BY DEF Init
<1>2. homeOf \in [TreePiece -> PE] /\ IsFiniteSet(TreePiece)
  BY <1>1, InputFacts
<1>3. Shapes
  <2>1. <<>> \in Seq(SUBSET Bin) /\ Reset(-1) \in [Side -> Int]
    BY DEF Reset
  <2> QED
    BY <1>1, <1>2, <2>1 DEF Shapes
<1>4. Asked = {}
  BY <1>1 DEF Asked
<1>5. FlightOK
  BY <1>1, <1>4 DEF FlightOK
<1>6. ASSUME NEW pe \in PE PROVE TreeOK(pe)
  <2> DEFINE B == FinalTree(pe)
             C == <<>>
             T == Tree(pe)
  <2>1. nodeTable[pe] = B /\ cached[pe] = C /\ fetched[pe] = <<>> /\ T = Extended(C, B)
    BY <1>1 DEF Tree
  <2>2. Rooted(B) /\ BucketsApart(B)
    BY <1>1, FinalTreeFacts
  <2>3. AreNodes(B)
    <3>1. ASSUME NEW b \in DOMAIN B PROVE IsNode(B[b])
      <4> DEFINE type == IF walked[pe][b].type = "Remote" THEN Known(pe, b) ELSE walked[pe][b].type
                 owners == FinalOwners(pe)[b]
                 count == walked[pe][b].numChildren
                 mass == Mass(Present(b))
      <4>1. B[b] = [type |-> type, owners |-> owners, numChildren |-> count,
                    ready |-> count, mass |-> mass]
        BY FinalTreeIs
      <4> HIDE DEF type, owners, count, mass, B
      <4> QED
        BY <4>1 DEF IsNode
    <3> QED
      BY <3>1 DEF AreNodes
  <2>4. DOMAIN C = {} /\ AreNodes(C) /\ DOMAIN fetched[pe] = {}
    BY <2>1 DEF AreNodes
  <2> HIDE DEF B, C, T
  <2>5. /\ DOMAIN Extended(C, B) = DOMAIN C \cup DOMAIN B
        /\ \A k \in DOMAIN C : Extended(C, B)[k] = C[k]
        /\ \A k \in DOMAIN B \ DOMAIN C : Extended(C, B)[k] = B[k]
    BY ExtendedFacts, Zenon
  <2>6. DOMAIN T = DOMAIN B /\ \A k \in DOMAIN B : T[k] = B[k]
    BY <2>1, <2>4, <2>5
  <2>7. Rooted(T)
    BY <2>2, <2>6 DEF Rooted
  <2> QED
    BY <2>1, <2>2, <2>3, <2>4, <2>7 DEF TreeOK, T
<1>7. ASSUME NEW t \in TreePiece PROVE Unstarted(t) /\ ~Over(t) /\ PieceOK(t)
  <2>1. Unstarted(t) /\ ~Over(t)
    BY <1>1, <1>2 DEF Unstarted, Over
  <2>2. walkGroups[t] = <<>> /\ NumGroups(t) = 0 /\ WaitingOf(t) = {}
    BY <1>1, <1>2 DEF NumGroups, WaitingOf
  <2>3. AtRest(t)
    BY <1>1, <2>2 DEF AtRest
  <2>4. Disjoint(walkGroups[t])
    BY <2>2 DEF Disjoint
  <2> QED
    BY <1>1, <2>1, <2>2, <2>3, <2>4 DEF PieceOK
<1>8. ASSUME NEW pe \in PE PROVE PhaseOK(pe) /\ WaitingOK(pe)
  <2>1. {t \in LocalPieces(pe) : Over(t)} = {}
    BY <1>7 DEF LocalPieces
  <2>2. PhaseOK(pe)
    BY <1>1, <2>1, FS_EmptySet DEF PhaseOK
  <2>3. WaitingOK(pe)
    BY <1>1, FS_EmptySet DEF WaitingOK
  <2> QED
    BY <2>2, <2>3
<1> QED
  BY <1>1, <1>3, <1>5, <1>6, <1>7, <1>8 DEF TravInv

LEMMA NothingChanges ==
    ASSUME TravInv, UNCHANGED vars
    PROVE  TravInv'
<1> USE DEF TravInv
<1>1. UNCHANGED <<input, phase, nodeTable, cached, fetched, buffered, sent, waiting, requests, replies,
                  walkGroups, prepared, current, pending, walksDone, reports, piecesDone>>
  BY DEF vars, serving, asking, walking
<1>2. TreePiece' = TreePiece /\ homeOf' = homeOf
  BY <1>1 DEF input, TreePiece
<1>3. Shapes'
  BY <1>1, <1>2 DEF Shapes
<1>4. FlightOK'
  BY <1>1, FlightKept
<1>5. \A pe \in PE : TreeOK(pe)' /\ WaitingOK(pe)'
  BY <1>1, TreesKept, WaitsKept
<1>6. \A t \in TreePiece : PieceOK(t)' /\ (Over(t)' <=> Over(t))
  BY <1>1, PieceKept
<1>7. \A pe \in PE : PhaseOK(pe)'
  BY <1>1, <1>6, PhaseKept
<1>8. \A m \in replies' : ReplyOK(m)'
  BY <1>1 DEF ReplyOK
<1> QED
  BY <1>2, <1>3, <1>4, <1>5, <1>6, <1>7, <1>8

LEMMA InvKept ==
    ASSUME TravInv, [Next]_vars
    PROVE  TravInv'
<1>1. ASSUME NEW pe \in PE, TreeReady(pe) PROVE TravInv'
  BY <1>1, TreeReadyStep
<1>2. ASSUME NEW pe \in PE, Advance(pe) PROVE TravInv'
  BY <1>2, AdvanceStep
<1>3. ASSUME NEW t \in TreePiece, StartTraversal(t) PROVE TravInv'
  BY <1>3, StartTraversalStep
<1>4. ASSUME NEW t \in TreePiece, TraversalsDone(t) PROVE TravInv'
  BY <1>4, TraversalsDoneStep
<1>5. ASSUME NEW t \in TreePiece, NEW side \in Side, DoGravity(t, side) PROVE TravInv'
  <2>1. homeOf[t] \in PE
    BY DEF TravInv, Shapes
  <2> QED
    BY <1>5, <2>1, DoGravityStep
<1>6. ASSUME NEW r \in requests, Serve(r) PROVE TravInv'
  BY <1>6, ServeStep
<1>7. ASSUME NEW m \in replies, Receive(m) PROVE TravInv'
  BY <1>7, ReceiveStep
<1>8. ASSUME UNCHANGED vars PROVE TravInv'
  BY <1>8, NothingChanges
<1> QED
  BY <1>1, <1>2, <1>3, <1>4, <1>5, <1>6, <1>7, <1>8 DEF Next

\* The invariant: a PE's tree hangs together whatever has been hung into it;
\* what it has asked for is in flight once, and answered once, as long as one of
\* its walks waits for it; those wait for different leaves, or for different
\* buckets; a TreePiece's counters agree with its walks, and its PE's phase with
\* its TreePieces.
THEOREM Invariant == Spec => []TravInv
<1>1. Init => TravInv
  BY InvStarts
<1>2. TravInv /\ [Next]_vars => TravInv'
  BY InvKept
<1> QED
  BY <1>1, <1>2, PTL DEF Spec

\* A TreePiece waits, by its counters, for just what it still has to walk and to
\* get; when its PE is finished there is neither, and it has reported.
LEMMA Exact ==
    ASSUME TravInv
    PROVE  PendingExact
<1> USE DEF TravInv
<1>1. ASSUME NEW t \in TreePiece, NEW side \in Side, pending[t][side] >= 0
      PROVE  pending[t][side] = (NumGroups(t) - current[t][side])
                + (IF side = "local" THEN 0
                   ELSE Cardinality({w \in waiting[homeOf[t]] : w.tp = t}))
  <2>1. PieceOK(t)
    OBVIOUS
  <2>2. AtWork(t)
    BY <1>1, <2>1 DEF PieceOK, AtRest, Reset
  <2> QED
    BY <2>2 DEF AtWork, WaitingOf
<1>2. ASSUME NEW pe \in PE, phase[pe] \in {"finished", "advanced"}
      PROVE  /\ waiting[pe] = {}
             /\ \A t \in LocalPieces(pe) :
                   /\ t \notin prepared /\ reports[t] = 0
                   /\ \A side \in Side : pending[t][side] \in {-1, 0}
  <2>1. waiting[pe] = {}
    BY <1>2, NothingWaits
  <2>2. ASSUME NEW t \in LocalPieces(pe)
        PROVE  /\ t \notin prepared /\ reports[t] = 0
               /\ \A side \in Side : pending[t][side] \in {-1, 0}
    <3>1. Over(t) /\ t \in TreePiece /\ PieceOK(t)
      BY <1>2 DEF PhaseOK, LocalPieces
    <3>2. NumGroups(t) = 0 => AtRest(t)
      BY <3>1 DEF PieceOK
    <3> QED
      BY <3>1, <3>2 DEF Over, Unstarted, BothEnded, AtRest, Reset
  <2> QED
    BY <2>1, <2>2
<1> QED
  BY <1>1, <1>2 DEF PendingExact

\* State::pending is what is left to walk and to wait for, and a PE is finished
\* only when that is nothing for each of its TreePieces.
THEOREM PendingAgrees == Spec => []PendingExact
  BY Invariant, Exact, PTL

\* If nothing can run, nothing waits: every TreePiece is over, and so is its PE.
LEMMA NoStandstill ==
    ASSUME TravInv
    PROVE  NobodyStuck
<1> USE DEF TravInv
<1> SUFFICES ASSUME Quiescent PROVE \A pe \in PE : phase[pe] = "advanced"
  BY DEF NobodyStuck
<1>1. /\ requests = {} /\ replies = {} /\ prepared = {}
      /\ \A pe \in PE : phase[pe] # "building" /\ ~MayAdvance(pe)
      /\ \A t \in TreePiece :
            /\ reports[t] = 0
            /\ \A side \in Side : pending[t][side] > 0 => current[t][side] = NumGroups(t)
  BY DEF Quiescent
<1>2. Asked = {}
  BY <1>1 DEF Asked, FlightOK
<1>3. \A pe \in PE : waiting[pe] = {}
  BY <1>1, <1>2 DEF FlightOK, Flying
<1>4. ASSUME NEW t \in TreePiece PROVE Over(t)
  <2>1. homeOf[t] \in PE /\ PieceOK(t) /\ current[t] \in [Side -> Nat] /\ walkGroups[t] \in Seq(SUBSET Bin)
    BY DEF Shapes
  <2>2. ~Unstarted(t)
    BY <1>1, <2>1 DEF Unstarted
  <2>3. ASSUME NumGroups(t) # 0 PROVE BothEnded(t)
    <3>1. AtWork(t)
      BY <2>1, <2>3 DEF PieceOK
    <3>2. WaitingOf(t) = {}
      BY <1>3, <2>1 DEF WaitingOf
    <3>3. Cardinality(WaitingOf(t)) = 0
      BY <3>2, FS_EmptySet
    <3>4. ASSUME NEW side \in Side PROVE pending[t][side] = 0
      <4>1. /\ current[t][side] <= NumGroups(t)
            /\ pending[t][side] = NumGroups(t) - current[t][side]
            /\ current[t][side] \in Nat /\ NumGroups(t) \in Nat
        BY <2>1, <3>1, <3>3 DEF AtWork, NumGroups
      <4>2. pending[t][side] > 0 => current[t][side] = NumGroups(t)
        BY <1>1
      <4> QED
        BY <4>1, <4>2
    <3> QED
      BY <3>4 DEF BothEnded
  <2> QED
    BY <1>1, <2>2, <2>3 DEF Over
<1>5. \A pe \in PE : phase[pe] \in {"finished", "advanced"}
  <2> TAKE pe \in PE
  <2>1. phase[pe] \in {"building", "walking", "finished", "advanced"} /\ PhaseOK(pe)
    BY DEF Shapes
  <2>2. phase[pe] # "walking"
    BY <1>4, <2>1 DEF PhaseOK, LocalPieces
  <2> QED
    BY <1>1, <2>1, <2>2
<1> QED
  BY <1>1, <1>5 DEF MayAdvance

\* The walks cannot come to a standstill: when no PE has anything left to run,
\* every one has ended the step, and no walk waits for an answer that was
\* buffered, lost or given to another one.
THEOREM StepEnds == Spec => []NobodyStuck
  BY Invariant, NoStandstill, PTL

----------------------------------------------------------------------------
(* The TreePieces that own a node. *)

\* TreePiece t's key range has a key below b.
Spans(t, b) ==
    \E k \in Key : Covers(b, k) /\ keyRanges[2 * t] <= k /\ k <= keyRanges[2 * t + 1]

\* The owners of a node are those whose ranges have a key below it.
OwnersAre(b, o) ==
    \/ o = NoOwners /\ \A t \in TreePiece : ~Spans(t, b)
    \/ \E s, e \in TreePiece :
          /\ o = [start |-> s, end |-> e] /\ s <= e
          /\ \A t \in TreePiece : Spans(t, b) <=> s <= t /\ t <= e

\* The cells are apart and in order, a TreePiece's range is in its cell, and its
\* particles are in its range.
CellsOK ==
    /\ NumTreePieces \in Nat \ {0} /\ TreePiece = 0 .. NumTreePieces - 1
    /\ \A t \in TreePiece :
          /\ cellOf[t] \in Bin
          /\ keyRanges[2 * t] \in Key /\ Covers(cellOf[t], keyRanges[2 * t])
          /\ keyRanges[2 * t + 1] \in Key /\ Covers(cellOf[t], keyRanges[2 * t + 1])
          /\ keyRanges[2 * t] <= keyRanges[2 * t + 1]
          /\ \A p \in Present(cellOf[t]) :
                keyRanges[2 * t] <= keyOf[p] /\ keyOf[p] <= keyRanges[2 * t + 1]
          /\ tpCounts[t] > 0 => Present(cellOf[t]) # {}
          /\ Present(cellOf[t]) # {} => tpCounts[t] > 0
    /\ \A t, u \in TreePiece :
          t < u => /\ keyRanges[2 * t + 1] < keyRanges[2 * u]
                   /\ Apart(cellOf[t], cellOf[u])
    /\ keyOf \in [Particle -> Key]

\* Where the decomposition stops refining.
CellsOf(split) == {b \in Bin \ split : Path(b) \ {b} \subseteq split}

LEMMA CellsInOrder ==
    ASSUME NEW split \in SUBSET {b \in Bin : Separable(Present(b))},
           \A b \in split : Path(b) \subseteq split, keyOf \in [Particle -> Key]
    PROVE  /\ InKeyOrder(CellsOf(split)) /\ CellsOf(split) # {}
           /\ \A b, c \in CellsOf(split) : b # c => Apart(b, c)
<1> DEFINE cells == CellsOf(split)
<1>1. cells \subseteq Bin /\ IsFiniteSet(cells)
  BY BinFinite, FS_Subset DEF CellsOf
<1>2. ASSUME NEW b \in cells, NEW c \in cells, b # c, b.size <= c.size, NEW k \in Key,
             Covers(b, k), Covers(c, k)
      PROVE  FALSE
  <2>1. c \in Path(b)
    BY <1>1, <1>2, Nested
  <2> QED
    BY <1>2, <2>1 DEF CellsOf
<1>3. ASSUME NEW b \in cells, NEW c \in cells, b # c PROVE Apart(b, c)
  <2>1. b.size \in Nat /\ c.size \in Nat
    BY <1>1, BinWithin
  <2>2. b.size <= c.size \/ c.size <= b.size
    BY <2>1
  <2> QED
    BY <1>2, <1>3, <2>2 DEF Apart
<1>4. ASSUME NEW b \in cells, NEW c \in cells, b.first = c.first PROVE b = c
  <2>1. b.first \in Key /\ Covers(b, b.first) /\ Covers(c, b.first)
    BY <1>1, <1>4, CoversFirst
  <2> QED
    BY <1>3, <2>1 DEF Apart
<1>5. cells # {}
  <2>1. CASE RootBin \notin split
    <3>1. RootBin \in cells
      BY <2>1, RootIsBin, PathOfRoot DEF CellsOf
    <3> QED
      BY <3>1
  <2>2. CASE RootBin \in split
    <3> DEFINE Sizes0 == {b.size : b \in split}
    <3>1. Sizes0 \in SUBSET Nat /\ Sizes0 # {}
      BY <2>2, BinWithin
    <3>2. PICK n \in Sizes0 : \A m \in Sizes0 : n <= m
      BY <3>1, Least
    <3>3. PICK b \in split : n = b.size
      BY <3>2
    <3>4. b \in Bin /\ Separable(Present(b)) /\ Path(b) \subseteq split
      OBVIOUS
    <3>5. b.size > 1
      <4>1. PICK p, q \in Present(b) : keyOf[p] # keyOf[q]
        BY <3>4 DEF Separable
      <4>2. /\ keyOf[p] \in Key /\ keyOf[q] \in Key /\ Covers(b, keyOf[p]) /\ Covers(b, keyOf[q])
        BY <4>1 DEF Present
      <4>3. b.first \in Nat /\ b.size \in Nat \ {0} /\ keyOf[p] \in Nat /\ keyOf[q] \in Nat
        BY <3>4, <4>2, BinWithin, KeySpaceType
      <4>4. /\ b.first <= keyOf[p] /\ keyOf[p] < b.first + b.size
            /\ b.first <= keyOf[q] /\ keyOf[q] < b.first + b.size
        BY <4>2 DEF Covers
      <4>5. keyOf[p] # keyOf[q]
        BY <4>1
      <4> QED
        BY <4>3, <4>4, <4>5
    <3>6. 0 \in ChildIndex
      BY KeyTreeAssumption DEF ChildIndex
    <3> DEFINE c == Child(b, 0)
    <3>7. c \in Children(b)
      BY <3>6 DEF Children
    <3>8. c \in Bin /\ c.size < b.size /\ Path(c) = Path(b) \cup {c} /\ c \notin Path(b)
      BY <3>4, <3>5, <3>7, AboveChild
    <3> HIDE DEF c
    <3>9. c \notin split
      <4> SUFFICES ASSUME c \in split PROVE FALSE
        OBVIOUS
      <4>1. b.size <= c.size /\ b.size \in Nat /\ c.size \in Nat
        BY <3>2, <3>3, <3>4, <3>8, BinWithin
      <4> QED
        BY <3>8, <4>1
    <3>10. c \in cells
      BY <3>4, <3>8, <3>9 DEF CellsOf
    <3> QED
      BY <3>10
  <2> QED
    BY <2>1, <2>2
<1> QED
  BY <1>1, <1>3, <1>4, <1>5 DEF InKeyOrder

LEMMA CellFacts ==
    ASSUME Input
    PROVE  CellsOK
<1>1. /\ keyOf \in [Particle -> Key]
      /\ tpCounts = [t \in TreePiece |-> Cardinality(Present(cellOf[t]))]
      /\ keyRanges = [i \in 0 .. 2 * NumTreePieces - 1 |->
                         LET keys == {keyOf[p] : p \in Present(cellOf[i \div 2])}
                         IN  IF keys = {} THEN cellOf[i \div 2].first
                             ELSE IF i % 2 = 0 THEN Min(keys) ELSE Max(keys)]
  BY DEF Input
<1>2. PICK split \in SUBSET {b \in Bin : Separable(Present(b))} :
         /\ \A b \in split : Path(b) \subseteq split
         /\ cellOf = [t \in 0 .. Cardinality(CellsOf(split)) - 1 |-> At(CellsOf(split), t + 1)]
  BY DEF Input, CellsOf
<1> DEFINE cells == CellsOf(split)
           n == Cardinality(cells)
<1>3. InKeyOrder(cells) /\ cells # {} /\ \A b, c \in cells : b # c => Apart(b, c)
  BY <1>1, <1>2, CellsInOrder
<1>4. n \in Nat \ {0}
  BY <1>3, FS_CardinalityType, FS_EmptySet DEF InKeyOrder
<1>5. TreePiece = 0 .. n - 1 /\ NumTreePieces = n
  <2>1. TreePiece = 0 .. n - 1
    BY <1>2 DEF TreePiece
  <2>2. Cardinality(0 .. n - 1) = n
    BY <1>4, FS_Interval
  <2> QED
    BY <2>1, <2>2 DEF NumTreePieces
<1> HIDE DEF cells, n
<1>6. ASSUME NEW t \in TreePiece
      PROVE  cellOf[t] \in cells /\ cellOf[t] \in Bin /\ Position(cells, cellOf[t]) = t + 1
  <2>1. t + 1 \in 1 .. n /\ cellOf[t] = At(cells, t + 1)
    BY <1>2, <1>4, <1>5 DEF cells, n
  <2> QED
    BY <1>3, <2>1, PositionsInOrder DEF InKeyOrder, n
<1>7. ASSUME NEW t \in TreePiece
      PROVE  /\ keyRanges[2 * t] \in Key /\ Covers(cellOf[t], keyRanges[2 * t])
             /\ keyRanges[2 * t + 1] \in Key /\ Covers(cellOf[t], keyRanges[2 * t + 1])
             /\ keyRanges[2 * t] <= keyRanges[2 * t + 1]
             /\ \A p \in Present(cellOf[t]) :
                   keyRanges[2 * t] <= keyOf[p] /\ keyOf[p] <= keyRanges[2 * t + 1]
  <2> DEFINE keys == {keyOf[p] : p \in Present(cellOf[t])}
             range(i) == IF keys = {} THEN cellOf[t].first ELSE IF i = 0 THEN Min(keys) ELSE Max(keys)
  <2>1. /\ 2 * t \in 0 .. 2 * NumTreePieces - 1 /\ (2 * t) \div 2 = t /\ (2 * t) % 2 = 0
        /\ 2 * t + 1 \in 0 .. 2 * NumTreePieces - 1 /\ (2 * t + 1) \div 2 = t
        /\ (2 * t + 1) % 2 = 1
    BY <1>4, <1>5
  <2>2. keyRanges[2 * t] = range(0) /\ keyRanges[2 * t + 1] = range(1)
    BY <1>1, <2>1
  <2>3. \A p \in Present(cellOf[t]) : keyOf[p] \in keys /\ keyOf[p] \in Key /\ Covers(cellOf[t], keyOf[p])
    BY <1>1 DEF Present
  <2>4. \A k \in keys : k \in Key /\ Covers(cellOf[t], k)
    BY <2>3
  <2>5. Key \subseteq Nat /\ Key = 0 .. KeySpace - 1 /\ KeySpace - 1 \in Nat
    BY KeySpaceType DEF Key
  <2> HIDE DEF keys
  <2>6. CASE keys = {}
    <3>1. cellOf[t].first \in Key /\ Covers(cellOf[t], cellOf[t].first)
      BY <1>6, CoversFirst
    <3> QED
      BY <2>2, <2>3, <2>5, <2>6, <3>1
  <2>7. CASE keys # {}
    <3>1. Min(keys) \in keys /\ \A k \in keys : Min(keys) <= k
      BY <2>4, <2>5, <2>7, LeastOf
    <3>2. Max(keys) \in keys /\ \A k \in keys : k <= Max(keys)
      <4>1. keys \in SUBSET (0 .. KeySpace - 1)
        BY <2>4, <2>5
      <4> QED
        BY <2>5, <2>7, <4>1, GreatestOf
    <3> QED
      BY <2>2, <2>3, <2>4, <2>7, <3>1, <3>2
  <2> QED
    BY <2>6, <2>7
<1>8. ASSUME NEW t \in TreePiece PROVE tpCounts[t] > 0 <=> Present(cellOf[t]) # {}
  <2>1. tpCounts[t] = Cardinality(Present(cellOf[t]))
    BY <1>1
  <2>2. IsFiniteSet(Present(cellOf[t]))
    <3>1. IsFiniteSet(Particle)
      BY ConstantsAssumption, FS_Interval DEF Particle
    <3> QED
      BY <3>1, FS_Subset DEF Present
  <2> QED
    BY <2>1, <2>2, FS_CardinalityType, FS_EmptySet
<1>9. ASSUME NEW t \in TreePiece, NEW u \in TreePiece, t < u
      PROVE  keyRanges[2 * t + 1] < keyRanges[2 * u] /\ Apart(cellOf[t], cellOf[u])
  <2>1. cellOf[t] # cellOf[u]
    BY <1>4, <1>5, <1>6, <1>9
  <2>2. Apart(cellOf[t], cellOf[u])
    BY <1>3, <1>6, <2>1
  <2>3. ~(cellOf[u].first < cellOf[t].first)
    <3> SUFFICES ASSUME cellOf[u].first < cellOf[t].first PROVE FALSE
      OBVIOUS
    <3>1. Position(cells, cellOf[u]) < Position(cells, cellOf[t])
      BY <1>3, <1>6, PositionGrows
    <3> QED
      BY <1>4, <1>5, <1>6, <1>9, <3>1
  <2>4. /\ cellOf[t].first \in Key /\ cellOf[u].first \in Key /\ Key \subseteq Nat
        /\ cellOf[t].first \in Nat /\ cellOf[u].first \in Nat
        /\ Covers(cellOf[t], cellOf[t].first) /\ Covers(cellOf[u], cellOf[u].first)
    BY <1>6, CoversFirst, KeySpaceType
  <2>5. cellOf[t].size \in Nat /\ cellOf[u].size \in Nat
    BY <1>6, BinWithin
  <2>6. ~(cellOf[u].first < cellOf[t].first + cellOf[t].size)
    <3>1. ~Covers(cellOf[t], cellOf[u].first)
      BY <2>2, <2>4 DEF Apart
    <3>2. cellOf[t].first <= cellOf[u].first
      BY <2>3, <2>4
    <3> QED
      BY <3>1, <3>2 DEF Covers
  <2>7. /\ keyRanges[2 * t + 1] \in Key /\ Covers(cellOf[t], keyRanges[2 * t + 1])
        /\ keyRanges[2 * u] \in Key /\ Covers(cellOf[u], keyRanges[2 * u])
    BY <1>7
  <2>8. /\ keyRanges[2 * t + 1] < cellOf[t].first + cellOf[t].size
        /\ cellOf[u].first <= keyRanges[2 * u]
    BY <2>7 DEF Covers
  <2>9. keyRanges[2 * t + 1] < keyRanges[2 * u]
    <3>1. keyRanges[2 * t + 1] \in Nat /\ keyRanges[2 * u] \in Nat
      BY <2>4, <2>7
    <3> QED
      BY <2>4, <2>5, <2>6, <2>8, <3>1
  <2> QED
    BY <2>2, <2>9
<1> QED
  BY <1>1, <1>4, <1>5, <1>6, <1>7, <1>8, <1>9 DEF CellsOK

\* A range has a key below a node unless it ends before or begins behind it.
LEMMA SpansIs ==
    ASSUME CellsOK, NEW t \in TreePiece, NEW b \in Bin
    PROVE  Spans(t, b) <=> /\ b.first <= keyRanges[2 * t + 1]
                           /\ keyRanges[2 * t] < b.first + b.size
<1> DEFINE x == keyRanges[2 * t]
           y == keyRanges[2 * t + 1]
<1>1. x \in Key /\ y \in Key /\ x <= y /\ Key \subseteq Nat
  BY KeySpaceType DEF CellsOK
<1>2. b.first \in Key /\ b.first \in Nat /\ b.size \in Nat \ {0} /\ Covers(b, b.first)
  BY CoversFirst, BinWithin
<1>3. Spans(t, b) <=> \E k \in Key : Covers(b, k) /\ x <= k /\ k <= y
  BY DEF Spans
<1> HIDE DEF x, y
<1>4. x \in Nat /\ y \in Nat
  BY <1>1
<1>5. ASSUME NEW k \in Key, Covers(b, k), x <= k, k <= y
      PROVE  b.first <= y /\ x < b.first + b.size
  <2>1. k \in Nat /\ b.first <= k /\ k < b.first + b.size
    BY <1>1, <1>5 DEF Covers
  <2> QED
    BY <1>2, <1>4, <1>5, <2>1
<1>6. ASSUME b.first <= y, x < b.first + b.size
      PROVE  \E k \in Key : Covers(b, k) /\ x <= k /\ k <= y
  <2>1. CASE x <= b.first
    BY <1>2, <1>6, <2>1
  <2>2. CASE ~(x <= b.first)
    <3>1. b.first <= x /\ Covers(b, x)
      BY <1>2, <1>4, <1>6, <2>2 DEF Covers
    <3>2. x <= x
      BY <1>4
    <3> QED
      BY <1>1, <3>1, <3>2
  <2> QED
    BY <2>1, <2>2
<1> QED
  BY <1>3, <1>5, <1>6 DEF x, y

\* What spans a child spans its parent, and what spans a parent spans a child.
LEMMA SpansChild ==
    ASSUME NEW t \in TreePiece, NEW b \in Bin, b.size > 1
    PROVE  Spans(t, b) <=> \E c \in Children(b) : Spans(t, c)
<1>1. \A k \in Key : Covers(b, k) => \E c \in Children(b) : Covers(c, k)
  BY OneChildCovers DEF Children
<1>2. \A k \in Key : \A c \in Children(b) : Covers(c, k) => Covers(b, k)
  BY ChildCoveredByParent DEF Children
<1> QED
  BY <1>1, <1>2 DEF Spans

\* A node has no owners if no range has a key below it.
LEMMA NoneSpans ==
    ASSUME CellsOK, NEW b, NEW o, OwnersAre(b, o)
    PROVE  o = NoOwners <=> \A t \in TreePiece : ~Spans(t, b)
<1>1. ASSUME NEW s \in TreePiece, NEW e \in TreePiece, o = [start |-> s, end |-> e], s <= e,
             \A t \in TreePiece : Spans(t, b) <=> s <= t /\ t <= e
      PROVE  o # NoOwners /\ Spans(s, b)
  <2>1. s \in Nat /\ e \in Nat
    BY DEF CellsOK
  <2> QED
    BY <1>1, <2>1 DEF NoOwners
<1> QED
  BY <1>1 DEF OwnersAre

LEMMA OwnersUnique ==
    ASSUME CellsOK, NEW b, NEW o, NEW q, OwnersAre(b, o), OwnersAre(b, q)
    PROVE  o = q
<1>1. TreePiece \subseteq Nat
  BY DEF CellsOK
<1>2. ASSUME NEW x, OwnersAre(b, x), x # NoOwners, NEW y, OwnersAre(b, y), y # NoOwners
      PROVE  x = y
  <2>1. PICK s \in TreePiece, e \in TreePiece :
           /\ x = [start |-> s, end |-> e] /\ s <= e
           /\ \A t \in TreePiece : Spans(t, b) <=> s <= t /\ t <= e
    BY <1>2 DEF OwnersAre
  <2>2. PICK u \in TreePiece, v \in TreePiece :
           /\ y = [start |-> u, end |-> v] /\ u <= v
           /\ \A t \in TreePiece : Spans(t, b) <=> u <= t /\ t <= v
    BY <1>2 DEF OwnersAre
  <2>3. s \in Nat /\ e \in Nat /\ u \in Nat /\ v \in Nat
    BY <1>1
  <2>4. /\ s <= s /\ s <= e => u <= s /\ s <= v
        /\ s <= e /\ e <= e => u <= e /\ e <= v
        /\ u <= u /\ u <= v => s <= u /\ u <= e
        /\ u <= v /\ v <= v => s <= v /\ v <= e
    BY <2>1, <2>2
  <2>5. s = u /\ e = v
    BY <2>1, <2>2, <2>3, <2>4
  <2> QED
    BY <2>1, <2>2, <2>5
<1> QED
  BY <1>2, NoneSpans

\* binary_search_ge finds the first index from which on keys are not below.
LEMMA SearchFinds ==
    ASSUME NEW k, NEW lo \in Nat, NEW hi \in Nat, lo <= hi,
           \A i, j \in lo .. hi - 1 : i < j /\ keyRanges[i] >= k => keyRanges[j] >= k
    PROVE  /\ SearchGE(k, lo, hi) \in lo .. hi
           /\ \A i \in lo .. hi - 1 : keyRanges[i] >= k <=> i >= SearchGE(k, lo, hi)
<1> DEFINE S == {i \in lo .. hi - 1 : keyRanges[i] >= k} \cup {hi}
           r == SearchGE(k, lo, hi)
<1>1. S \in SUBSET Nat /\ S # {} /\ S \subseteq lo .. hi /\ hi \in S
  OBVIOUS
<1>2. r = Min(S)
  BY DEF SearchGE
<1> HIDE DEF r
<1>3. \A i \in lo .. hi - 1 : i \in S <=> keyRanges[i] >= k
  OBVIOUS
<1> HIDE DEF S
<1>4. r \in S /\ \A m \in S : r <= m
  BY <1>1, <1>2, LeastOf
<1>5. r \in lo .. hi
  BY <1>1, <1>4
<1>6. ASSUME NEW i \in lo .. hi - 1 PROVE keyRanges[i] >= k <=> i >= r
  <2>1. keyRanges[i] >= k => i >= r
    BY <1>3, <1>4, <1>5
  <2>2. ASSUME i >= r PROVE keyRanges[i] >= k
    <3>1. r \in lo .. hi - 1 /\ i \in Nat /\ r \in Nat
      BY <1>5, <2>2
    <3>2. keyRanges[r] >= k
      BY <1>3, <1>4, <3>1
    <3>3. CASE i = r
      BY <3>2, <3>3
    <3>4. CASE i # r
      <4>1. r < i
        BY <2>2, <3>1, <3>4
      <4> QED
        BY <3>1, <3>2, <4>1
    <3> QED
      BY <3>3, <3>4
  <2> QED
    BY <2>1, <2>2
<1> QED
  BY <1>5, <1>6 DEF r

\* The ends of key ranges are in order.
LEMMA RangesAscend ==
    ASSUME CellsOK, NEW k \in Key
    PROVE  \A i, j \in 0 .. 2 * NumTreePieces - 1 :
              i < j /\ keyRanges[i] >= k => keyRanges[j] >= k
<1> SUFFICES ASSUME NEW i \in 0 .. 2 * NumTreePieces - 1, NEW j \in 0 .. 2 * NumTreePieces - 1,
                    i < j, keyRanges[i] >= k
             PROVE  keyRanges[j] >= k
  OBVIOUS
<1> DEFINE t == i \div 2
           u == j \div 2
<1>1. NumTreePieces \in Nat \ {0} /\ TreePiece = 0 .. NumTreePieces - 1
  BY DEF CellsOK
<1>2. /\ t \in TreePiece /\ u \in TreePiece /\ t <= u
      /\ (i = 2 * t \/ i = 2 * t + 1) /\ t \in Nat
      /\ (j = 2 * u \/ j = 2 * u + 1) /\ u \in Nat
  BY <1>1
<1>3. t \in Nat /\ u \in Nat
  BY <1>1
<1> HIDE DEF t, u
<1>4. \A v \in TreePiece : /\ keyRanges[2 * v] \in Nat /\ keyRanges[2 * v + 1] \in Nat
                           /\ keyRanges[2 * v] <= keyRanges[2 * v + 1]
  BY KeySpaceType DEF CellsOK
<1>5. k \in Nat
  BY KeySpaceType
<1>6. CASE t = u
  <2>1. i = 2 * t /\ j = 2 * t + 1
    BY <1>2, <1>3, <1>6
  <2> QED
    BY <1>2, <1>4, <1>5, <2>1
<1>7. CASE t # u
  <2>1. t < u
    BY <1>2, <1>3, <1>7
  <2>2. keyRanges[2 * t + 1] < keyRanges[2 * u]
    BY <1>2, <2>1 DEF CellsOK
  <2>3. keyRanges[2 * t + 1] >= k
    BY <1>2, <1>4, <1>5
  <2>4. keyRanges[2 * u] >= k /\ keyRanges[2 * u + 1] >= k
    BY <1>2, <1>4, <1>5, <2>2, <2>3
  <2> QED
    BY <1>2, <2>4
<1> QED
  BY <1>6, <1>7

\* Where refine looks for the first owner of child j, and for what follows the
\* last one of child j - 1.
From(b, o, j) ==
    IF j = 0 THEN 2 * o.start
    ELSE IF j = BranchFactor THEN 2 * o.end + 2
    ELSE SearchGE(Child(b, j).first, 2 * o.start, 2 * o.end + 2)

\* x is the first key of child j.
FromOK(s, e, j, x, r) ==
    /\ r \in 2 * s .. 2 * e + 2
    /\ j < BranchFactor => \A t \in s .. e : x <= keyRanges[2 * t + 1] <=> 2 * t + 1 >= r
    /\ j > 0 => \A t \in s .. e : keyRanges[2 * t] < x <=> 2 * t < r

LEMMA FromIs ==
    ASSUME CellsOK, NEW b \in Bin, b.size > 1, NEW s \in TreePiece, NEW e \in TreePiece, s <= e,
           NEW o, o = [start |-> s, end |-> e], \A t \in TreePiece : Spans(t, b) <=> s <= t /\ t <= e,
           NEW j \in 0 .. BranchFactor,
           NEW x, x = b.first + j * (b.size \div BranchFactor)
    PROVE  FromOK(s, e, j, x, From(b, o, j))
<1> DEFINE r == From(b, o, j)
<1>1. /\ NumTreePieces \in Nat \ {0} /\ TreePiece = 0 .. NumTreePieces - 1
      /\ \A t \in TreePiece : keyRanges[2 * t] \in Nat /\ keyRanges[2 * t + 1] \in Nat
  BY KeySpaceType DEF CellsOK
<1>2. /\ s \in Nat /\ e \in Nat /\ s .. e \subseteq TreePiece
      /\ \A t \in s .. e : t \in Nat /\ s <= t /\ t <= e
  BY <1>1
<1>3. o.start = s /\ o.end = e
  OBVIOUS
<1>4. /\ b.first \in Nat /\ b.size \in Nat \ {0} /\ b.size \div BranchFactor \in Nat \ {0}
      /\ b.size = BranchFactor * (b.size \div BranchFactor)
      /\ BranchFactor \in Nat \ {0}
  BY BinWithin, Cut, KeyTreeAssumption
<1>5. \A t \in s .. e : b.first <= keyRanges[2 * t + 1] /\ keyRanges[2 * t] < b.first + b.size
  BY <1>2, SpansIs
<1>6. CASE j = 0
  <2>1. x = b.first /\ r = 2 * s
    BY <1>3, <1>4, <1>6 DEF From
  <2>2. \A t \in s .. e : 2 * t + 1 >= 2 * s
    BY <1>2
  <2>3. 2 * s \in 2 * s .. 2 * e + 2
    BY <1>2
  <2> QED
    BY <1>4, <1>5, <1>6, <2>1, <2>2, <2>3 DEF FromOK
<1>7. CASE j = BranchFactor
  <2>1. x = b.first + b.size /\ r = 2 * e + 2
    BY <1>3, <1>4, <1>7 DEF From
  <2>2. \A t \in s .. e : 2 * t < 2 * e + 2
    BY <1>2
  <2>3. 2 * e + 2 \in 2 * s .. 2 * e + 2
    BY <1>2
  <2> QED
    BY <1>4, <1>5, <1>7, <2>1, <2>2, <2>3 DEF FromOK
<1>8. CASE j # 0 /\ j # BranchFactor
  <2>1. j \in ChildIndex
    BY <1>4, <1>8 DEF ChildIndex
  <2>2. Child(b, j).first = x /\ Child(b, j) \in Bin
    BY <2>1, ChildIsBin
  <2>3. x \in Key /\ x \in Nat
    BY <2>2, CoversFirst, KeySpaceType
  <2>4. r = SearchGE(x, 2 * s, 2 * e + 2)
    BY <1>3, <1>8, <2>2 DEF From
  <2>5. 2 * s \in Nat /\ 2 * e + 2 \in Nat /\ 2 * s <= 2 * e + 2
        /\ 2 * s .. (2 * e + 2) - 1 \subseteq 0 .. 2 * NumTreePieces - 1
    BY <1>1, <1>2
  <2>6. \A m, n \in 2 * s .. (2 * e + 2) - 1 :
           m < n /\ keyRanges[m] >= x => keyRanges[n] >= x
    BY <2>3, <2>5, RangesAscend
  <2> HIDE DEF r
  <2>7. /\ r \in 2 * s .. 2 * e + 2
        /\ \A i \in 2 * s .. (2 * e + 2) - 1 : keyRanges[i] >= x <=> i >= r
    BY <2>4, <2>5, <2>6, SearchFinds
  <2>8. ASSUME NEW t \in s .. e
        PROVE  /\ x <= keyRanges[2 * t + 1] <=> 2 * t + 1 >= r
               /\ keyRanges[2 * t] < x <=> 2 * t < r
    <3>1. 2 * t \in 2 * s .. (2 * e + 2) - 1 /\ 2 * t + 1 \in 2 * s .. (2 * e + 2) - 1
      BY <1>2
    <3>2. keyRanges[2 * t] \in Nat /\ keyRanges[2 * t + 1] \in Nat /\ r \in Nat /\ t \in Nat
      BY <1>1, <1>2, <2>5, <2>7
    <3>3. /\ keyRanges[2 * t] >= x <=> 2 * t >= r
          /\ keyRanges[2 * t + 1] >= x <=> 2 * t + 1 >= r
      BY <2>7, <3>1
    <3> QED
      BY <2>3, <3>2, <3>3
  <2> QED
    BY <2>7, <2>8 DEF FromOK, r
<1> QED
  BY <1>6, <1>7, <1>8 DEF r

\* refine finds the owners of a child among those of its parent.
LEMMA OwnersOfChild ==
    ASSUME CellsOK, NEW b \in Bin, b.size > 1, NEW o, OwnersAre(b, o), NEW i \in ChildIndex
    PROVE  OwnersAre(Child(b, i), ChildOwners(b, o, i))
<1> DEFINE c == Child(b, i)
           d == b.size \div BranchFactor
           range == [start |-> From(b, o, i) \div 2, end |-> (From(b, o, i + 1) - 1) \div 2]
<1>1. ChildOwners(b, o, i) = IF o = NoOwners \/ range.end < range.start THEN NoOwners ELSE range
  BY DEF ChildOwners, From
<1>2. c \in Bin /\ c.first = b.first + i * d /\ c.size = d /\ c \in Children(b)
  BY ChildIsBin DEF Children
<1>3. \A t \in TreePiece : Spans(t, c) => Spans(t, b)
  BY <1>2, SpansChild
<1>4. /\ b.first \in Nat /\ d \in Nat \ {0} /\ BranchFactor \in Nat \ {0}
      /\ i \in 0 .. BranchFactor /\ i + 1 \in 0 .. BranchFactor /\ i < BranchFactor /\ i + 1 > 0
      /\ i \in Nat
  BY BinWithin, Cut, KeyTreeAssumption DEF ChildIndex
<1>5. CASE o = NoOwners
  <2>1. \A t \in TreePiece : ~Spans(t, b)
    BY <1>5, NoneSpans
  <2> QED
    BY <1>1, <1>3, <1>5, <2>1 DEF OwnersAre
<1>6. CASE o # NoOwners
  <2>1. PICK s \in TreePiece, e \in TreePiece :
           /\ o = [start |-> s, end |-> e] /\ s <= e
           /\ \A t \in TreePiece : Spans(t, b) <=> s <= t /\ t <= e
    BY <1>6 DEF OwnersAre
  <2>2. /\ TreePiece = 0 .. NumTreePieces - 1 /\ NumTreePieces \in Nat /\ s \in Nat /\ e \in Nat
        /\ \A t \in TreePiece : t \in Nat
        /\ \A t \in TreePiece : keyRanges[2 * t] \in Nat /\ keyRanges[2 * t + 1] \in Nat
    <3>1. TreePiece = 0 .. NumTreePieces - 1 /\ NumTreePieces \in Nat
      BY DEF CellsOK
    <3>2. \A t \in TreePiece : keyRanges[2 * t] \in Nat /\ keyRanges[2 * t + 1] \in Nat
      BY KeySpaceType DEF CellsOK
    <3>3. \A t \in TreePiece : t \in Nat
      BY <3>1
    <3> QED
      BY <3>1, <3>2, <3>3
  <2> DEFINE f == From(b, o, i)
             g == From(b, o, i + 1)
             x == b.first + i * d
             y == b.first + (i + 1) * d
  <2>3. FromOK(s, e, i, x, f)
    BY <1>4, <2>1, FromIs
  <2>4. FromOK(s, e, i + 1, y, g)
    BY <1>4, <2>1, FromIs
  <2>5. c.first = x /\ c.first + c.size = y
    <3>1. (i + 1) * d = i * d + d
      BY <1>4
    <3>2. i * d \in Nat
      BY <1>4
    <3> HIDE DEF d, c
    <3> QED
      BY <1>2, <1>4, <3>1, <3>2
  <2>6. \A t \in TreePiece : Spans(t, c) <=> x <= keyRanges[2 * t + 1] /\ keyRanges[2 * t] < y
    BY <1>2, <2>5, SpansIs
  <2>7. f \in 2 * s .. 2 * e + 2 /\ g \in 2 * s .. 2 * e + 2
    BY <2>3, <2>4 DEF FromOK
  <2>8. \A t \in s .. e : /\ x <= keyRanges[2 * t + 1] <=> 2 * t + 1 >= f
                          /\ keyRanges[2 * t] < y <=> 2 * t < g
    BY <1>4, <2>3, <2>4 DEF FromOK
  <2>9. range.start = f \div 2 /\ range.end = (g - 1) \div 2
    OBVIOUS
  <2>10. range = [start |-> range.start, end |-> range.end]
    OBVIOUS
  <2> HIDE DEF f, g, x, y, c, range
  <2> DEFINE u == range.start
             v == range.end
  <2>11. u \in s .. e + 1 /\ v \in s - 1 .. e
    BY <2>2, <2>7, <2>9
  <2>12. \A t \in s .. e : /\ 2 * t + 1 >= f <=> u <= t
                           /\ 2 * t < g <=> t <= v
    BY <2>2, <2>7, <2>9
  <2>13. \A t \in TreePiece : Spans(t, c) <=> s <= t /\ t <= e /\ u <= t /\ t <= v
    <3> TAKE t \in TreePiece
    <3>1. CASE s <= t /\ t <= e
      <4>1. t \in s .. e
        BY <2>2, <3>1
      <4> QED
        BY <2>6, <2>8, <2>12, <3>1, <4>1
    <3>2. CASE ~(s <= t /\ t <= e)
      BY <1>3, <2>1, <3>2
    <3> QED
      BY <3>1, <3>2
  <2>14. ChildOwners(b, o, i) = IF v < u THEN NoOwners ELSE [start |-> u, end |-> v]
    BY <1>1, <1>6, <2>10
  <2> HIDE DEF u, v
  <2>15. CASE v < u
    <3>1. \A t \in TreePiece : ~Spans(t, c)
      BY <2>2, <2>11, <2>13, <2>15
    <3> QED
      BY <2>14, <2>15, <3>1 DEF OwnersAre, c
  <2>16. CASE ~(v < u)
    <3>1. u \in TreePiece /\ v \in TreePiece /\ u <= v
      BY <2>2, <2>11, <2>16
    <3>2. \A t \in TreePiece : Spans(t, c) <=> u <= t /\ t <= v
      BY <2>2, <2>11, <2>13
    <3> QED
      BY <2>14, <2>16, <3>1, <3>2 DEF OwnersAre, c
  <2> QED
    BY <2>15, <2>16
<1> QED
  BY <1>5, <1>6

\* Ownership: the owners of every node are those whose ranges it cuts.
LEMMA OwnershipIs ==
    ASSUME CellsOK
    PROVE  \A b \in Bin : OwnersAre(b, Ownership[b])
<1> DEFINE root == [start |-> 0, end |-> NumTreePieces - 1]
           Next1(b, o) == IF b = RootBin THEN root ELSE ChildOwners(Parent(b), o, Rank(b))
           Body(f) == [b \in Bin |-> Next1(b, f[Parent(b)])]
           own == CHOOSE f : f = Body(f)
<1>1. Ownership = own
  <2>1. Ownership = CHOOSE f : f = [b \in Bin |-> IF b = RootBin THEN root
                                                  ELSE ChildOwners(Parent(b), f[Parent(b)], Rank(b))]
    BY Zenon DEF Ownership
  <2> QED
    BY <2>1
<1>2. OwnersAre(RootBin, root)
  <2>1. /\ TreePiece = 0 .. NumTreePieces - 1 /\ NumTreePieces \in Nat \ {0}
        /\ 0 \in TreePiece /\ NumTreePieces - 1 \in TreePiece /\ 0 <= NumTreePieces - 1
        /\ \A t \in TreePiece : 0 <= t /\ t <= NumTreePieces - 1
    BY DEF CellsOK
  <2>2. \A t \in TreePiece : /\ keyRanges[2 * t] \in Key /\ keyRanges[2 * t] \in Nat
                             /\ keyRanges[2 * t] <= keyRanges[2 * t + 1]
    BY KeySpaceType DEF CellsOK
  <2>3. \A t \in TreePiece : Spans(t, RootBin)
    BY <2>2, RootIsBin DEF Spans
  <2> QED
    BY <2>1, <2>3 DEF OwnersAre
<1> HIDE DEF root
<1>3. ASSUME NEW b \in Bin, b # RootBin, NEW o, OwnersAre(Parent(b), o)
      PROVE  OwnersAre(b, Next1(b, o))
  <2>1. /\ Parent(b) \in Bin /\ Parent(b).size > 1
        /\ Rank(b) \in ChildIndex /\ b = Child(Parent(b), Rank(b))
    BY <1>3, ParentOf, RankIs
  <2>2. OwnersAre(Child(Parent(b), Rank(b)), ChildOwners(Parent(b), o, Rank(b)))
    BY <1>3, <2>1, OwnersOfChild
  <2>3. Next1(b, o) = ChildOwners(Parent(b), o, Rank(b))
    BY <1>3
  <2> HIDE DEF Next1
  <2> QED
    BY <2>1, <2>2, <2>3
<1>4. \A o : Next1(RootBin, o) = root
  OBVIOUS
<1>5. RootBin \in Bin
  BY RootIsBin
<1> HIDE DEF Next1
<1>6. \A b \in Bin : \E o : OwnersAre(b, o)
  <2> DEFINE S == {b \in Bin : \E o : OwnersAre(b, o)}
  <2>1. RootBin \in S
    BY <1>2, <1>5
  <2>2. \A b \in Bin \ {RootBin} : Parent(b) \in S => b \in S
    BY <1>3
  <2> HIDE DEF S
  <2>3. Bin \subseteq S
    BY <2>1, <2>2, FromTheRoot
  <2> QED
    BY <2>3 DEF S
<1>7. \E f : f = Body(f)
  <2> DEFINE g == [b \in Bin |-> CHOOSE o : OwnersAre(b, o)]
  <2>1. \A b \in Bin : OwnersAre(b, g[b])
    BY <1>6
  <2> HIDE DEF g
  <2>2. ASSUME NEW b \in Bin PROVE g[b] = Next1(b, g[Parent(b)])
    <3>1. CASE b = RootBin
      <4>1. Next1(b, g[Parent(b)]) = root
        BY <1>4, <3>1
      <4> QED
        BY <1>2, <2>1, <3>1, <4>1, OwnersUnique
    <3>2. CASE b # RootBin
      <4>1. Parent(b) \in Bin
        BY <3>2, ParentOf
      <4>2. OwnersAre(b, Next1(b, g[Parent(b)]))
        BY <1>3, <2>1, <3>2, <4>1
      <4> QED
        BY <2>1, <4>2, OwnersUnique
    <3> QED
      BY <3>1, <3>2
  <2>3. g = Body(g)
    <3>1. g = [b \in Bin |-> g[b]]
      BY DEF g
    <3> QED
      BY <2>2, <3>1
  <2> QED
    BY <2>3
<1>8. own = Body(own)
  <2> HIDE DEF Body
  <2> QED
    BY <1>7
<1> HIDE DEF own
<1>9. \A b \in Bin : own[b] = Next1(b, own[Parent(b)])
  BY <1>8
<1> DEFINE S == {b \in Bin : OwnersAre(b, own[b])}
<1>10. RootBin \in S
  BY <1>2, <1>4, <1>5, <1>9
<1>11. \A b \in Bin \ {RootBin} : Parent(b) \in S => b \in S
  BY <1>3, <1>9
<1> HIDE DEF S
<1>12. Bin \subseteq S
  BY <1>10, <1>11, FromTheRoot
<1> QED
  BY <1>1, <1>12 DEF S

\* Two that own a node have their cells below it.
LEMMA OwnersBelow ==
    ASSUME CellsOK, NEW b \in Bin, NEW t \in TreePiece, NEW u \in TreePiece, t # u,
           Spans(t, b), Spans(u, b)
    PROVE  b.size > 1 /\ \A k \in Key : Covers(cellOf[t], k) => Covers(b, k)
<1> DEFINE c == cellOf[t]
<1>1. /\ c \in Bin /\ cellOf[u] \in Bin
      /\ \A v \in TreePiece : /\ Covers(cellOf[v], keyRanges[2 * v]) /\ keyRanges[2 * v] \in Key
                              /\ Covers(cellOf[v], keyRanges[2 * v + 1]) /\ keyRanges[2 * v + 1] \in Key
  BY DEF CellsOK
<1>2. ASSUME NEW v \in TreePiece, Spans(v, b)
      PROVE  \E k \in Key : Covers(b, k) /\ Covers(cellOf[v], k)
  <2>1. PICK k \in Key : Covers(b, k) /\ keyRanges[2 * v] <= k /\ k <= keyRanges[2 * v + 1]
    BY <1>2 DEF Spans
  <2>2. /\ cellOf[v].first \in Nat /\ cellOf[v].size \in Nat
        /\ keyRanges[2 * v] \in Nat /\ keyRanges[2 * v + 1] \in Nat /\ k \in Nat
    BY <1>1, BinWithin, KeySpaceType DEF CellsOK
  <2>3. /\ cellOf[v].first <= keyRanges[2 * v]
        /\ keyRanges[2 * v + 1] < cellOf[v].first + cellOf[v].size
    BY <1>1 DEF Covers
  <2>4. cellOf[v].first <= k /\ k < cellOf[v].first + cellOf[v].size
    BY <2>1, <2>2, <2>3
  <2> QED
    BY <2>1, <2>4 DEF Covers
<1>3. PICK k \in Key : Covers(b, k) /\ Covers(c, k)
  BY <1>2
<1>4. PICK m \in Key : Covers(b, m) /\ Covers(cellOf[u], m)
  BY <1>2
<1>5. Apart(cellOf[t], cellOf[u])
  <2>1. t \in Nat /\ u \in Nat
    BY DEF CellsOK
  <2>2. t < u \/ u < t
    BY <2>1
  <2>3. Apart(cellOf[t], cellOf[u]) \/ Apart(cellOf[u], cellOf[t])
    BY <2>2 DEF CellsOK
  <2> QED
    BY <2>3 DEF Apart
<1>6. b.size \in Nat \ {0} /\ c.size \in Nat \ {0}
  BY <1>1, BinWithin
<1> HIDE DEF c
<1>7. ASSUME b.size <= c.size PROVE FALSE
  <2>1. c \in Path(b) /\ b.first \in Key /\ Covers(b, b.first)
    BY <1>1, <1>3, <1>7, Nested, CoversFirst
  <2>2. Covers(c, m)
    BY <1>1, <1>4, <2>1, PathCovers
  <2> QED
    BY <1>4, <1>5, <2>2 DEF Apart, c
<1>8. c.size < b.size
  BY <1>6, <1>7
<1>9. b \in Path(c)
  BY <1>1, <1>3, <1>6, <1>8, Nested
<1> QED
  BY <1>1, <1>6, <1>8, <1>9, PathCovers DEF c

\* The particles a PE has of a node are those of a TreePiece whose range it cuts.
LEMMA MineSpans ==
    ASSUME CellsOK, NEW pe, NEW b, NEW p \in Mine(pe, b)
    PROVE  \E u \in TreePiece : homeOf[u] = pe /\ tpCounts[u] > 0 /\ Spans(u, b)
<1>1. p \in Particle /\ Covers(b, keyOf[p])
  BY DEF Mine, Present
<1>2. PICK u \in TreePiece : homeOf[u] = pe /\ Covers(cellOf[u], keyOf[p])
  BY DEF Mine
<1>3. p \in Present(cellOf[u])
  BY <1>1, <1>2 DEF Present
<1>4. /\ tpCounts[u] > 0 /\ keyOf[p] \in Key
      /\ keyRanges[2 * u] <= keyOf[p] /\ keyOf[p] <= keyRanges[2 * u + 1]
  BY <1>1, <1>3 DEF CellsOK
<1> QED
  BY <1>1, <1>2, <1>4 DEF Spans

\* One of several owners with particles has all of them below the node.
LEMMA OwnersHave ==
    ASSUME CellsOK, NEW b \in Bin, NEW t \in TreePiece, tpCounts[t] > 0, Spans(t, b),
           Several(Ownership[b])
    PROVE  b.size > 1 /\ Mine(homeOf[t], b) # {}
<1>1. OwnersAre(b, Ownership[b])
  BY OwnershipIs
<1>2. Ownership[b] # NoOwners
  BY DEF Several, NoOwners
<1>3. PICK s \in TreePiece, e \in TreePiece :
         /\ Ownership[b] = [start |-> s, end |-> e] /\ s <= e
         /\ \A u \in TreePiece : Spans(u, b) <=> s <= u /\ u <= e
  BY <1>1, <1>2 DEF OwnersAre
<1>4. s \in Nat /\ e \in Nat /\ t \in Nat /\ s < e
  BY <1>3 DEF CellsOK, Several
<1>5. PICK u \in TreePiece : u # t /\ Spans(u, b)
  <2>1. s <= s /\ s <= e /\ e <= e
    BY <1>4
  <2>2. Spans(s, b) /\ Spans(e, b)
    BY <1>3, <2>1
  <2>3. s # t \/ e # t
    BY <1>4
  <2> QED
    BY <2>2, <2>3
<1>6. b.size > 1 /\ \A k \in Key : Covers(cellOf[t], k) => Covers(b, k)
  BY <1>5, OwnersBelow
<1>7. PICK p : p \in Present(cellOf[t])
  BY DEF CellsOK
<1>8. p \in Particle /\ Covers(cellOf[t], keyOf[p]) /\ keyOf[p] \in Key
  BY <1>7 DEF Present, CellsOK
<1>9. p \in Mine(homeOf[t], b)
  BY <1>6, <1>8 DEF Mine, Present
<1> QED
  BY <1>6, <1>9

\* A node with one owner: only that one's PE has particles of it.
LEMMA OneOwner ==
    ASSUME CellsOK, NEW b \in Bin, NEW t \in TreePiece, Spans(t, b), ~Several(Ownership[b])
    PROVE  /\ Ownership[b] = [start |-> t, end |-> t]
           /\ \A u \in TreePiece : Spans(u, b) => u = t
           /\ \A pe : Mine(pe, b) # {} => homeOf[t] = pe
<1>1. OwnersAre(b, Ownership[b])
  BY OwnershipIs
<1>2. Ownership[b] # NoOwners
  BY <1>1, NoneSpans
<1>3. PICK s \in TreePiece, e \in TreePiece :
         /\ Ownership[b] = [start |-> s, end |-> e] /\ s <= e
         /\ \A u \in TreePiece : Spans(u, b) <=> s <= u /\ u <= e
  BY <1>1, <1>2 DEF OwnersAre
<1>4. TreePiece \subseteq Nat
  BY DEF CellsOK
<1>5. ~(e > s)
  BY <1>3 DEF Several
<1>6. s \in Nat /\ e \in Nat /\ s = e
  BY <1>3, <1>4, <1>5
<1>7. \A u \in TreePiece : Spans(u, b) => u = s
  <2> TAKE u \in TreePiece
  <2> HAVE Spans(u, b)
  <2>1. u \in Nat /\ s <= u /\ u <= e
    BY <1>3, <1>4
  <2> QED
    BY <1>6, <2>1
<1>8. \A pe : Mine(pe, b) # {} => homeOf[t] = pe
  <2> TAKE pe
  <2> HAVE Mine(pe, b) # {}
  <2>1. PICK u \in TreePiece : homeOf[u] = pe /\ Spans(u, b)
    BY MineSpans
  <2> QED
    BY <1>7, <2>1
<1> QED
  BY <1>3, <1>6, <1>7, <1>8

\* What one PE refines, the owners with particles refine, too.
LEMMA SplitsAgree ==
    ASSUME CellsOK, NEW b \in Bin, NEW t \in TreePiece, tpCounts[t] > 0, Spans(t, b),
           NEW pe, Splits(pe, b, Ownership)
    PROVE  Splits(homeOf[t], b, Ownership)
<1>1. CASE Several(Ownership[b])
  <2>1. b.size > 1 /\ Mine(homeOf[t], b) # {}
    BY <1>1, OwnersHave
  <2> QED
    BY <1>1, <2>1 DEF Splits
<1>2. CASE ~Several(Ownership[b])
  <2>1. Mine(pe, b) # {}
    BY <1>2 DEF Splits, Separable
  <2>2. homeOf[t] = pe
    BY <1>2, <2>1, OneOwner
  <2> QED
    BY <2>2
<1> QED
  BY <1>1, <1>2

LEMMA NodesAgree ==
    ASSUME CellsOK, NEW pe, NEW b \in Nodes(pe), NEW t \in TreePiece, tpCounts[t] > 0, Spans(t, b)
    PROVE  b \in Nodes(homeOf[t]) /\ (b \in Inner(pe) => b \in Inner(homeOf[t]))
<1>1. b \in Bin /\ \A a \in Path(b) \ {b} : Splits(pe, a, Ownership)
  BY DEF Nodes
<1>2. ASSUME NEW a \in Path(b) \ {b} PROVE Splits(homeOf[t], a, Ownership)
  <2>1. a \in Bin /\ \A k \in Key : Covers(b, k) => Covers(a, k)
    BY <1>1, PathCovers
  <2>2. Spans(t, a)
    BY <2>1 DEF Spans
  <2> QED
    BY <1>1, <2>1, <2>2, SplitsAgree
<1>3. b \in Nodes(homeOf[t])
  BY <1>1, <1>2 DEF Nodes
<1>4. ASSUME b \in Inner(pe) PROVE b \in Inner(homeOf[t])
  <2>1. Splits(pe, b, Ownership)
    BY <1>4 DEF Inner
  <2> QED
    BY <1>1, <1>3, <2>1, SplitsAgree DEF Inner
<1> QED
  BY <1>3, <1>4

\* The TreePieces with particles among the owners of a node.
LEMMA ServingAre ==
    ASSUME CellsOK, NEW b \in Bin, Ownership[b] # NoOwners
    PROVE  Serving(Ownership[b]) = {t \in TreePiece : tpCounts[t] > 0 /\ Spans(t, b)}
<1>1. OwnersAre(b, Ownership[b])
  BY OwnershipIs
<1>2. TreePiece = 0 .. NumTreePieces - 1 /\ NumTreePieces \in Nat
  BY DEF CellsOK
<1>3. PICK s \in TreePiece, e \in TreePiece :
         /\ Ownership[b] = [start |-> s, end |-> e] /\ s <= e
         /\ \A u \in TreePiece : Spans(u, b) <=> s <= u /\ u <= e
  BY <1>1 DEF OwnersAre
<1>4. \A t : t \in s .. e <=> t \in TreePiece /\ Spans(t, b)
  BY <1>2, <1>3
<1> QED
  BY <1>3, <1>4 DEF Serving

\* The owners of a node are those of its children together.
LEMMA OwnersTogether ==
    ASSUME CellsOK, NEW b \in Bin, b.size > 1
    PROVE  OwnersFromChildren({Ownership[c] : c \in Children(b)}) = Ownership[b]
<1> DEFINE all == {Ownership[c] : c \in Children(b)}
           owned == all \ {NoOwners}
           starts == {o.start : o \in owned}
           ends == {o.end : o \in owned}
           q == OwnersFromChildren(all)
<1>1. q = IF owned = {} THEN NoOwners ELSE [start |-> Min(starts), end |-> Max(ends)]
  BY DEF OwnersFromChildren
<1>2. \A c \in Children(b) : c \in Bin /\ OwnersAre(c, Ownership[c])
  BY AboveChild, OwnershipIs
<1>3. OwnersAre(b, Ownership[b])
  BY OwnershipIs
<1>4. \A t \in TreePiece : Spans(t, b) <=> \E c \in Children(b) : Spans(t, c)
  BY SpansChild
<1>5. TreePiece = 0 .. NumTreePieces - 1 /\ NumTreePieces \in Nat
  BY DEF CellsOK
<1> DEFINE Spread(o) == /\ o.start \in TreePiece /\ o.end \in TreePiece /\ o.start <= o.end
                        /\ Spans(o.start, b) /\ Spans(o.end, b)
<1>6. \A o \in owned : Spread(o)
  <2> TAKE o \in owned
  <2>1. PICK c \in Children(b) : o = Ownership[c] /\ OwnersAre(c, o) /\ o # NoOwners
    BY <1>2
  <2>2. PICK s \in TreePiece, e \in TreePiece :
           /\ o = [start |-> s, end |-> e] /\ s <= e
           /\ \A u \in TreePiece : Spans(u, c) <=> s <= u /\ u <= e
    BY <2>1 DEF OwnersAre
  <2>3. s <= s /\ e <= e
    BY <1>5
  <2>4. Spans(s, c) /\ Spans(e, c)
    BY <2>2, <2>3
  <2> QED
    BY <1>4, <2>2, <2>4
<1>7. \A t \in TreePiece : Spans(t, b) => \E o \in owned : o.start <= t /\ t <= o.end
  <2> TAKE t \in TreePiece
  <2> HAVE Spans(t, b)
  <2>1. PICK c \in Children(b) : Spans(t, c)
    BY <1>4
  <2>2. Ownership[c] # NoOwners /\ OwnersAre(c, Ownership[c])
    BY <1>2, <2>1, NoneSpans
  <2>3. Ownership[c] \in owned
    BY <2>2
  <2>4. PICK s \in TreePiece, e \in TreePiece :
           /\ Ownership[c] = [start |-> s, end |-> e]
           /\ \A u \in TreePiece : Spans(u, c) <=> s <= u /\ u <= e
    BY <2>2 DEF OwnersAre
  <2>5. Ownership[c].start <= t /\ t <= Ownership[c].end
    BY <2>1, <2>4
  <2> QED
    BY <2>3, <2>5
<1> HIDE DEF owned, all
<1>8. CASE owned = {}
  <2>1. \A t \in TreePiece : ~Spans(t, b)
    BY <1>7, <1>8
  <2>2. q = NoOwners
    BY <1>1, <1>8
  <2>3. Ownership[b] = NoOwners
    BY <1>3, <2>1, NoneSpans
  <2> QED
    BY <2>2, <2>3 DEF all
<1>9. CASE owned # {}
  <2>1. starts \in SUBSET TreePiece /\ starts # {} /\ ends \in SUBSET TreePiece /\ ends # {}
    BY <1>6, <1>9
  <2>2. \A o \in owned : o.start \in starts /\ o.end \in ends
    OBVIOUS
  <2>3. \A s \in starts : \E o \in owned : s = o.start
    OBVIOUS
  <2>4. \A e \in ends : \E o \in owned : e = o.end
    OBVIOUS
  <2> HIDE DEF starts, ends
  <2> DEFINE s == Min(starts)
             e == Max(ends)
  <2>5. s \in starts /\ \A m \in starts : s <= m
    <3>1. starts \in SUBSET Nat
      BY <1>5, <2>1
    <3> QED
      BY <2>1, <3>1, LeastOf
  <2>6. e \in ends /\ \A m \in ends : m <= e
    <3>1. ends \in SUBSET (0 .. NumTreePieces)
      BY <1>5, <2>1
    <3> QED
      BY <1>5, <2>1, <3>1, GreatestOf
  <2>7. q = [start |-> s, end |-> e]
    BY <1>1, <1>9
  <2> HIDE DEF s, e, q
  <2>8. s \in TreePiece /\ e \in TreePiece /\ Spans(s, b) /\ Spans(e, b)
    BY <1>6, <2>3, <2>4, <2>5, <2>6
  <2>9. PICK u \in TreePiece, v \in TreePiece :
           /\ Ownership[b] = [start |-> u, end |-> v] /\ u <= v
           /\ \A t \in TreePiece : Spans(t, b) <=> u <= t /\ t <= v
    <3>1. Ownership[b] # NoOwners
      BY <1>3, <2>8, NoneSpans
    <3> QED
      BY <1>3, <3>1 DEF OwnersAre
  <2>10. s \in Nat /\ e \in Nat /\ u \in Nat /\ v \in Nat
    BY <1>5, <2>8, <2>9
  <2>11. u <= s /\ e <= v
    BY <2>8, <2>9
  <2>12. s <= u
    <3>1. Spans(u, b)
      BY <2>9, <2>10
    <3>2. PICK o \in owned : o.start <= u /\ u <= o.end
      BY <1>7, <3>1
    <3>3. o.start \in Nat /\ s <= o.start
      BY <1>5, <1>6, <2>2, <2>5
    <3> QED
      BY <2>10, <3>2, <3>3
  <2>13. v <= e
    <3>1. Spans(v, b)
      BY <2>9, <2>10
    <3>2. PICK o \in owned : o.start <= v /\ v <= o.end
      BY <1>7, <3>1
    <3>3. o.end \in Nat /\ o.end <= e
      BY <1>5, <1>6, <2>2, <2>6
    <3> QED
      BY <2>10, <3>2, <3>3
  <2>14. s = u /\ e = v
    BY <2>10, <2>11, <2>12, <2>13
  <2> QED
    BY <2>7, <2>9, <2>14 DEF q, all
<1> QED
  BY <1>8, <1>9

\* What buildTree and makeMoments leave of a PE's own tree.
LEMMA WalkedFacts ==
    ASSUME Input, NEW pe \in PE
    PROVE  /\ DOMAIN walked[pe] = Nodes(pe) /\ Nodes(pe) \subseteq Bin
           /\ \A b \in Nodes(pe) :
                 /\ walked[pe][b].owners = Ownership[b]
                 /\ walked[pe][b].numChildren = IF b \in Inner(pe) THEN BranchFactor ELSE 0
                 /\ walked[pe][b].type = TypesOf(pe)[b]
                 /\ b \in Inner(pe) => walked[pe][b].type \in {"Internal", "Boundary"}
                 /\ b \notin Inner(pe) => walked[pe][b].type = LeafType(pe, b, Ownership[b])
<1>1. walked[pe] = Walked(pe)
  BY DEF Input
<1> DEFINE node(b) ==
        [type |-> TypesOf(pe)[b],
         owners |-> Ownership[b],
         numChildren |-> IF b \in Inner(pe) THEN BranchFactor ELSE 0,
         ready |-> IF b \in Inner(pe)
                   THEN Cardinality({c \in Children(b) : TypesOf(pe)[c] \in Here})
                   ELSE 0,
         mass |-> IF TypesOf(pe)[b] \in Here THEN Mass(Mine(pe, b)) ELSE 0]
<1>2. walked[pe] = [b \in Nodes(pe) |-> node(b)]
  BY <1>1, WalkedIs, Zenon
<1>3. \A b : /\ node(b).type = TypesOf(pe)[b] /\ node(b).owners = Ownership[b]
             /\ node(b).numChildren = IF b \in Inner(pe) THEN BranchFactor ELSE 0
  OBVIOUS
<1> HIDE DEF node
<1>4. \A b \in Nodes(pe) :
         /\ b \in Inner(pe) => TypesOf(pe)[b] \in {"Internal", "Boundary"}
         /\ b \notin Inner(pe) => TypesOf(pe)[b] = LeafType(pe, b, Ownership[b])
  BY TypesAre DEF TypeFromChildren
<1>5. Nodes(pe) \subseteq Bin
  BY DEF Nodes
<1> QED
  BY <1>2, <1>3, <1>4, <1>5

\* Put together again from below, the owners are what they were.
LEMMA FinalOwnersAre ==
    ASSUME Input, NEW pe \in PE
    PROVE  \A b \in Nodes(pe) : FinalOwners(pe)[b] = Ownership[b]
<1> DEFINE N == Nodes(pe)
           W == walked[pe]
           own(b) == Ownership[b]
           next(b, f) == IF W[b].type # "Boundary" THEN W[b].owners
                         ELSE OwnersFromChildren({f[c] : c \in Children(b)})
           Body(f) == [b \in N |-> next(b, f)]
           h == FinalOwners(pe)
<1>1. CellsOK
  BY CellFacts
<1>2. /\ DOMAIN W = N /\ N \subseteq Bin
      /\ \A b \in N : /\ W[b].owners = own(b)
                      /\ W[b].type = "Boundary" => b \in Inner(pe)
  BY WalkedFacts DEF LeafType
<1>3. \A b \in N : W[b].type = "Boundary" =>
         /\ b \in Bin /\ b.size > 1
         /\ \A c \in Children(b) : c \in N /\ c.size < b.size
  BY <1>2, NodesDown
<1>4. h = CHOOSE f : f = Body(f)
  BY <1>2 DEF FinalOwners, FinalOwnersBody
<1>5. ASSUME NEW b \in N, NEW f,
             W[b].type = "Boundary" => \A c \in Children(b) : f[c] = own(c)
      PROVE  next(b, f) = own(b)
  <2>1. CASE W[b].type # "Boundary"
    BY <1>2, <2>1
  <2>2. CASE W[b].type = "Boundary"
    <3>1. {f[c] : c \in Children(b)} = {own(c) : c \in Children(b)}
      BY <1>5, <2>2
    <3>2. OwnersFromChildren({own(c) : c \in Children(b)}) = own(b)
      BY <1>1, <1>3, <2>2, OwnersTogether
    <3> QED
      BY <2>2, <3>1, <3>2
  <2> QED
    BY <2>1, <2>2
<1> HIDE DEF next, own, h, N, W
<1>6. \E f : f = Body(f)
  <2> DEFINE g == [b \in N |-> own(b)]
  <2>1. \A b \in N : next(b, g) = own(b)
    <3> TAKE b \in N
    <3>1. W[b].type = "Boundary" => \A c \in Children(b) : g[c] = own(c)
      BY <1>3
    <3> HIDE DEF g
    <3> QED
      BY <1>5, <3>1
  <2>2. Body(g) = g
    BY <2>1
  <2> QED
    BY <2>2
<1>7. h = Body(h)
  <2> HIDE DEF Body
  <2> QED
    BY <1>4, <1>6
<1>8. \A b \in N : h[b] = next(b, h)
  BY <1>7
<1> DEFINE Bad == {n \in Nat : \E b \in N : n = b.size /\ h[b] # own(b)}
<1>9. Bad = {}
  <2> SUFFICES ASSUME Bad # {} PROVE FALSE
    OBVIOUS
  <2>1. Bad \in SUBSET Nat
    OBVIOUS
  <2>2. PICK n \in Bad : \A m \in Bad : n <= m
    <3> HIDE DEF Bad
    <3> QED
      BY <2>1, Least
  <2>3. PICK b \in N : n = b.size /\ h[b] # own(b)
    BY <2>2
  <2>4. W[b].type = "Boundary" => \A c \in Children(b) : h[c] = own(c)
    <3> SUFFICES ASSUME W[b].type = "Boundary", NEW c \in Children(b) PROVE h[c] = own(c)
      OBVIOUS
    <3>1. c \in N /\ c.size < b.size /\ b \in Bin
      BY <1>3
    <3>2. c.size \in Nat /\ b.size \in Nat
      BY <1>2, <3>1, BinWithin
    <3>3. c.size \notin Bad
      BY <2>2, <2>3, <3>1, <3>2
    <3> QED
      BY <3>1, <3>2, <3>3
  <2>5. h[b] = own(b)
    BY <1>5, <1>8, <2>4
  <2> QED
    BY <2>3, <2>5
<1>10. \A b \in N : h[b] = own(b)
  <2> TAKE b \in N
  <2>1. b.size \in Nat
    BY <1>2, BinWithin
  <2> QED
    BY <1>9, <2>1
<1> QED
  BY <1>10 DEF h, own, N

----------------------------------------------------------------------------
(* Whom to ask. *)

\* TreePiece t's PE has built children of b, or b with its particles.
HasBelow(t, b) ==
    t \in TreePiece /\ b \in DOMAIN walked[homeOf[t]] /\ walked[homeOf[t]][b].numChildren > 0
HasBucket(t, b) ==
    t \in TreePiece /\ b \in DOMAIN walked[homeOf[t]] /\ walked[homeOf[t]][b].type = "Bucket"

\* The owners put down with a node have what may be asked of them.
NodeServed(b, n) ==
    /\ n.type \in {"Internal", "Boundary", "Remote"} =>
          Serving(n.owners) # {} /\ \A t \in Serving(n.owners) : HasBelow(t, b)
    /\ n.type \in {"Bucket", "RemoteBucket"} =>
          n.owners.start = n.owners.end /\ HasBucket(n.owners.start, b)

LEMMA InnerServed ==
    ASSUME Input, CellsOK, NEW pe \in PE, NEW b \in Inner(pe)
    PROVE  Serving(Ownership[b]) # {} /\ \A t \in Serving(Ownership[b]) : HasBelow(t, b)
<1>1. b \in Nodes(pe) /\ b \in Bin /\ Splits(pe, b, Ownership)
  BY DEF Inner, Nodes
<1>2. PICK p : p \in Mine(pe, b)
  BY <1>1 DEF Splits, Separable
<1>3. PICK u \in TreePiece : tpCounts[u] > 0 /\ Spans(u, b)
  BY <1>2, MineSpans
<1>4. Ownership[b] # NoOwners
  BY <1>1, <1>3, OwnershipIs, NoneSpans
<1>5. Serving(Ownership[b]) = {t \in TreePiece : tpCounts[t] > 0 /\ Spans(t, b)}
  BY <1>1, <1>4, ServingAre
<1>6. ASSUME NEW t \in Serving(Ownership[b]) PROVE HasBelow(t, b)
  <2>1. t \in TreePiece /\ tpCounts[t] > 0 /\ Spans(t, b)
    BY <1>5
  <2>2. b \in Nodes(homeOf[t]) /\ b \in Inner(homeOf[t])
    BY <1>1, <2>1, NodesAgree
  <2>3. homeOf[t] \in PE
    BY <2>1, InputFacts
  <2>4. b \in DOMAIN walked[homeOf[t]] /\ walked[homeOf[t]][b].numChildren = BranchFactor
    BY <2>2, <2>3, WalkedFacts
  <2>5. BranchFactor > 0
    BY KeyTreeAssumption
  <2> QED
    BY <2>1, <2>4, <2>5 DEF HasBelow
<1> QED
  BY <1>3, <1>5, <1>6

LEMMA BucketServed ==
    ASSUME Input, CellsOK, NEW pe \in PE, NEW b \in Nodes(pe), walked[pe][b].type = "Bucket"
    PROVE  Ownership[b].start = Ownership[b].end /\ HasBucket(Ownership[b].start, b)
<1>1. /\ b \in Bin /\ b \in DOMAIN walked[pe] /\ b \notin Inner(pe)
      /\ LeafType(pe, b, Ownership[b]) = "Bucket"
  BY WalkedFacts
<1>2. /\ Mine(pe, b) # {}
      /\ Ownership[b] # NoOwners => ~Several(Ownership[b]) /\ homeOf[Ownership[b].start] = pe
  BY <1>1 DEF LeafType
<1>3. PICK p : p \in Mine(pe, b)
  BY <1>2
<1>4. PICK u \in TreePiece : tpCounts[u] > 0 /\ Spans(u, b)
  BY <1>3, MineSpans
<1>5. Ownership[b] # NoOwners
  BY <1>1, <1>4, OwnershipIs, NoneSpans
<1>6. Ownership[b] = [start |-> u, end |-> u]
  BY <1>1, <1>2, <1>4, <1>5, OneOwner
<1>7. homeOf[u] = pe /\ Ownership[b].start = u /\ Ownership[b].end = u
  BY <1>2, <1>5, <1>6
<1> QED
  BY <1>1, <1>4, <1>7 DEF HasBucket

\* What a PE takes a leaf of another one's for, is what that one has built.
LEMMA KnownServed ==
    ASSUME Input, CellsOK, NEW pe \in PE, NEW b \in Nodes(pe), walked[pe][b].type = "Remote"
    PROVE  /\ Known(pe, b) = "Remote" =>
                 Serving(Ownership[b]) # {} /\ \A t \in Serving(Ownership[b]) : HasBelow(t, b)
           /\ Known(pe, b) = "RemoteBucket" =>
                 Ownership[b].start = Ownership[b].end /\ HasBucket(Ownership[b].start, b)
           /\ Known(pe, b) \notin {"Internal", "Boundary", "Bucket"}
<1>1. /\ b \in Bin /\ b \notin Inner(pe) /\ walked[pe][b].owners = Ownership[b]
      /\ LeafType(pe, b, Ownership[b]) = "Remote"
  BY WalkedFacts
<1>2. Ownership[b] # NoOwners
  BY <1>1 DEF LeafType
<1>3. Serving(Ownership[b]) = {t \in TreePiece : tpCounts[t] > 0 /\ Spans(t, b)}
  BY <1>1, <1>2, ServingAre
<1> DEFINE S == Serving(Ownership[b])
           t == Min(S)
<1>4. Known(pe, b) = IF S = {} THEN "RemoteEmptyBucket" ELSE MakeRemote(walked[homeOf[t]][b].type)
  BY <1>1 DEF Known
<1> HIDE DEF S, t
<1>5. CASE S = {}
  BY <1>4, <1>5
<1>6. CASE S # {}
  <2>1. t \in TreePiece /\ tpCounts[t] > 0 /\ Spans(t, b)
    <3>1. S \in SUBSET Nat
      BY <1>3 DEF S, CellsOK
    <3>2. t \in S
      BY <1>6, <3>1, LeastOf DEF t
    <3> QED
      BY <1>3, <3>2 DEF S
  <2>2. b \in Nodes(homeOf[t])
    BY <2>1, NodesAgree
  <2>3. homeOf[t] \in PE
    BY <2>1, InputFacts
  <2> DEFINE q == homeOf[t]
             type == walked[q][b].type
  <2> HIDE DEF q
  <2>4. /\ b \in Inner(q) => type \in {"Internal", "Boundary"}
        /\ b \notin Inner(q) => type = LeafType(q, b, Ownership[b])
        /\ b \notin Inner(q) => type \in {"Remote", "Bucket", "EmptyBucket"}
    BY <2>2, <2>3, WalkedFacts DEF q, LeafType
  <2>5. type = "Remote" => b \in Inner(q)
    <3> SUFFICES ASSUME b \notin Inner(q), LeafType(q, b, Ownership[b]) = "Remote" PROVE FALSE
      BY <2>4
    <3>1. CASE Several(Ownership[b])
      <4>1. b.size > 1 /\ Mine(q, b) # {}
        BY <1>1, <2>1, <3>1, OwnersHave DEF q
      <4>2. Splits(q, b, Ownership)
        BY <3>1, <4>1 DEF Splits
      <4> QED
        BY <2>2, <4>2 DEF Inner, q
    <3>2. CASE ~Several(Ownership[b])
      <4>1. Ownership[b] = [start |-> t, end |-> t]
        BY <1>1, <2>1, <3>2, OneOwner
      <4> QED
        BY <3>2, <4>1 DEF LeafType, q
    <3> QED
      BY <3>1, <3>2
  <2>6. Known(pe, b) = MakeRemote(type)
    BY <1>4, <1>6 DEF q
  <2> HIDE DEF type
  <2>7. MakeRemote(type) = "Remote" => b \in Inner(q)
    BY <2>4, <2>5 DEF MakeRemote
  <2>8. MakeRemote(type) = "RemoteBucket" => type = "Bucket"
    BY <2>4 DEF MakeRemote
  <2>9. MakeRemote(type) \notin {"Internal", "Boundary", "Bucket"}
    BY <2>4 DEF MakeRemote
  <2> QED
    BY <2>2, <2>3, <2>6, <2>7, <2>8, <2>9, InnerServed, BucketServed DEF q, type
<1> QED
  BY <1>5, <1>6

LEMMA FinalServed ==
    ASSUME Input, NEW pe \in PE
    PROVE  \A b \in DOMAIN FinalTree(pe) : NodeServed(b, FinalTree(pe)[b])
<1> DEFINE F == FinalTree(pe)
           node(b) == [type |-> IF walked[pe][b].type = "Remote" THEN Known(pe, b)
                                ELSE walked[pe][b].type,
                       owners |-> FinalOwners(pe)[b],
                       numChildren |-> walked[pe][b].numChildren,
                       ready |-> walked[pe][b].numChildren,
                       mass |-> Mass(Present(b))]
<1>1. CellsOK
  BY CellFacts
<1>2. F = [b \in DOMAIN walked[pe] |-> node(b)]
  BY FinalTreeIs, Zenon
<1>3. \A b : /\ node(b).owners = FinalOwners(pe)[b]
             /\ node(b).type = IF walked[pe][b].type = "Remote" THEN Known(pe, b)
                               ELSE walked[pe][b].type
  OBVIOUS
<1> HIDE DEF node, F
<1>4. DOMAIN F = Nodes(pe)
  BY <1>2, WalkedFacts
<1> SUFFICES ASSUME NEW b \in Nodes(pe) PROVE NodeServed(b, F[b])
  BY <1>4 DEF F
<1> DEFINE type == walked[pe][b].type
<1>5. /\ F[b].owners = Ownership[b]
      /\ F[b].type = IF type = "Remote" THEN Known(pe, b) ELSE type
  <2>1. F[b] = node(b)
    BY <1>2, <1>4
  <2> QED
    BY <1>3, <2>1, FinalOwnersAre
<1>6. CASE type = "Remote"
  BY <1>1, <1>5, <1>6, KnownServed DEF NodeServed
<1>7. CASE type # "Remote"
  <2>1. /\ b \notin Inner(pe) => type = LeafType(pe, b, Ownership[b])
    BY WalkedFacts
  <2>2. b \notin Inner(pe) => type \in {"Bucket", "EmptyBucket"}
    BY <1>7, <2>1 DEF LeafType
  <2>3. b \in Inner(pe) => type \in {"Internal", "Boundary"}
    BY WalkedFacts
  <2>4. b \in Inner(pe) =>
           Serving(Ownership[b]) # {} /\ \A t \in Serving(Ownership[b]) : HasBelow(t, b)
    BY <1>1, InnerServed
  <2>5. type = "Bucket" => Ownership[b].start = Ownership[b].end /\ HasBucket(Ownership[b].start, b)
    BY <1>1, BucketServed
  <2> HIDE DEF type
  <2> QED
    BY <1>5, <1>7, <2>2, <2>3, <2>4, <2>5 DEF NodeServed
<1> QED
  BY <1>6, <1>7

\* A request comes to a PE that has what is asked for.
RequestServed(r) ==
    \E t \in TreePiece : /\ r.to = homeOf[t]
                         /\ IF r.kind = "node" THEN HasBelow(t, r.node) ELSE HasBucket(t, r.node)

\* What a PE has built stays until it throws its tree away.
BuiltOK(pe) ==
    phase[pe] # "advanced" =>
       \A b \in DOMAIN walked[pe] :
          /\ b \in DOMAIN nodeTable[pe]
          /\ walked[pe][b].numChildren > 0 => nodeTable[pe][b].numChildren > 0
          /\ walked[pe][b].type = "Bucket" => nodeTable[pe][b].type = "Bucket"

\* Every node of a tree, or on the way to one, says whom to ask; the requests
\* come to those, and are what the nodes' types say.
AllServed(T) == \A b \in DOMAIN T : NodeServed(b, T[b])
SentOK(pe) ==
    \A key \in sent[pe] : /\ Tree(pe)[key[2]].type \in {"Remote", "RemoteBucket"}
                          /\ key[1] = KindOf(Tree(pe)[key[2]].type)
OwnInv ==
    /\ \A pe \in PE : /\ BuiltOK(pe) /\ SentOK(pe)
                      /\ AllServed(nodeTable[pe]) /\ AllServed(cached[pe])
    /\ \A m \in replies : AllServed(m.nodes)
    /\ \A r \in Asked : RequestServed(r)

LEMMA InputKept ==
    ASSUME UNCHANGED input
    PROVE  /\ \A b, n : NodeServed(b, n)' <=> NodeServed(b, n)
           /\ \A r : RequestServed(r)' <=> RequestServed(r)
<1>1. UNCHANGED <<TreePiece, walked, homeOf, tpCounts>>
  BY DEF input, TreePiece
<1>2. \A t, b : (HasBelow(t, b)' <=> HasBelow(t, b)) /\ (HasBucket(t, b)' <=> HasBucket(t, b))
  BY <1>1 DEF HasBelow, HasBucket
<1>3. \A o : Serving(o)' = Serving(o)
  BY <1>1 DEF Serving
<1> QED
  BY <1>1, <1>2, <1>3 DEF NodeServed, RequestServed

LEMMA TreeServed ==
    ASSUME NEW f, NEW g, AllServed(f), AllServed(g)
    PROVE  AllServed(Extended(f, g))
<1>1. /\ DOMAIN Extended(f, g) = DOMAIN f \cup DOMAIN g
      /\ \A x \in DOMAIN f : Extended(f, g)[x] = f[x]
      /\ \A x \in DOMAIN g \ DOMAIN f : Extended(f, g)[x] = g[x]
  BY ExtendedFacts, Zenon
<1> QED
  BY <1>1 DEF AllServed

\* The owners of a node stay with it, whatever becomes of its type and children.
LEMMA OwnersStay ==
    ASSUME NEW n, IsNode(n), NEW type, NEW count
    PROVE  /\ [n EXCEPT !.type = type].owners = n.owners
           /\ [n EXCEPT !.numChildren = count].owners = n.owners
BY DEF IsNode

\* What is served of a tree says whom to ask for the rest.
LEMMA SerializedServed ==
    ASSUME NEW T, AreNodes(T), AllServed(T), NEW k
    PROVE  AllServed(Serialized(T, k))
<1> DEFINE levels(c) == Cardinality(Path(c) \ Path(k))
           sub == {c \in DOMAIN T :
                      Covers(k, c.first) /\ c.size < k.size /\ levels(c) <= CacheLine}
           remote(c) == [T[c] EXCEPT !.type = MakeRemote(@)]
           N == Serialized(T, k)
<1>1. N = [c \in sub |-> IF levels(c) = CacheLine THEN [remote(c) EXCEPT !.numChildren = 0]
                                                  ELSE remote(c)]
  BY DEF Serialized
<1>2. ASSUME NEW c \in sub PROVE NodeServed(c, N[c])
  <2>1. IsNode(T[c]) /\ NodeServed(c, T[c])
    BY DEF AreNodes, AllServed
  <2> DEFINE n == T[c]
             x == remote(c)
             y == [x EXCEPT !.numChildren = 0]
  <2>2. x = [n EXCEPT !.type = MakeRemote(n.type)]
    OBVIOUS
  <2>3. N[c] = IF levels(c) = CacheLine THEN y ELSE x
    BY <1>1
  <2> HIDE DEF n, x, N
  <2>4. IsNode(n)
    BY <2>1 DEF n
  <2>5. IsNode(x) /\ x.type = MakeRemote(n.type) /\ x.owners = n.owners
    <3> DEFINE type == MakeRemote(n.type)
    <3>1. x = [n EXCEPT !.type = type]
      BY <2>2
    <3> HIDE DEF type
    <3>2. IsNode([n EXCEPT !.type = type]) /\ [n EXCEPT !.type = type].type = type
      BY <2>4 DEF IsNode
    <3>3. [n EXCEPT !.type = type].owners = n.owners
      BY <2>4 DEF IsNode
    <3> QED
      BY <3>1, <3>2, <3>3 DEF type
  <2>6. y.type = x.type /\ y.owners = x.owners
    BY <2>5, OneNode, OwnersStay
  <2> HIDE DEF y
  <2>7. N[c].type = MakeRemote(n.type) /\ N[c].owners = n.owners
    BY <2>3, <2>5, <2>6
  <2>8. /\ MakeRemote(n.type) \in {"Internal", "Boundary", "Remote"} =>
              n.type \in {"Internal", "Boundary", "Remote"}
        /\ MakeRemote(n.type) \in {"Bucket", "RemoteBucket"} => n.type \in {"Bucket", "RemoteBucket"}
    BY DEF MakeRemote
  <2> QED
    BY <2>1, <2>7, <2>8 DEF NodeServed, n
<1>3. DOMAIN N = sub
  BY <1>1
<1> HIDE DEF N
<1> QED
  BY <1>2, <1>3 DEF AllServed, N

LEMMA AttachedServed ==
    ASSUME NEW T, AreNodes(T), AllServed(T), NEW m
    PROVE  AllServed(Attached(T, m))
<1> DEFINE A == Attached(T, m)
<1>1. DOMAIN A = DOMAIN T /\ \A k \in DOMAIN T : A[k].type = T[k].type
  BY AttachedFacts
<1>2. \A k \in DOMAIN T : A[k].owners = T[k].owners
  <2> TAKE k \in DOMAIN T
  <2>1. A[k] = IF k = m.node /\ m.kind = "node" THEN [T[k] EXCEPT !.numChildren = BranchFactor]
               ELSE T[k]
    BY DEF Attached
  <2>2. IsNode(T[k])
    BY DEF AreNodes
  <2>3. [T[k] EXCEPT !.numChildren = BranchFactor].owners = T[k].owners
    BY <2>2, OwnersStay
  <2> HIDE DEF A
  <2> QED
    BY <2>1, <2>3
<1> HIDE DEF A
<1>3. AllServed(A)
  BY <1>1, <1>2 DEF AllServed, NodeServed
<1> QED
  BY <1>3 DEF A

\* New requests are made of those who have what is asked for.
LEMMA AsksServed ==
    ASSUME homeOf \in [TreePiece -> PE], NEW pe \in PE, DOMAIN sent = PE, NEW T, AllServed(T), NEW A,
           Ask(pe, T, A),
           \A a \in A : /\ a.node \in DOMAIN T /\ T[a.node].type \in {"Remote", "RemoteBucket"}
                        /\ a.kind = KindOf(T[a.node].type)
    PROVE  /\ \A r \in requests' : r \in requests \/ RequestServed(r)
           /\ \A q \in PE : q # pe => sent'[q] = sent[q]
           /\ \A key \in sent'[pe] : key \in sent[pe] \/ \E a \in A : key = <<a.kind, a.node>>
<1> DEFINE K == {<<a.kind, a.node>> : a \in A} \ sent[pe]
           servers(key) == LET o == T[key[2]].owners
                           IN  IF key[1] = "node" THEN Serving(o) ELSE {o.start}
<1>1. /\ sent' = [sent EXCEPT ![pe] = @ \cup K]
      /\ \E server \in [K -> TreePiece] :
            /\ \A key \in K : server[key] \in servers(key)
            /\ requests' = requests \cup
                  {[to |-> homeOf[server[key]], kind |-> key[1], node |-> key[2],
                    from |-> pe] : key \in K}
  BY DEF Ask
<1>2. PICK server \in [K -> TreePiece] :
         /\ \A key \in K : server[key] \in servers(key)
         /\ requests' = requests \cup
               {[to |-> homeOf[server[key]], kind |-> key[1], node |-> key[2],
                 from |-> pe] : key \in K}
  BY <1>1
<1>3. ASSUME NEW r \in requests', r \notin requests PROVE RequestServed(r)
  <2>1. PICK key \in K : r = [to |-> homeOf[server[key]], kind |-> key[1], node |-> key[2],
                              from |-> pe]
    BY <1>2, <1>3
  <2>2. PICK a \in A : key = <<a.kind, a.node>>
    BY <2>1
  <2> DEFINE n == T[a.node]
             t == server[key]
  <2>3. /\ t \in TreePiece /\ r.to = homeOf[t] /\ r.kind = a.kind /\ r.node = a.node
        /\ t \in IF a.kind = "node" THEN Serving(n.owners) ELSE {n.owners.start}
    BY <1>2, <2>1, <2>2
  <2>4. NodeServed(a.node, n) /\ n.type \in {"Remote", "RemoteBucket"} /\ a.kind = KindOf(n.type)
    BY DEF AllServed
  <2> HIDE DEF n, t
  <2>5. IF a.kind = "node" THEN HasBelow(t, a.node) ELSE HasBucket(t, a.node)
    <3>1. CASE n.type = "Remote"
      BY <2>3, <2>4, <3>1 DEF NodeServed, KindOf
    <3>2. CASE n.type = "RemoteBucket"
      BY <2>3, <2>4, <3>2 DEF NodeServed, KindOf
    <3> QED
      BY <2>4, <3>1, <3>2
  <2> QED
    BY <2>3, <2>5 DEF RequestServed
<1>4. /\ \A q \in PE : q # pe => sent'[q] = sent[q]
      /\ sent'[pe] = sent[pe] \cup K
  <2> HIDE DEF K
  <2> QED
    BY <1>1
<1> QED
  BY <1>3, <1>4

----------------------------------------------------------------------------
(* And that it is kept. *)

\* Serving, or nothing that matters here.
LEMMA OwnAnswers ==
    ASSUME TravInv, OwnInv, UNCHANGED <<input, nodeTable, cached, sent>>,
           \A pe \in PE : phase'[pe] # "advanced" => phase[pe] # "advanced",
           Asked' \subseteq Asked,
           \A m \in replies' :
              m \in replies \/ \E pe \in PE : \E r \in Asked : m = Reply(pe, Tree(pe), r)
    PROVE  OwnInv'
<1> USE DEF TravInv, OwnInv
<1>1. /\ \A b, n : NodeServed(b, n)' <=> NodeServed(b, n)
      /\ \A r : RequestServed(r)' <=> RequestServed(r)
  BY InputKept
<1>2. \A T : AllServed(T)' <=> AllServed(T)
  BY <1>1 DEF AllServed
<1>3. walked' = walked
  BY DEF input
<1>4. ASSUME NEW pe \in PE PROVE BuiltOK(pe)' /\ SentOK(pe)'
  <2>1. BuiltOK(pe)'
    BY <1>3 DEF BuiltOK
  <2>2. Tree(pe)' = Tree(pe)
    BY DEF Tree
  <2>3. SentOK(pe)'
    BY <2>2 DEF SentOK
  <2> QED
    BY <2>1, <2>3
<1>5. ASSUME NEW m \in replies' PROVE AllServed(m.nodes)
  <2>1. CASE m \in replies
    BY <2>1
  <2>2. CASE \E pe \in PE : \E r \in Asked : m = Reply(pe, Tree(pe), r)
    <3>1. PICK pe \in PE, r \in Asked : m = Reply(pe, Tree(pe), r)
      BY <2>2
    <3>2. AllServed(Tree(pe)) /\ AreNodes(Tree(pe))
      BY TreeServed, NodesOfTree DEF Tree
    <3>3. AllServed(Serialized(Tree(pe), r.node))
      BY <3>2, SerializedServed
    <3>4. AllServed(<<>>)
      BY DEF AllServed
    <3>5. m.nodes = IF r.kind = "node" THEN Serialized(Tree(pe), r.node) ELSE <<>>
      BY <3>1 DEF Reply
    <3> QED
      BY <3>3, <3>4, <3>5
  <2> QED
    BY <2>1, <2>2
<1>6. \A pe \in PE : AllServed(nodeTable'[pe]) /\ AllServed(cached'[pe])
  OBVIOUS
<1>7. \A r \in Asked' : RequestServed(r)
  OBVIOUS
<1> QED
  BY <1>1, <1>2, <1>4, <1>5, <1>6, <1>7 DEF OwnInv

LEMMA OwnAdvance ==
    ASSUME TravInv, OwnInv, NEW pe \in PE, Advance(pe)
    PROVE  OwnInv'
<1> USE DEF TravInv, OwnInv
<1>1. /\ phase' = [phase EXCEPT ![pe] = "advanced"]
      /\ nodeTable' = [nodeTable EXCEPT ![pe] = <<>>] /\ cached' = [cached EXCEPT ![pe] = <<>>]
      /\ sent' = [sent EXCEPT ![pe] = {}]
      /\ UNCHANGED <<input, buffered, requests, replies>>
  BY DEF Advance
<1>2. /\ phase'[pe] = "advanced" /\ nodeTable'[pe] = <<>> /\ cached'[pe] = <<>> /\ sent'[pe] = {}
      /\ \A q \in PE : q # pe => /\ phase'[q] = phase[q] /\ nodeTable'[q] = nodeTable[q]
                                 /\ cached'[q] = cached[q] /\ sent'[q] = sent[q]
  BY <1>1 DEF Shapes
<1>3. /\ \A b, n : NodeServed(b, n)' <=> NodeServed(b, n)
      /\ \A r : RequestServed(r)' <=> RequestServed(r)
  BY <1>1, InputKept
<1>4. \A T : AllServed(T)' <=> AllServed(T)
  BY <1>3 DEF AllServed
<1>5. walked' = walked
  BY <1>1 DEF input
<1>6. AllServed(<<>>)
  BY DEF AllServed
<1>7. ASSUME NEW q \in PE
      PROVE  BuiltOK(q)' /\ SentOK(q)' /\ AllServed(nodeTable'[q]) /\ AllServed(cached'[q])
  <2>1. CASE q = pe
    BY <1>2, <1>6, <2>1 DEF BuiltOK, SentOK
  <2>2. CASE q # pe
    <3>1. Tree(q)' = Tree(q)
      BY <1>2, <2>2 DEF Tree
    <3> QED
      BY <1>2, <1>5, <2>2, <3>1 DEF BuiltOK, SentOK
  <2> QED
    BY <2>1, <2>2
<1>8. Asked' = Asked
  BY <1>1 DEF Asked
<1> QED
  BY <1>1, <1>3, <1>4, <1>7, <1>8 DEF OwnInv

\* A PE that asks for more, with a tree in which it has what it asked for.
LEMMA OwnAsks ==
    ASSUME TravInv, OwnInv, UNCHANGED <<input, phase, buffered>>, replies' \subseteq replies,
           NEW pe \in PE, NEW A, Ask(pe, Tree(pe)', A),
           \A q \in PE : q # pe => UNCHANGED <<nodeTable[q], cached[q]>>,
           AllServed(nodeTable'[pe]), AllServed(cached'[pe]),
           DOMAIN nodeTable[pe] \subseteq DOMAIN nodeTable'[pe],
           \A b \in DOMAIN nodeTable[pe] :
              /\ nodeTable'[pe][b].type = nodeTable[pe][b].type
              /\ nodeTable[pe][b].numChildren > 0 => nodeTable'[pe][b].numChildren > 0,
           \A b \in DOMAIN Tree(pe) : Tree(pe)'[b].type = Tree(pe)[b].type,
           \A a \in A : /\ a.node \in DOMAIN Tree(pe)'
                        /\ Tree(pe)'[a.node].type \in {"Remote", "RemoteBucket"}
                        /\ a.kind = KindOf(Tree(pe)'[a.node].type)
    PROVE  OwnInv'
<1> USE DEF TravInv, OwnInv
<1>1. /\ \A b, n : NodeServed(b, n)' <=> NodeServed(b, n)
      /\ \A r : RequestServed(r)' <=> RequestServed(r)
  BY InputKept
<1>2. \A T : AllServed(T)' <=> AllServed(T)
  BY <1>1 DEF AllServed
<1>3. walked' = walked
  BY DEF input
<1>4. /\ \A r \in requests' : r \in requests \/ RequestServed(r)
      /\ \A q \in PE : q # pe => sent'[q] = sent[q]
      /\ \A key \in sent'[pe] : key \in sent[pe] \/ \E a \in A : key = <<a.kind, a.node>>
  <2> DEFINE T == Tree(pe)'
  <2>1. AllServed(T)
    BY TreeServed DEF Tree
  <2>2. homeOf \in [TreePiece -> PE] /\ DOMAIN sent = PE
    BY DEF Shapes
  <2>3. /\ Ask(pe, T, A)
        /\ \A a \in A : /\ a.node \in DOMAIN T /\ T[a.node].type \in {"Remote", "RemoteBucket"}
                        /\ a.kind = KindOf(T[a.node].type)
    OBVIOUS
  <2> HIDE DEF T
  <2> QED
    BY <2>1, <2>2, <2>3, AsksServed
<1>5. ASSUME NEW q \in PE PROVE BuiltOK(q)' /\ SentOK(q)'
  <2>1. CASE q = pe
    <3>1. BuiltOK(pe)'
      BY <1>3 DEF BuiltOK
    <3>2. ASSUME NEW key \in sent'[pe]
          PROVE  /\ Tree(pe)'[key[2]].type \in {"Remote", "RemoteBucket"}
                 /\ key[1] = KindOf(Tree(pe)'[key[2]].type)
      <4>1. CASE key \in sent[pe]
        <5>1. key[2] \in DOMAIN Tree(pe)
          BY <4>1 DEF FlightOK
        <5>2. SentOK(pe)
          OBVIOUS
        <5> QED
          BY <4>1, <5>1, <5>2 DEF SentOK
      <4>2. CASE \E a \in A : key = <<a.kind, a.node>>
        BY <4>2
      <4> QED
        BY <1>4, <4>1, <4>2
    <3>3. SentOK(pe)'
      BY <3>2 DEF SentOK
    <3> QED
      BY <2>1, <3>1, <3>3
  <2>2. CASE q # pe
    <3>1. Tree(q)' = Tree(q)
      BY <2>2 DEF Tree
    <3> QED
      BY <1>3, <1>4, <2>2, <3>1 DEF BuiltOK, SentOK
  <2> QED
    BY <2>1, <2>2
<1>6. \A q \in PE : AllServed(nodeTable'[q]) /\ AllServed(cached'[q])
  OBVIOUS
<1>7. \A r \in Asked' : RequestServed(r)
  BY <1>4 DEF Asked
<1>8. \A m \in replies' : AllServed(m.nodes)
  OBVIOUS
<1> QED
  BY <1>1, <1>2, <1>5, <1>6, <1>7, <1>8 DEF OwnInv

LEMMA OwnGravity ==
    ASSUME TravInv, OwnInv, NEW t \in TreePiece, NEW side \in Side, DoGravity(t, side),
           NEW pe \in PE, pe = homeOf[t]
    PROVE  OwnInv'
<1> USE DEF TravInv
<1> DEFINE T == Tree(pe)
           begun == current[t][side] + 1 .. Until(t, current[t][side])
           asks(g) == Walk(pe, T, fetched[pe], side, {RootBin}, AllBuckets(t, g)).asks
           A == UNION {w.asks : w \in {Walk(pe, T, fetched[pe], side, {RootBin}, AllBuckets(t, g)) :
                                          g \in begun}}
<1>1. Ask(pe, T, A) /\ UNCHANGED <<input, phase, nodeTable, cached, buffered, replies>>
  BY Zenon DEF DoGravity, serving
<1>2. Tree(pe)' = T
  BY <1>1 DEF Tree
<1>3. \A a \in A : \E g \in begun : a \in asks(g)
  OBVIOUS
<1> HIDE DEF T, A, begun
<1>4. \A g : \A a \in asks(g) : /\ a.node \in DOMAIN T /\ T[a.node].type \in {"Remote", "RemoteBucket"}
                                /\ a.kind = KindOf(T[a.node].type)
  <2> TAKE g
  <2> DEFINE start == {RootBin}
             held == fetched[pe]
             mask == AllBuckets(t, g)
  <2>1. Level(start)
    BY RootIsBin DEF Level
  <2>2. Rooted(T)
    BY DEF TreeOK, T
  <2>3. asks(g) = Walk(pe, T, held, side, start, mask).asks
    OBVIOUS
  <2> HIDE DEF start, held, mask, asks
  <2>4. AsksOK(T, held, mask, start, Walk(pe, T, held, side, start, mask).asks)
    BY <2>1, <2>2, WalkAsks
  <2> QED
    BY <2>3, <2>4 DEF AsksOK, AskOK
<1> HIDE DEF asks
<1>5. \A a \in A : /\ a.node \in DOMAIN Tree(pe)' /\ Tree(pe)'[a.node].type \in {"Remote", "RemoteBucket"}
                   /\ a.kind = KindOf(Tree(pe)'[a.node].type)
  BY <1>2, <1>3, <1>4
<1>6. Ask(pe, Tree(pe)', A)
  BY <1>1, <1>2
<1>7. AllServed(nodeTable'[pe]) /\ AllServed(cached'[pe])
  BY <1>1 DEF OwnInv
<1>8. \A b \in DOMAIN Tree(pe) : Tree(pe)'[b].type = Tree(pe)[b].type
  BY <1>2 DEF T
<1> QED
  BY <1>1, <1>5, <1>6, <1>7, <1>8, OwnAsks

LEMMA OwnReceive ==
    ASSUME TravInv, OwnInv, NEW m \in replies, Receive(m)
    PROVE  OwnInv'
<1> USE DEF TravInv
<1>1. PICK pe \in PE : pe = m.to
  BY Expected
<1>2. Received(pe, m)
  BY <1>1, ReceivedIs
<1> DEFINE A == NewWaits(pe, m)
           T == Grown(pe, m)
           C == cached[pe]
           B == nodeTable[pe]
<1>3. /\ replies' \subseteq replies /\ UNCHANGED <<input, phase, buffered>> /\ Ask(pe, T, A)
      /\ nodeTable' = [nodeTable EXCEPT ![pe] = Attached(B, m)]
      /\ cached' = [cached EXCEPT ![pe] = Extended(m.nodes, Attached(C, m))]
  BY <1>2 DEF Received, NewWaits, Resumed
<1>4. Tree(pe)' = T
  BY <1>1, <1>2, TreesThen
<1> HIDE DEF T, C, B
<1>5. /\ nodeTable'[pe] = Attached(B, m) /\ cached'[pe] = Extended(m.nodes, Attached(C, m))
      /\ \A q \in PE : q # pe => UNCHANGED <<nodeTable[q], cached[q]>>
  BY <1>3 DEF Shapes
<1>6. AreNodes(B) /\ AreNodes(C) /\ AllServed(B) /\ AllServed(C) /\ AllServed(m.nodes)
  BY DEF OwnInv, TreeOK, B, C
<1>7. AllServed(Attached(B, m)) /\ AllServed(Attached(C, m))
  BY <1>6, AttachedServed
<1>8. AllServed(nodeTable'[pe]) /\ AllServed(cached'[pe])
  BY <1>5, <1>6, <1>7, TreeServed
<1>9. /\ DOMAIN Attached(B, m) = DOMAIN B
      /\ \A b \in DOMAIN B :
            /\ Attached(B, m)[b].type = B[b].type
            /\ Attached(B, m)[b].numChildren =
                  IF b = m.node /\ m.kind = "node" THEN BranchFactor ELSE B[b].numChildren
  BY <1>6, AttachedFacts
<1>10. BranchFactor > 0
  BY KeyTreeAssumption
<1>11. /\ DOMAIN nodeTable[pe] \subseteq DOMAIN nodeTable'[pe]
       /\ \A b \in DOMAIN nodeTable[pe] :
             /\ nodeTable'[pe][b].type = nodeTable[pe][b].type
             /\ nodeTable[pe][b].numChildren > 0 => nodeTable'[pe][b].numChildren > 0
  <2> DEFINE D == Attached(B, m)
  <2> HIDE DEF D
  <2>1. /\ DOMAIN B \subseteq DOMAIN D
        /\ \A b \in DOMAIN B : /\ D[b].type = B[b].type
                               /\ B[b].numChildren > 0 => D[b].numChildren > 0
    BY <1>9, <1>10 DEF D
  <2>2. nodeTable'[pe] = D /\ nodeTable[pe] = B
    BY <1>5 DEF B, D
  <2> QED
    BY <2>1, <2>2
<1>12. \A b \in DOMAIN Tree(pe) : Tree(pe)'[b].type = Tree(pe)[b].type
  <2>1. ReplyOK(m) /\ m.node \in DOMAIN Tree(pe) /\ Tree(pe)[m.node].numChildren = 0 /\ TreeOK(pe)
    BY <1>1, Expected
  <2>2. GrownOK(pe, m)
    BY <2>1, GrownFacts
  <2> QED
    BY <1>4, <2>2 DEF GrownOK, T
<1>13. \A a \in A : /\ a.node \in DOMAIN T /\ T[a.node].type \in {"Remote", "RemoteBucket"}
                    /\ a.kind = KindOf(T[a.node].type)
  <2>1. ResumedOK(pe, m, Resumed(pe, m), A)
    BY <1>1, <1>2, ResumedFacts
  <2> HIDE DEF A
  <2>2. \A a \in A : \E w : BelowOK(Grown(pe, m), HeldThen(pe, m), m, w, a)
    BY <2>1 DEF ResumedOK
  <2> QED
    BY <2>2 DEF BelowOK, T
<1> HIDE DEF A
<1>14. /\ Ask(pe, Tree(pe)', A)
       /\ \A a \in A : /\ a.node \in DOMAIN Tree(pe)' /\ Tree(pe)'[a.node].type \in {"Remote", "RemoteBucket"}
                       /\ a.kind = KindOf(Tree(pe)'[a.node].type)
  BY <1>3, <1>4, <1>13
<1> QED
  BY <1>3, <1>5, <1>8, <1>11, <1>12, <1>14, OwnAsks

LEMMA OwnStarts ==
    ASSUME Init
    PROVE  OwnInv
<1>1. /\ Input /\ nodeTable = [pe \in PE |-> FinalTree(pe)] /\ cached = [pe \in PE |-> <<>>]
      /\ sent = [pe \in PE |-> {}] /\ buffered = [pe \in PE |-> {}] /\ requests = {} /\ replies = {}
  BY DEF Init
<1>2. Asked = {}
  BY <1>1 DEF Asked
<1>3. ASSUME NEW pe \in PE
      PROVE  BuiltOK(pe) /\ SentOK(pe) /\ AllServed(nodeTable[pe]) /\ AllServed(cached[pe])
  <2>1. AllServed(nodeTable[pe]) /\ AllServed(cached[pe])
    BY <1>1, FinalServed DEF AllServed
  <2>2. SentOK(pe)
    BY <1>1 DEF SentOK
  <2> DEFINE node(b) == [type |-> IF walked[pe][b].type = "Remote" THEN Known(pe, b)
                                  ELSE walked[pe][b].type,
                         owners |-> FinalOwners(pe)[b],
                         numChildren |-> walked[pe][b].numChildren,
                         ready |-> walked[pe][b].numChildren,
                         mass |-> Mass(Present(b))]
  <2>3. nodeTable[pe] = [b \in DOMAIN walked[pe] |-> node(b)]
    BY <1>1, FinalTreeIs, Zenon
  <2>4. \A b : /\ node(b).numChildren = walked[pe][b].numChildren
               /\ node(b).type = IF walked[pe][b].type = "Remote" THEN Known(pe, b)
                                 ELSE walked[pe][b].type
    OBVIOUS
  <2> HIDE DEF node
  <2>5. BuiltOK(pe)
    BY <2>3, <2>4 DEF BuiltOK
  <2> QED
    BY <2>1, <2>2, <2>5
<1> QED
  BY <1>1, <1>2, <1>3 DEF OwnInv

LEMMA OwnKept ==
    ASSUME TravInv, OwnInv, [Next]_vars
    PROVE  OwnInv'
<1>1. ASSUME NEW pe \in PE, TreeReady(pe) PROVE OwnInv'
  <2>1. /\ phase[pe] = "building"
        /\ phase' = [phase EXCEPT ![pe] = IF LocalPieces(pe) = {} THEN "finished" ELSE "walking"]
        /\ buffered' = [buffered EXCEPT ![pe] = {}]
        /\ replies' = replies \cup {Reply(pe, Tree(pe), r) : r \in buffered[pe]}
        /\ UNCHANGED <<input, nodeTable, cached, sent, requests>>
    BY <1>1 DEF TreeReady, asking
  <2>2. /\ \A q \in PE : phase'[q] # "advanced" => phase[q] # "advanced"
        /\ \A q \in PE : buffered'[q] \subseteq buffered[q]
    BY <2>1 DEF TravInv, Shapes
  <2>3. Asked' \subseteq Asked /\ buffered[pe] \subseteq Asked
    BY <2>1, <2>2 DEF Asked
  <2>4. \A m \in replies' :
           m \in replies \/ \E q \in PE : \E r \in Asked : m = Reply(q, Tree(q), r)
    BY <2>1, <2>3
  <2> QED
    BY <2>1, <2>2, <2>3, <2>4, OwnAnswers
<1>2. ASSUME NEW pe \in PE, Advance(pe) PROVE OwnInv'
  BY <1>2, OwnAdvance
<1>3. ASSUME UNCHANGED <<input, nodeTable, cached, sent, requests, buffered, replies>>,
             \A pe \in PE : phase'[pe] # "advanced" => phase[pe] # "advanced"
      PROVE  OwnInv'
  <2>1. Asked' \subseteq Asked
    BY <1>3 DEF Asked
  <2> QED
    BY <1>3, <2>1, OwnAnswers
<1>4. ASSUME NEW t \in TreePiece, StartTraversal(t) PROVE OwnInv'
  <2>1. UNCHANGED <<input, phase, nodeTable, cached, sent, requests, buffered, replies>>
    BY <1>4 DEF StartTraversal, serving, asking
  <2> QED
    BY <1>3, <2>1
<1>5. ASSUME NEW t \in TreePiece, TraversalsDone(t) PROVE OwnInv'
  <2>1. /\ UNCHANGED <<input, nodeTable, cached, sent, requests, buffered, replies>>
        /\ phase' = [phase EXCEPT ![homeOf[t]] =
                        IF piecesDone[homeOf[t]] + 1 = Cardinality(LocalPieces(homeOf[t]))
                        THEN "finished" ELSE @]
        /\ reports[t] > 0
    BY <1>5 DEF TraversalsDone, serving, asking
  <2>2. phase[homeOf[t]] # "advanced"
    <3>1. homeOf[t] \in PE /\ t \in LocalPieces(homeOf[t])
      BY DEF TravInv, Shapes, LocalPieces
    <3>2. phase[homeOf[t]] = "advanced" => Over(t)
      BY <3>1 DEF TravInv, PhaseOK
    <3> QED
      BY <2>1, <3>2 DEF Over
  <2>3. \A pe \in PE : phase'[pe] # "advanced" => phase[pe] # "advanced"
    <3> TAKE pe \in PE
    <3>1. CASE pe = homeOf[t]
      BY <2>2, <3>1
    <3>2. CASE pe # homeOf[t]
      BY <2>1, <3>2 DEF TravInv, Shapes
    <3> QED
      BY <3>1, <3>2
  <2> QED
    BY <1>3, <2>1, <2>3
<1>6. ASSUME NEW t \in TreePiece, NEW side \in Side, DoGravity(t, side) PROVE OwnInv'
  <2>1. homeOf[t] \in PE
    BY DEF TravInv, Shapes
  <2> QED
    BY <1>6, <2>1, OwnGravity
<1>7. ASSUME NEW r \in requests, Serve(r) PROVE OwnInv'
  <2>1. r.to \in PE /\ r \in Asked
    BY DEF TravInv, Shapes, Request, Asked
  <2>2. /\ UNCHANGED <<input, phase, nodeTable, cached, sent>> /\ requests' = requests \ {r}
        /\ \/ buffered' = [buffered EXCEPT ![r.to] = @ \cup {r}] /\ replies' = replies
           \/ buffered' = buffered /\ replies' = replies \cup {Reply(r.to, Tree(r.to), r)}
    BY <1>7 DEF Serve
  <2>3. \A pe \in PE : buffered'[pe] \subseteq buffered[pe] \cup {r}
    BY <2>2 DEF TravInv, Shapes
  <2>4. Asked' \subseteq Asked
    BY <2>1, <2>2, <2>3 DEF Asked
  <2>5. \A m \in replies' :
           m \in replies \/ \E q \in PE : \E s \in Asked : m = Reply(q, Tree(q), s)
    BY <2>1, <2>2
  <2> QED
    BY <2>2, <2>4, <2>5, OwnAnswers
<1>8. ASSUME NEW m \in replies, Receive(m) PROVE OwnInv'
  BY <1>8, OwnReceive
<1>9. ASSUME UNCHANGED vars PROVE OwnInv'
  <2>1. UNCHANGED <<input, phase, nodeTable, cached, sent, requests, buffered, replies>>
    BY <1>9 DEF vars, serving, asking
  <2> QED
    BY <1>3, <2>1
<1> QED
  BY <1>1, <1>2, <1>4, <1>5, <1>6, <1>7, <1>8, <1>9 DEF Next

\* A request finds what it asks for, and an answer someone who waits for it.
LEMMA NoneBad ==
    ASSUME TravInv, OwnInv
    PROVE  NoBadRequest
<1> USE DEF TravInv
<1>1. ASSUME NEW r \in Asked
      PROVE  /\ r.node \in DOMAIN nodeTable[r.to]
             /\ IF r.kind = "node" THEN nodeTable[r.to][r.node].numChildren > 0
                                  ELSE nodeTable[r.to][r.node].type = "Bucket"
  <2>1. r \in Request /\ r.from \in PE /\ r.to \in PE
    BY DEF Shapes, Asked, Request
  <2>2. waiting[r.from] # {}
    BY DEF FlightOK, Awaits
  <2>3. phase[r.from] \notin {"finished", "advanced"}
    BY <2>1, <2>2, NothingWaits
  <2>4. phase[r.to] # "advanced"
    BY <2>1, <2>3 DEF PhaseOK
  <2>5. PICK t \in TreePiece :
           /\ r.to = homeOf[t]
           /\ IF r.kind = "node" THEN HasBelow(t, r.node) ELSE HasBucket(t, r.node)
    BY DEF OwnInv, RequestServed
  <2>6. BuiltOK(r.to)
    BY <2>1 DEF OwnInv
  <2> QED
    BY <2>4, <2>5, <2>6 DEF BuiltOK, HasBelow, HasBucket
<1>2. ASSUME NEW pe \in PE, NEW key \in sent[pe]
      PROVE  LET o == Tree(pe)[key[2]].owners
             IN  IF key[1] = "particles" THEN o.start = o.end ELSE Serving(o) # {}
  <2> DEFINE n == Tree(pe)[key[2]]
  <2>1. key[2] \in DOMAIN Tree(pe) /\ n.type \in {"Remote", "RemoteBucket"} /\ key[1] = KindOf(n.type)
    BY DEF FlightOK, OwnInv, SentOK
  <2>2. AllServed(Tree(pe))
    BY TreeServed DEF OwnInv, Tree
  <2>3. NodeServed(key[2], n)
    BY <2>1, <2>2 DEF AllServed
  <2> HIDE DEF n
  <2>4. IF key[1] = "particles" THEN n.owners.start = n.owners.end ELSE Serving(n.owners) # {}
    BY <2>1, <2>3 DEF NodeServed, KindOf
  <2> QED
    BY <2>4 DEF n
<1>3. ASSUME NEW m \in replies
      PROVE  /\ \E w \in waiting[m.to] : w.kind = m.kind /\ w.node = m.node
             /\ IF m.kind = "node" THEN Tree(m.to)[m.node].numChildren = 0
                                  ELSE m.node \notin DOMAIN fetched[m.to]
  <2>1. \E w \in waiting[m.to] : w.kind = m.kind /\ w.node = m.node
    BY DEF FlightOK, Awaits
  <2>2. /\ m.kind \in Kind /\ Tree(m.to)[m.node].numChildren = 0
        /\ m.kind = "particles" => m.node \notin DOMAIN fetched[m.to]
    BY Expected
  <2> QED
    BY <2>1, <2>2 DEF Kind
<1> QED
  BY <1>1, <1>2, <1>3 DEF NoBadRequest, Asked

\* No PE is asked for what it has not built, or has thrown away; a node that is
\* fetched has someone to ask; and no answer comes twice, or to no one.
THEOREM RequestsAreServed == Spec => []NoBadRequest
<1>1. Init => TravInv /\ OwnInv
  BY InvStarts, OwnStarts
<1>2. TravInv /\ OwnInv /\ [Next]_vars => TravInv' /\ OwnInv'
  BY InvKept, OwnKept
<1>3. TravInv /\ OwnInv => NoBadRequest
  BY NoneBad
<1> QED
  BY <1>1, <1>2, <1>3, PTL DEF Spec

----------------------------------------------------------------------------
(* What a sum of masses is the mass of. *)

Weight == [p \in Particle |-> 4 ^ (p - 1)]

\* The mass of particles is the sum of their weights.
LEMMA MassIs ==
    ASSUME NEW S \in SUBSET Particle
    PROVE  /\ IsFiniteSet(S) /\ Mass(S) = SumFunctionOnSet(Weight, S) /\ Mass(S) \in Int
           /\ \A p \in S : Weight[p] \in Int
<1>1. NumParticles \in Nat /\ IsFiniteSet(Particle) /\ IsFiniteSet(S)
  <2>1. NumParticles \in Nat
    BY ConstantsAssumption
  <2>2. IsFiniteSet(Particle)
    BY <2>1, FS_Interval DEF Particle
  <2> QED
    BY <2>1, <2>2, FS_Subset
<1>2. \A p \in Particle : p - 1 \in Nat
  BY <1>1 DEF Particle
<1>3. \A n \in Nat : 4 ^ n \in Int
  OBVIOUS
<1>4. \A p \in Particle : Weight[p] \in Int
  BY <1>2, <1>3 DEF Weight
<1>5. SumFunctionOnSet(Weight, S) \in Int
  BY <1>1, <1>4, SumTypeInt
<1> QED
  BY <1>1, <1>4, <1>5 DEF Mass, Weight

\* Particles in two sets apart.
LEMMA MassOfTwo ==
    ASSUME NEW S \in SUBSET Particle, NEW T \in SUBSET Particle, S \cap T = {}
    PROVE  Mass(S \cup T) = Mass(S) + Mass(T)
<1>1. S \cup T \in SUBSET Particle
  OBVIOUS
<1>2. \A p \in S \cup T : Weight[p] \in Int
  BY <1>1, MassIs
<1> QED
  BY <1>1, <1>2, MassIs, SumOfTwo

\* The particles below some of the nodes, and the sum of the nodes' masses.
Under(S) == {p \in Particle : \E k \in S : Covers(k, keyOf[p])}
Masses == [k \in Bin |-> Mass(Present(k))]
MassSum(S) == SumFunctionOnSet(Masses, S)

\* What the sums over nodes add up.
LEMMA MassesAre ==
    ASSUME NEW S \in SUBSET Bin
    PROVE  /\ IsFiniteSet(S) /\ MassSum(S) \in Int
           /\ \A k \in S : Masses[k] = Mass(Present(k)) /\ Masses[k] \in Int
<1>1. IsFiniteSet(S)
  BY BinFinite, FS_Subset
<1>2. \A k : Present(k) \in SUBSET Particle
  BY DEF Present
<1>3. \A k \in S : Masses[k] = Mass(Present(k)) /\ Masses[k] \in Int
  BY <1>2, MassIs DEF Masses
<1>4. MassSum(S) \in Int
  BY <1>1, <1>3, SumTypeInt DEF MassSum
<1> QED
  BY <1>1, <1>3, <1>4

\* Of nodes with no key below two of them, it is the mass of what is below.
LEMMA MassOfApart ==
    ASSUME keyOf \in [Particle -> Key], NEW S \in SUBSET Bin,
           \A b, c \in S : b # c => Apart(b, c)
    PROVE  MassSum(S) = Mass(Under(S))
<1> DEFINE wrong(s) == MassSum(s) # Mass(Under(s))
           Bad == {m \in Nat : \E s \in SUBSET S : Cardinality(s) = m /\ wrong(s)}
<1>1. \A s \in SUBSET S : /\ s \in SUBSET Bin /\ IsFiniteSet(s) /\ Cardinality(s) \in Nat
                          /\ \A k \in s : Masses[k] = Mass(Present(k)) /\ Masses[k] \in Int
  BY MassesAre, FS_CardinalityType
<1> SUFFICES ASSUME wrong(S) PROVE FALSE
  OBVIOUS
<1>2. Bad # {} /\ Bad \in SUBSET Nat
  BY <1>1
<1>3. PICK m \in Bad : \A k \in Bad : m <= k
  <2> HIDE DEF Bad
  <2> QED
    BY <1>2, Least
<1>4. PICK s \in SUBSET S : Cardinality(s) = m /\ wrong(s)
  OBVIOUS
<1>5. s # {}
  <2> SUFFICES ASSUME s = {} PROVE FALSE
    OBVIOUS
  <2>1. Under(s) = {}
    BY DEF Under
  <2>2. Mass({}) = 0
    BY SumOfNone DEF Mass
  <2> QED
    BY <1>4, <2>1, <2>2, SumOfNone DEF MassSum
<1>6. PICK y \in s : TRUE
  BY <1>5
<1> DEFINE t == s \ {y}
<1>7. t \in SUBSET S /\ Cardinality(t) = m - 1 /\ Cardinality(t) \in Nat /\ m \in Nat
  BY <1>1, <1>4, <1>6, FS_RemoveElement
<1>8. ~wrong(t)
  <2>1. m - 1 \in Nat /\ ~(m <= m - 1)
    BY <1>7
  <2>2. m - 1 \notin Bad
    BY <1>3, <2>1
  <2> HIDE DEF wrong, t
  <2> QED
    BY <1>7, <2>1, <2>2
<1>9. MassSum(s) = Masses[y] + MassSum(t)
  BY <1>1, <1>6, SumLessOne DEF MassSum
<1>10. Under(s) = Under(t) \cup Present(y)
  BY <1>6 DEF Under, Present
<1>11. Under(t) \cap Present(y) = {}
  <2> SUFFICES ASSUME NEW p \in Particle, p \in Under(t), p \in Present(y) PROVE FALSE
    BY DEF Under
  <2>1. PICK k \in t : Covers(k, keyOf[p])
    BY DEF Under
  <2>2. k # y /\ k \in S /\ y \in S
    BY <1>6, <1>7
  <2>3. Apart(k, y) /\ keyOf[p] \in Key
    BY <2>2
  <2>4. Covers(y, keyOf[p])
    BY DEF Present
  <2> QED
    BY <2>1, <2>3, <2>4 DEF Apart
<1>12. Mass(Under(s)) = Mass(Under(t)) + Mass(Present(y))
  <2>1. Under(t) \in SUBSET Particle /\ Present(y) \in SUBSET Particle
    BY DEF Under, Present
  <2> QED
    BY <1>10, <1>11, <2>1, MassOfTwo
<1>13. Mass(Under(t)) \in Int /\ Masses[y] \in Int /\ Masses[y] = Mass(Present(y))
  <2>1. Under(t) \in SUBSET Particle
    BY DEF Under
  <2> QED
    BY <1>1, <1>6, <2>1, MassIs
<1>14. MassSum(t) = Mass(Under(t))
  BY <1>8
<1> HIDE DEF t
<1> QED
  BY <1>4, <1>9, <1>12, <1>13, <1>14

\* The sums of the model are such sums.
LEMMA NodesSum ==
    ASSUME NEW T, NEW S, IsFiniteSet(S), NEW f, \A x \in S : f[x] = T[x].mass /\ f[x] \in Int
    PROVE  OfNodes(T, S) = SumFunctionOnSet(f, S)
<1> DEFINE body(g) == [s \in SUBSET S |->
                          IF s = {} THEN 0
                          ELSE T[CHOOSE x \in s : TRUE].mass + g[s \ {CHOOSE x \in s : TRUE}]]
           G == CHOOSE g : g = body(g)
<1>1. OfNodes(T, S) = G[S]
  BY DEF OfNodes, MapThenSumSet, MapThenFoldSet
<1>2. \A g : body(g) = SumBody(f, S, g)
  <2> TAKE g
  <2>1. \A s \in SUBSET S : s # {} => f[CHOOSE x \in s : TRUE] = T[CHOOSE x \in s : TRUE].mass
    OBVIOUS
  <2> QED
    BY <2>1 DEF SumBody
<1>3. SumTable(f, S) = body(SumTable(f, S))
  <2>1. SumTable(f, S) = SumBody(f, S, SumTable(f, S))
    BY SumFound
  <2> HIDE DEF body
  <2> QED
    BY <1>2, <2>1
<1>4. G = body(G)
  <2> HIDE DEF body
  <2> QED
    BY <1>3
<1> HIDE DEF G, body
<1>5. G = SumBody(f, S, G)
  BY <1>2, <1>4
<1> QED
  BY <1>1, <1>5, SumFixed

\* What a walk adds up over leaves is a sum of masses, whatever it takes for their particles.
LEMMA ParticlesSum ==
    ASSUME NEW H, NEW S, IsFiniteSet(S), NEW f, \A x \in S : f[x] = Mass(H[x]) /\ f[x] \in Int
    PROVE  OfParticles(H, S) = SumFunctionOnSet(f, S)
<1> DEFINE body(g) == [s \in SUBSET S |->
                          IF s = {} THEN 0
                          ELSE Mass(H[CHOOSE x \in s : TRUE]) + g[s \ {CHOOSE x \in s : TRUE}]]
           G == CHOOSE g : g = body(g)
<1>1. OfParticles(H, S) = G[S]
  BY DEF OfParticles, MapThenSumSet, MapThenFoldSet
<1>2. \A g : body(g) = SumBody(f, S, g)
  <2> TAKE g
  <2>1. \A s \in SUBSET S : s # {} => f[CHOOSE x \in s : TRUE] = Mass(H[CHOOSE x \in s : TRUE])
    OBVIOUS
  <2> QED
    BY <2>1 DEF SumBody
<1>3. SumTable(f, S) = body(SumTable(f, S))
  <2>1. SumTable(f, S) = SumBody(f, S, SumTable(f, S))
    BY SumFound
  <2> HIDE DEF body
  <2> QED
    BY <1>2, <2>1
<1>4. G = body(G)
  <2> HIDE DEF body
  <2> QED
    BY <1>3
<1> HIDE DEF G, body
<1>5. G = SumBody(f, S, G)
  BY <1>2, <1>4
<1> QED
  BY <1>1, <1>5, SumFixed

\* So is what a bucket waits for.
LEMMA AwaitedSum ==
    ASSUME NEW S \in SUBSET Bin
    PROVE  MapThenSumSet(LAMBDA k : Mass(Present(k)), S) = MassSum(S)
<1> DEFINE f == Masses
           body(g) == [s \in SUBSET S |->
                          IF s = {} THEN 0
                          ELSE Mass(Present(CHOOSE x \in s : TRUE)) + g[s \ {CHOOSE x \in s : TRUE}]]
           G == CHOOSE g : g = body(g)
<1>0. IsFiniteSet(S) /\ \A x \in S : f[x] = Mass(Present(x)) /\ f[x] \in Int
  BY MassesAre
<1>1. MapThenSumSet(LAMBDA k : Mass(Present(k)), S) = G[S]
  BY DEF MapThenSumSet, MapThenFoldSet
<1> HIDE DEF f
<1>2. \A g : body(g) = SumBody(f, S, g)
  <2> TAKE g
  <2>1. \A s \in SUBSET S : s # {} => f[CHOOSE x \in s : TRUE] = Mass(Present(CHOOSE x \in s : TRUE))
    BY <1>0
  <2> QED
    BY <2>1 DEF SumBody
<1>3. SumTable(f, S) = body(SumTable(f, S))
  <2>1. SumTable(f, S) = SumBody(f, S, SumTable(f, S))
    BY <1>0, SumFound
  <2> HIDE DEF body
  <2> QED
    BY <1>2, <2>1
<1>4. G = body(G)
  <2> HIDE DEF body
  <2> QED
    BY <1>3
<1> HIDE DEF G, body
<1>5. G = SumBody(f, S, G)
  BY <1>2, <1>4
<1> QED
  BY <1>0, <1>1, <1>5, SumFixed DEF MassSum, f

----------------------------------------------------------------------------
(* What one bucket of a walk comes to. *)

\* The nodes it comes to: it opens all above them.
Visits(T, side, starts, b) ==
    {k \in Within(T, starts) : \A a \in Within(T, starts) :
        Covers(a, k.first) /\ k.size < a.size => a \in KeptBy(T, side, starts) /\ Opens(a, b)}

\* Those it does not open, and leaves it does.
TakenBy(T, side, starts, b) ==
    {k \in Visits(T, side, starts, b) \cap KeptBy(T, side, starts) :
        ~Opens(k, b) /\ Applies(side, T[k].type)}
LeavesOpened(T, side, starts, b) ==
    {k \in Visits(T, side, starts, b) \cap KeptBy(T, side, starts) :
        Opens(k, b) /\ T[k].numChildren = 0}
Ends(T, side, starts, b) == TakenBy(T, side, starts, b) \cup LeavesOpened(T, side, starts, b)

\* The masks a walk carries down are, bit by bit, the visits of each bucket.
LEMMA VisitsAre ==
    ASSUME NEW T, Rooted(T), NEW starts, Level(starts), NEW side, NEW mask, NEW b \in mask,
           NEW k \in Within(T, starts)
    PROVE  /\ b \in OpenFor(T, side, starts, mask)[k] <=>
                 k \in Visits(T, side, starts, b) \cap KeptBy(T, side, starts) /\ Opens(k, b)
           /\ b \in (IF k \in starts THEN mask ELSE OpenFor(T, side, starts, mask)[Parent(k)]) <=>
                 k \in Visits(T, side, starts, b)
<1> DEFINE open == OpenFor(T, side, starts, mask)
           W == Within(T, starts)
           K == KeptBy(T, side, starts)
<1>1. W \subseteq Bin /\ \A a \in W : a \in Bin /\ a.size \in Nat /\ Covers(a, a.first)
  <2>1. W \subseteq Bin
    BY DEF Within, Rooted
  <2> QED
    BY <2>1, BinWithin, CoversFirst
<1>2. \A l \in W : b \in open[l] <=>
         \A a \in W : Covers(a, l.first) /\ l.size <= a.size => a \in K /\ Opens(a, b)
  BY DEF OpenFor
<1>3. \A l \in W : l \in Visits(T, side, starts, b) <=>
         \A a \in W : Covers(a, l.first) /\ l.size < a.size => a \in K /\ Opens(a, b)
  BY DEF Visits
<1>4. \A l, a \in W : Covers(a, l.first) /\ l.size <= a.size => a = l \/ l.size < a.size
  BY <1>1, BelowOne
<1> HIDE DEF open, W, K
<1>5. b \in open[k] <=> k \in Visits(T, side, starts, b) /\ k \in K /\ Opens(k, b)
  BY <1>1, <1>2, <1>3, <1>4 DEF W
<1>6. CASE k \in starts
  <2>1. \A a \in W : Covers(a, k.first) /\ k.size <= a.size => a = k
    BY <1>6, WithinUp DEF W
  <2>2. k \in Visits(T, side, starts, b)
    BY <1>1, <1>3, <2>1 DEF W
  <2> QED
    BY <1>5, <1>6, <2>2 DEF open, W, K
<1>7. CASE k \notin starts
  <2>1. /\ k # RootBin /\ Parent(k) \in W /\ k \in W
        /\ \A a \in W : Covers(a, k.first) /\ k.size <= a.size =>
                           a = k \/ (Covers(a, Parent(k).first) /\ Parent(k).size <= a.size)
        /\ \A a \in W : Covers(a, Parent(k).first) /\ Parent(k).size <= a.size =>
                           Covers(a, k.first) /\ k.size <= a.size
    BY <1>7, WithinUp DEF W
  <2>2. k.size < Parent(k).size /\ k.size \in Nat /\ Parent(k).size \in Nat
    BY <1>1, <2>1, ParentAbove
  <2>3. \A a \in W : Covers(a, k.first) /\ k.size < a.size <=>
                        Covers(a, Parent(k).first) /\ Parent(k).size <= a.size
    <3> TAKE a \in W
    <3>1. a.size \in Nat
      BY <1>1
    <3>2. ASSUME Covers(a, k.first), k.size < a.size
          PROVE  Covers(a, Parent(k).first) /\ Parent(k).size <= a.size
      BY <2>1, <2>2, <3>1, <3>2
    <3>3. ASSUME Covers(a, Parent(k).first), Parent(k).size <= a.size
          PROVE  Covers(a, k.first) /\ k.size < a.size
      BY <2>1, <2>2, <3>1, <3>3
    <3> QED
      BY <3>2, <3>3
  <2>4. b \in open[Parent(k)] <=> k \in Visits(T, side, starts, b)
    BY <1>2, <1>3, <2>1, <2>3
  <2> QED
    BY <1>5, <1>7, <2>4 DEF open, W, K
<1> QED
  BY <1>6, <1>7

\* The leaves a walk asks for on behalf of a bucket.
AskedOf(walk, b) == {a.node : a \in {c \in walk.asks : b \in c.mask}}

\* The mass a bucket sees in a walk, and what the walk asks for on its behalf.
SeesOK(pe, T, held, side, starts, mask, b) ==
    LET walk == Walk(pe, T, held, side, starts, mask)
        hand == AtHand(pe, T, held, side, starts, mask)
    IN  /\ walk.seen[b] = OfNodes(T, TakenBy(T, side, starts, b))
              + OfParticles(hand, LeavesOpened(T, side, starts, b) \cap DOMAIN hand)
        /\ AskedOf(walk, b) = {k \in LeavesOpened(T, side, starts, b) \ DOMAIN hand :
                                  T[k].type \in {"Remote", "RemoteBucket"}}

\* What each bucket of a walk gathers and asks for, in terms of its own visits.
LEMMA WalkSees ==
    ASSUME NEW pe, NEW T, Rooted(T), NEW starts, Level(starts), NEW held, NEW side, NEW mask
    PROVE  /\ DOMAIN Walk(pe, T, held, side, starts, mask).seen = mask
           /\ \A b \in mask : SeesOK(pe, T, held, side, starts, mask, b)
<1> DEFINE W == Within(T, starts)
           K == KeptBy(T, side, starts)
           open == Opening(T, side, starts, mask)
           leaves == Reached(T, side, starts, mask)
           hand == AtHand(pe, T, held, side, starts, mask)
           came(k) == IF k \in starts THEN mask ELSE open[Parent(k)]
           accepted == [b \in mask |-> {k \in K : Applies(side, T[k].type) /\ b \in came(k) \ open[k]}]
           reached == [b \in mask |-> {k \in leaves \cap DOMAIN hand : b \in open[k]}]
           walk == Walk(pe, T, held, side, starts, mask)
<1>1. walk.seen = Gathered(mask, T, accepted, hand, reached)
  BY Zenon DEF Walk, AtHand, Reached, Opening, OpeningBody, KeptBy, Within
<1>2. walk.asks = AsksOf(pe, T, held, side, starts, mask)
  BY WalkIs
<1> HIDE DEF walk
<1>3. open = OpenFor(T, side, starts, mask)
  BY OpeningIs
<1>4. K \subseteq W
  BY DEF KeptBy
<1>5. \A k \in W, b \in mask :
         /\ b \in open[k] <=> k \in Visits(T, side, starts, b) /\ k \in K /\ Opens(k, b)
         /\ b \in came(k) <=> k \in Visits(T, side, starts, b)
  <2> TAKE k \in W, b \in mask
  <2>1. /\ b \in OpenFor(T, side, starts, mask)[k] <=>
                 k \in Visits(T, side, starts, b) \cap KeptBy(T, side, starts) /\ Opens(k, b)
        /\ b \in (IF k \in starts THEN mask ELSE OpenFor(T, side, starts, mask)[Parent(k)]) <=>
                 k \in Visits(T, side, starts, b)
    BY VisitsAre
  <2> QED
    BY <1>3, <2>1
<1>6. leaves = {k \in K : T[k].numChildren = 0 /\ open[k] # {}}
  BY DEF Reached
<1> HIDE DEF W, K, open, leaves, hand, came
<1>7. ASSUME NEW b \in mask
      PROVE  /\ accepted[b] = TakenBy(T, side, starts, b)
             /\ reached[b] = LeavesOpened(T, side, starts, b) \cap DOMAIN hand
  <2>1. accepted[b] = {k \in K : Applies(side, T[k].type) /\ b \in came(k) \ open[k]}
    OBVIOUS
  <2>2. reached[b] = {k \in leaves \cap DOMAIN hand : b \in open[k]}
    OBVIOUS
  <2>3. TakenBy(T, side, starts, b) =
           {k \in Visits(T, side, starts, b) \cap K : ~Opens(k, b) /\ Applies(side, T[k].type)}
    BY DEF TakenBy, K
  <2>4. LeavesOpened(T, side, starts, b) =
           {k \in Visits(T, side, starts, b) \cap K : Opens(k, b) /\ T[k].numChildren = 0}
    BY DEF LeavesOpened, K
  <2>5. \A k \in K : b \in came(k) \ open[k] <=> k \in Visits(T, side, starts, b) /\ ~Opens(k, b)
    BY <1>4, <1>5
  <2>6. \A k \in K : b \in open[k] <=> k \in Visits(T, side, starts, b) /\ Opens(k, b)
    BY <1>4, <1>5
  <2>7. \A k \in K : b \in open[k] /\ T[k].numChildren = 0 => k \in leaves
    BY <1>6
  <2>8. \A k \in leaves : k \in K /\ T[k].numChildren = 0
    BY <1>6
  <2>9. accepted[b] = TakenBy(T, side, starts, b)
    BY <2>1, <2>3, <2>5
  <2>10. reached[b] = LeavesOpened(T, side, starts, b) \cap DOMAIN hand
    BY <2>2, <2>4, <2>6, <2>7, <2>8
  <2> QED
    BY <2>9, <2>10
<1>8. ASSUME NEW b \in mask
      PROVE  AskedOf(walk, b) =
                {k \in LeavesOpened(T, side, starts, b) \ DOMAIN hand :
                    T[k].type \in {"Remote", "RemoteBucket"}}
  <2> DEFINE ask(k) == [kind |-> IF T[k].type = "Remote" THEN "node" ELSE "particles",
                        node |-> k, mask |-> open[k]]
             L == {l \in leaves \ DOMAIN hand : T[l].type \in {"Remote", "RemoteBucket"}}
  <2>1. walk.asks = {ask(k) : k \in L}
    BY <1>2 DEF AsksOf, open, leaves, hand
  <2>2. \A k : ask(k).node = k /\ ask(k).mask = open[k]
    OBVIOUS
  <2>3. LeavesOpened(T, side, starts, b) =
           {k \in Visits(T, side, starts, b) \cap K : Opens(k, b) /\ T[k].numChildren = 0}
    BY DEF LeavesOpened, K
  <2>4. \A k \in K : b \in open[k] <=> k \in Visits(T, side, starts, b) /\ Opens(k, b)
    BY <1>4, <1>5
  <2>5. \A k : k \in L /\ b \in open[k] <=>
                  /\ k \in LeavesOpened(T, side, starts, b) \ DOMAIN hand
                  /\ T[k].type \in {"Remote", "RemoteBucket"}
    BY <1>6, <2>3, <2>4
  <2> HIDE DEF ask, L
  <2>6. \A k : (\E a \in walk.asks : b \in a.mask /\ a.node = k) <=> k \in L /\ b \in open[k]
    BY <2>1, <2>2
  <2> QED
    BY <2>5, <2>6 DEF AskedOf
<1>9. /\ DOMAIN walk.seen = mask
      /\ \A b \in mask : walk.seen[b] = OfNodes(T, accepted[b]) + OfParticles(hand, reached[b])
  BY <1>1 DEF Gathered
<1> HIDE DEF accepted, reached
<1>10. \A b \in mask : walk.seen[b] = OfNodes(T, TakenBy(T, side, starts, b))
                           + OfParticles(hand, LeavesOpened(T, side, starts, b) \cap DOMAIN hand)
  BY <1>7, <1>9
<1> QED
  BY <1>8, <1>9, <1>10 DEF SeesOK, walk, hand

\* No two ends of a bucket's walk have a key in common.
LEMMA EndsApart ==
    ASSUME NEW T, Rooted(T), NEW starts, NEW side, NEW b
    PROVE  /\ Ends(T, side, starts, b) \in SUBSET Bin
           /\ \A c, d \in Ends(T, side, starts, b) : c # d => Apart(c, d)
<1> DEFINE E == Ends(T, side, starts, b)
           W == Within(T, starts)
<1>1. E \subseteq Visits(T, side, starts, b) /\ E \subseteq W /\ W \subseteq DOMAIN T /\ W \subseteq Bin
  BY DEF Ends, TakenBy, LeavesOpened, Visits, Within, Rooted
<1>2. ASSUME NEW c \in E, NEW d \in E, c # d, NEW x \in Key, Covers(c, x), Covers(d, x),
             c.size <= d.size
      PROVE  FALSE
  <2>1. c \in Bin /\ d \in Bin /\ c.size \in Nat /\ d.size \in Nat /\ c \in W /\ d \in W
    BY <1>1, BinWithin
  <2>2. Covers(d, c.first)
    BY <1>2, <2>1, Comparable
  <2>3. c.size < d.size
    BY <1>2, <2>1, <2>2, BelowOne
  <2>4. d \in KeptBy(T, side, starts) /\ Opens(d, b)
    BY <1>1, <2>1, <2>2, <2>3 DEF Visits
  <2>5. T[d].numChildren # 0
    BY <1>1, <2>1, <2>2, <2>3, AllAbove
  <2> QED
    BY <1>2, <2>4, <2>5 DEF Ends, TakenBy, LeavesOpened
<1>3. \A c \in E : c.size \in Nat
  BY <1>1, BinWithin
<1>4. \A c, d \in E : c # d => Apart(c, d)
  <2> TAKE c, d \in E
  <2> HAVE c # d
  <2> SUFFICES ASSUME NEW x \in Key, Covers(c, x), Covers(d, x) PROVE FALSE
    BY DEF Apart
  <2> QED
    BY <1>2, <1>3
<1> QED
  BY <1>1, <1>4

\* A node has all children or none.
Full(T) == \A k \in DOMAIN T : T[k].numChildren # 0 => k.size > 1 /\ Children(k) \subseteq DOMAIN T

\* For every key below a start there is a node it gets no further than.
LEMMA LastVisit ==
    ASSUME NEW T, Rooted(T), Full(T), NEW starts, Level(starts), starts \subseteq DOMAIN T,
           NEW side, NEW b, NEW s \in starts, NEW x \in Key, Covers(s, x)
    PROVE  \E e \in Visits(T, side, starts, b) :
              /\ Covers(e, x)
              /\ \/ e \notin KeptBy(T, side, starts)
                 \/ ~Opens(e, b)
                 \/ T[e].numChildren = 0
<1> DEFINE V == Visits(T, side, starts, b)
           W == Within(T, starts)
           K == KeptBy(T, side, starts)
           sizes == {n \in Nat : \E e \in V : e.size = n /\ Covers(e, x)}
<1>1. W \subseteq DOMAIN T /\ W \subseteq Bin /\ starts \subseteq Bin /\ V \subseteq W
  BY DEF Within, Rooted, Visits
<1>2. \A k \in Bin : k.size \in Nat /\ Covers(k, k.first) /\ k.first \in Key
  BY BinWithin, CoversFirst
<1>3. s \in V
  <2>1. s \in W
    BY <1>1, <1>2 DEF Within
  <2>2. \A a \in W : Covers(a, s.first) /\ s.size <= a.size => a = s
    BY <2>1, WithinUp
  <2>3. \A a \in W : ~(Covers(a, s.first) /\ s.size < a.size)
    BY <1>1, <1>2, <2>2
  <2> QED
    BY <2>1, <2>3 DEF Visits
<1>4. sizes # {} /\ sizes \in SUBSET Nat
  BY <1>1, <1>2, <1>3
<1>5. PICK n \in sizes : \A i \in sizes : n <= i
  <2> HIDE DEF sizes
  <2> QED
    BY <1>4, Least
<1>6. PICK e \in V : e.size = n /\ Covers(e, x)
  OBVIOUS
<1>7. e \notin K \/ ~Opens(e, b) \/ T[e].numChildren = 0
  <2> SUFFICES ASSUME e \in K, Opens(e, b), T[e].numChildren # 0 PROVE FALSE
    OBVIOUS
  <2>1. e \in Bin /\ e \in W /\ e.size > 1 /\ Children(e) \subseteq DOMAIN T
    BY <1>1 DEF Full
  <2>2. PICK c \in Children(e) : Covers(c, x)
    BY <1>6, <2>1, OneChildCovers DEF Children
  <2>3. c \in Bin /\ c.size < e.size /\ c.size \in Nat /\ Covers(e, c.first) /\ c \in DOMAIN T
    <3>1. c \in Bin /\ c.size < e.size
      BY <2>1, <2>2, AboveChild
    <3>2. \A k \in Key : Covers(c, k) => Covers(e, k)
      BY <2>1, <2>2, ChildCoveredByParent DEF Children
    <3> QED
      BY <1>2, <2>1, <2>2, <3>1, <3>2
  <2>4. PICK q \in starts : Covers(q, e.first) /\ e.size <= q.size
    BY <2>1 DEF Within
  <2>5. q \in Bin /\ q.size \in Nat /\ e.size \in Nat
    BY <1>1, <1>2, <2>1
  <2>6. Covers(q, c.first) /\ c.size <= q.size
    BY <1>2, <2>1, <2>3, <2>4, <2>5, BelowOne
  <2>7. c \in W
    BY <2>3, <2>6 DEF Within
  <2>8. \A a \in W : Covers(a, c.first) /\ c.size < a.size => a \in K /\ Opens(a, b)
    <3> TAKE a \in W
    <3> HAVE Covers(a, c.first) /\ c.size < a.size
    <3>1. a \in Bin /\ a.size \in Nat
      BY <1>1, <1>2
    <3>2. c.first \in Key
      BY <1>2, <2>3
    <3>3. CASE a.size < e.size
      <4>1. Covers(e, a.first)
        BY <1>2, <2>1, <2>3, <2>5, <3>1, <3>2, <3>3, Comparable
      <4>2. PICK d \in Children(e) : Covers(d, a.first) /\ a.size <= d.size
        BY <2>1, <3>1, <3>3, <4>1, BelowAChild
      <4>3. d.size = c.size
        BY <2>2, <4>2 DEF Children, Child
      <4> QED
        BY <2>3, <3>1, <4>2, <4>3
    <3>4. CASE a.size = e.size
      <4>1. Covers(e, a.first)
        BY <2>1, <2>3, <3>1, <3>2, <3>4, Comparable
      <4>2. a = e
        BY <2>1, <3>1, <3>4, <4>1, BelowOne
      <4> QED
        BY <4>2
    <3>5. CASE a.size > e.size
      <4>1. Covers(a, e.first)
        BY <2>1, <2>3, <2>5, <3>1, <3>2, <3>5, Comparable
      <4> QED
        BY <1>6, <3>5, <4>1 DEF Visits
    <3> QED
      BY <2>5, <3>1, <3>3, <3>4, <3>5
  <2>9. c \in V
    BY <2>7, <2>8 DEF Visits
  <2>10. c.size \in sizes /\ ~(n <= c.size)
    BY <1>6, <2>2, <2>3, <2>5, <2>9
  <2> QED
    BY <1>5, <2>10
<1> QED
  BY <1>6, <1>7

\* A node says what is below it.
NodesRight(T) ==
    \A k \in DOMAIN T :
       /\ T[k].mass = Mass(Present(k)) /\ T[k].type \in NodeType
       /\ T[k].type \in {"EmptyBucket", "RemoteEmptyBucket"} => Present(k) = {}

\* The particles a walk takes of the leaves a bucket opens are those below them;
\* the others are asked for.
LeavesReady(pe, T, held, side, starts, mask, b) ==
    \A k \in LeavesOpened(T, side, starts, b) :
       IF k \in DOMAIN AtHand(pe, T, held, side, starts, mask)
       THEN AtHand(pe, T, held, side, starts, mask)[k] = Present(k)
       ELSE T[k].type \in {"Remote", "RemoteBucket"}

\* What a bucket sees in a walk, and what is below the leaves that are asked for
\* on its behalf, are S.
SumsTo(walk, b, S) ==
    /\ walk.seen[b] \in Int /\ AskedOf(walk, b) \in SUBSET Bin
    /\ walk.seen[b] + MassSum(AskedOf(walk, b)) = Mass(S)

\* What a bucket has gathered and waits for is all that is below the ends of its walk.
LEMMA WalkSum ==
    ASSUME keyOf \in [Particle -> Key], NEW pe, NEW T, Rooted(T), NodesRight(T),
           NEW starts, Level(starts), NEW held, NEW side, NEW mask, NEW b \in mask,
           LeavesReady(pe, T, held, side, starts, mask, b)
    PROVE  SumsTo(Walk(pe, T, held, side, starts, mask), b, Under(Ends(T, side, starts, b)))
<1> DEFINE walk == Walk(pe, T, held, side, starts, mask)
           hand == AtHand(pe, T, held, side, starts, mask)
           asked == AskedOf(walk, b)
           taken == TakenBy(T, side, starts, b)
           leaves == LeavesOpened(T, side, starts, b)
           near == leaves \cap DOMAIN hand
           E == Ends(T, side, starts, b)
<1>0. SeesOK(pe, T, held, side, starts, mask, b)
  BY WalkSees
<1>1. walk.seen[b] = OfNodes(T, taken) + OfParticles(hand, near)
  BY <1>0 DEF SeesOK
<1>2. asked = {k \in leaves \ DOMAIN hand : T[k].type \in {"Remote", "RemoteBucket"}}
  BY <1>0 DEF SeesOK
<1>3. /\ \A k \in near : hand[k] = Present(k)
      /\ \A k \in leaves \ DOMAIN hand : T[k].type \in {"Remote", "RemoteBucket"}
  BY DEF LeavesReady
<1>4. E = taken \cup leaves /\ taken \cap leaves = {}
  BY DEF Ends, TakenBy, LeavesOpened
<1>5. E \in SUBSET Bin /\ \A c, d \in E : c # d => Apart(c, d)
  BY EndsApart
<1>6. taken \subseteq DOMAIN T
  BY DEF TakenBy, Visits, Within
<1> HIDE DEF walk, hand, asked, taken, leaves, E
<1>7. /\ taken \in SUBSET Bin /\ near \in SUBSET Bin /\ asked \in SUBSET Bin
      /\ leaves = near \cup asked /\ near \cap asked = {}
  BY <1>2, <1>3, <1>4, <1>5
<1>8. OfNodes(T, taken) = MassSum(taken)
  <2>1. IsFiniteSet(taken) /\ \A k \in taken : Masses[k] = Mass(Present(k)) /\ Masses[k] \in Int
    BY <1>7, MassesAre
  <2>2. \A k \in taken : Masses[k] = T[k].mass /\ Masses[k] \in Int
    BY <1>6, <2>1 DEF NodesRight
  <2> QED
    BY <2>1, <2>2, NodesSum DEF MassSum
<1>9. OfParticles(hand, near) = MassSum(near)
  <2>1. IsFiniteSet(near) /\ \A k \in near : Masses[k] = Mass(Present(k)) /\ Masses[k] \in Int
    BY <1>7, MassesAre
  <2>2. \A k \in near : Masses[k] = Mass(hand[k]) /\ Masses[k] \in Int
    BY <1>3, <2>1
  <2> HIDE DEF near
  <2> QED
    BY <2>1, <2>2, ParticlesSum DEF MassSum
<1> HIDE DEF near
<1>10. MassSum(leaves) = MassSum(near) + MassSum(asked)
  <2>1. IsFiniteSet(near) /\ IsFiniteSet(asked)
    BY <1>7, MassesAre
  <2>2. \A k \in near \cup asked : Masses[k] \in Int
    BY <1>7, MassesAre
  <2> QED
    BY <1>7, <2>1, <2>2, SumOfTwo DEF MassSum
<1>11. MassSum(E) = MassSum(taken) + MassSum(leaves)
  <2>1. leaves \in SUBSET Bin
    BY <1>7
  <2>2. IsFiniteSet(taken) /\ IsFiniteSet(leaves)
    BY <1>7, <2>1, MassesAre
  <2>3. \A k \in taken \cup leaves : Masses[k] \in Int
    BY <1>7, <2>1, MassesAre
  <2> QED
    BY <1>4, <2>2, <2>3, SumOfTwo DEF MassSum
<1>12. MassSum(E) = Mass(Under(E))
  BY <1>5, MassOfApart
<1>13. MassSum(taken) \in Int /\ MassSum(near) \in Int /\ MassSum(asked) \in Int
  BY <1>7, MassesAre
<1>14. /\ walk.seen[b] \in Int /\ asked \in SUBSET Bin
       /\ walk.seen[b] + MassSum(asked) = Mass(Under(E))
  BY <1>1, <1>7, <1>8, <1>9, <1>10, <1>11, <1>12, <1>13
<1> QED
  BY <1>14 DEF SumsTo, walk, asked, E

\* The particles in what pe has of others', as far as b opens the way there.
FarThrough(pe, b, k) ==
    /\ k \in DOMAIN walked[pe] /\ walked[pe][k].type = "Remote"
    /\ \A a \in DOMAIN walked[pe] : Covers(a, k.first) /\ k.size < a.size => Opens(a, b)
Far(pe, b) == {p \in Particle : \E k \in DOMAIN walked[pe] :
                                   FarThrough(pe, b, k) /\ Covers(k, keyOf[p])}

\* What the trees a step begins with are like: there is nothing but Boundary nodes
\* above a Remote one, and a Bucket is one on one PE, which has all that is below.
WalkedOK ==
    /\ keyOf \in [Particle -> Key]
    /\ \A pe \in PE :
          /\ RootBin \in DOMAIN walked[pe] /\ DOMAIN walked[pe] \subseteq Bin
          /\ \A k \in DOMAIN walked[pe] :
                /\ walked[pe][k].type \in {"Internal", "Boundary", "Remote", "Bucket", "EmptyBucket"}
                /\ \A a \in DOMAIN walked[pe] :
                      Covers(a, k.first) /\ k.size < a.size =>
                         IF walked[pe][k].type = "Remote" THEN walked[pe][a].type = "Boundary"
                         ELSE walked[pe][a].type \in {"Internal", "Boundary"}
                /\ walked[pe][k].type = "Bucket" =>
                      /\ Mine(pe, k) = Present(k)
                      /\ \A q \in PE : q # pe /\ k \in DOMAIN walked[q] =>
                            walked[q][k].type # "Bucket"

\* Nodes of others' are never taken for one's own, nor the other way round, and
\* what has been fetched hangs below a Remote node.
TypesKept(pe) ==
    /\ phase[pe] # "advanced" =>
          /\ DOMAIN nodeTable[pe] = DOMAIN walked[pe]
          /\ \A k \in DOMAIN walked[pe] :
                IF walked[pe][k].type = "Remote" THEN nodeTable[pe][k].type \in Elsewhere
                ELSE nodeTable[pe][k].type = walked[pe][k].type
    /\ \A k \in DOMAIN cached[pe] :
          /\ cached[pe][k].type \in Elsewhere
          /\ \E a \in DOMAIN walked[pe] :
                walked[pe][a].type = "Remote" /\ Covers(a, k.first) /\ k.size < a.size

\* A tree that is whole: nodes have all their children or are leaves.
Whole(T) ==
    /\ Full(T) /\ NodesRight(T)
    /\ \A k \in DOMAIN T : T[k].type \in {"Internal", "Boundary"} => T[k].numChildren # 0

TreeRight(pe) ==
    /\ TypesKept(pe) /\ Whole(Tree(pe))
    /\ \A k \in DOMAIN fetched[pe] : fetched[pe][k] = Present(k)

\* What an answer brings.
AnswerRight(m) ==
    /\ Full(m.nodes) /\ NodesRight(m.nodes)
    /\ \A k \in DOMAIN m.nodes : m.nodes[k].type \in Elsewhere
    /\ m.kind = "node" => m.node.size > 1 /\ Children(m.node) \subseteq DOMAIN m.nodes
    /\ m.kind = "particles" => m.particles = Present(m.node)

\* A bucket walks with one TreePiece.
GroupsRight(t) ==
    \A g \in DOMAIN walkGroups[t] : \A b \in walkGroups[t][g] :
       /\ b \in DOMAIN walked[homeOf[t]] /\ walked[homeOf[t]][b].type = "Bucket"
       /\ PieceOf(homeOf[t], b) = t

\* What it has seen, and waits for, is what its walks so far are about.
Part(begun, S) == IF begun THEN Mass(S) ELSE 0
SeenSoFar(t, g, b) ==
    /\ seen[b] \in Int
    /\ seen[b] + MassSum(Awaited(homeOf[t], b)) =
          Part(g <= current[t]["local"], Particle \ Far(homeOf[t], b))
             + Part(g <= current[t]["remote"], Far(homeOf[t], b))
SeenRight(t) == \A g \in DOMAIN walkGroups[t] : \A b \in walkGroups[t][g] : SeenSoFar(t, g, b)
NotSeen(b) ==
    (\A t \in TreePiece : \A g \in DOMAIN walkGroups[t] : b \notin walkGroups[t][g]) => seen[b] = 0

SeenInv ==
    /\ WalkedOK /\ DOMAIN seen = Bin
    /\ \A pe \in PE : TreeRight(pe)
    /\ \A m \in replies : AnswerRight(m)
    /\ \A t \in TreePiece : GroupsRight(t) /\ SeenRight(t)
    /\ \A b \in Bin : NotSeen(b)

----------------------------------------------------------------------------
(* What the walks of a step see. *)

\* The particles a walk takes of a leaf are those below it.
HeldRight(pe, T, held) ==
    /\ \A k \in DOMAIN held : held[k] = Present(k)
    /\ \A k \in DOMAIN T : T[k].type = "Bucket" => Mine(pe, k) = Present(k)

\* In a tree that is whole every leaf that is opened is at hand or can be asked for.
LEMMA WalkSumsTo ==
    ASSUME keyOf \in [Particle -> Key], NEW pe, NEW T, Rooted(T), Whole(T),
           NEW held, HeldRight(pe, T, held), NEW starts, Level(starts), NEW side \in Side,
           NEW mask, NEW b \in mask
    PROVE  SumsTo(Walk(pe, T, held, side, starts, mask), b, Under(Ends(T, side, starts, b)))
<1> DEFINE hand == AtHand(pe, T, held, side, starts, mask)
<1>1. ASSUME NEW k \in LeavesOpened(T, side, starts, b)
      PROVE  IF k \in DOMAIN hand THEN hand[k] = Present(k)
             ELSE T[k].type \in {"Remote", "RemoteBucket"}
  <2>1. /\ k \in Within(T, starts) /\ k \in DOMAIN T /\ k \in KeptBy(T, side, starts)
        /\ k \in Visits(T, side, starts, b) /\ Opens(k, b)
        /\ T[k].type \in Keep(side) /\ T[k].numChildren = 0
    BY <1>1 DEF LeavesOpened, Visits, KeptBy, Within
  <2>2. T[k].type \in {"Bucket", "Remote", "RemoteBucket"}
    BY <2>1 DEF Whole, Keep, Side
  <2>3. b \in Opening(T, side, starts, mask)[k]
    BY <2>1, VisitsAre, OpeningIs
  <2>4. k \in Reached(T, side, starts, mask)
    BY <2>1, <2>3 DEF Reached
  <2>5. /\ k \in DOMAIN hand <=> T[k].type = "Bucket" \/ k \in DOMAIN held
        /\ T[k].type = "Bucket" => hand[k] = Mine(pe, k)
        /\ T[k].type # "Bucket" /\ k \in DOMAIN held => hand[k] = held[k]
    BY <2>4 DEF AtHand, Extended
  <2> HIDE DEF hand
  <2>6. CASE T[k].type = "Bucket"
    BY <2>1, <2>5, <2>6 DEF HeldRight
  <2>7. CASE T[k].type # "Bucket"
    BY <2>2, <2>5, <2>7 DEF HeldRight
  <2> QED
    BY <2>6, <2>7
<1> HIDE DEF hand
<1>2. LeavesReady(pe, T, held, side, starts, mask, b)
  BY <1>1 DEF LeavesReady, hand
<1>3. NodesRight(T)
  BY DEF Whole
<1> QED
  BY <1>2, <1>3, WalkSum

\* Below a Remote node, or one.
Foreign(pe, k) ==
    \E a \in DOMAIN walked[pe] :
       walked[pe][a].type = "Remote" /\ Covers(a, k.first) /\ k.size <= a.size

\* Of a node in pe's tree the type says whose it is.
LEMMA TypesTell ==
    ASSUME WalkedOK, NEW pe \in PE, TypesKept(pe), phase[pe] # "advanced", Rooted(Tree(pe))
    PROVE  \A k \in DOMAIN Tree(pe) :
              IF Tree(pe)[k].type \in Elsewhere THEN Foreign(pe, k)
              ELSE /\ ~Foreign(pe, k) /\ k \in DOMAIN walked[pe]
                   /\ Tree(pe)[k].type = walked[pe][k].type
<1>1. /\ DOMAIN nodeTable[pe] = DOMAIN walked[pe] /\ DOMAIN walked[pe] \subseteq Bin
      /\ DOMAIN Tree(pe) = DOMAIN cached[pe] \cup DOMAIN nodeTable[pe]
      /\ \A k \in DOMAIN cached[pe] : Tree(pe)[k] = cached[pe][k]
      /\ \A k \in DOMAIN nodeTable[pe] \ DOMAIN cached[pe] : Tree(pe)[k] = nodeTable[pe][k]
  <2>1. DOMAIN nodeTable[pe] = DOMAIN walked[pe]
    BY DEF TypesKept
  <2>2. DOMAIN walked[pe] \subseteq Bin
    BY DEF WalkedOK
  <2> QED
    BY <2>1, <2>2, ExtendedFacts DEF Tree
<1>2. ASSUME NEW k \in DOMAIN cached[pe]
      PROVE  Tree(pe)[k].type \in Elsewhere /\ Foreign(pe, k)
  <2>1. cached[pe][k].type \in Elsewhere
    BY DEF TypesKept
  <2>2. PICK a \in DOMAIN walked[pe] :
           walked[pe][a].type = "Remote" /\ Covers(a, k.first) /\ k.size < a.size
    BY DEF TypesKept
  <2>3. k \in Bin /\ a \in Bin
    BY <1>1 DEF Rooted
  <2>4. k.size <= a.size
    BY <2>2, <2>3, BinWithin
  <2> QED
    BY <1>1, <2>1, <2>2, <2>4 DEF Foreign
<1>3. ASSUME NEW k \in DOMAIN nodeTable[pe] \ DOMAIN cached[pe], walked[pe][k].type = "Remote"
      PROVE  Tree(pe)[k].type \in Elsewhere /\ Foreign(pe, k)
  <2>1. Covers(k, k.first) /\ k.size <= k.size
    BY <1>1, CoversFirst, BinWithin
  <2> QED
    BY <1>1, <1>3, <2>1 DEF Foreign, TypesKept
<1>4. ASSUME NEW k \in DOMAIN nodeTable[pe] \ DOMAIN cached[pe], walked[pe][k].type # "Remote"
      PROVE  /\ Tree(pe)[k].type \notin Elsewhere /\ ~Foreign(pe, k) /\ k \in DOMAIN walked[pe]
             /\ Tree(pe)[k].type = walked[pe][k].type
  <2>1. k \in DOMAIN walked[pe] /\ k \in Bin
    BY <1>1
  <2>2. Tree(pe)[k].type = walked[pe][k].type
    BY <1>1, <1>4, <2>1 DEF TypesKept
  <2>3. walked[pe][k].type \notin Elsewhere
    BY <1>4, <2>1 DEF WalkedOK, Elsewhere
  <2>4. ASSUME NEW a \in DOMAIN walked[pe], walked[pe][a].type = "Remote",
               Covers(a, k.first), k.size <= a.size
        PROVE  FALSE
    <3>1. a \in Bin /\ a # k
      BY <1>1, <1>4, <2>4
    <3>2. k.size < a.size
      BY <2>1, <2>4, <3>1, BelowOne
    <3> QED
      BY <2>1, <2>4, <3>2, <1>4 DEF WalkedOK
  <2> QED
    BY <2>1, <2>2, <2>3, <2>4 DEF Foreign
<1> QED
  BY <1>1, <1>2, <1>3, <1>4

\* A node above a Remote one is a Boundary node.
LEMMA AboveRemote ==
    ASSUME WalkedOK, NEW pe \in PE, TypesKept(pe), phase[pe] # "advanced",
           Rooted(Tree(pe)), NEW k \in DOMAIN walked[pe], walked[pe][k].type = "Remote",
           NEW e \in DOMAIN Tree(pe), ~Foreign(pe, e),
           NEW x \in Key, Covers(k, x), Covers(e, x), e \in Bin
    PROVE  /\ e \in DOMAIN walked[pe] /\ Covers(e, k.first) /\ k.size < e.size
           /\ Tree(pe)[e].type = "Boundary"
<1>1. k \in Bin /\ k.size \in Nat /\ e.size \in Nat
  BY BinWithin DEF WalkedOK
<1>2. ~(e.size <= k.size)
  <2> SUFFICES ASSUME e.size <= k.size PROVE FALSE
    OBVIOUS
  <2>1. Covers(k, e.first)
    BY <1>1, Comparable
  <2> QED
    BY <2>1 DEF Foreign
<1>3. k.size < e.size /\ Covers(e, k.first)
  BY <1>1, <1>2, Comparable
<1>4. e \in DOMAIN walked[pe] /\ Tree(pe)[e].type = walked[pe][e].type
  BY TypesTell
<1>5. walked[pe][e].type = "Boundary"
  BY <1>3, <1>4 DEF WalkedOK
<1> QED
  BY <1>3, <1>4, <1>5

\* All nodes are below the root.
LEMMA AllWithin ==
    ASSUME NEW T, Rooted(T)
    PROVE  Within(T, {RootBin}) = DOMAIN T /\ Level({RootBin})
<1>1. ASSUME NEW k \in DOMAIN T
      PROVE  Covers(RootBin, k.first) /\ k.size <= RootBin.size
  <2>1. k \in Bin
    BY DEF Rooted
  <2>2. k.first \in Nat /\ k.size \in Nat \ {0} /\ k.first + k.size <= KeySpace
    BY <2>1, BinWithin
  <2>3. Covers(RootBin, k.first)
    BY <2>1, RootIsBin, CoversFirst
  <2>4. KeySpace \in Nat
    BY KeySpaceType
  <2> QED
    BY <2>2, <2>3, <2>4 DEF RootBin
<1> QED
  BY <1>1, RootIsBin DEF Within, Level

\* What a walk comes to of others' is in what its bucket opens the way to.
LEMMA FarVisited ==
    ASSUME WalkedOK, NEW pe \in PE, TypesKept(pe), phase[pe] # "advanced", Rooted(Tree(pe)),
           NEW side, NEW b, NEW e \in Visits(Tree(pe), side, {RootBin}, b), Foreign(pe, e),
           NEW p \in Present(e)
    PROVE  p \in Far(pe, b)
<1> DEFINE T == Tree(pe)
<1>1. Within(T, {RootBin}) = DOMAIN T /\ DOMAIN T \subseteq Bin
  BY AllWithin DEF Rooted
<1>2. e \in DOMAIN T /\ e \in Bin
  BY <1>1 DEF Visits
<1>3. p \in Particle /\ keyOf[p] \in Key /\ Covers(e, keyOf[p])
  BY DEF Present, WalkedOK
<1>4. PICK a \in DOMAIN walked[pe] :
         walked[pe][a].type = "Remote" /\ Covers(a, e.first) /\ e.size <= a.size
  BY DEF Foreign
<1>5. /\ DOMAIN walked[pe] \subseteq DOMAIN T /\ a \in Bin
      /\ e.size \in Nat /\ a.size \in Nat
  <2>1. DOMAIN nodeTable[pe] = DOMAIN walked[pe]
    BY DEF TypesKept
  <2>2. DOMAIN Tree(pe) = DOMAIN cached[pe] \cup DOMAIN nodeTable[pe]
    BY ExtendedFacts DEF Tree
  <2>3. DOMAIN walked[pe] \subseteq DOMAIN T
    BY <2>1, <2>2
  <2> QED
    BY <1>1, <1>2, <2>3, BinWithin
<1>6. Covers(a, keyOf[p])
  BY <1>2, <1>3, <1>4, <1>5, BelowOne
<1>7. ASSUME NEW c \in DOMAIN walked[pe], Covers(c, a.first), a.size < c.size
      PROVE  Opens(c, b)
  <2>1. c \in Bin /\ c.size \in Nat
    BY <1>1, <1>5, BinWithin
  <2>2. e.first \in Key /\ a.size <= c.size
    BY <1>2, <1>5, <1>7, <2>1, CoversFirst
  <2>3. Covers(c, e.first)
    BY <1>4, <1>5, <1>7, <2>1, <2>2, BelowOne
  <2>4. e.size < c.size
    BY <1>4, <1>5, <1>7, <2>1
  <2> QED
    BY <1>1, <1>5, <2>3, <2>4 DEF Visits
<1>8. FarThrough(pe, b, a)
  BY <1>4, <1>7 DEF FarThrough
<1> QED
  BY <1>3, <1>6, <1>8 DEF Far

\* The ends of the two walks from the root: those of the one have no particle that
\* is far, those of the other no other, and none is missed.
LEMMA EndsOfLocal ==
    ASSUME WalkedOK, NEW pe \in PE, TypesKept(pe), phase[pe] # "advanced", Rooted(Tree(pe)),
           Whole(Tree(pe)), RootBin \in DOMAIN Tree(pe), NEW b
    PROVE  Under(Ends(Tree(pe), "local", {RootBin}, b)) = Particle \ Far(pe, b)
<1> DEFINE T == Tree(pe)
           V == Visits(T, "local", {RootBin}, b)
           K == KeptBy(T, "local", {RootBin})
           E == Ends(T, "local", {RootBin}, b)
<1>1. /\ Within(T, {RootBin}) = DOMAIN T /\ Level({RootBin}) /\ DOMAIN T \subseteq Bin
      /\ V \subseteq DOMAIN T /\ K = {k \in DOMAIN T : T[k].type \in {"Internal", "Bucket", "Boundary"}}
  BY AllWithin DEF Rooted, Visits, KeptBy, Keep
<1>2. \A k \in DOMAIN T : IF T[k].type \in Elsewhere THEN Foreign(pe, k)
                           ELSE ~Foreign(pe, k) /\ k \in DOMAIN walked[pe]
  BY TypesTell
<1>3. ASSUME NEW p \in Particle \ Far(pe, b)
      PROVE  p \in Under(E)
  <2>1. keyOf[p] \in Key /\ Covers(RootBin, keyOf[p])
    BY RootIsBin DEF WalkedOK
  <2>2. Full(T) /\ NodesRight(T)
    BY DEF Whole
  <2>3. PICK e \in V : Covers(e, keyOf[p]) /\ (e \notin K \/ ~Opens(e, b) \/ T[e].numChildren = 0)
    BY <1>1, <2>1, <2>2, LastVisit
  <2>4. e \in DOMAIN T /\ p \in Present(e)
    BY <1>1, <2>3 DEF Present
  <2>5. T[e].type \notin Elsewhere
    <3> SUFFICES ASSUME T[e].type \in Elsewhere PROVE FALSE
      OBVIOUS
    <3>1. Foreign(pe, e)
      BY <1>2, <2>4
    <3> QED
      BY <2>3, <2>4, <3>1, FarVisited
  <2>6. e \in K
    BY <1>1, <2>2, <2>4, <2>5 DEF NodesRight, NodeType, Here
  <2>7. e \in E
    BY <2>3, <2>6 DEF Ends, TakenBy, LeavesOpened, Applies
  <2> QED
    BY <2>3, <2>7 DEF Under
<1>4. ASSUME NEW p \in Under(E), p \in Far(pe, b)
      PROVE  FALSE
  <2>1. PICK e \in E : Covers(e, keyOf[p])
    BY <1>4 DEF Under
  <2>2. PICK k \in DOMAIN walked[pe] : FarThrough(pe, b, k) /\ Covers(k, keyOf[p])
    BY <1>4 DEF Far
  <2>3. keyOf[p] \in Key /\ walked[pe][k].type = "Remote"
    BY <1>4, <2>2 DEF WalkedOK, Under, FarThrough
  <2>4. e \in K /\ e \in DOMAIN T /\ e \in Bin
    BY <1>1, <2>1 DEF Ends, TakenBy, LeavesOpened
  <2>5. ~Foreign(pe, e)
    BY <1>1, <1>2, <2>4 DEF Elsewhere
  <2>6. /\ e \in DOMAIN walked[pe] /\ Covers(e, k.first) /\ k.size < e.size
        /\ T[e].type = "Boundary"
    BY <2>1, <2>2, <2>3, <2>4, <2>5, AboveRemote
  <2>7. Opens(e, b) /\ T[e].numChildren # 0
    BY <2>2, <2>4, <2>6 DEF FarThrough, Whole
  <2> QED
    BY <2>1, <2>7 DEF Ends, TakenBy, LeavesOpened
<1>5. Under(E) \subseteq Particle
  BY DEF Under
<1> HIDE DEF E
<1> QED
  BY <1>3, <1>4, <1>5 DEF E

\* Below the ends of the remote walk are the particles of others.
LEMMA EndsOfRemote ==
    ASSUME WalkedOK, NEW pe \in PE, TypesKept(pe), phase[pe] # "advanced", Rooted(Tree(pe)),
           Whole(Tree(pe)), RootBin \in DOMAIN Tree(pe), NEW b
    PROVE  Under(Ends(Tree(pe), "remote", {RootBin}, b)) = Far(pe, b)
<1> DEFINE T == Tree(pe)
           V == Visits(T, "remote", {RootBin}, b)
           K == KeptBy(T, "remote", {RootBin})
           E == Ends(T, "remote", {RootBin}, b)
<1>1. /\ Within(T, {RootBin}) = DOMAIN T /\ Level({RootBin}) /\ DOMAIN T \subseteq Bin
      /\ V \subseteq DOMAIN T
      /\ K = {k \in DOMAIN T : T[k].type \in {"Boundary", "Remote", "RemoteBucket"}}
  BY AllWithin DEF Rooted, Visits, KeptBy, Keep
<1>2. \A k \in DOMAIN T : IF T[k].type \in Elsewhere THEN Foreign(pe, k)
                           ELSE ~Foreign(pe, k) /\ k \in DOMAIN walked[pe]
  BY TypesTell
<1>3. ASSUME NEW p \in Far(pe, b)
      PROVE  p \in Under(E)
  <2>1. p \in Particle /\ keyOf[p] \in Key /\ Covers(RootBin, keyOf[p])
    BY RootIsBin DEF WalkedOK, Far
  <2>2. Full(T) /\ NodesRight(T)
    BY DEF Whole
  <2>3. PICK e \in V : Covers(e, keyOf[p]) /\ (e \notin K \/ ~Opens(e, b) \/ T[e].numChildren = 0)
    BY <1>1, <2>1, <2>2, LastVisit
  <2>4. e \in DOMAIN T /\ p \in Present(e) /\ e \in Bin
    BY <1>1, <2>1, <2>3 DEF Present
  <2>5. PICK k \in DOMAIN walked[pe] : FarThrough(pe, b, k) /\ Covers(k, keyOf[p])
    BY <1>3 DEF Far
  <2>6. walked[pe][k].type = "Remote"
    BY <2>5 DEF FarThrough
  <2>7. ~Foreign(pe, e) => T[e].type = "Boundary" /\ Opens(e, b) /\ T[e].numChildren # 0
    <3> SUFFICES ASSUME ~Foreign(pe, e)
                 PROVE  T[e].type = "Boundary" /\ Opens(e, b) /\ T[e].numChildren # 0
      OBVIOUS
    <3>1. /\ e \in DOMAIN walked[pe] /\ Covers(e, k.first) /\ k.size < e.size
          /\ T[e].type = "Boundary"
      BY <2>1, <2>3, <2>4, <2>5, <2>6, AboveRemote
    <3> QED
      BY <2>4, <2>5, <3>1 DEF FarThrough, Whole
  <2>8. T[e].type \in {"Boundary", "Remote", "RemoteBucket"}
    <3>1. T[e].type \in Elsewhere \/ T[e].type = "Boundary"
      BY <1>2, <2>4, <2>7
    <3> QED
      BY <2>2, <2>4, <3>1 DEF NodesRight, Elsewhere
  <2>9. e \in K
    BY <1>1, <2>4, <2>8
  <2>10. e \in E
    <3>1. CASE Foreign(pe, e)
      <4>1. T[e].type # "Boundary"
        BY <1>2, <2>4, <3>1 DEF Elsewhere
      <4> QED
        BY <2>3, <2>9, <4>1 DEF Ends, TakenBy, LeavesOpened, Applies
    <3>2. CASE ~Foreign(pe, e)
      BY <2>3, <2>7, <2>9, <3>2
    <3> QED
      BY <3>1, <3>2
  <2> QED
    BY <2>1, <2>3, <2>10 DEF Under
<1>4. ASSUME NEW p \in Under(E)
      PROVE  p \in Far(pe, b)
  <2>1. PICK e \in E : Covers(e, keyOf[p])
    BY <1>4 DEF Under
  <2>2. e \in K /\ e \in V /\ e \in DOMAIN T /\ p \in Present(e)
    BY <1>1, <1>4, <2>1 DEF Ends, TakenBy, LeavesOpened, Under, Present
  <2>3. T[e].type # "Boundary"
    <3> SUFFICES ASSUME T[e].type = "Boundary" PROVE FALSE
      OBVIOUS
    <3>1. T[e].numChildren # 0
      BY <2>2 DEF Whole
    <3> QED
      BY <2>1, <3>1 DEF Ends, TakenBy, LeavesOpened, Applies
  <2>4. Foreign(pe, e)
    BY <1>1, <1>2, <2>2, <2>3 DEF Elsewhere
  <2> QED
    BY <2>2, <2>4, FarVisited
<1> HIDE DEF E
<1> QED
  BY <1>3, <1>4 DEF E

\* The ends of a walk that goes on below a node, once what is there has come.
LEMMA EndsBelow ==
    ASSUME keyOf \in [Particle -> Key], NEW T, Rooted(T), Whole(T), NEW k \in Bin, k.size > 1,
           Children(k) \subseteq DOMAIN T,
           \A c \in DOMAIN T : Covers(k, c.first) /\ c.size < k.size => T[c].type \in Elsewhere,
           NEW b
    PROVE  /\ Level(Children(k))
           /\ Under(Ends(T, "remote", Children(k), b)) = Present(k)
<1> DEFINE V == Visits(T, "remote", Children(k), b)
           K == KeptBy(T, "remote", Children(k))
           E == Ends(T, "remote", Children(k), b)
           W == Within(T, Children(k))
<1>1. \A c \in Children(k) : /\ c \in Bin /\ c.size < k.size
                              /\ \A x \in Key : Covers(c, x) => Covers(k, x)
  <2> TAKE c \in Children(k)
  <2>1. c \in Bin /\ c.size < k.size
    BY AboveChild
  <2> QED
    BY <2>1, ChildCoveredByParent DEF Children
<1>2. \A c \in Children(k) : c.size = k.size \div BranchFactor
  BY DEF Children, Child
<1>3. Level(Children(k))
  BY <1>1, <1>2 DEF Level
<1>4. ASSUME NEW e \in W
      PROVE  /\ e \in DOMAIN T /\ T[e].type \in Elsewhere
             /\ \A x \in Key : Covers(e, x) => Covers(k, x)
  <2>1. PICK s \in Children(k) : Covers(s, e.first) /\ e.size <= s.size
    BY <1>4 DEF Within
  <2>2. e \in DOMAIN T /\ e \in Bin /\ s \in Bin
    BY <1>1, <1>4 DEF Within, Rooted
  <2>3. e.first \in Key /\ e.size \in Nat /\ s.size \in Nat /\ k.size \in Nat
    BY <2>2, BinWithin, CoversFirst
  <2>4. Covers(k, e.first) /\ e.size < k.size
    BY <1>1, <2>1, <2>3
  <2>5. \A x \in Key : Covers(e, x) => Covers(s, x)
    BY <2>1, <2>2, BelowOne
  <2> QED
    BY <1>1, <2>2, <2>4, <2>5
<1>5. V \subseteq W /\ K = {e \in W : T[e].type \in {"Boundary", "Remote", "RemoteBucket"}}
  BY DEF Visits, KeptBy, Keep
<1>6. ASSUME NEW p \in Present(k)
      PROVE  p \in Under(E)
  <2>1. p \in Particle /\ keyOf[p] \in Key /\ Covers(k, keyOf[p])
    BY DEF Present
  <2>2. PICK s \in Children(k) : Covers(s, keyOf[p])
    BY <2>1, OneChildCovers DEF Children
  <2>3. Full(T) /\ NodesRight(T)
    BY DEF Whole
  <2>4. PICK e \in V : Covers(e, keyOf[p]) /\ (e \notin K \/ ~Opens(e, b) \/ T[e].numChildren = 0)
    BY <1>3, <2>1, <2>2, <2>3, LastVisit
  <2>5. e \in DOMAIN T /\ p \in Present(e) /\ T[e].type \in Elsewhere
    BY <1>4, <1>5, <2>1, <2>4 DEF Present
  <2>6. e \in K /\ T[e].type # "Boundary"
    BY <1>5, <2>3, <2>4, <2>5 DEF NodesRight, Elsewhere
  <2>7. e \in E
    BY <2>4, <2>6 DEF Ends, TakenBy, LeavesOpened, Applies
  <2> QED
    BY <2>1, <2>4, <2>7 DEF Under
<1>7. ASSUME NEW p \in Under(E)
      PROVE  p \in Present(k)
  <2>1. PICK e \in E : Covers(e, keyOf[p])
    BY <1>7 DEF Under
  <2>2. e \in W /\ p \in Particle /\ keyOf[p] \in Key
    BY <1>5, <1>7, <2>1 DEF Ends, TakenBy, LeavesOpened, Under
  <2> QED
    BY <1>4, <2>1, <2>2 DEF Present
<1> HIDE DEF E
<1> QED
  BY <1>3, <1>6, <1>7 DEF E

\* What a side's walk from the root is about.
Share(pe, side, b) == IF side = "local" THEN Particle \ Far(pe, b) ELSE Far(pe, b)

\* A PE holds the particles of its own buckets and of those fetched.
LEMMA BucketsHeld ==
    ASSUME WalkedOK, NEW pe \in PE, TreeRight(pe), phase[pe] # "advanced", Rooted(Tree(pe))
    PROVE  HeldRight(pe, Tree(pe), fetched[pe])
<1>1. ASSUME NEW k \in DOMAIN Tree(pe), Tree(pe)[k].type = "Bucket"
      PROVE  Mine(pe, k) = Present(k)
  <2>1. TypesKept(pe)
    BY DEF TreeRight
  <2>2. k \in DOMAIN walked[pe] /\ walked[pe][k].type = "Bucket"
    BY <1>1, <2>1, TypesTell DEF Elsewhere
  <2> QED
    BY <2>2 DEF WalkedOK
<1> QED
  BY <1>1 DEF HeldRight, TreeRight

\* A walk from the root sees, or asks for, its side's share of the particles.
LEMMA WalkFromRoot ==
    ASSUME WalkedOK, NEW pe \in PE, TreeRight(pe), phase[pe] # "advanced", Rooted(Tree(pe)),
           NEW side \in Side, NEW mask, NEW b \in mask
    PROVE  SumsTo(Walk(pe, Tree(pe), fetched[pe], side, {RootBin}, mask), b, Share(pe, side, b))
<1>1. TypesKept(pe) /\ Whole(Tree(pe)) /\ keyOf \in [Particle -> Key]
  BY DEF TreeRight, WalkedOK
<1>2. RootBin \in DOMAIN Tree(pe)
  <2>1. RootBin \in DOMAIN nodeTable[pe]
    BY <1>1 DEF TypesKept, WalkedOK
  <2>2. DOMAIN Tree(pe) = DOMAIN cached[pe] \cup DOMAIN nodeTable[pe]
    BY ExtendedFacts DEF Tree
  <2> QED
    BY <2>1, <2>2
<1>3. Under(Ends(Tree(pe), side, {RootBin}, b)) = Share(pe, side, b)
  <2>1. CASE side = "local"
    BY <1>1, <1>2, <2>1, EndsOfLocal DEF Share
  <2>2. CASE side = "remote"
    BY <1>1, <1>2, <2>2, EndsOfRemote DEF Share
  <2> QED
    BY <2>1, <2>2 DEF Side
<1>4. HeldRight(pe, Tree(pe), fetched[pe]) /\ Level({RootBin})
  BY BucketsHeld, AllWithin
<1>5. SumsTo(Walk(pe, Tree(pe), fetched[pe], side, {RootBin}, mask), b,
             Under(Ends(Tree(pe), side, {RootBin}, b)))
  BY <1>1, <1>4, WalkSumsTo
<1> QED
  BY <1>3, <1>5

----------------------------------------------------------------------------
(* The trees a step begins with. *)

\* Every particle is in a TreePiece's cell.
LEMMA EveryCell ==
    ASSUME Input, NEW p \in Particle
    PROVE  \E t \in TreePiece : Covers(cellOf[t], keyOf[p])
<1> DEFINE x == keyOf[p]
<1>1. keyOf \in [Particle -> Key] /\ x \in Key
  BY DEF Input
<1>2. PICK split \in SUBSET {b \in Bin : Separable(Present(b))} :
         /\ \A b \in split : Path(b) \subseteq split
         /\ cellOf = [t \in 0 .. Cardinality(CellsOf(split)) - 1 |-> At(CellsOf(split), t + 1)]
  BY DEF Input, CellsOf
<1> DEFINE cells == CellsOf(split)
           n == Cardinality(cells)
           sizes == {s \in 0 .. KeySpace : \E b \in Bin \ split : b.size = s /\ Covers(b, x)}
           all == {s \in Nat : \E b \in Bin : b.size = s /\ Covers(b, x)}
<1>3. InKeyOrder(cells)
  BY <1>1, <1>2, CellsInOrder
<1>4. \A b \in Bin : b.size \in Nat /\ b.size \in 0 .. KeySpace /\ KeySpace \in Nat
  BY BinWithin, KeySpaceType
<1> HIDE DEF x, cells, n
<1>5. sizes # {}
  <2>1. all # {}
    BY <1>1, <1>4, RootIsBin
  <2>2. Min(all) \in all /\ \A s \in all : Min(all) <= s
    BY <2>1, LeastOf
  <2>3. PICK b \in Bin : b.size = Min(all) /\ Covers(b, x)
    BY <2>2
  <2>4. b.size = 1
    <3> SUFFICES ASSUME b.size # 1 PROVE FALSE
      OBVIOUS
    <3>1. b.size > 1
      BY BinWithin
    <3>2. PICK i \in ChildIndex : Covers(Child(b, i), x)
      BY <1>1, <2>3, <3>1, OneChildCovers
    <3>3. Child(b, i) \in Bin /\ Child(b, i).size < b.size
      BY <3>1, AboveChild DEF Children
    <3> QED
      BY <1>4, <2>2, <2>3, <3>2, <3>3
  <2>5. \A q \in Present(b) : keyOf[q] = x
    <3> TAKE q \in Present(b)
    <3>1. Covers(b, keyOf[q]) /\ keyOf[q] \in Key
      BY <1>1 DEF Present
    <3> QED
      BY <1>1, <2>3, <2>4, <3>1, BinWithin DEF Covers, Key
  <2>6. b \notin split
    BY <1>2, <2>5 DEF Separable
  <2> QED
    BY <1>4, <2>3, <2>6
<1>6. Max(sizes) \in sizes /\ \A s \in sizes : s <= Max(sizes)
  BY <1>4, <1>5, KeySpaceType, GreatestOf
<1>7. PICK b \in Bin \ split : b.size = Max(sizes) /\ Covers(b, x)
  BY <1>6
<1>8. ASSUME NEW a \in Path(b), a # b PROVE a \in split
  <2>1. a \in Bin /\ Covers(a, x) /\ Covers(a, b.first)
    BY <1>1, <1>7, PathCovers, CoversFirst
  <2>2. a.size >= b.size
    BY <1>8 DEF Path
  <2>3. a.size > b.size
    BY <1>4, <1>8, <2>1, <2>2, BelowOne
  <2> QED
    BY <1>4, <1>6, <1>7, <2>1, <2>3
<1>9. b \in cells
  BY <1>8 DEF cells, CellsOf
<1>10. Position(cells, b) \in 1 .. n /\ At(cells, Position(cells, b)) = b
  BY <1>3, <1>9, PositionsInOrder DEF n
<1>11. n \in Nat
  BY <1>3, FS_CardinalityType DEF InKeyOrder, n
<1> DEFINE t == Position(cells, b) - 1
<1>12. t \in 0 .. n - 1 /\ t + 1 = Position(cells, b)
  BY <1>10, <1>11
<1>13. t \in TreePiece /\ cellOf[t] = b
  BY <1>2, <1>10, <1>12 DEF TreePiece, cells, n
<1> QED
  BY <1>7, <1>13 DEF x

\* One that has particles below a node.
LEMMA CellSpans ==
    ASSUME Input, CellsOK, NEW b \in Bin, NEW p \in Present(b)
    PROVE  \E t \in TreePiece : /\ Covers(cellOf[t], keyOf[p]) /\ p \in Particle
                                /\ tpCounts[t] > 0 /\ Spans(t, b)
<1>1. p \in Particle /\ Covers(b, keyOf[p]) /\ keyOf[p] \in Key
  BY DEF Present, CellsOK
<1>2. PICK t \in TreePiece : Covers(cellOf[t], keyOf[p])
  BY <1>1, EveryCell
<1>3. p \in Present(cellOf[t])
  BY <1>1, <1>2 DEF Present
<1>4. tpCounts[t] > 0 /\ keyRanges[2 * t] <= keyOf[p] /\ keyOf[p] <= keyRanges[2 * t + 1]
  BY <1>3 DEF CellsOK
<1> QED
  BY <1>1, <1>2, <1>4 DEF Spans

\* A leaf of its own a PE has whole, and nobody else has some of it.
LEMMA OwnLeaves ==
    ASSUME Input, CellsOK, NEW pe \in PE, NEW b \in Bin
    PROVE  /\ LeafType(pe, b, Ownership[b]) = "Bucket" =>
                 /\ Mine(pe, b) = Present(b)
                 /\ \A q \in PE : q # pe => Mine(q, b) = {}
           /\ LeafType(pe, b, Ownership[b]) = "EmptyBucket" => Present(b) = {}
<1>1. OwnersAre(b, Ownership[b])
  BY OwnershipIs
<1>2. ASSUME LeafType(pe, b, Ownership[b]) # "Remote", NEW p \in Present(b), NEW q, p \in Mine(q, b)
      PROVE  q = pe
  <2>1. PICK u \in TreePiece : homeOf[u] = q /\ tpCounts[u] > 0 /\ Spans(u, b)
    BY <1>2, MineSpans
  <2>2. Ownership[b] # NoOwners
    BY <1>1, <2>1, NoneSpans
  <2>3. ~Several(Ownership[b]) /\ homeOf[Ownership[b].start] = pe
    BY <1>2, <2>2 DEF LeafType
  <2>4. Ownership[b] = [start |-> u, end |-> u]
    BY <2>1, <2>3, OneOwner
  <2> QED
    BY <2>1, <2>3, <2>4
<1>3. ASSUME LeafType(pe, b, Ownership[b]) # "Remote", NEW p \in Present(b)
      PROVE  p \in Mine(pe, b)
  <2>1. PICK t \in TreePiece : Covers(cellOf[t], keyOf[p]) /\ p \in Particle
                               /\ tpCounts[t] > 0 /\ Spans(t, b)
    BY CellSpans
  <2>2. p \in Mine(homeOf[t], b)
    BY <2>1 DEF Mine
  <2> QED
    BY <1>2, <1>3, <2>2
<1>4. \A q : Mine(q, b) \subseteq Present(b)
  BY DEF Mine
<1>5. LeafType(pe, b, Ownership[b]) = "EmptyBucket" => Mine(pe, b) = {}
  BY DEF LeafType
<1> QED
  BY <1>2, <1>3, <1>4, <1>5

\* Nothing but Boundary nodes above a Remote one.
LEMMA BoundaryAbove ==
    ASSUME NEW pe, NEW k \in Nodes(pe), k \notin Inner(pe), TypesOf(pe)[k] = "Remote",
           NEW a \in Inner(pe), Covers(a, k.first), k.size < a.size
    PROVE  TypesOf(pe)[a] = "Boundary"
<1> DEFINE wrong(c) == /\ c \in Inner(pe) /\ Covers(c, k.first) /\ k.size < c.size
                       /\ TypesOf(pe)[c] # "Boundary"
           sizes == {s \in Nat : \E c \in Bin : c.size = s /\ wrong(c)}
<1>1. Inner(pe) \subseteq Nodes(pe) /\ Nodes(pe) \subseteq Bin
  BY DEF Inner, Nodes
<1>2. \A c \in Bin : c.size \in Nat /\ c.first \in Key
  BY BinWithin, CoversFirst
<1> SUFFICES ASSUME wrong(a) PROVE FALSE
  OBVIOUS
<1>3. sizes # {}
  BY <1>1, <1>2
<1>4. Min(sizes) \in sizes /\ \A s \in sizes : Min(sizes) <= s
  BY <1>3, LeastOf
<1>5. PICK c \in Bin : c.size = Min(sizes) /\ wrong(c)
  BY <1>4
<1>6. TypesOf(pe)[c] = TypeFromChildren({TypesOf(pe)[d] : d \in Children(c)})
  BY <1>1, <1>5, TypesAre
<1>7. \A d \in Children(c) : TypesOf(pe)[d] \in Here
  BY <1>5, <1>6 DEF TypeFromChildren
<1>8. c.size > 1 /\ \A d \in Children(c) : d \in Nodes(pe) /\ d \in Bin /\ d.size < c.size
  BY <1>5, NodesDown
<1>9. PICK d \in Children(c) : Covers(d, k.first) /\ k.size <= d.size
  BY <1>1, <1>5, <1>8, BelowAChild
<1>10. d # k
  BY <1>7, <1>9 DEF Here
<1>11. k.size < d.size
  BY <1>1, <1>2, <1>8, <1>9, <1>10, BelowOne
<1>12. d \in Path(k) \ {k}
  BY <1>1, <1>2, <1>8, <1>9, <1>10, CoversFirst, Nested
<1>13. d \in Inner(pe)
  BY <1>8, <1>12 DEF Nodes, Inner
<1>14. TypesOf(pe)[d] \in {"Internal", "Boundary"}
  BY <1>1, <1>13, TypesAre DEF TypeFromChildren
<1>15. wrong(d)
  BY <1>7, <1>9, <1>11, <1>13 DEF Here
<1> HIDE DEF wrong
<1> QED
  BY <1>2, <1>4, <1>5, <1>8, <1>15

\* The trees a step begins with tell what is a PE's own.
LEMMA WalkedRight ==
    ASSUME Input, CellsOK
    PROVE  WalkedOK
<1>1. keyOf \in [Particle -> Key]
  BY DEF Input
<1> SUFFICES ASSUME NEW pe \in PE
             PROVE
          /\ RootBin \in DOMAIN walked[pe] /\ DOMAIN walked[pe] \subseteq Bin
          /\ \A k \in DOMAIN walked[pe] :
                /\ walked[pe][k].type \in {"Internal", "Boundary", "Remote", "Bucket", "EmptyBucket"}
                /\ \A a \in DOMAIN walked[pe] :
                      Covers(a, k.first) /\ k.size < a.size =>
                         IF walked[pe][k].type = "Remote" THEN walked[pe][a].type = "Boundary"
                         ELSE walked[pe][a].type \in {"Internal", "Boundary"}
                /\ walked[pe][k].type = "Bucket" =>
                      /\ Mine(pe, k) = Present(k)
                      /\ \A q \in PE : q # pe /\ k \in DOMAIN walked[q] =>
                            walked[q][k].type # "Bucket"
  BY <1>1 DEF WalkedOK
<1>2. /\ DOMAIN walked[pe] = Nodes(pe) /\ Nodes(pe) \subseteq Bin
      /\ \A b \in Nodes(pe) :
            /\ walked[pe][b].type = TypesOf(pe)[b]
            /\ b \in Inner(pe) => walked[pe][b].type \in {"Internal", "Boundary"}
            /\ b \notin Inner(pe) => walked[pe][b].type = LeafType(pe, b, Ownership[b])
  BY WalkedFacts
<1>3. RootBin \in DOMAIN walked[pe]
  BY <1>2, FinalTreeFacts
<1> SUFFICES ASSUME NEW k \in Nodes(pe)
             PROVE
                /\ walked[pe][k].type \in {"Internal", "Boundary", "Remote", "Bucket", "EmptyBucket"}
                /\ \A a \in Nodes(pe) :
                      Covers(a, k.first) /\ k.size < a.size =>
                         IF walked[pe][k].type = "Remote" THEN walked[pe][a].type = "Boundary"
                         ELSE walked[pe][a].type \in {"Internal", "Boundary"}
                /\ walked[pe][k].type = "Bucket" =>
                      /\ Mine(pe, k) = Present(k)
                      /\ \A q \in PE : q # pe /\ k \in DOMAIN walked[q] =>
                            walked[q][k].type # "Bucket"
  BY <1>2, <1>3
<1>4. walked[pe][k].type \in {"Internal", "Boundary", "Remote", "Bucket", "EmptyBucket"}
  BY <1>2 DEF LeafType
<1>5. ASSUME NEW a \in Nodes(pe), Covers(a, k.first), k.size < a.size
      PROVE  /\ walked[pe][a].type \in {"Internal", "Boundary"}
             /\ walked[pe][k].type = "Remote" => walked[pe][a].type = "Boundary"
  <2>1. a \in Bin /\ k \in Bin /\ a.size \in Nat /\ k.size \in Nat /\ a # k
    BY <1>2, <1>5, BinWithin
  <2>2. a \in Path(k) \ {k}
    BY <1>5, <2>1, CoversFirst, Nested
  <2>3. a \in Inner(pe)
    BY <2>2 DEF Nodes, Inner
  <2>4. ASSUME walked[pe][k].type = "Remote" PROVE walked[pe][a].type = "Boundary"
    <3>1. k \notin Inner(pe) /\ TypesOf(pe)[k] = "Remote"
      BY <1>2, <2>4
    <3> QED
      BY <1>2, <1>5, <2>3, <3>1, BoundaryAbove
  <2> QED
    BY <1>2, <2>3, <2>4
<1>6. ASSUME walked[pe][k].type = "Bucket"
      PROVE  /\ Mine(pe, k) = Present(k)
             /\ \A q \in PE : q # pe /\ k \in DOMAIN walked[q] => walked[q][k].type # "Bucket"
  <2>1. LeafType(pe, k, Ownership[k]) = "Bucket" /\ k \in Bin
    BY <1>2, <1>6
  <2>2. Mine(pe, k) = Present(k) /\ \A q \in PE : q # pe => Mine(q, k) = {}
    BY <2>1, OwnLeaves
  <2>3. ASSUME NEW q \in PE, q # pe, k \in DOMAIN walked[q], walked[q][k].type = "Bucket"
        PROVE  FALSE
    <3>1. LeafType(q, k, Ownership[k]) = "Bucket"
      BY <2>3, WalkedFacts
    <3>2. Mine(q, k) # {}
      BY <3>1 DEF LeafType
    <3> QED
      BY <2>2, <2>3, <3>2
  <2> QED
    BY <2>2, <2>3
<1> QED
  BY <1>4, <1>5, <1>6

\* What a PE is told of a Remote node.
LEMMA KnownIs ==
    ASSUME Input, CellsOK, NEW pe \in PE, NEW b \in Nodes(pe), walked[pe][b].type = "Remote"
    PROVE  /\ Known(pe, b) \in Elsewhere
           /\ Known(pe, b) = "RemoteEmptyBucket" => Present(b) = {}
<1>1. /\ b \in Bin /\ b \notin Inner(pe) /\ walked[pe][b].owners = Ownership[b]
      /\ LeafType(pe, b, Ownership[b]) = "Remote"
  BY WalkedFacts
<1>2. Ownership[b] # NoOwners
  BY <1>1 DEF LeafType
<1>3. Serving(Ownership[b]) = {t \in TreePiece : tpCounts[t] > 0 /\ Spans(t, b)}
  BY <1>1, <1>2, ServingAre
<1> DEFINE S == Serving(Ownership[b])
           t == Min(S)
<1>4. Known(pe, b) = IF S = {} THEN "RemoteEmptyBucket" ELSE MakeRemote(walked[homeOf[t]][b].type)
  BY <1>1 DEF Known
<1> HIDE DEF S, t
<1>5. CASE S = {}
  <2>1. Present(b) = {}
    BY <1>1, <1>3, <1>5, CellSpans DEF S
  <2> QED
    BY <1>4, <1>5, <2>1 DEF Elsewhere
<1>6. CASE S # {}
  <2>1. t \in TreePiece /\ tpCounts[t] > 0 /\ Spans(t, b)
    <3>1. S \in SUBSET Nat
      BY <1>3 DEF S, CellsOK
    <3>2. t \in S
      BY <1>6, <3>1, LeastOf DEF t
    <3> QED
      BY <1>3, <3>2 DEF S
  <2> DEFINE q == homeOf[t]
             type == walked[q][b].type
  <2>2. b \in Nodes(q) /\ q \in PE
    BY <2>1, NodesAgree, InputFacts
  <2> HIDE DEF q
  <2>3. /\ b \in Inner(q) => type \in {"Internal", "Boundary"}
        /\ b \notin Inner(q) => type = LeafType(q, b, Ownership[b])
        /\ b \notin Inner(q) => type \in {"Remote", "Bucket", "EmptyBucket"}
    BY <2>2, WalkedFacts DEF LeafType
  <2>4. Known(pe, b) = MakeRemote(type)
    BY <1>4, <1>6 DEF q
  <2>5. type = "EmptyBucket" => Present(b) = {}
    BY <1>1, <2>2, <2>3, OwnLeaves
  <2> HIDE DEF type
  <2> QED
    BY <2>3, <2>4, <2>5 DEF MakeRemote, Elsewhere
<1> QED
  BY <1>5, <1>6

\* What the PEs have put together of moments and types is right.
LEMMA FinalTreeRight ==
    ASSUME Input, CellsOK, NEW pe \in PE, NEW T, T = FinalTree(pe)
    PROVE  /\ Whole(T) /\ DOMAIN T = DOMAIN walked[pe]
           /\ \A k \in DOMAIN walked[pe] :
                 IF walked[pe][k].type = "Remote" THEN T[k].type \in Elsewhere
                 ELSE T[k].type = walked[pe][k].type
<1>1. /\ DOMAIN walked[pe] = Nodes(pe) /\ Nodes(pe) \subseteq Bin
      /\ \A b \in Nodes(pe) :
            /\ walked[pe][b].numChildren = IF b \in Inner(pe) THEN BranchFactor ELSE 0
            /\ b \in Inner(pe) => walked[pe][b].type \in {"Internal", "Boundary"}
            /\ b \notin Inner(pe) => walked[pe][b].type = LeafType(pe, b, Ownership[b])
  BY WalkedFacts
<1>2. /\ DOMAIN T = Nodes(pe)
      /\ \A b \in Nodes(pe) :
            /\ T[b].type = IF walked[pe][b].type = "Remote" THEN Known(pe, b) ELSE walked[pe][b].type
            /\ T[b].numChildren = walked[pe][b].numChildren
            /\ T[b].mass = Mass(Present(b))
  BY <1>1, FinalTreeIs
<1>3. BranchFactor # 0
  BY KeyTreeAssumption
<1>4. ASSUME NEW k \in Nodes(pe)
      PROVE  /\ T[k].numChildren # 0 => k.size > 1 /\ Children(k) \subseteq Nodes(pe)
             /\ T[k].type \in {"Internal", "Boundary"} => T[k].numChildren # 0
             /\ T[k].mass = Mass(Present(k)) /\ T[k].type \in NodeType
             /\ T[k].type \in {"EmptyBucket", "RemoteEmptyBucket"} => Present(k) = {}
             /\ IF walked[pe][k].type = "Remote" THEN T[k].type \in Elsewhere
                ELSE T[k].type = walked[pe][k].type
  <2>1. T[k].numChildren # 0 => k.size > 1 /\ Children(k) \subseteq Nodes(pe)
    BY <1>1, <1>2, NodesDown
  <2>2. CASE k \in Inner(pe)
    BY <1>1, <1>2, <1>3, <2>1, <2>2 DEF NodeType, Here
  <2>3. CASE k \notin Inner(pe) /\ walked[pe][k].type # "Remote"
    <3>1. walked[pe][k].type \in {"Bucket", "EmptyBucket"}
      BY <1>1, <2>3 DEF LeafType
    <3>2. walked[pe][k].type = "EmptyBucket" => Present(k) = {}
      BY <1>1, <2>3, OwnLeaves
    <3> QED
      BY <1>2, <2>1, <2>3, <3>1, <3>2 DEF NodeType, Here
  <2>4. CASE k \notin Inner(pe) /\ walked[pe][k].type = "Remote"
    <3>1. /\ T[k].type \in Elsewhere
          /\ T[k].type = "RemoteEmptyBucket" => Present(k) = {}
      BY <1>2, <2>4, KnownIs
    <3> QED
      BY <1>2, <2>1, <2>4, <3>1 DEF NodeType, Elsewhere
  <2> QED
    BY <2>2, <2>3, <2>4
<1> QED
  BY <1>1, <1>2, <1>4 DEF Whole, Full, NodesRight

\* Nobody has begun.
LEMMA SeenStarts ==
    ASSUME Init
    PROVE  SeenInv
<1>1. Input /\ CellsOK
  BY CellFacts DEF Init
<1>2. WalkedOK
  BY <1>1, WalkedRight
<1>3. /\ \A pe \in PE : nodeTable[pe] = FinalTree(pe) /\ cached[pe] = <<>> /\ fetched[pe] = <<>>
      /\ replies = {} /\ seen = [b \in Bin |-> 0] /\ \A t \in TreePiece : walkGroups[t] = <<>>
  BY DEF Init
<1>4. DOMAIN <<>> = {}
  OBVIOUS
<1>5. ASSUME NEW pe \in PE PROVE TreeRight(pe)
  <2> DEFINE T == FinalTree(pe)
  <2>1. /\ Whole(T) /\ DOMAIN T = DOMAIN walked[pe]
        /\ \A k \in DOMAIN walked[pe] :
              IF walked[pe][k].type = "Remote" THEN T[k].type \in Elsewhere
              ELSE T[k].type = walked[pe][k].type
    BY <1>1, FinalTreeRight
  <2> HIDE DEF T
  <2>2. TypesKept(pe)
    BY <1>3, <1>4, <2>1 DEF TypesKept, T
  <2>3. /\ DOMAIN Tree(pe) = DOMAIN T
        /\ \A k \in DOMAIN T : Tree(pe)[k] = T[k]
    <3>1. Tree(pe) = Extended(<<>>, T)
      BY <1>3 DEF Tree, T
    <3>2. DOMAIN Extended(<<>>, T) = DOMAIN <<>> \cup DOMAIN T
      BY ExtendedFacts
    <3>3. \A k \in DOMAIN T \ DOMAIN <<>> : Extended(<<>>, T)[k] = T[k]
      BY ExtendedFacts
    <3> QED
      BY <1>4, <3>1, <3>2, <3>3
  <2>4. Whole(Tree(pe))
    BY <2>1, <2>3 DEF Whole, Full, NodesRight
  <2> QED
    BY <1>3, <1>4, <2>2, <2>4 DEF TreeRight
<1>6. \A t \in TreePiece : GroupsRight(t) /\ SeenRight(t)
  BY <1>3, <1>4 DEF GroupsRight, SeenRight
<1>7. DOMAIN seen = Bin /\ \A b \in Bin : NotSeen(b)
  BY <1>3 DEF NotSeen
<1> QED
  BY <1>2, <1>3, <1>5, <1>6, <1>7 DEF SeenInv

----------------------------------------------------------------------------
(* That the steps keep it. *)

\* What follows from what every PE knows stays.
LEMMA SightKept ==
    ASSUME UNCHANGED <<input, reach>>
    PROVE  /\ WalkedOK' <=> WalkedOK
           /\ \A pe, b : Far(pe, b)' = Far(pe, b) /\ PieceOf(pe, b)' = PieceOf(pe, b)
           /\ \A T : Whole(T)' <=> Whole(T)
           /\ \A S : MassSum(S)' = MassSum(S) /\ Present(S)' = Present(S)
           /\ \A m : AnswerRight(m)' <=> AnswerRight(m)
<1>1. UNCHANGED <<keyOf, cellOf, homeOf, keyRanges, tpCounts, walked, reach>>
  BY DEF input
<1>2. \A b : Present(b)' = Present(b)
  BY <1>1 DEF Present
<1>3. \A pe, b : Mine(pe, b)' = Mine(pe, b)
  BY <1>1, <1>2 DEF Mine, TreePiece
<1>4. \A k, b : Opens(k, b)' <=> Opens(k, b)
  BY <1>1 DEF Opens
<1>5. \A pe, b, k : FarThrough(pe, b, k)' <=> FarThrough(pe, b, k)
  BY <1>1, <1>4 DEF FarThrough
<1>6. \A pe, b : Far(pe, b)' = Far(pe, b)
  BY <1>1, <1>5 DEF Far
<1>7. \A pe, b : PieceOf(pe, b)' = PieceOf(pe, b)
  BY <1>1 DEF PieceOf, LocalPieces, LargestKey, TreePiece
<1>8. WalkedOK' <=> WalkedOK
  BY <1>1, <1>2, <1>3 DEF WalkedOK
<1>9. \A T : Full(T)' <=> Full(T)
  BY DEF Full
<1>10. \A T : NodesRight(T)' <=> NodesRight(T)
  BY <1>2 DEF NodesRight
<1>11. \A S : MassSum(S)' = MassSum(S)
  BY <1>2 DEF MassSum, Masses
<1>12. \A T : Whole(T)' <=> Whole(T)
  BY <1>9, <1>10 DEF Whole
<1>13. \A m : AnswerRight(m)' <=> AnswerRight(m)
  BY <1>2, <1>9, <1>10 DEF AnswerRight
<1> QED
  BY <1>2, <1>6, <1>7, <1>8, <1>11, <1>12, <1>13

\* What is right of a tree stays so while the tree does.
LEMMA TreeRightKept ==
    ASSUME UNCHANGED <<input, reach>>, NEW pe \in PE,
           UNCHANGED <<nodeTable[pe], cached[pe], fetched[pe]>>,
           phase'[pe] # "advanced" => phase[pe] # "advanced", TreeRight(pe)
    PROVE  TreeRight(pe)'
<1>1. walked' = walked /\ keyOf' = keyOf
  BY DEF input
<1>2. Tree(pe)' = Tree(pe)
  BY DEF Tree
<1>3. Whole(Tree(pe))' <=> Whole(Tree(pe))
  <2>1. \A T : Whole(T)' <=> Whole(T)
    BY SightKept
  <2> QED
    BY <1>2, <2>1 DEF Whole, Full, NodesRight
<1>4. TypesKept(pe)'
  BY <1>1 DEF TreeRight, TypesKept
<1>5. \A k : Present(k)' = Present(k)
  BY SightKept
<1> QED
  BY <1>3, <1>4, <1>5 DEF TreeRight

\* What is right of the sums stays so while no walk begins or goes on.
LEMMA SeenSame ==
    ASSUME UNCHANGED <<input, reach, seen, walkGroups, current, waiting>>
    PROVE  /\ \A t \in TreePiece : GroupsRight(t) => GroupsRight(t)'
           /\ \A t \in TreePiece : SeenRight(t) => SeenRight(t)'
           /\ \A b : NotSeen(b) => NotSeen(b)'
<1>1. UNCHANGED <<keyOf, cellOf, homeOf, walked>> /\ TreePiece' = TreePiece
  BY DEF input, TreePiece
<1>2. /\ \A pe, b : Far(pe, b)' = Far(pe, b) /\ PieceOf(pe, b)' = PieceOf(pe, b)
      /\ \A S : MassSum(S)' = MassSum(S)
  BY SightKept
<1>3. \A t \in TreePiece : GroupsRight(t) => GroupsRight(t)'
  BY <1>1, <1>2 DEF GroupsRight
<1>4. \A b : NotSeen(b) => NotSeen(b)'
  BY <1>1 DEF NotSeen
<1>5. ASSUME NEW t \in TreePiece, SeenRight(t) PROVE SeenRight(t)'
  <2>1. SUFFICES ASSUME NEW g \in DOMAIN walkGroups[t], NEW b \in walkGroups[t][g]
                 PROVE  SeenSoFar(t, g, b)'
    BY DEF SeenRight
  <2>2. SeenSoFar(t, g, b)
    BY <1>5 DEF SeenRight
  <2>3. Awaited(homeOf[t], b)' = Awaited(homeOf[t], b)
    BY <1>1 DEF Awaited
  <2> DEFINE A == Awaited(homeOf[t], b)
  <2>4. MassSum(Awaited(homeOf[t], b))' = MassSum(Awaited(homeOf[t], b))
    BY <1>1, <1>2, <2>3, SightKept
  <2> QED
    BY <1>1, <1>2, <2>2, <2>4 DEF SeenSoFar, Part
<1> QED
  BY <1>3, <1>4, <1>5

\* What is sent of a tree.
LEMMA MassStays ==
    ASSUME NEW n, IsNode(n), NEW type, NEW count
    PROVE  [n EXCEPT !.type = type].mass = n.mass /\ [n EXCEPT !.numChildren = count].mass = n.mass
BY DEF IsNode

LevelsBelow(c, k) == Cardinality(Path(c) \ Path(k))
SerializedOK(T, k, N) ==
    /\ DOMAIN N = {c \in DOMAIN T : Covers(k, c.first) /\ c.size < k.size
                                    /\ LevelsBelow(c, k) <= CacheLine}
    /\ \A c \in DOMAIN N :
          /\ N[c].type = MakeRemote(T[c].type) /\ N[c].mass = T[c].mass
          /\ N[c].numChildren = IF LevelsBelow(c, k) = CacheLine THEN 0 ELSE T[c].numChildren

\* What an answer brings: the levels of one cache line, the last as leaves.
LEMMA SerializedIs ==
    ASSUME NEW T, AreNodes(T), NEW k
    PROVE  SerializedOK(T, k, Serialized(T, k))
<1> DEFINE levels(c) == Cardinality(Path(c) \ Path(k))
           sub == {c \in DOMAIN T :
                      Covers(k, c.first) /\ c.size < k.size /\ levels(c) <= CacheLine}
           remote(c) == [T[c] EXCEPT !.type = MakeRemote(@)]
           N == Serialized(T, k)
<1>1. N = [c \in sub |-> IF levels(c) = CacheLine THEN [remote(c) EXCEPT !.numChildren = 0]
                                                  ELSE remote(c)]
  BY DEF Serialized
<1>2. ASSUME NEW c \in sub
      PROVE  /\ N[c].type = MakeRemote(T[c].type) /\ N[c].mass = T[c].mass
             /\ N[c].numChildren = IF levels(c) = CacheLine THEN 0 ELSE T[c].numChildren
  <2>1. IsNode(T[c])
    BY DEF AreNodes
  <2> DEFINE n == T[c]
             type == MakeRemote(n.type)
             x == remote(c)
             y == [x EXCEPT !.numChildren = 0]
  <2>2. x = [n EXCEPT !.type = type]
    OBVIOUS
  <2>3. N[c] = IF levels(c) = CacheLine THEN y ELSE x
    BY <1>1
  <2> HIDE DEF n, x, type, N
  <2>4. IsNode(n)
    BY <2>1 DEF n
  <2>5. IsNode(x) /\ x.type = type /\ x.numChildren = n.numChildren /\ x.mass = n.mass
    <3>1. IsNode([n EXCEPT !.type = type]) /\ [n EXCEPT !.type = type].type = type
      BY <2>4 DEF IsNode
    <3>2. [n EXCEPT !.type = type].mass = n.mass
      BY <2>4 DEF IsNode
    <3>3. [n EXCEPT !.type = type].numChildren = n.numChildren
      BY <2>4 DEF IsNode
    <3> QED
      BY <2>2, <3>1, <3>2, <3>3
  <2>6. y.type = x.type /\ y.numChildren = 0 /\ y.mass = x.mass
    BY <2>5, OneNode, MassStays
  <2> HIDE DEF y, levels
  <2> QED
    BY <2>3, <2>5, <2>6 DEF n, type
<1>3. DOMAIN N = sub
  BY <1>1
<1> QED
  <2> HIDE DEF N, remote
  <2> QED
    BY <1>2, <1>3 DEF LevelsBelow, SerializedOK, N

\* An answer cut from a whole tree is whole, but for its last level.
LEMMA SerializedRight ==
    ASSUME NEW T, Rooted(T), AreNodes(T), Whole(T), NEW k \in DOMAIN T, T[k].numChildren # 0,
           NEW N, N = Serialized(T, k)
    PROVE  /\ Full(N) /\ NodesRight(N) /\ \A c \in DOMAIN N : N[c].type \in Elsewhere
           /\ k.size > 1 /\ Children(k) \subseteq DOMAIN N
<1>1. /\ DOMAIN N = {c \in DOMAIN T : Covers(k, c.first) /\ c.size < k.size
                                       /\ LevelsBelow(c, k) <= CacheLine}
      /\ \A c \in DOMAIN N :
            /\ N[c].type = MakeRemote(T[c].type) /\ N[c].mass = T[c].mass
            /\ N[c].numChildren = IF LevelsBelow(c, k) = CacheLine THEN 0 ELSE T[c].numChildren
  <2>1. SerializedOK(T, k, N)
    BY SerializedIs
  <2> QED
    BY <2>1 DEF SerializedOK
<1>2. DOMAIN T \subseteq Bin /\ k \in Bin /\ CacheLine \in Nat \ {0}
  BY TraversalAssumption DEF Rooted
<1>3. Full(T) /\ NodesRight(T)
  BY DEF Whole
<1>4. k.size > 1 /\ Children(k) \subseteq DOMAIN T
  BY <1>3 DEF Full
<1>5. ASSUME NEW c \in Bin, Covers(k, c.first), c.size <= k.size, c.size > 1,
             NEW d \in Children(c)
      PROVE  /\ d \in Bin /\ Covers(k, d.first) /\ d.size < k.size
             /\ LevelsBelow(d, k) = LevelsBelow(c, k) + 1 /\ LevelsBelow(c, k) \in Nat
  <2>1. d \in Bin /\ d.size < c.size /\ Parent(d) = c
    BY <1>5, AboveChild
  <2>2. d.first \in Key /\ Covers(d, d.first)
    BY <2>1, CoversFirst
  <2>3. Covers(c, d.first)
    BY <1>5, <2>2, ChildCoveredByParent DEF Children
  <2>4. Covers(k, d.first)
    BY <1>2, <1>5, <2>2, <2>3, BelowOne
  <2>5. c.size \in Nat /\ d.size \in Nat /\ k.size \in Nat
    BY <1>2, <1>5, <2>1, BinWithin
  <2>6. d.size < k.size
    BY <1>5, <2>1, <2>5
  <2>7. /\ Cardinality(Path(d) \ Path(k)) = Cardinality(Path(Parent(d)) \ Path(k)) + 1
        /\ Cardinality(Path(Parent(d)) \ Path(k)) \in Nat
    BY <1>2, <2>1, <2>4, <2>6, OneLevel
  <2> QED
    BY <2>1, <2>4, <2>6, <2>7 DEF LevelsBelow
<1>6. ASSUME NEW c \in DOMAIN N, N[c].numChildren # 0
      PROVE  c.size > 1 /\ Children(c) \subseteq DOMAIN N
  <2>1. /\ c \in DOMAIN T /\ c \in Bin /\ Covers(k, c.first) /\ c.size < k.size
        /\ LevelsBelow(c, k) <= CacheLine /\ LevelsBelow(c, k) # CacheLine /\ T[c].numChildren # 0
    BY <1>1, <1>2, <1>6
  <2>2. c.size > 1 /\ Children(c) \subseteq DOMAIN T
    BY <1>3, <2>1 DEF Full
  <2>3. c.size <= k.size
    BY <1>2, <2>1, BinWithin
  <2>4. ASSUME NEW d \in Children(c) PROVE d \in DOMAIN N
    <3>1. /\ Covers(k, d.first) /\ d.size < k.size
          /\ LevelsBelow(d, k) = LevelsBelow(c, k) + 1 /\ LevelsBelow(c, k) \in Nat
      BY <1>5, <2>1, <2>2, <2>3
    <3>2. LevelsBelow(d, k) <= CacheLine
      BY <1>2, <2>1, <3>1
    <3> QED
      BY <1>1, <2>2, <3>1, <3>2
  <2> QED
    BY <2>2, <2>4
<1>7. ASSUME NEW d \in Children(k) PROVE d \in DOMAIN N
  <2>1. Covers(k, k.first) /\ k.size <= k.size
    BY <1>2, BinWithin, CoversFirst
  <2>2. /\ Covers(k, d.first) /\ d.size < k.size
        /\ LevelsBelow(d, k) = LevelsBelow(k, k) + 1
    BY <1>2, <1>4, <1>5, <2>1
  <2>3. LevelsBelow(k, k) = 0
    <3>1. Path(k) \ Path(k) = {}
      OBVIOUS
    <3> QED
      BY <3>1, FS_EmptySet DEF LevelsBelow
  <2>4. LevelsBelow(d, k) <= CacheLine
    BY <1>2, <2>2, <2>3
  <2> QED
    BY <1>1, <1>4, <2>2, <2>4
<1>8. ASSUME NEW c \in DOMAIN N
      PROVE  /\ N[c].mass = Mass(Present(c)) /\ N[c].type \in Elsewhere
             /\ N[c].type \in {"EmptyBucket", "RemoteEmptyBucket"} => Present(c) = {}
  <2>1. c \in DOMAIN T /\ N[c].type = MakeRemote(T[c].type) /\ N[c].mass = T[c].mass
    BY <1>1
  <2>2. /\ T[c].mass = Mass(Present(c)) /\ T[c].type \in NodeType
        /\ T[c].type \in {"EmptyBucket", "RemoteEmptyBucket"} => Present(c) = {}
    BY <1>3, <2>1 DEF NodesRight
  <2>3. MakeRemote(T[c].type) \in Elsewhere
    BY <2>2 DEF MakeRemote, NodeType, Here, Elsewhere
  <2>4. MakeRemote(T[c].type) \in {"EmptyBucket", "RemoteEmptyBucket"} =>
           T[c].type \in {"EmptyBucket", "RemoteEmptyBucket"}
    BY DEF MakeRemote
  <2> QED
    BY <2>1, <2>2, <2>3, <2>4
<1> QED
  BY <1>4, <1>6, <1>7, <1>8 DEF Full, NodesRight, NodeType

\* Where something has been asked for the trees are still there.
LEMMA AskedEarly ==
    ASSUME TravInv, NEW pe \in PE, waiting[pe] # {}
    PROVE  \A q \in PE : phase[q] # "advanced"
<1>1. phase[pe] \notin {"finished", "advanced"}
  BY NothingWaits
<1> QED
  BY <1>1 DEF TravInv, PhaseOK

\* Who is asked answers right.
LEMMA ReplyRight ==
    ASSUME TravInv, OwnInv, SeenInv, NEW r \in Asked, NEW m, m = Reply(r.to, Tree(r.to), r)
    PROVE  AnswerRight(m)
<1> DEFINE pe == r.to
           T == Tree(pe)
           k == r.node
<1>1. pe \in PE /\ r.from \in PE /\ r.kind \in Kind /\ phase[pe] # "advanced"
  <2>1. r \in Request
    BY DEF TravInv, Shapes, Asked
  <2>2. pe \in PE /\ r.from \in PE /\ r.kind \in Kind
    BY <2>1 DEF Request
  <2>3. waiting[r.from] # {}
    BY DEF TravInv, FlightOK, Awaits
  <2> QED
    BY <2>2, <2>3, AskedEarly
<1>2. /\ k \in DOMAIN nodeTable[pe]
      /\ IF r.kind = "node" THEN nodeTable[pe][k].numChildren > 0
                            ELSE nodeTable[pe][k].type = "Bucket"
  BY NoneBad DEF NoBadRequest, Asked
<1>3. TreeOK(pe) /\ TreeRight(pe) /\ WalkedOK
  BY <1>1 DEF TravInv, SeenInv
<1>4. k \in DOMAIN T /\ T[k] = nodeTable[pe][k]
  <2>1. k \notin DOMAIN cached[pe]
    BY <1>2, <1>3 DEF TreeOK
  <2>2. DOMAIN Tree(pe) = DOMAIN cached[pe] \cup DOMAIN nodeTable[pe]
    BY ExtendedFacts DEF Tree
  <2>3. \A x \in DOMAIN nodeTable[pe] \ DOMAIN cached[pe] :
           Extended(cached[pe], nodeTable[pe])[x] = nodeTable[pe][x]
    BY ExtendedFacts
  <2>4. Tree(pe)[k] = nodeTable[pe][k]
    BY <1>2, <2>1, <2>3 DEF Tree
  <2> QED
    BY <1>2, <2>2, <2>4
<1>5. Rooted(T) /\ AreNodes(T) /\ Whole(T)
  BY <1>1, <1>3, NodesOfTree DEF TreeOK, TreeRight
<1> HIDE DEF pe, T, k
<1>6. CASE r.kind = "node"
  <2>1. m.kind = "node" /\ m.node = k /\ m.nodes = Serialized(T, k)
    BY <1>6 DEF Reply, T, k, pe
  <2>2. T[k].numChildren # 0
    BY <1>2, <1>4, <1>6
  <2>3. /\ Full(m.nodes) /\ NodesRight(m.nodes) /\ \A c \in DOMAIN m.nodes : m.nodes[c].type \in Elsewhere
        /\ k.size > 1 /\ Children(k) \subseteq DOMAIN m.nodes
    BY <1>4, <1>5, <2>1, <2>2, SerializedRight
  <2> QED
    BY <2>1, <2>3 DEF AnswerRight
<1>7. CASE r.kind = "particles"
  <2>1. m.kind = "particles" /\ m.node = k /\ m.nodes = <<>> /\ m.particles = Mine(pe, k)
    BY <1>7 DEF Reply, T, k, pe
  <2>2. DOMAIN <<>> = {}
    OBVIOUS
  <2>3. Full(m.nodes) /\ NodesRight(m.nodes)
    BY <2>1, <2>2 DEF Full, NodesRight
  <2>4. k \in DOMAIN walked[pe] /\ walked[pe][k].type = "Bucket"
    BY <1>1, <1>2, <1>3, <1>7 DEF TreeRight, TypesKept, Elsewhere
  <2>5. m.particles = Present(k)
    BY <1>1, <1>3, <2>1, <2>4 DEF WalkedOK
  <2> QED
    BY <2>1, <2>2, <2>3, <2>5 DEF AnswerRight
<1> QED
  BY <1>1, <1>6, <1>7 DEF Kind

\* Answers alone change no sum.
LEMMA SeenAnswers ==
    ASSUME TravInv, OwnInv, SeenInv,
           UNCHANGED <<input, reach, nodeTable, cached, fetched, seen, walkGroups, current, waiting>>,
           \A pe \in PE : phase'[pe] # "advanced" => phase[pe] # "advanced",
           \A m \in replies' :
              m \in replies \/ \E r \in Asked : m = Reply(r.to, Tree(r.to), r)
    PROVE  SeenInv'
<1>1. WalkedOK' /\ \A m : AnswerRight(m)' <=> AnswerRight(m)
  BY SightKept DEF SeenInv
<1>2. \A pe \in PE : TreeRight(pe)'
  <2> TAKE pe \in PE
  <2>1. TreeRight(pe) /\ UNCHANGED <<nodeTable[pe], cached[pe], fetched[pe]>>
    BY DEF SeenInv
  <2> QED
    BY <2>1, TreeRightKept
<1>3. \A m \in replies' : AnswerRight(m)'
  BY <1>1, ReplyRight DEF SeenInv
<1>4. /\ \A t \in TreePiece : GroupsRight(t)' /\ SeenRight(t)'
      /\ \A b \in Bin : NotSeen(b)'
  BY SeenSame DEF SeenInv
<1>5. TreePiece' = TreePiece
  BY DEF input, TreePiece
<1> QED
  BY <1>1, <1>2, <1>3, <1>4, <1>5 DEF SeenInv

\* Nor does a PE that throws its tree away.
LEMMA SeenAdvance ==
    ASSUME TravInv, SeenInv, NEW pe \in PE, Advance(pe)
    PROVE  SeenInv'
<1>1. /\ phase' = [phase EXCEPT ![pe] = "advanced"]
      /\ nodeTable' = [nodeTable EXCEPT ![pe] = <<>>]
      /\ cached' = [cached EXCEPT ![pe] = <<>>]
      /\ fetched' = [fetched EXCEPT ![pe] = <<>>]
      /\ UNCHANGED <<input, reach, replies, seen, walkGroups, current, waiting>>
  BY DEF Advance, serving, asking
<1>2. /\ DOMAIN phase = PE /\ DOMAIN nodeTable = PE /\ DOMAIN cached = PE /\ DOMAIN fetched = PE
  BY DEF TravInv, Shapes
<1>3. WalkedOK' /\ \A m : AnswerRight(m)' <=> AnswerRight(m)
  BY <1>1, SightKept DEF SeenInv
<1>4. ASSUME NEW q \in PE PROVE TreeRight(q)'
  <2>1. CASE q = pe
    <3>1. phase'[q] = "advanced" /\ nodeTable'[q] = <<>> /\ cached'[q] = <<>> /\ fetched'[q] = <<>>
      BY <1>1, <1>2, <2>1
    <3>2. DOMAIN <<>> = {}
      OBVIOUS
    <3>3. DOMAIN Tree(q)' = {}
      BY <3>1, <3>2 DEF Tree, Extended
    <3> QED
      BY <3>1, <3>2, <3>3 DEF TreeRight, TypesKept, Whole, Full, NodesRight
  <2>2. CASE q # pe
    <3>1. /\ UNCHANGED <<nodeTable[q], cached[q], fetched[q]>> /\ phase'[q] = phase[q]
          /\ TreeRight(q)
      BY <1>1, <1>2, <2>2 DEF SeenInv
    <3> QED
      BY <1>1, <3>1, TreeRightKept
  <2> QED
    BY <2>1, <2>2
<1>5. /\ \A t \in TreePiece : GroupsRight(t)' /\ SeenRight(t)'
      /\ \A b \in Bin : NotSeen(b)'
  BY <1>1, SeenSame DEF SeenInv
<1>6. TreePiece' = TreePiece
  BY <1>1 DEF input, TreePiece
<1> QED
  BY <1>1, <1>3, <1>4, <1>5, <1>6 DEF SeenInv

\* The walks of a bucket are those of one TreePiece, and of one group.
LEMMA OneWalker ==
    ASSUME SeenInv, Shapes, NEW t \in TreePiece, NEW u \in TreePiece,
           NEW b, NEW h \in DOMAIN walkGroups[u], b \in walkGroups[u][h],
           b \in DOMAIN walked[homeOf[t]], walked[homeOf[t]][b].type = "Bucket",
           PieceOf(homeOf[t], b) = t
    PROVE  u = t
<1>1. /\ b \in DOMAIN walked[homeOf[u]] /\ walked[homeOf[u]][b].type = "Bucket"
      /\ PieceOf(homeOf[u], b) = u
  BY DEF SeenInv, GroupsRight
<1>2. homeOf[t] \in PE /\ homeOf[u] \in PE
  BY DEF Shapes
<1>3. homeOf[u] = homeOf[t]
  BY <1>1, <1>2 DEF SeenInv, WalkedOK
<1> QED
  BY <1>1, <1>3

\* What a bucket waits for, its own TreePiece's walks wait for.
LEMMA AwaitedByGroup ==
    ASSUME TravInv, NEW pe \in PE, NEW w \in waiting[pe], NEW b \in w.mask
    PROVE  /\ w.tp \in TreePiece /\ homeOf[w.tp] = pe
           /\ \E h \in DOMAIN walkGroups[w.tp] : /\ b \in walkGroups[w.tp][h]
                                                 /\ w.mask \subseteq walkGroups[w.tp][h]
                                                 /\ h <= current[w.tp]["remote"]
<1>1. WaitOK(pe, w)
  BY DEF TravInv, WaitingOK
<1>2. w.tp \in TreePiece /\ homeOf[w.tp] = pe
  BY <1>1 DEF WaitOK, LocalPieces
<1>3. PICK h \in 1 .. current[w.tp]["remote"] : w.mask \subseteq walkGroups[w.tp][h]
  BY <1>1 DEF WaitOK
<1>4. /\ current[w.tp]["remote"] \in Nat /\ walkGroups[w.tp] \in Seq(SUBSET Bin)
      /\ current[w.tp]["remote"] <= Len(walkGroups[w.tp])
  <2>1. "remote" \in Side
    BY DEF Side
  <2>2. /\ current[w.tp]["remote"] \in Nat /\ walkGroups[w.tp] \in Seq(SUBSET Bin)
    BY <1>2, <2>1 DEF TravInv, Shapes
  <2>3. PieceOK(w.tp)
    BY <1>2 DEF TravInv
  <2>4. Len(walkGroups[w.tp]) \in Nat
    BY <2>2
  <2>5. NumGroups(w.tp) = Len(walkGroups[w.tp])
    BY DEF NumGroups
  <2>6. current[w.tp]["remote"] <= NumGroups(w.tp)
    BY <2>1, <2>2, <2>3, <2>4, <2>5 DEF PieceOK, AtRest, AtWork
  <2> QED
    BY <2>2, <2>5, <2>6
<1>5. h \in DOMAIN walkGroups[w.tp] /\ h <= current[w.tp]["remote"]
  BY <1>3, <1>4
<1> QED
  BY <1>2, <1>3, <1>5

\* The buckets of a TreePiece that starts have seen nothing.
LEMMA SeenStartTraversal ==
    ASSUME TravInv, SeenInv, NEW t \in TreePiece, StartTraversal(t)
    PROVE  SeenInv'
<1> DEFINE pe == homeOf[t]
           groups == Groups(pe, BucketsOf(t))
<1>1. /\ t \in prepared /\ walkGroups' = [walkGroups EXCEPT ![t] = groups]
      /\ UNCHANGED <<input, reach, phase, nodeTable, cached, fetched, replies, seen, current, waiting>>
  BY DEF StartTraversal, serving, asking
<1>2. /\ pe \in PE /\ phase[pe] = "walking" /\ DOMAIN walkGroups = TreePiece
      /\ walkGroups[t] = <<>> /\ current[t]["local"] = 0 /\ current[t]["remote"] = 0
  <2>1. pe \in PE /\ PieceOK(t) /\ DOMAIN walkGroups = TreePiece
    BY DEF TravInv, Shapes
  <2>2. phase[pe] = "walking" /\ walkGroups[t] = <<>>
    BY <1>1, <2>1 DEF PieceOK, Unstarted
  <2>3. NumGroups(t) = 0
    BY <2>2 DEF NumGroups
  <2>4. current[t] = [side \in Side |-> 0]
    BY <2>1, <2>3 DEF PieceOK, AtRest
  <2> QED
    BY <2>1, <2>2, <2>4 DEF Side
<1>3. Grouping(groups, BucketsOf(t))
  <2>1. TreeOK(homeOf[t])
    BY <1>2 DEF TravInv
  <2>2. InKeyOrder(BucketsOf(t))
    BY <1>2, <2>1, BucketsInOrder
  <2> QED
    BY <2>2, GroupsOfBuckets
<1>4. \A b \in BucketsOf(t) :
         b \in DOMAIN walked[pe] /\ walked[pe][b].type = "Bucket" /\ PieceOf(pe, b) = t /\ b \in Bin
  <2> TAKE b \in BucketsOf(t)
  <2>1. b \in DOMAIN nodeTable[pe] /\ nodeTable[pe][b].type = "Bucket" /\ PieceOf(pe, b) = t
    BY DEF BucketsOf
  <2>2. TypesKept(pe) /\ DOMAIN walked[pe] \subseteq Bin
    BY <1>2 DEF SeenInv, TreeRight, WalkedOK
  <2> QED
    BY <1>2, <2>1, <2>2 DEF TypesKept, Elsewhere
<1> HIDE DEF groups, pe
<1>5. walkGroups'[t] = groups /\ \A u \in TreePiece : u # t => walkGroups'[u] = walkGroups[u]
  BY <1>1, <1>2
<1>6. \A g \in DOMAIN groups : groups[g] \subseteq BucketsOf(t)
  BY <1>3 DEF Grouping
<1>7. UNCHANGED <<keyOf, cellOf, homeOf, walked>> /\ TreePiece' = TreePiece
  BY <1>1 DEF input, TreePiece
<1>8. /\ \A q, b : Far(q, b)' = Far(q, b) /\ PieceOf(q, b)' = PieceOf(q, b)
      /\ \A S : MassSum(S)' = MassSum(S)
      /\ WalkedOK' /\ \A m : AnswerRight(m)' <=> AnswerRight(m)
  BY <1>1, SightKept DEF SeenInv
<1>9. \A q \in PE : TreeRight(q)'
  <2> TAKE q \in PE
  <2>1. TreeRight(q) /\ UNCHANGED <<nodeTable[q], cached[q], fetched[q]>> /\ phase'[q] = phase[q]
    BY <1>1 DEF SeenInv
  <2> QED
    BY <1>1, <2>1, TreeRightKept
<1>10. ASSUME NEW u \in TreePiece PROVE GroupsRight(u)'
  <2>1. CASE u = t
    BY <1>4, <1>5, <1>6, <1>7, <1>8, <2>1 DEF GroupsRight, pe
  <2>2. CASE u # t
    <3>1. GroupsRight(u)
      BY DEF SeenInv
    <3> QED
      BY <1>5, <1>7, <1>8, <2>2, <3>1 DEF GroupsRight
  <2> QED
    BY <2>1, <2>2
<1>11. ASSUME NEW b \in BucketsOf(t), NEW u \in TreePiece, NEW h \in DOMAIN walkGroups[u],
              b \in walkGroups[u][h]
       PROVE  FALSE
  <2>1. u = t
    BY <1>4, <1>11, OneWalker DEF TravInv, pe
  <2> QED
    BY <1>2, <1>11, <2>1
<1>12. ASSUME NEW b \in BucketsOf(t) PROVE seen[b] = 0 /\ Awaited(pe, b) = {}
  <2>1. seen[b] = 0
    <3>1. NotSeen(b)
      BY <1>4 DEF SeenInv
    <3> QED
      BY <1>11, <3>1 DEF NotSeen
  <2>2. \A w \in waiting[pe] : b \notin w.mask
    BY <1>2, <1>11, AwaitedByGroup
  <2> QED
    BY <2>1, <2>2 DEF Awaited
<1>13. ASSUME NEW u \in TreePiece, NEW g \in DOMAIN walkGroups'[u], NEW b \in walkGroups'[u][g]
       PROVE  SeenSoFar(u, g, b)'
  <2>1. CASE u = t
    <3>1. b \in BucketsOf(t) /\ g \in Nat \ {0}
      BY <1>3, <1>5, <1>6, <1>13, <2>1 DEF Grouping
    <3>2. Awaited(homeOf[u], b)' = {} /\ seen'[b] = 0
      BY <1>1, <1>7, <1>12, <2>1, <3>1 DEF Awaited, pe
    <3>3. MassSum(Awaited(homeOf[u], b))' = 0
      BY <3>2, SumOfNone DEF MassSum
    <3>4. ~(g <= current'[u]["local"]) /\ ~(g <= current'[u]["remote"])
      BY <1>1, <1>2, <2>1, <3>1
    <3> QED
      BY <3>2, <3>3, <3>4 DEF SeenSoFar, Part
  <2>2. CASE u # t
    <3>1. g \in DOMAIN walkGroups[u] /\ b \in walkGroups[u][g]
      BY <1>5, <1>13, <2>2
    <3>2. SeenSoFar(u, g, b)
      BY <3>1 DEF SeenInv, SeenRight
    <3>3. Awaited(homeOf[u], b)' = Awaited(homeOf[u], b)
      BY <1>1, <1>7 DEF Awaited
    <3>4. MassSum(Awaited(homeOf[u], b))' = MassSum(Awaited(homeOf[u], b))
      BY <1>7, <1>8, <3>3, SightKept
    <3> QED
      BY <1>1, <1>7, <1>8, <3>2, <3>4 DEF SeenSoFar, Part
  <2> QED
    BY <2>1, <2>2
<1>14. \A u \in TreePiece : SeenRight(u)'
  BY <1>13 DEF SeenRight
<1>15. \A b \in Bin : NotSeen(b)'
  <2> TAKE b \in Bin
  <2>1. NotSeen(b)
    BY DEF SeenInv
  <2>2. ASSUME NEW u \in TreePiece, NEW g \in DOMAIN walkGroups[u], b \in walkGroups[u][g]
        PROVE  \E v \in TreePiece : \E h \in DOMAIN walkGroups'[v] : b \in walkGroups'[v][h]
    <3>1. u # t
      BY <1>2, <2>2
    <3> QED
      BY <1>5, <2>2, <3>1
  <2> QED
    BY <1>1, <1>7, <2>1, <2>2 DEF NotSeen
<1> QED
  BY <1>1, <1>7, <1>8, <1>9, <1>10, <1>14, <1>15 DEF SeenInv

----------------------------------------------------------------------------
(* What walks add to what their buckets have seen. *)

\* What a bucket gains of several walks is the sum of it.
LEMMA GainSum ==
    ASSUME NEW b, NEW S, IsFiniteSet(S), NEW f, \A w \in S : f[w] = w.seen[b] /\ f[w] \in Int
    PROVE  MapThenSumSet(LAMBDA w : w.seen[b], S) = SumFunctionOnSet(f, S)
<1> DEFINE body(g) == [s \in SUBSET S |->
                          IF s = {} THEN 0
                          ELSE (CHOOSE x \in s : TRUE).seen[b] + g[s \ {CHOOSE x \in s : TRUE}]]
           G == CHOOSE g : g = body(g)
<1>1. MapThenSumSet(LAMBDA w : w.seen[b], S) = G[S]
  BY DEF MapThenSumSet, MapThenFoldSet
<1>2. \A g : body(g) = SumBody(f, S, g)
  <2> TAKE g
  <2>1. \A s \in SUBSET S : s # {} => f[CHOOSE x \in s : TRUE] = (CHOOSE x \in s : TRUE).seen[b]
    OBVIOUS
  <2> QED
    BY <2>1 DEF SumBody
<1>3. SumTable(f, S) = body(SumTable(f, S))
  <2>1. SumTable(f, S) = SumBody(f, S, SumTable(f, S))
    BY SumFound
  <2> HIDE DEF body
  <2> QED
    BY <1>2, <2>1
<1>4. G = body(G)
  <2> HIDE DEF body
  <2> QED
    BY <1>3
<1> HIDE DEF G, body
<1>5. G = SumBody(f, S, G)
  BY <1>2, <1>4
<1> QED
  BY <1>1, <1>5, SumFixed

\* A bucket that is in none of some walks, or in one of them.
LEMMA AddingIs ==
    ASSUME NEW walks, NEW b \in DOMAIN seen, seen[b] \in Int
    PROVE  /\ DOMAIN Adding(walks) = DOMAIN seen
           /\ (\A w \in walks : b \notin DOMAIN w.seen) => Adding(walks)[b] = seen[b]
           /\ \A w \in walks :
                 /\ b \in DOMAIN w.seen /\ w.seen[b] \in Int
                 /\ \A v \in walks : b \in DOMAIN v.seen => v = w
                 => Adding(walks)[b] = seen[b] + w.seen[b]
<1> DEFINE S == {w \in walks : b \in DOMAIN w.seen}
<1>1. /\ DOMAIN Adding(walks) = DOMAIN seen
      /\ Adding(walks)[b] = seen[b] + MapThenSumSet(LAMBDA w : w.seen[b], S)
  BY DEF Adding
<1>2. ASSUME \A w \in walks : b \notin DOMAIN w.seen
      PROVE  Adding(walks)[b] = seen[b]
  <2>1. S = {}
    BY <1>2
  <2> HIDE DEF S
  <2> DEFINE f == [w \in S |-> 0]
  <2>2. IsFiniteSet(S) /\ \A w \in S : f[w] = w.seen[b] /\ f[w] \in Int
    BY <2>1, FS_EmptySet
  <2> HIDE DEF f
  <2>3. MapThenSumSet(LAMBDA w : w.seen[b], S) = SumFunctionOnSet(f, S)
    BY <2>2, GainSum
  <2>4. SumFunctionOnSet(f, S) = 0
    BY <2>1, SumOfNone
  <2> QED
    BY <1>1, <2>3, <2>4
<1>3. ASSUME NEW w \in walks, b \in DOMAIN w.seen, w.seen[b] \in Int,
             \A v \in walks : b \in DOMAIN v.seen => v = w
      PROVE  Adding(walks)[b] = seen[b] + w.seen[b]
  <2>1. S = {w}
    BY <1>3
  <2> HIDE DEF S
  <2> DEFINE f == [v \in S |-> v.seen[b]]
  <2>2. /\ IsFiniteSet(S) /\ \A v \in S : f[v] = v.seen[b] /\ f[v] \in Int
        /\ w \in S /\ S \ {w} = {}
    BY <1>3, <2>1, FS_Singleton
  <2> HIDE DEF f
  <2>3. MapThenSumSet(LAMBDA v : v.seen[b], S) = SumFunctionOnSet(f, S)
    BY <2>2, GainSum
  <2>4. SumFunctionOnSet(f, S) = f[w] + SumFunctionOnSet(f, S \ {w})
    BY <2>2, SumLessOne
  <2>5. SumFunctionOnSet(f, S \ {w}) = 0
    BY <2>2, SumOfNone
  <2>6. SumFunctionOnSet(f, S) = w.seen[b]
    BY <1>3, <2>2, <2>4, <2>5
  <2> QED
    BY <1>1, <2>3, <2>6
<1> QED
  BY <1>1, <1>2, <1>3

\* What a bucket has seen is a number.
LEMMA SeenIsInt ==
    ASSUME SeenInv, NEW b \in Bin
    PROVE  b \in DOMAIN seen /\ seen[b] \in Int
<1>1. CASE \E t \in TreePiece : \E g \in DOMAIN walkGroups[t] : b \in walkGroups[t][g]
  BY <1>1 DEF SeenInv, SeenRight, SeenSoFar
<1>2. CASE ~\E t \in TreePiece : \E g \in DOMAIN walkGroups[t] : b \in walkGroups[t][g]
  BY <1>2 DEF SeenInv, NotSeen
<1>3. b \in DOMAIN seen
  BY DEF SeenInv
<1> QED
  BY <1>1, <1>2, <1>3

\* What a bucket waits for, in its tree.
LEMMA AwaitedIn ==
    ASSUME TravInv, NEW pe \in PE, NEW b
    PROVE  /\ Awaited(pe, b) \in SUBSET Bin /\ IsFiniteSet(Awaited(pe, b))
           /\ MassSum(Awaited(pe, b)) \in Int
<1>1. \A w \in waiting[pe] : w.node \in Bin
  BY DEF TravInv, WaitingOK, WaitOK, TreeOK, Rooted
<1>2. Awaited(pe, b) \in SUBSET Bin
  BY <1>1 DEF Awaited
<1> QED
  BY <1>2, MassesAre

\* Where a step leaves a bucket alone, what it has seen is right as it was.
LEMMA SeenStays ==
    ASSUME UNCHANGED <<input, reach>>, NEW t \in TreePiece, NEW g, NEW b, SeenSoFar(t, g, b),
           seen'[b] = seen[b], Awaited(homeOf[t], b)' = Awaited(homeOf[t], b),
           g <= current'[t]["local"] <=> g <= current[t]["local"],
           g <= current'[t]["remote"] <=> g <= current[t]["remote"]
    PROVE  SeenSoFar(t, g, b)'
<1>1. homeOf' = homeOf
  BY DEF input
<1>2. /\ \A pe, c : Far(pe, c)' = Far(pe, c)
      /\ \A S : MassSum(S)' = MassSum(S)
  BY SightKept
<1>3. MassSum(Awaited(homeOf[t], b))' = MassSum(Awaited(homeOf[t], b))
  BY <1>2, SightKept
<1>4. /\ Far(homeOf[t], b)' = Far(homeOf[t], b) /\ keyOf' = keyOf
  BY <1>1, <1>2 DEF input
<1>5. Part(g <= current[t]["local"], Particle \ Far(homeOf[t], b))'
         = Part(g <= current[t]["local"], Particle \ Far(homeOf[t], b))
  BY <1>1, <1>4 DEF Part
<1>6. Part(g <= current[t]["remote"], Far(homeOf[t], b))'
         = Part(g <= current[t]["remote"], Far(homeOf[t], b))
  BY <1>1, <1>4 DEF Part
<1> QED
  BY <1>3, <1>5, <1>6 DEF SeenSoFar

----------------------------------------------------------------------------
(* The walks that begin. *)

RootWalk(t, side, g) ==
    Walk(homeOf[t], Tree(homeOf[t]), fetched[homeOf[t]], side, {RootBin}, AllBuckets(t, g))
WaitFor(t, a) == [kind |-> a.kind, node |-> a.node, tp |-> t, mask |-> a.mask]
Begun(t, side, n) == current[t][side] + 1 .. n

\* What doLocalGravity and doRemoteGravity do of what is seen and waited for.
GravityOK(t, side, n) ==
    /\ n \in Nat /\ current[t][side] < n /\ n <= NumGroups(t)
    /\ seen' = Adding({RootWalk(t, side, g) : g \in Begun(t, side, n)})
    /\ \A q \in PE : q # homeOf[t] => waiting'[q] = waiting[q]
    /\ \A v : v \in waiting'[homeOf[t]] <=>
                 \/ v \in waiting[homeOf[t]]
                 \/ \E g \in Begun(t, side, n) :
                       \E a \in RootWalk(t, side, g).asks : v = WaitFor(t, a)
    /\ current'[t][side] = n
    /\ \A s \in Side : s # side => current'[t][s] = current[t][s]
    /\ \A u \in TreePiece : u # t => current'[u] = current[u]
    /\ UNCHANGED <<input, reach, phase, nodeTable, cached, fetched, replies, walkGroups>>

\* A slice of a walk, from its groups to what they ask for.
LEMMA GravityIs ==
    ASSUME TravInv, NEW t \in TreePiece, NEW side \in Side, DoGravity(t, side)
    PROVE  /\ \E n : GravityOK(t, side, n)
           /\ homeOf[t] \in PE /\ phase[homeOf[t]] # "advanced"
<1> USE DEF TravInv
<1> DEFINE pe == homeOf[t]
           T == Tree(pe)
           cur == current[t][side]
           N == NumGroups(t)
           U == Until(t, cur)
           begun == cur + 1 .. U
           W0 == {Walk(pe, T, fetched[pe], side, {RootBin}, AllBuckets(t, g)) : g \in begun}
           A == UNION {w.asks : w \in W0}
           W == {[kind |-> a.kind, node |-> a.node, tp |-> t, mask |-> a.mask] : a \in A}
<1>1. /\ pending[t][side] > 0 /\ cur < N /\ seen' = Adding(W0)
      /\ waiting' = [waiting EXCEPT ![pe] = @ \cup W]
      /\ current' = [current EXCEPT ![t][side] = @ + Cardinality(begun)]
      /\ UNCHANGED <<input, reach, phase, nodeTable, cached, fetched, replies, walkGroups>>
  BY Zenon DEF DoGravity, serving
<1>2. W0 = {RootWalk(t, side, g) : g \in begun}
  BY Zenon DEF RootWalk
<1>3. \A v : v \in W <=> \E g \in begun : \E a \in RootWalk(t, side, g).asks : v = WaitFor(t, a)
  <2>1. \A a : a \in A <=> \E g \in begun : a \in RootWalk(t, side, g).asks
    BY <1>2
  <2> HIDE DEF A
  <2> QED
    BY <2>1 DEF WaitFor
<1>4. /\ current \in [TreePiece -> [Side -> Nat]] /\ pending \in [TreePiece -> [Side -> Int]]
      /\ walkGroups[t] \in Seq(SUBSET Bin) /\ pe \in PE /\ DOMAIN waiting = PE
  BY DEF Shapes
<1>5. cur \in Nat /\ pending[t][side] \in Int /\ N \in Nat /\ N # 0
  BY <1>1, <1>4 DEF NumGroups
<1>6. U \in cur + 1 .. N
  <2> DEFINE g == cur
  <2> HIDE DEF g
  <2>1. g \in Nat /\ g < NumGroups(t) /\ NumGroups(t) \in Nat
    BY <1>1, <1>5 DEF g
  <2>2. Until(t, g) \in g + 1 .. NumGroups(t)
    BY <2>1, UntilIs
  <2> QED
    BY <2>2 DEF g
<1> HIDE DEF W, W0, A
<1>7. phase[pe] # "advanced"
  <2>1. PieceOK(t)
    OBVIOUS
  <2>2. AtWork(t) /\ ~Unstarted(t)
    BY <1>5, <2>1 DEF PieceOK, NumGroups
  <2>3. ~Over(t)
    BY <1>1, <1>5 DEF Over, BothEnded
  <2>4. t \in LocalPieces(pe) /\ PhaseOK(pe)
    BY <1>4 DEF LocalPieces
  <2> QED
    BY <2>3, <2>4 DEF PhaseOK
<1> HIDE DEF N, U, cur
<1>8. Cardinality(begun) = U - cur
  <2>1. U \in Int /\ cur + 1 \in Int
    BY <1>5, <1>6
  <2>2. IsFiniteSet(cur + 1 .. U)
        /\ Cardinality(cur + 1 .. U) = IF cur + 1 > U THEN 0 ELSE U - (cur + 1) + 1
    BY <2>1, FS_Interval
  <2> QED
    BY <1>5, <1>6, <2>2
<1>9. /\ current'[t][side] = U
      /\ \A s \in Side : s # side => current'[t][s] = current[t][s]
      /\ \A u \in TreePiece : u # t => current'[u] = current[u]
  <2>1. cur + Cardinality(begun) = U /\ U \in Nat
    BY <1>5, <1>6, <1>8
  <2>2. current' = [current EXCEPT ![t][side] = U]
    BY <1>1, <2>1 DEF cur
  <2> HIDE DEF begun
  <2> QED
    BY <1>4, <2>1, <2>2, SideChanged
<1>10. /\ \A q \in PE : q # pe => waiting'[q] = waiting[q]
       /\ \A v : v \in waiting'[pe] <=> v \in waiting[pe] \/ v \in W
  BY <1>1, <1>4
<1>11. begun = Begun(t, side, U)
  BY DEF Begun, cur
<1>12. GravityOK(t, side, U)
  <2>1. U \in Nat /\ current[t][side] < U /\ U <= NumGroups(t)
    BY <1>5, <1>6 DEF cur, N
  <2>2. seen' = Adding({RootWalk(t, side, g) : g \in Begun(t, side, U)})
    BY <1>1, <1>2, <1>11
  <2>3. \A q \in PE : q # homeOf[t] => waiting'[q] = waiting[q]
    BY <1>10
  <2>4. \A v : v \in waiting'[homeOf[t]] <=>
                  \/ v \in waiting[homeOf[t]]
                  \/ \E g \in Begun(t, side, U) :
                        \E a \in RootWalk(t, side, g).asks : v = WaitFor(t, a)
    BY <1>3, <1>10, <1>11, Zenon
  <2>5. UNCHANGED <<input, reach, phase, nodeTable, cached, fetched, replies, walkGroups>>
    BY <1>1
  <2> QED
    BY <1>9, <2>1, <2>2, <2>3, <2>4, <2>5, Zenon DEF GravityOK
<1> QED
  BY <1>4, <1>7, <1>12

\* Of one of these walks.
LEMMA RootWalkIs ==
    ASSUME TravInv, SeenInv, NEW t \in TreePiece, homeOf[t] \in PE, phase[homeOf[t]] # "advanced",
           NEW side \in Side, NEW g
    PROVE  /\ DOMAIN RootWalk(t, side, g).seen = AllBuckets(t, g)
           /\ \A a \in RootWalk(t, side, g).asks : a.mask \subseteq AllBuckets(t, g)
           /\ side = "local" => RootWalk(t, side, g).asks = {}
           /\ \A b \in AllBuckets(t, g) :
                 SumsTo(RootWalk(t, side, g), b, Share(homeOf[t], side, b))
<1> DEFINE pe == homeOf[t]
           T == Tree(pe)
           held == fetched[pe]
           mask == AllBuckets(t, g)
           starts == {RootBin}
           w == Walk(pe, T, held, side, starts, mask)
<1>1. Rooted(T) /\ WalkedOK /\ TreeRight(pe) /\ phase[pe] # "advanced" /\ Level(starts)
  BY AllWithin DEF TravInv, SeenInv, TreeOK
<1>2. RootWalk(t, side, g) = w
  BY DEF RootWalk
<1>3. \A b \in mask : SumsTo(w, b, Share(pe, side, b))
  BY <1>1, WalkFromRoot
<1> HIDE DEF T, held, mask, starts
<1>4. DOMAIN w.seen = mask
  BY <1>1, WalkSees
<1>5. AsksOK(T, held, mask, starts, w.asks) /\ (side = "local" => w.asks = {})
  BY <1>1, WalkAsks
<1> HIDE DEF w
<1>6. \A a \in w.asks : a.mask \subseteq mask
  BY <1>5 DEF AsksOK, AskOK
<1> QED
  BY <1>2, <1>3, <1>4, <1>5, <1>6 DEF mask

\* A bucket of a group that begins has then seen, or waits for, that side's share.
LEMMA SeenGravity ==
    ASSUME TravInv, SeenInv, NEW t \in TreePiece, NEW side \in Side, DoGravity(t, side)
    PROVE  SeenInv'
<1> DEFINE pe == homeOf[t]
<1>1. pe \in PE /\ phase[pe] # "advanced"
  BY GravityIs
<1>2. PICK n : GravityOK(t, side, n)
  BY GravityIs
<1> DEFINE begun == Begun(t, side, n)
           walks == {RootWalk(t, side, g) : g \in begun}
<1>3. /\ n \in Nat /\ current[t][side] < n /\ n <= NumGroups(t) /\ seen' = Adding(walks)
      /\ \A q \in PE : q # pe => waiting'[q] = waiting[q]
      /\ \A v : v \in waiting'[pe] <=>
                   \/ v \in waiting[pe]
                   \/ \E g \in begun : \E a \in RootWalk(t, side, g).asks : v = WaitFor(t, a)
      /\ current'[t][side] = n
      /\ \A s \in Side : s # side => current'[t][s] = current[t][s]
      /\ \A u \in TreePiece : u # t => current'[u] = current[u]
      /\ UNCHANGED <<input, reach, phase, nodeTable, cached, fetched, replies, walkGroups>>
  BY <1>2, Zenon DEF GravityOK
<1>4. /\ walkGroups[t] \in Seq(SUBSET Bin) /\ Disjoint(walkGroups[t])
      /\ current \in [TreePiece -> [Side -> Nat]]
      /\ \A u \in TreePiece : homeOf[u] \in PE /\ walkGroups[u] \in Seq(SUBSET Bin)
  BY DEF TravInv, Shapes, PieceOK
<1>5. /\ begun = current[t][side] + 1 .. n /\ current[t][side] \in Nat
      /\ \A g \in begun : g \in DOMAIN walkGroups[t] /\ AllBuckets(t, g) = walkGroups[t][g]
  <2>1. current[t][side] \in Nat /\ DOMAIN walkGroups[t] = 1 .. NumGroups(t) /\ NumGroups(t) \in Nat
    BY <1>4 DEF NumGroups
  <2> QED
    BY <1>3, <2>1 DEF Begun, AllBuckets
<1>6. \A g : /\ DOMAIN RootWalk(t, side, g).seen = AllBuckets(t, g)
             /\ \A a \in RootWalk(t, side, g).asks : a.mask \subseteq AllBuckets(t, g)
             /\ side = "local" => RootWalk(t, side, g).asks = {}
             /\ \A b \in AllBuckets(t, g) :
                   SumsTo(RootWalk(t, side, g), b, Share(pe, side, b))
  BY <1>1, RootWalkIs
<1> HIDE DEF begun, walks
<1>7. ASSUME NEW u \in TreePiece, NEW g \in DOMAIN walkGroups[u], NEW b \in walkGroups[u][g],
             NEW h \in begun, b \in AllBuckets(t, h)
      PROVE  u = t /\ g = h
  <2>1. h \in DOMAIN walkGroups[t] /\ b \in walkGroups[t][h]
    BY <1>5, <1>7
  <2>2. /\ b \in DOMAIN walked[homeOf[u]] /\ walked[homeOf[u]][b].type = "Bucket"
        /\ PieceOf(homeOf[u], b) = u
    BY DEF SeenInv, GroupsRight
  <2>3. u = t
    BY <2>1, <2>2, OneWalker DEF TravInv
  <2> QED
    BY <1>4, <2>1, <2>3 DEF Disjoint
<1>8. ASSUME NEW b \in Bin, \A h \in begun : b \notin AllBuckets(t, h)
      PROVE  seen'[b] = seen[b] /\ \A q \in PE : Awaited(q, b)' = Awaited(q, b)
  <2>1. b \in DOMAIN seen /\ seen[b] \in Int
    BY SeenIsInt
  <2>2. \A w \in walks : b \notin DOMAIN w.seen
    BY <1>6, <1>8 DEF walks
  <2>3. seen'[b] = seen[b]
    BY <1>3, <2>1, <2>2, AddingIs
  <2>4. ASSUME NEW q \in PE PROVE Awaited(q, b)' = Awaited(q, b)
    <3>1. CASE q # pe
      BY <1>3, <3>1 DEF Awaited
    <3>2. CASE q = pe
      <4>1. \A v : b \in v.mask => (v \in waiting'[pe] <=> v \in waiting[pe])
        <5>1. ASSUME NEW g \in begun, NEW a \in RootWalk(t, side, g).asks
              PROVE  b \notin WaitFor(t, a).mask
          BY <1>6, <1>8, <5>1 DEF WaitFor
        <5> QED
          BY <1>3, <5>1
      <4>2. {v \in waiting'[pe] : b \in v.mask} = {v \in waiting[pe] : b \in v.mask}
        BY <4>1
      <4> QED
        BY <3>2, <4>2 DEF Awaited
    <3> QED
      BY <3>1, <3>2
  <2> QED
    BY <2>3, <2>4
<1>9. ASSUME NEW h \in begun, NEW b \in AllBuckets(t, h)
      PROVE  /\ b \in Bin /\ seen'[b] = seen[b] + RootWalk(t, side, h).seen[b]
             /\ Awaited(pe, b)' = Awaited(pe, b) \cup AskedOf(RootWalk(t, side, h), b)
             /\ Awaited(pe, b) = {} \/ AskedOf(RootWalk(t, side, h), b) = {}
  <2> DEFINE w == RootWalk(t, side, h)
  <2>1. h \in DOMAIN walkGroups[t] /\ b \in walkGroups[t][h] /\ walkGroups[t][h] \subseteq Bin
    BY <1>4, <1>5
  <2>2. b \in Bin /\ b \in DOMAIN seen /\ seen[b] \in Int
    BY <2>1, SeenIsInt
  <2>3. \A g \in begun : b \in AllBuckets(t, g) => g = h
    BY <1>5, <1>7, <2>1
  <2>4. w \in walks /\ b \in DOMAIN w.seen /\ w.seen[b] \in Int
    BY <1>6 DEF walks, SumsTo
  <2>5. \A v \in walks : b \in DOMAIN v.seen => v = w
    BY <1>6, <2>3 DEF walks
  <2>6. \A g \in begun : \A a \in RootWalk(t, side, g).asks : b \in WaitFor(t, a).mask => g = h
    BY <1>6, <2>3 DEF WaitFor
  <2> HIDE DEF w
  <2>7. seen'[b] = seen[b] + w.seen[b]
    BY <1>3, <2>2, <2>4, <2>5, AddingIs
  <2>8. {v \in waiting'[pe] : b \in v.mask}
           = {v \in waiting[pe] : b \in v.mask} \cup {WaitFor(t, a) : a \in {c \in w.asks : b \in c.mask}}
    <3>1. \A a : WaitFor(t, a).mask = a.mask
      BY DEF WaitFor
    <3>2. ASSUME NEW v, b \in v.mask
          PROVE  v \in waiting'[pe] <=> v \in waiting[pe] \/ \E a \in w.asks : v = WaitFor(t, a)
      BY <1>3, <2>6, <3>2 DEF w
    <3> QED
      BY <3>1, <3>2
  <2>9. Awaited(pe, b)' = Awaited(pe, b) \cup AskedOf(w, b)
    <3>1. \A a : WaitFor(t, a).node = a.node
      BY DEF WaitFor
    <3>2. homeOf' = homeOf
      BY <1>3 DEF input
    <3> DEFINE X == {v \in waiting[pe] : b \in v.mask}
               B == {c \in w.asks : b \in c.mask}
               Y == {v \in waiting'[pe] : b \in v.mask}
    <3>3. Awaited(pe, b)' = {v.node : v \in Y} /\ Awaited(pe, b) = {v.node : v \in X}
      BY <3>2 DEF Awaited
    <3>4. AskedOf(w, b) = {a.node : a \in B}
      BY DEF AskedOf
    <3>5. Y = X \cup {WaitFor(t, a) : a \in B}
      BY <2>8
    <3> HIDE DEF X, B, Y
    <3>6. {v.node : v \in Y} = {v.node : v \in X} \cup {a.node : a \in B}
      BY <3>1, <3>5
    <3> QED
      BY <3>3, <3>4, <3>6
  <2>10. Awaited(pe, b) = {} \/ AskedOf(w, b) = {}
    <3>1. CASE side = "local"
      BY <1>6, <3>1 DEF AskedOf, w
    <3>2. CASE side = "remote"
      <4>1. ASSUME NEW v \in waiting[pe], b \in v.mask PROVE FALSE
        <5>1. PICK g \in DOMAIN walkGroups[v.tp] :
                 /\ v.tp \in TreePiece /\ b \in walkGroups[v.tp][g] /\ g <= current[v.tp]["remote"]
          BY <1>1, <4>1, AwaitedByGroup
        <5>2. v.tp = t /\ g = h
          BY <1>7, <5>1
        <5> QED
          BY <1>5, <3>2, <5>1, <5>2
      <4> QED
        BY <4>1 DEF Awaited
    <3> QED
      BY <3>1, <3>2 DEF Side
  <2> QED
    BY <2>2, <2>7, <2>9, <2>10 DEF w
<1>10. ASSUME NEW u \in TreePiece, NEW g \in DOMAIN walkGroups[u], NEW b \in walkGroups[u][g]
       PROVE  SeenSoFar(u, g, b)'
  <2>1. SeenSoFar(u, g, b) /\ b \in Bin /\ g \in Nat
    <3>1. walkGroups[u] \in Seq(SUBSET Bin)
      BY <1>4
    <3> QED
      BY <3>1 DEF SeenInv, SeenRight
  <2>2. CASE \A h \in begun : b \notin AllBuckets(t, h)
    <3>1. seen'[b] = seen[b] /\ Awaited(homeOf[u], b)' = Awaited(homeOf[u], b)
      <4>1. homeOf[u] \in PE /\ homeOf' = homeOf
        BY <1>3, <1>4 DEF input
      <4> QED
        BY <1>8, <2>1, <2>2, <4>1
    <3>2. \A s \in Side : g <= current'[u][s] <=> g <= current[u][s]
      <4>1. CASE u # t
        BY <1>3, <4>1
      <4>2. CASE u = t
        <5>1. g \notin begun
          BY <1>5, <2>2, <4>2
        <5> QED
          BY <1>3, <1>5, <2>1, <4>2, <5>1
      <4> QED
        BY <4>1, <4>2
    <3> QED
      BY <1>3, <2>1, <3>1, <3>2, SeenStays DEF Side
  <2>3. ASSUME NEW h \in begun, b \in AllBuckets(t, h)
        PROVE  SeenSoFar(u, g, b)'
    <3> DEFINE w == RootWalk(t, side, h)
               before == Awaited(pe, b)
               asked == AskedOf(w, b)
    <3>1. u = t /\ g = h
      BY <1>7, <2>3
    <3>2. /\ seen'[b] = seen[b] + w.seen[b] /\ Awaited(pe, b)' = before \cup asked
          /\ before = {} \/ asked = {}
      BY <1>9, <2>3
    <3>3. /\ w.seen[b] \in Int /\ asked \in SUBSET Bin
          /\ w.seen[b] + MassSum(asked) = Mass(Share(pe, side, b))
      BY <1>6, <2>3 DEF SumsTo
    <3>4. before \in SUBSET Bin
      BY <1>1, AwaitedIn
    <3>5. seen[b] \in Int /\ seen[b] + MassSum(before) =
             Part(h <= current[t]["local"], Particle \ Far(pe, b))
                + Part(h <= current[t]["remote"], Far(pe, b))
      BY <2>1, <3>1 DEF SeenSoFar
    <3>6. MassSum(before) \in Int /\ MassSum(asked) \in Int
      BY <3>3, <3>4, MassesAre
    <3> HIDE DEF before, asked, w
    <3>7. MassSum(before \cup asked) = MassSum(before) + MassSum(asked)
      <4>1. MassSum({}) = 0
        BY SumOfNone DEF MassSum
      <4>2. CASE before = {}
        <5>1. before \cup asked = asked
          BY <4>2
        <5> QED
          BY <3>6, <4>1, <4>2, <5>1
      <4>3. CASE asked = {}
        <5>1. before \cup asked = before
          BY <4>3
        <5> QED
          BY <3>6, <4>1, <4>3, <5>1
      <4> QED
        BY <3>2, <4>2, <4>3
    <3>8. /\ homeOf' = homeOf /\ Far(pe, b)' = Far(pe, b)
          /\ MassSum(Awaited(pe, b))' = MassSum(before \cup asked)
      <4>1. homeOf' = homeOf /\ UNCHANGED <<input, reach>>
        BY <1>3 DEF input
      <4>2. /\ \A q, c : Far(q, c)' = Far(q, c)
            /\ \A S : MassSum(S)' = MassSum(S)
        BY <4>1, SightKept
      <4> QED
        BY <3>2, <4>1, <4>2, SightKept
    <3>9. /\ ~(h <= current[t][side]) /\ h <= current'[t][side]
          /\ \A s \in Side : s # side => current'[t][s] = current[t][s]
      BY <1>3, <1>5
    <3>10. Part(h <= current'[t]["local"], Particle \ Far(pe, b))
              + Part(h <= current'[t]["remote"], Far(pe, b))
           = Part(h <= current[t]["local"], Particle \ Far(pe, b))
                + Part(h <= current[t]["remote"], Far(pe, b)) + Mass(Share(pe, side, b))
      <4>1. Mass(Far(pe, b)) \in Int /\ Mass(Particle \ Far(pe, b)) \in Int
        BY MassIs DEF Far
      <4>2. CASE side = "local"
        BY <3>9, <4>1, <4>2 DEF Part, Share, Side
      <4>3. CASE side = "remote"
        BY <3>9, <4>1, <4>3 DEF Part, Share, Side
      <4> QED
        BY <4>2, <4>3 DEF Side
    <3>11. seen'[b] \in Int /\ seen'[b] + MassSum(before \cup asked) =
              Part(h <= current'[t]["local"], Particle \ Far(pe, b))
                 + Part(h <= current'[t]["remote"], Far(pe, b))
      BY <3>2, <3>3, <3>5, <3>6, <3>7, <3>10
    <3>12. keyOf' = keyOf
      BY <1>3 DEF input
    <3> QED
      BY <3>1, <3>8, <3>11 DEF SeenSoFar, Part
  <2> QED
    BY <2>2, <2>3
<1>11. /\ UNCHANGED <<keyOf, cellOf, homeOf, walked>> /\ TreePiece' = TreePiece
       /\ UNCHANGED <<input, reach>>
  BY <1>3 DEF input, TreePiece
<1>12. /\ \A q, b : Far(q, b)' = Far(q, b) /\ PieceOf(q, b)' = PieceOf(q, b)
       /\ WalkedOK' /\ \A m : AnswerRight(m)' <=> AnswerRight(m)
  BY <1>11, SightKept DEF SeenInv
<1>13. \A q \in PE : TreeRight(q)'
  <2> TAKE q \in PE
  <2>1. TreeRight(q) /\ UNCHANGED <<nodeTable[q], cached[q], fetched[q]>> /\ phase'[q] = phase[q]
    BY <1>3 DEF SeenInv
  <2> QED
    BY <1>11, <2>1, TreeRightKept
<1>14. \A u \in TreePiece : GroupsRight(u)' /\ SeenRight(u)'
  <2> TAKE u \in TreePiece
  <2>1. GroupsRight(u) /\ walkGroups' = walkGroups
    BY <1>3 DEF SeenInv
  <2> QED
    BY <1>10, <1>11, <1>12, <2>1 DEF GroupsRight, SeenRight
<1>15. \A b \in Bin : NotSeen(b)'
  <2> TAKE b \in Bin
  <2> SUFFICES ASSUME \A u \in TreePiece : \A g \in DOMAIN walkGroups[u] : b \notin walkGroups[u][g]
               PROVE  seen'[b] = 0
    BY <1>3, <1>11 DEF NotSeen
  <2>1. seen[b] = 0
    BY DEF SeenInv, NotSeen
  <2> QED
    BY <1>5, <1>8, <2>1
<1>16. DOMAIN seen' = Bin /\ replies' = replies
  BY <1>3 DEF Adding, SeenInv
<1> QED
  BY <1>11, <1>12, <1>13, <1>14, <1>15, <1>16 DEF SeenInv

----------------------------------------------------------------------------
(* The walks that go on. *)

\* Nodes in two sets apart, and a single one.
LEMMA MassSumOfTwo ==
    ASSUME NEW S \in SUBSET Bin, NEW U \in SUBSET Bin, S \cap U = {}
    PROVE  MassSum(S \cup U) = MassSum(S) + MassSum(U)
<1>1. /\ IsFiniteSet(S) /\ IsFiniteSet(U)
      /\ \A k \in S \cup U : Masses[k] \in Int
  BY MassesAre
<1> QED
  BY <1>1, SumOfTwo DEF MassSum

LEMMA MassSumOfOne ==
    ASSUME NEW k \in Bin
    PROVE  MassSum({k}) = Mass(Present(k)) /\ MassSum({}) = 0
<1>1. {k} \in SUBSET Bin /\ {k} \ {k} = {}
  OBVIOUS
<1>2. IsFiniteSet({k}) /\ Masses[k] = Mass(Present(k)) /\ Masses[k] \in Int
  BY <1>1, MassesAre
<1>3. SumFunctionOnSet(Masses, {k}) = Masses[k] + SumFunctionOnSet(Masses, {k} \ {k})
  BY <1>2, SumLessOne
<1>4. SumFunctionOnSet(Masses, {k} \ {k}) = 0 /\ SumFunctionOnSet(Masses, {}) = 0
  BY <1>1, SumOfNone
<1> QED
  BY <1>2, <1>3, <1>4 DEF MassSum

\* What an answer adds to what buckets have seen.
LEMMA ReceivedSeen ==
    ASSUME NEW m, Receive(m)
    PROVE  /\ seen' = Adding({GoesOn(m.to, m, w) : w \in Resumed(m.to, m)})
           /\ UNCHANGED reach
<1>1. seen' = Adding({GoesOn(m.to, m, w) : w \in Resumed(m.to, m)})
  BY Zenon DEF Receive, WaitsThen, GoesOn, HeldThen, Grown, Attached, Resumed
<1> QED
  BY <1>1 DEF Receive

\* An answer comes to a Remote leaf.
LEMMA ComesToRemote ==
    ASSUME TravInv, SeenInv, NEW m \in replies, NEW pe, pe = m.to
    PROVE  /\ pe \in PE /\ phase[pe] # "advanced" /\ GrownOK(pe, m)
           /\ m.node \in Bin /\ m.node \in DOMAIN Tree(pe)
           /\ Tree(pe)[m.node].type \in Elsewhere /\ Foreign(pe, m.node)
           /\ ReplyOK(m) /\ AnswerRight(m) /\ m.kind \in Kind
<1>1. /\ pe \in PE /\ m.kind \in Kind /\ m.node \in Bin /\ ReplyOK(m)
      /\ m.node \in DOMAIN Tree(pe) /\ Tree(pe)[m.node].numChildren = 0
  BY Expected
<1>2. TreeOK(pe) /\ TreeRight(pe) /\ WalkedOK /\ AnswerRight(m)
  BY <1>1 DEF TravInv, SeenInv
<1>3. GrownOK(pe, m)
  BY <1>1, <1>2, GrownFacts
<1>4. PICK w \in waiting[pe] : w.node = m.node
  BY <1>1 DEF TravInv, FlightOK, Awaits
<1>5. phase[pe] # "advanced"
  BY <1>1, <1>4, AskedEarly
<1>6. Tree(pe)[m.node].type \in Elsewhere
  <2>1. WaitOK(pe, w)
    BY <1>1 DEF TravInv, WaitingOK
  <2> QED
    BY <1>4, <2>1 DEF WaitOK, Elsewhere
<1>7. Foreign(pe, m.node)
  BY <1>1, <1>2, <1>5, <1>6, TypesTell DEF TreeOK, TreeRight
<1> QED
  BY <1>1, <1>2, <1>3, <1>5, <1>6, <1>7

\* The nodes of the tree with what has come in it.
LEMMA GrownNodes ==
    ASSUME NEW pe \in PE, TreeOK(pe), NEW m, GrownOK(pe, m)
    PROVE  /\ \A k \in DOMAIN m.nodes : Grown(pe, m)[k] = m.nodes[k]
           /\ \A k \in DOMAIN Tree(pe) : Grown(pe, m)[k].mass = Tree(pe)[k].mass
<1> DEFINE C == Attached(cached[pe], m)
           B == Attached(nodeTable[pe], m)
           D == Extended(m.nodes, C)
<1>1. /\ DOMAIN C = DOMAIN cached[pe] /\ DOMAIN B = DOMAIN nodeTable[pe]
      /\ DOMAIN cached[pe] \cap DOMAIN nodeTable[pe] = {}
      /\ DOMAIN Tree(pe) = DOMAIN cached[pe] \cup DOMAIN nodeTable[pe]
      /\ DOMAIN Tree(pe) \cap DOMAIN m.nodes = {}
      /\ Grown(pe, m) = Extended(D, B)
  BY ExtendedFacts DEF Attached, Tree, TreeOK, GrownOK, Grown
<1>2. ASSUME NEW T, AreNodes(T), NEW k \in DOMAIN T
      PROVE  Attached(T, m)[k].mass = T[k].mass
  <2>1. IsNode(T[k])
    BY <1>2 DEF AreNodes
  <2>2. [T[k] EXCEPT !.numChildren = BranchFactor].mass = T[k].mass
    BY <2>1, MassStays
  <2> QED
    BY <2>2 DEF Attached
<1>3. /\ \A k \in DOMAIN cached[pe] : C[k].mass = cached[pe][k].mass
      /\ \A k \in DOMAIN nodeTable[pe] : B[k].mass = nodeTable[pe][k].mass
  BY <1>2 DEF TreeOK
<1> HIDE DEF B, C
<1>4. /\ DOMAIN D = DOMAIN m.nodes \cup DOMAIN C
      /\ \A k \in DOMAIN m.nodes : D[k] = m.nodes[k]
      /\ \A k \in DOMAIN C \ DOMAIN m.nodes : D[k] = C[k]
  BY ExtendedFacts
<1> HIDE DEF D
<1>5. /\ \A k \in DOMAIN D : Extended(D, B)[k] = D[k]
      /\ \A k \in DOMAIN B \ DOMAIN D : Extended(D, B)[k] = B[k]
  BY ExtendedFacts
<1>6. /\ \A k \in DOMAIN cached[pe] : Tree(pe)[k] = cached[pe][k]
      /\ \A k \in DOMAIN nodeTable[pe] \ DOMAIN cached[pe] : Tree(pe)[k] = nodeTable[pe][k]
  BY ExtendedFacts DEF Tree
<1>7. \A k \in DOMAIN m.nodes : Grown(pe, m)[k] = m.nodes[k]
  BY <1>1, <1>4, <1>5
<1>8. ASSUME NEW k \in DOMAIN Tree(pe) PROVE Grown(pe, m)[k].mass = Tree(pe)[k].mass
  <2>1. CASE k \in DOMAIN cached[pe]
    BY <1>1, <1>3, <1>4, <1>5, <1>6, <2>1
  <2>2. CASE k \in DOMAIN nodeTable[pe] \ DOMAIN cached[pe]
    BY <1>1, <1>3, <1>4, <1>5, <1>6, <2>2
  <2> QED
    BY <1>1, <2>1, <2>2
<1> QED
  BY <1>7, <1>8

\* A tree with the answer is still whole.
LEMMA GrownWhole ==
    ASSUME TravInv, SeenInv, NEW m \in replies, NEW pe, pe = m.to
    PROVE  /\ Whole(Grown(pe, m)) /\ Rooted(Grown(pe, m))
           /\ \A k \in DOMAIN HeldThen(pe, m) : HeldThen(pe, m)[k] = Present(k)
           /\ \A k \in DOMAIN m.nodes : Grown(pe, m)[k].type \in Elsewhere
<1>1. /\ pe \in PE /\ GrownOK(pe, m) /\ AnswerRight(m) /\ ReplyOK(m) /\ m.kind \in Kind
      /\ m.node \in DOMAIN Tree(pe) /\ Tree(pe)[m.node].type \in Elsewhere
  BY ComesToRemote
<1>2. TreeOK(pe) /\ Whole(Tree(pe)) /\ \A k \in DOMAIN fetched[pe] : fetched[pe][k] = Present(k)
  BY <1>1 DEF TravInv, SeenInv, TreeRight
<1> DEFINE G == Grown(pe, m)
           T == Tree(pe)
<1>3. /\ \A k \in DOMAIN m.nodes : G[k] = m.nodes[k]
      /\ \A k \in DOMAIN T : G[k].mass = T[k].mass
  BY <1>1, <1>2, GrownNodes
<1>4. /\ DOMAIN G = DOMAIN T \cup DOMAIN m.nodes /\ Rooted(G)
      /\ \A k \in DOMAIN T :
            /\ G[k].type = T[k].type
            /\ G[k].numChildren = IF k = m.node /\ m.kind = "node" THEN BranchFactor
                                  ELSE T[k].numChildren
  BY <1>1 DEF GrownOK
<1>5. BranchFactor # 0
  BY KeyTreeAssumption
<1>6. /\ Full(T) /\ NodesRight(T) /\ Full(m.nodes) /\ NodesRight(m.nodes)
      /\ \A k \in DOMAIN m.nodes : m.nodes[k].type \in Elsewhere
      /\ \A k \in DOMAIN T : T[k].type \in {"Internal", "Boundary"} => T[k].numChildren # 0
      /\ m.kind = "node" => m.node.size > 1 /\ Children(m.node) \subseteq DOMAIN m.nodes
  BY <1>1, <1>2 DEF Whole, AnswerRight
<1> HIDE DEF G, T
<1>7. Full(G)
  <2> SUFFICES ASSUME NEW k \in DOMAIN G, G[k].numChildren # 0
               PROVE  k.size > 1 /\ Children(k) \subseteq DOMAIN G
    BY DEF Full
  <2>1. CASE k \in DOMAIN m.nodes
    BY <1>3, <1>4, <1>6, <2>1 DEF Full
  <2>2. CASE k \in DOMAIN T /\ k = m.node /\ m.kind = "node"
    BY <1>4, <1>6, <2>2
  <2>3. CASE k \in DOMAIN T /\ ~(k = m.node /\ m.kind = "node")
    BY <1>4, <1>6, <2>3 DEF Full
  <2> QED
    BY <1>4, <2>1, <2>2, <2>3
<1>8. NodesRight(G)
  BY <1>3, <1>4, <1>6 DEF NodesRight
<1>9. \A k \in DOMAIN G : G[k].type \in {"Internal", "Boundary"} => G[k].numChildren # 0
  <2> TAKE k \in DOMAIN G
  <2>1. CASE k \in DOMAIN m.nodes
    BY <1>3, <1>6, <2>1 DEF Elsewhere
  <2>2. CASE k \in DOMAIN T
    BY <1>4, <1>5, <1>6, <2>2
  <2> QED
    BY <1>4, <2>1, <2>2
<1>10. \A k \in DOMAIN HeldThen(pe, m) : HeldThen(pe, m)[k] = Present(k)
  <2>1. CASE m.kind = "node"
    BY <1>2, <2>1 DEF HeldThen
  <2>2. CASE m.kind # "node"
    <3> DEFINE new == [k \in {m.node} |-> m.particles]
    <3>1. HeldThen(pe, m) = Extended(fetched[pe], new)
      BY <2>2 DEF HeldThen
    <3>2. DOMAIN new = {m.node} /\ new[m.node] = m.particles
      OBVIOUS
    <3>3. m.particles = Present(m.node)
      BY <1>1, <2>2 DEF AnswerRight, Kind
    <3> DEFINE old == fetched[pe]
    <3>4. \A k \in DOMAIN old : old[k] = Present(k)
      BY <1>2
    <3> HIDE DEF new, old
    <3>5. /\ DOMAIN Extended(old, new) = DOMAIN old \cup DOMAIN new
          /\ \A k \in DOMAIN old : Extended(old, new)[k] = old[k]
          /\ \A k \in DOMAIN new \ DOMAIN old : Extended(old, new)[k] = new[k]
      BY ExtendedFacts
    <3>6. HeldThen(pe, m) = Extended(old, new)
      BY <3>1 DEF old
    <3> QED
      BY <3>2, <3>3, <3>4, <3>5, <3>6
  <2> QED
    BY <2>1, <2>2
<1>11. \A k \in DOMAIN m.nodes : G[k].type \in Elsewhere
  BY <1>3, <1>6
<1> QED
  BY <1>4, <1>7, <1>8, <1>9, <1>10, <1>11 DEF Whole, G

\* What is right of a tree stays so when an answer comes.
LEMMA TreeRightThen ==
    ASSUME TravInv, SeenInv, NEW m \in replies, NEW pe \in PE, pe = m.to, Received(pe, m),
           UNCHANGED reach
    PROVE  TreeRight(pe)'
<1>1. /\ phase[pe] # "advanced" /\ GrownOK(pe, m) /\ AnswerRight(m) /\ ReplyOK(m)
      /\ m.node \in Bin /\ Foreign(pe, m.node)
  BY ComesToRemote
<1>2. /\ Whole(Grown(pe, m)) /\ \A k \in DOMAIN HeldThen(pe, m) : HeldThen(pe, m)[k] = Present(k)
      /\ \A k \in DOMAIN m.nodes : Grown(pe, m)[k].type \in Elsewhere
  BY GrownWhole
<1>3. Tree(pe)' = Grown(pe, m) /\ fetched'[pe] = HeldThen(pe, m)
  BY TreesThen
<1>4. /\ UNCHANGED <<input, reach, phase>>
      /\ nodeTable' = [nodeTable EXCEPT ![pe] = Attached(nodeTable[pe], m)]
      /\ cached' = [cached EXCEPT ![pe] = Extended(m.nodes, Attached(cached[pe], m))]
  BY DEF Received
<1>5. TreeOK(pe) /\ TypesKept(pe) /\ WalkedOK /\ DOMAIN nodeTable = PE /\ DOMAIN cached = PE
  BY DEF TravInv, SeenInv, TreeRight, Shapes
<1>6. walked' = walked
  BY <1>4 DEF input
<1> DEFINE B == nodeTable[pe]
           C == cached[pe]
           B2 == Attached(B, m)
           C1 == Attached(C, m)
           C2 == Extended(m.nodes, C1)
<1>7. nodeTable'[pe] = B2 /\ cached'[pe] = C2
  BY <1>4, <1>5
<1>8. AreNodes(B) /\ AreNodes(C)
  BY <1>5 DEF TreeOK
<1>9. /\ DOMAIN B = DOMAIN walked[pe]
      /\ \A k \in DOMAIN walked[pe] :
            IF walked[pe][k].type = "Remote" THEN B[k].type \in Elsewhere
            ELSE B[k].type = walked[pe][k].type
      /\ \A k \in DOMAIN C :
            /\ C[k].type \in Elsewhere
            /\ \E a \in DOMAIN walked[pe] :
                  walked[pe][a].type = "Remote" /\ Covers(a, k.first) /\ k.size < a.size
  BY <1>1, <1>5 DEF TypesKept
<1> HIDE DEF B, C
<1>10. /\ DOMAIN B2 = DOMAIN B /\ \A k \in DOMAIN B : B2[k].type = B[k].type
       /\ DOMAIN C1 = DOMAIN C /\ \A k \in DOMAIN C : C1[k].type = C[k].type
  BY <1>8, AttachedFacts
<1> HIDE DEF B2, C1
<1>11. /\ DOMAIN C2 = DOMAIN m.nodes \cup DOMAIN C1
       /\ \A k \in DOMAIN m.nodes : C2[k] = m.nodes[k]
       /\ \A k \in DOMAIN C1 \ DOMAIN m.nodes : C2[k] = C1[k]
  BY ExtendedFacts
<1> HIDE DEF C2
<1>12. ASSUME NEW k \in DOMAIN C2
       PROVE  /\ C2[k].type \in Elsewhere
              /\ \E a \in DOMAIN walked[pe] :
                    walked[pe][a].type = "Remote" /\ Covers(a, k.first) /\ k.size < a.size
  <2>1. CASE k \in DOMAIN m.nodes
    <3>1. C2[k].type \in Elsewhere
      BY <1>1, <1>11, <2>1 DEF AnswerRight
    <3>2. k \in Bin /\ Covers(m.node, k.first) /\ k.size < m.node.size
      BY <1>1, <2>1 DEF ReplyOK, Hangs
    <3>3. PICK a \in DOMAIN walked[pe] :
             walked[pe][a].type = "Remote" /\ Covers(a, m.node.first) /\ m.node.size <= a.size
      BY <1>1 DEF Foreign
    <3>4. a \in Bin /\ k.first \in Key /\ k.size \in Nat /\ m.node.size \in Nat /\ a.size \in Nat
      BY <1>1, <1>5, <3>2, BinWithin, CoversFirst DEF WalkedOK
    <3>5. Covers(a, k.first)
      BY <1>1, <3>2, <3>3, <3>4, BelowOne
    <3>6. k.size < a.size
      BY <3>2, <3>3, <3>4
    <3> QED
      BY <3>1, <3>3, <3>5, <3>6
  <2>2. CASE k \notin DOMAIN m.nodes
    BY <1>9, <1>10, <1>11, <2>2
  <2> QED
    BY <2>1, <2>2
<1>13. \A k \in DOMAIN walked[pe] :
          IF walked[pe][k].type = "Remote" THEN B2[k].type \in Elsewhere
          ELSE B2[k].type = walked[pe][k].type
  BY <1>9, <1>10
<1>14. TypesKept(pe)'
  BY <1>6, <1>7, <1>9, <1>10, <1>12, <1>13 DEF TypesKept
<1>15. Whole(Tree(pe))'
  <2>1. \A T : Whole(T)' <=> Whole(T)
    BY <1>4, SightKept
  <2> QED
    BY <1>2, <1>3, <2>1 DEF Whole, Full, NodesRight
<1>16. \A k : Present(k)' = Present(k)
  BY <1>4, SightKept
<1> QED
  BY <1>2, <1>3, <1>14, <1>15, <1>16 DEF TreeRight

\* What a resumed walk adds, and asks for, is what is below the node it waited at.
LEMMA GoesOnSees ==
    ASSUME TravInv, SeenInv, NEW m \in replies, NEW pe, pe = m.to, NEW w
    PROVE  /\ DOMAIN GoesOn(pe, m, w).seen = w.mask
           /\ \A b \in w.mask : SumsTo(GoesOn(pe, m, w), b, Present(m.node))
<1>1. /\ pe \in PE /\ phase[pe] # "advanced" /\ GrownOK(pe, m) /\ AnswerRight(m) /\ ReplyOK(m)
      /\ m.node \in Bin /\ m.kind \in Kind
  BY ComesToRemote
<1>2. /\ Whole(Grown(pe, m)) /\ Rooted(Grown(pe, m))
      /\ \A k \in DOMAIN HeldThen(pe, m) : HeldThen(pe, m)[k] = Present(k)
      /\ \A k \in DOMAIN m.nodes : Grown(pe, m)[k].type \in Elsewhere
  BY GrownWhole
<1>3. keyOf \in [Particle -> Key] /\ TreeRight(pe) /\ WalkedOK /\ TreeOK(pe)
  BY <1>1 DEF TravInv, SeenInv, WalkedOK
<1>4. CASE m.kind = "node"
  <2> DEFINE G == Grown(pe, m)
             held == HeldThen(pe, m)
             k == m.node
             starts == Children(k)
             mask == w.mask
             walk == Walk(pe, G, held, "remote", starts, mask)
  <2>1. GoesOn(pe, m, w) = walk
    BY <1>4 DEF GoesOn
  <2>2. k.size > 1 /\ starts \subseteq DOMAIN G
    BY <1>1, <1>4 DEF AnswerRight, GrownOK
  <2>3. \A c \in DOMAIN G : Covers(k, c.first) /\ c.size < k.size => G[c].type \in Elsewhere
    <3>1. /\ DOMAIN G = DOMAIN Tree(pe) \cup DOMAIN m.nodes
          /\ \A c \in DOMAIN Tree(pe) : ~(Covers(k, c.first) /\ c.size < k.size)
      BY <1>1, <1>4 DEF GrownOK
    <3> QED
      BY <1>2, <3>1
  <2>4. HeldRight(pe, G, held)
    <3>1. HeldRight(pe, Tree(pe), fetched[pe])
      BY <1>1, <1>3, BucketsHeld DEF TreeOK
    <3>2. ASSUME NEW c \in DOMAIN G, G[c].type = "Bucket" PROVE Mine(pe, c) = Present(c)
      <4>1. c \in DOMAIN Tree(pe) /\ Tree(pe)[c].type = "Bucket"
        BY <1>1, <1>2, <3>2 DEF GrownOK, Elsewhere
      <4> QED
        BY <3>1, <4>1 DEF HeldRight
    <3> QED
      BY <1>2, <3>2 DEF HeldRight
  <2>5. Rooted(G) /\ Whole(G)
    BY <1>2
  <2> HIDE DEF G, held
  <2>6. \A b : Level(starts) /\ Under(Ends(G, "remote", starts, b)) = Present(k)
    BY <1>1, <1>3, <2>2, <2>3, <2>5, EndsBelow
  <2> HIDE DEF starts, mask, k
  <2>7. "remote" \in Side
    BY DEF Side
  <2>8. ASSUME NEW b \in mask PROVE SumsTo(walk, b, Under(Ends(G, "remote", starts, b)))
    BY <1>3, <2>4, <2>5, <2>6, <2>7, WalkSumsTo
  <2>9. DOMAIN walk.seen = mask
    BY <2>5, <2>6, WalkSees
  <2> QED
    BY <2>1, <2>6, <2>8, <2>9 DEF mask, k
<1>5. CASE m.kind = "particles"
  <2>1. GoesOn(pe, m, w) = [seen |-> [b \in w.mask |-> Mass(m.particles)], asks |-> {}]
    BY <1>5 DEF GoesOn
  <2>2. m.particles = Present(m.node)
    BY <1>1, <1>5 DEF AnswerRight
  <2>3. \A b : AskedOf(GoesOn(pe, m, w), b) = {}
    BY <2>1 DEF AskedOf
  <2>4. MassSum({}) = 0 /\ Mass(Present(m.node)) \in Int
    BY <1>1, MassSumOfOne, MassIs DEF Present
  <2> DEFINE x == GoesOn(pe, m, w)
  <2>5. DOMAIN x.seen = w.mask /\ \A b \in w.mask : x.seen[b] = Mass(m.particles)
    BY <2>1
  <2> HIDE DEF x
  <2>6. ASSUME NEW b \in w.mask PROVE SumsTo(x, b, Present(m.node))
    <3>1. AskedOf(x, b) = {} /\ x.seen[b] = Mass(Present(m.node))
      BY <2>2, <2>3, <2>5 DEF x
    <3>2. x.seen[b] + 0 = Mass(Present(m.node))
      BY <2>4, <3>1
    <3>3. x.seen[b] + MassSum(AskedOf(x, b)) = Mass(Present(m.node))
      BY <2>4, <3>1, <3>2
    <3> QED
      BY <2>4, <3>1, <3>3 DEF SumsTo
  <2> QED
    BY <2>5, <2>6 DEF x
<1> QED
  BY <1>1, <1>4, <1>5 DEF Kind

\* What a bucket of a walk that goes on waits for, before and after.
LEMMA AwaitedThen ==
    ASSUME TravInv, SeenInv, NEW m \in replies, NEW pe \in PE, pe = m.to, Received(pe, m),
           NEW w \in Resumed(pe, m), NEW b \in w.mask,
           \A v \in waiting[pe] : b \in v.mask => v.tp = w.tp
    PROVE  /\ \A v \in Resumed(pe, m) : b \in v.mask => v = w
           /\ \E A \in SUBSET Bin : /\ Awaited(pe, b) = {m.node} \cup A /\ m.node \notin A
                                    /\ Awaited(pe, b)' = A \cup AskedOf(GoesOn(pe, m, w), b)
                                    /\ A \cap AskedOf(GoesOn(pe, m, w), b) = {}
<1> DEFINE R == Resumed(pe, m)
           W == NewWaits(pe, m)
           new == WaitsThen(pe, m, w)
           left == {v \in waiting[pe] \ {w} : b \in v.mask}
           A == {v.node : v \in left}
           asked == AskedOf(GoesOn(pe, m, w), b)
<1>1. /\ R \subseteq waiting[pe] /\ \A v \in waiting[pe] : v \in R <=> v.kind = m.kind /\ v.node = m.node
      /\ waiting'[pe] = (waiting[pe] \ R) \cup W
      /\ \A v, x \in R : v # x /\ v.tp = x.tp => v.mask \cap x.mask = {}
      /\ \A v \in W : \E x \in R : /\ v \in WaitsThen(pe, m, x)
                                   /\ BelowOK(Grown(pe, m), HeldThen(pe, m), m, x, v)
      /\ WaitsThenOK(pe, m, w)
  BY ResumedFacts DEF ResumedOK
<1>2. /\ w \in waiting[pe] /\ w.node = m.node /\ m.node \in Bin
      /\ \A v, x \in waiting[pe] :
            v.tp = x.tp /\ v # x /\ v.mask \cap x.mask # {} => Apart(v.node, x.node)
      /\ \A v \in waiting[pe] : v.node \in Bin
  <2>1. w \in waiting[pe] /\ w.node = m.node /\ m.node \in Bin
    BY <1>1, ComesToRemote
  <2>2. \A v \in waiting[pe] : v.node \in Bin
    BY DEF TravInv, WaitingOK, WaitOK, TreeOK, Rooted
  <2> QED
    BY <2>1, <2>2 DEF TravInv, WaitingOK
<1>3. w \in R /\ \A v \in R : b \in v.mask => v = w
  BY <1>1
<1>4. \A v \in left : v.node \in Bin /\ Apart(v.node, m.node) /\ v \notin R
  <2> TAKE v \in left
  <2>1. v \in waiting[pe] /\ v # w /\ b \in v.mask /\ v.tp = w.tp
    OBVIOUS
  <2>2. Apart(v.node, m.node)
    BY <1>2, <2>1
  <2> QED
    BY <1>2, <1>3, <2>1, <2>2
<1>5. Covers(m.node, m.node.first) /\ m.node.first \in Key
  BY <1>2, CoversFirst
<1>6. A \in SUBSET Bin /\ m.node \notin A
  BY <1>4, <1>5 DEF Apart
<1>7. Awaited(pe, b) = {m.node} \cup A
  <2>1. {v \in waiting[pe] : b \in v.mask} = {w} \cup left
    BY <1>2
  <2>2. {v.node : v \in {w} \cup left} = {w.node} \cup {v.node : v \in left}
    OBVIOUS
  <2> HIDE DEF left
  <2> QED
    BY <1>2, <2>1, <2>2 DEF Awaited
<1>8. \A v \in W : b \in v.mask <=> v \in new /\ b \in v.mask
  <2> TAKE v \in W
  <2>1. PICK x \in R : v \in WaitsThen(pe, m, x) /\ v.mask \subseteq x.mask
    BY <1>1 DEF BelowOK
  <2> QED
    BY <1>3, <2>1
<1>9. new \subseteq W
  BY DEF NewWaits
<1>10. {v \in waiting'[pe] : b \in v.mask} = left \cup {v \in new : b \in v.mask}
  <2> HIDE DEF R, W, new
  <2>1. \A v : b \in v.mask =>
           (v \in (waiting[pe] \ R) \cup W <=> v \in left \/ v \in new)
    <3> TAKE v
    <3> HAVE b \in v.mask
    <3>1. v \in waiting[pe] \ R <=> v \in left
      BY <1>3, <1>4
    <3>2. v \in W <=> v \in new
      BY <1>8, <1>9
    <3> QED
      BY <3>1, <3>2
  <2> QED
    BY <1>1, <2>1
<1>11. {v.node : v \in {x \in new : b \in x.mask}} = asked
  <2> DEFINE asks == GoesOn(pe, m, w).asks
  <2>1. new = {[kind |-> a.kind, node |-> a.node, tp |-> w.tp, mask |-> a.mask] : a \in asks}
    BY DEF WaitsThen
  <2>2. asked = {a.node : a \in {c \in asks : b \in c.mask}}
    BY DEF AskedOf
  <2> HIDE DEF asks, new, asked
  <2>3. \A k : (\E v \in new : b \in v.mask /\ k = v.node) <=> \E a \in asks : b \in a.mask /\ k = a.node
    <3> DEFINE wait(a) == [kind |-> a.kind, node |-> a.node, tp |-> w.tp, mask |-> a.mask]
    <3>1. \A a : wait(a).node = a.node /\ wait(a).mask = a.mask
      OBVIOUS
    <3>2. new = {wait(a) : a \in asks}
      BY <2>1
    <3> HIDE DEF wait
    <3> QED
      BY <3>1, <3>2
  <2> QED
    BY <2>2, <2>3
<1>12. Awaited(pe, b)' = A \cup asked
  <2>1. Awaited(pe, b)' = {v.node : v \in {x \in waiting'[pe] : b \in x.mask}}
    BY DEF Awaited
  <2>2. {v.node : v \in left \cup {x \in new : b \in x.mask}}
           = A \cup {v.node : v \in {x \in new : b \in x.mask}}
    OBVIOUS
  <2> HIDE DEF left, new, asked, A
  <2> QED
    BY <1>10, <1>11, <2>1, <2>2
<1>13. A \cap asked = {}
  <2> SUFFICES ASSUME NEW v \in left, NEW x \in new, v.node = x.node PROVE FALSE
    BY <1>11
  <2>1. Covers(m.node, x.node.first) /\ x.node \in Bin
    <3>1. BelowOK(Grown(pe, m), HeldThen(pe, m), m, w, x)
      BY <1>1 DEF WaitsThenOK
    <3> QED
      BY <1>4, <3>1 DEF BelowOK
  <2>2. Covers(x.node, x.node.first) /\ x.node.first \in Key
    BY <2>1, CoversFirst
  <2> QED
    BY <1>4, <2>1, <2>2 DEF Apart
<1> QED
  <2> HIDE DEF A, asked
  <2> QED
    BY <1>3, <1>6, <1>7, <1>12, <1>13 DEF asked

\* An answer replaces what was awaited at a node by what is taken and asked below it.
LEMMA SeenReceive ==
    ASSUME TravInv, SeenInv, NEW m \in replies, Receive(m)
    PROVE  SeenInv'
<1>1. PICK pe \in PE : pe = m.to
  BY Expected
<1>2. Received(pe, m)
  BY <1>1, ReceivedIs
<1> DEFINE R == Resumed(pe, m)
           W == NewWaits(pe, m)
           walks == {GoesOn(pe, m, w) : w \in R}
<1>3. /\ seen' = Adding(walks) /\ UNCHANGED <<input, reach, phase, walkGroups, current>>
      /\ replies' \subseteq replies
  BY <1>1, <1>2, ReceivedSeen DEF Received
<1>4. /\ R \subseteq waiting[pe] /\ waiting'[pe] = (waiting[pe] \ R) \cup W
      /\ \A v \in W : \E x \in R : v.mask \subseteq x.mask
  <2>1. ResumedOK(pe, m, R, W)
    BY <1>1, <1>2, ResumedFacts
  <2> QED
    BY <2>1 DEF ResumedOK, BelowOK
<1>5. \A q \in PE : q # pe => UNCHANGED <<nodeTable[q], cached[q], fetched[q], waiting[q]>>
  BY <1>1, <1>2, TreesThen
<1>6. ASSUME NEW w
      PROVE  /\ DOMAIN GoesOn(pe, m, w).seen = w.mask
             /\ \A b \in w.mask : SumsTo(GoesOn(pe, m, w), b, Present(m.node))
  BY <1>1, GoesOnSees
<1> HIDE DEF R, W, walks
<1>7. ASSUME NEW w \in waiting[pe], NEW b \in w.mask
      PROVE  \E g \in DOMAIN walkGroups[w.tp] :
                w.tp \in TreePiece /\ homeOf[w.tp] = pe /\ b \in walkGroups[w.tp][g]
  BY AwaitedByGroup
\* The walks of a bucket are its TreePiece's.
<1>8. ASSUME NEW w \in waiting[pe], NEW b \in w.mask,
             NEW u \in TreePiece, NEW g \in DOMAIN walkGroups[u], b \in walkGroups[u][g]
      PROVE  u = w.tp /\ homeOf[u] = pe
  <2>1. PICK h \in DOMAIN walkGroups[w.tp] :
           w.tp \in TreePiece /\ homeOf[w.tp] = pe /\ b \in walkGroups[w.tp][h]
    BY <1>7
  <2>2. /\ b \in DOMAIN walked[homeOf[w.tp]] /\ walked[homeOf[w.tp]][b].type = "Bucket"
        /\ PieceOf(homeOf[w.tp], b) = w.tp
    BY <2>1 DEF SeenInv, GroupsRight
  <2>3. u = w.tp
    BY <1>8, <2>1, <2>2, OneWalker DEF TravInv
  <2> QED
    BY <2>1, <2>3
<1>9. ASSUME NEW b \in Bin, \A w \in R : b \notin w.mask
      PROVE  seen'[b] = seen[b] /\ \A q \in PE : Awaited(q, b)' = Awaited(q, b)
  <2>1. b \in DOMAIN seen /\ seen[b] \in Int
    BY SeenIsInt
  <2>2. \A x \in walks : b \notin DOMAIN x.seen
    BY <1>6, <1>9 DEF walks
  <2>3. seen'[b] = seen[b]
    BY <1>3, <2>1, <2>2, AddingIs
  <2>4. ASSUME NEW q \in PE PROVE Awaited(q, b)' = Awaited(q, b)
    <3>1. CASE q # pe
      BY <1>5, <3>1 DEF Awaited
    <3>2. CASE q = pe
      <4>1. {v \in waiting'[pe] : b \in v.mask} = {v \in waiting[pe] : b \in v.mask}
        BY <1>4, <1>9
      <4> QED
        BY <3>2, <4>1 DEF Awaited
    <3> QED
      BY <3>1, <3>2
  <2> QED
    BY <2>3, <2>4
<1>10. ASSUME NEW u \in TreePiece, NEW g \in DOMAIN walkGroups[u], NEW b \in walkGroups[u][g]
       PROVE  SeenSoFar(u, g, b)'
  <2>1. SeenSoFar(u, g, b) /\ b \in Bin /\ homeOf[u] \in PE
    <3>1. walkGroups[u] \in Seq(SUBSET Bin) /\ homeOf[u] \in PE
      BY DEF TravInv, Shapes
    <3> QED
      BY <3>1 DEF SeenInv, SeenRight
  <2>2. CASE \A w \in R : b \notin w.mask
    <3>1. seen'[b] = seen[b] /\ Awaited(homeOf[u], b)' = Awaited(homeOf[u], b)
      <4>1. homeOf' = homeOf
        BY <1>3 DEF input
      <4> QED
        BY <1>9, <2>1, <2>2, <4>1
    <3> QED
      BY <1>3, <2>1, <3>1, SeenStays
  <2>3. ASSUME NEW w \in R, b \in w.mask
        PROVE  SeenSoFar(u, g, b)'
    <3> DEFINE x == GoesOn(pe, m, w)
               k == m.node
               asked == AskedOf(x, b)
    <3>1. w \in waiting[pe] /\ u = w.tp /\ homeOf[u] = pe
      BY <1>4, <1>8, <2>3
    <3>2. \A v \in waiting[pe] : b \in v.mask => v.tp = w.tp
      BY <1>8, <3>1
    <3>3. /\ \A v \in R : b \in v.mask => v = w
          /\ \E A \in SUBSET Bin : /\ Awaited(pe, b) = {k} \cup A /\ k \notin A
                                   /\ Awaited(pe, b)' = A \cup asked /\ A \cap asked = {}
      BY <1>1, <1>2, <2>3, <3>2, AwaitedThen DEF R
    <3>4. PICK A \in SUBSET Bin : /\ Awaited(pe, b) = {k} \cup A /\ k \notin A
                                  /\ Awaited(pe, b)' = A \cup asked /\ A \cap asked = {}
      BY <3>3
    <3>5. /\ DOMAIN x.seen = w.mask /\ x.seen[b] \in Int /\ asked \in SUBSET Bin
          /\ x.seen[b] + MassSum(asked) = Mass(Present(k))
      BY <1>6, <2>3 DEF SumsTo
    <3>6. x \in walks /\ \A y \in walks : b \in DOMAIN y.seen => y = x
      BY <1>6, <2>3, <3>3 DEF walks
    <3> HIDE DEF x, asked
    <3>7. seen'[b] = seen[b] + x.seen[b]
      <4>1. b \in DOMAIN seen /\ seen[b] \in Int
        BY <2>1, SeenIsInt
      <4> QED
        BY <1>3, <2>3, <3>5, <3>6, <4>1, AddingIs
    <3>8. k \in Bin /\ {k} \in SUBSET Bin
      BY <1>1, ComesToRemote
    <3>9. /\ MassSum({k} \cup A) = Mass(Present(k)) + MassSum(A)
          /\ MassSum(A \cup asked) = MassSum(A) + MassSum(asked)
          /\ MassSum(A) \in Int /\ MassSum(asked) \in Int /\ Mass(Present(k)) \in Int
      <4>1. {k} \cap A = {}
        BY <3>4
      <4>2. MassSum({k} \cup A) = MassSum({k}) + MassSum(A)
        BY <3>8, <4>1, MassSumOfTwo
      <4>3. MassSum({k}) = Mass(Present(k))
        BY <3>8, MassSumOfOne
      <4>4. MassSum(A \cup asked) = MassSum(A) + MassSum(asked)
        BY <3>4, <3>5, MassSumOfTwo
      <4>5. MassSum(A) \in Int /\ MassSum(asked) \in Int
        BY <3>5, MassesAre
      <4>6. Mass(Present(k)) \in Int
        BY MassIs DEF Present
      <4> QED
        BY <4>2, <4>3, <4>4, <4>5, <4>6
    <3> DEFINE total == Part(g <= current[u]["local"], Particle \ Far(pe, b))
                           + Part(g <= current[u]["remote"], Far(pe, b))
    <3>10. seen[b] \in Int /\ seen[b] + MassSum(Awaited(pe, b)) = total
      BY <2>1, <3>1 DEF SeenSoFar
    <3> HIDE DEF total
    <3>11. seen'[b] \in Int /\ seen'[b] + MassSum(A \cup asked) = total
      <4>1. seen[b] + (Mass(Present(k)) + MassSum(A)) = total
        BY <3>4, <3>9, <3>10
      <4>2. seen[b] + x.seen[b] + (MassSum(A) + MassSum(asked)) = total
        BY <3>5, <3>9, <3>10, <4>1
      <4> QED
        BY <3>5, <3>7, <3>9, <3>10, <4>2
    <3>12. /\ homeOf' = homeOf /\ keyOf' = keyOf /\ Far(pe, b)' = Far(pe, b)
           /\ MassSum(Awaited(pe, b))' = MassSum(A \cup asked)
      <4>1. /\ \A q, c : Far(q, c)' = Far(q, c)
            /\ \A S : MassSum(S)' = MassSum(S)
        BY <1>3, SightKept
      <4> QED
        BY <1>3, <3>4, <4>1, SightKept DEF input
    <3> QED
      BY <1>3, <3>1, <3>11, <3>12 DEF SeenSoFar, Part, total
  <2> QED
    BY <2>2, <2>3
<1>11. /\ UNCHANGED <<keyOf, cellOf, homeOf, walked>> /\ TreePiece' = TreePiece
       /\ UNCHANGED <<input, reach>>
  BY <1>3 DEF input, TreePiece
<1>12. /\ \A q, b : Far(q, b)' = Far(q, b) /\ PieceOf(q, b)' = PieceOf(q, b)
       /\ WalkedOK' /\ \A n : AnswerRight(n)' <=> AnswerRight(n)
  BY <1>11, SightKept DEF SeenInv
<1>13. \A q \in PE : TreeRight(q)'
  <2> TAKE q \in PE
  <2>1. CASE q = pe
    BY <1>1, <1>2, <1>3, <2>1, TreeRightThen
  <2>2. CASE q # pe
    <3>1. TreeRight(q) /\ UNCHANGED <<nodeTable[q], cached[q], fetched[q]>> /\ phase'[q] = phase[q]
      BY <1>3, <1>5, <2>2 DEF SeenInv
    <3> QED
      BY <1>11, <3>1, TreeRightKept
  <2> QED
    BY <2>1, <2>2
<1>14. \A u \in TreePiece : GroupsRight(u)' /\ SeenRight(u)'
  <2> TAKE u \in TreePiece
  <2>1. GroupsRight(u) /\ walkGroups' = walkGroups
    BY <1>3 DEF SeenInv
  <2> QED
    BY <1>10, <1>11, <1>12, <2>1 DEF GroupsRight, SeenRight
<1>15. \A b \in Bin : NotSeen(b)'
  <2> TAKE b \in Bin
  <2> SUFFICES ASSUME \A u \in TreePiece : \A g \in DOMAIN walkGroups[u] : b \notin walkGroups[u][g]
               PROVE  seen'[b] = 0
    BY <1>3, <1>11 DEF NotSeen
  <2>1. seen[b] = 0
    BY DEF SeenInv, NotSeen
  <2>2. \A w \in R : b \notin w.mask
    BY <1>4, <1>7
  <2> QED
    BY <1>9, <2>1, <2>2
<1>16. DOMAIN seen' = Bin /\ \A n \in replies' : AnswerRight(n)'
  BY <1>3, <1>12 DEF Adding, SeenInv
<1> QED
  BY <1>11, <1>12, <1>13, <1>14, <1>15, <1>16 DEF SeenInv

\* Every step keeps SeenInv.
LEMMA SeenKept ==
    ASSUME TravInv, OwnInv, SeenInv, [Next]_vars
    PROVE  SeenInv'
<1>1. ASSUME NEW pe \in PE, TreeReady(pe) PROVE SeenInv'
  <2>1. /\ phase[pe] = "building"
        /\ phase' = [phase EXCEPT ![pe] = IF LocalPieces(pe) = {} THEN "finished" ELSE "walking"]
        /\ replies' = replies \cup {Reply(pe, Tree(pe), r) : r \in buffered[pe]}
        /\ UNCHANGED <<input, reach, nodeTable, cached, fetched, seen, walkGroups, current, waiting>>
    BY <1>1 DEF TreeReady, asking
  <2>2. \A q \in PE : phase'[q] # "advanced" => phase[q] # "advanced"
    BY <2>1 DEF TravInv, Shapes
  <2>3. \A r \in buffered[pe] : r \in Asked /\ r.to = pe
    BY DEF Asked, TravInv, FlightOK
  <2>4. \A m \in replies' : m \in replies \/ \E r \in Asked : m = Reply(r.to, Tree(r.to), r)
    BY <2>1, <2>3
  <2> QED
    BY <2>1, <2>2, <2>4, SeenAnswers
<1>2. ASSUME NEW pe \in PE, Advance(pe) PROVE SeenInv'
  BY <1>2, SeenAdvance
<1>3. ASSUME NEW t \in TreePiece, StartTraversal(t) PROVE SeenInv'
  BY <1>3, SeenStartTraversal
<1>4. ASSUME NEW t \in TreePiece, TraversalsDone(t) PROVE SeenInv'
  <2>1. /\ UNCHANGED <<input, reach, nodeTable, cached, fetched, seen, walkGroups, current, waiting,
                       replies>>
        /\ phase' = [phase EXCEPT ![homeOf[t]] =
                        IF piecesDone[homeOf[t]] + 1 = Cardinality(LocalPieces(homeOf[t]))
                        THEN "finished" ELSE @]
        /\ reports[t] > 0
    BY <1>4 DEF TraversalsDone, serving, asking
  <2>2. phase[homeOf[t]] # "advanced"
    <3>1. homeOf[t] \in PE /\ t \in LocalPieces(homeOf[t])
      BY DEF TravInv, Shapes, LocalPieces
    <3>2. phase[homeOf[t]] = "advanced" => Over(t)
      BY <3>1 DEF TravInv, PhaseOK
    <3> QED
      BY <2>1, <3>2 DEF Over
  <2>3. \A pe \in PE : phase'[pe] # "advanced" => phase[pe] # "advanced"
    <3> TAKE pe \in PE
    <3>1. CASE pe = homeOf[t]
      BY <2>2, <3>1
    <3>2. CASE pe # homeOf[t]
      BY <2>1, <3>2 DEF TravInv, Shapes
    <3> QED
      BY <3>1, <3>2
  <2>4. \A m \in replies' : m \in replies \/ \E r \in Asked : m = Reply(r.to, Tree(r.to), r)
    BY <2>1
  <2> QED
    BY <2>1, <2>3, <2>4, SeenAnswers
<1>5. ASSUME NEW t \in TreePiece, NEW side \in Side, DoGravity(t, side) PROVE SeenInv'
  BY <1>5, SeenGravity
<1>6. ASSUME NEW r \in requests, Serve(r) PROVE SeenInv'
  <2>1. /\ UNCHANGED <<input, reach, phase, nodeTable, cached, fetched, seen, walkGroups, current,
                       waiting>>
        /\ replies' = replies \/ replies' = replies \cup {Reply(r.to, Tree(r.to), r)}
    BY <1>6 DEF Serve, walking
  <2>2. r \in Asked
    BY DEF Asked
  <2>3. \A m \in replies' : m \in replies \/ \E s \in Asked : m = Reply(s.to, Tree(s.to), s)
    BY <2>1, <2>2
  <2>4. \A pe \in PE : phase'[pe] # "advanced" => phase[pe] # "advanced"
    BY <2>1
  <2> QED
    BY <2>1, <2>3, <2>4, SeenAnswers
<1>7. ASSUME NEW m \in replies, Receive(m) PROVE SeenInv'
  BY <1>7, SeenReceive
<1>8. ASSUME UNCHANGED vars PROVE SeenInv'
  <2>1. UNCHANGED <<input, reach, phase, nodeTable, cached, fetched, seen, walkGroups, current,
                    waiting, replies>>
    BY <1>8 DEF vars, serving, asking, walking
  <2>2. \A m \in replies' : m \in replies \/ \E r \in Asked : m = Reply(r.to, Tree(r.to), r)
    BY <2>1
  <2>3. \A pe \in PE : phase'[pe] # "advanced" => phase[pe] # "advanced"
    BY <2>1
  <2> QED
    BY <2>1, <2>2, <2>3, SeenAnswers
<1> QED
  BY <1>1, <1>2, <1>3, <1>4, <1>5, <1>6, <1>7, <1>8 DEF Next

\* Both walks of a bucket together are about all particles.
LEMMA AllSeen ==
    ASSUME TravInv, SeenInv
    PROVE  SeesAllOnce
<1> SUFFICES ASSUME NEW t \in TreePiece, NEW g \in 1 .. Min({current[t][side] : side \in Side}),
                    NEW b \in walkGroups[t][g]
             PROVE  seen[b] + MapThenSumSet(LAMBDA k : Mass(Present(k)), Awaited(homeOf[t], b))
                       = Mass(Particle)
  BY DEF SeesAllOnce
<1>1. /\ homeOf[t] \in PE /\ walkGroups[t] \in Seq(SUBSET Bin)
      /\ \A side \in Side : current[t][side] \in Nat /\ current[t][side] <= NumGroups(t)
  <2>1. /\ homeOf[t] \in PE /\ walkGroups[t] \in Seq(SUBSET Bin)
        /\ \A side \in Side : current[t][side] \in Nat
    BY DEF TravInv, Shapes
  <2>2. PieceOK(t) /\ NumGroups(t) \in Nat
    BY <2>1 DEF TravInv, NumGroups
  <2> QED
    BY <2>1, <2>2 DEF PieceOK, AtRest, AtWork
<1>2. g \in Nat \ {0} /\ \A side \in Side : g <= current[t][side]
  <2> DEFINE S == {current[t][side] : side \in Side}
  <2>1. S \in SUBSET Nat /\ S # {}
    BY <1>1 DEF Side
  <2>2. \A side \in Side : current[t][side] \in S
    OBVIOUS
  <2>3. g \in 1 .. Min(S)
    OBVIOUS
  <2> HIDE DEF S
  <2>4. Min(S) \in S /\ \A n \in S : Min(S) <= n
    BY <2>1, LeastOf
  <2> DEFINE least == Min(S)
  <2>5. least \in Nat /\ g \in 1 .. least
    BY <2>1, <2>3, <2>4
  <2>6. g \in Nat \ {0} /\ g <= least
    <3> HIDE DEF least
    <3> QED
      BY <2>5
  <2>7. ASSUME NEW side \in Side PROVE g <= current[t][side]
    <3>1. least <= current[t][side] /\ current[t][side] \in Nat
      BY <1>1, <2>2, <2>4
    <3> HIDE DEF least
    <3> QED
      BY <2>5, <2>6, <3>1
  <2> QED
    BY <2>6, <2>7
<1>3. g \in DOMAIN walkGroups[t] /\ g <= current[t]["local"] /\ g <= current[t]["remote"]
  BY <1>1, <1>2 DEF Side, NumGroups
<1>4. seen[b] \in Int /\ seen[b] + MassSum(Awaited(homeOf[t], b)) =
         Mass(Particle \ Far(homeOf[t], b)) + Mass(Far(homeOf[t], b))
  BY <1>3 DEF SeenInv, SeenRight, SeenSoFar, Part
<1>5. Mass(Particle \ Far(homeOf[t], b)) + Mass(Far(homeOf[t], b)) = Mass(Particle)
  <2> DEFINE F == Far(homeOf[t], b)
             N == Particle \ F
  <2>1. F \in SUBSET Particle /\ N \in SUBSET Particle /\ N \cap F = {} /\ N \cup F = Particle
    BY DEF Far
  <2> HIDE DEF F, N
  <2>2. Mass(N \cup F) = Mass(N) + Mass(F)
    BY <2>1, MassOfTwo
  <2> QED
    BY <2>1, <2>2 DEF F, N
<1>6. MapThenSumSet(LAMBDA k : Mass(Present(k)), Awaited(homeOf[t], b)) = MassSum(Awaited(homeOf[t], b))
  BY <1>1, AwaitedIn, AwaitedSum
<1> QED
  BY <1>4, <1>5, <1>6

\* "Every bucket must end a step having interacted with the entire system, once":
\* once both its walks have begun, what a bucket has seen and what is below the
\* leaves it still waits for are all the particles there are, each once, whatever
\* opens, whatever has been fetched, and whatever order the answers come in.
THEOREM EverythingIsSeen == Spec => []SeesAllOnce
<1>1. Init => TravInv /\ OwnInv /\ SeenInv
  BY InvStarts, OwnStarts, SeenStarts
<1>2. TravInv /\ OwnInv /\ SeenInv /\ [Next]_vars => TravInv' /\ OwnInv' /\ SeenInv'
  BY InvKept, OwnKept, SeenKept
<1>3. TravInv /\ SeenInv => SeesAllOnce
  BY AllSeen
<1> QED
  BY <1>1, <1>2, <1>3, PTL DEF Spec

============================================================================

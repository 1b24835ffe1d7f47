----------------------------- MODULE CharmTree -----------------------------
(* The tree of one step of the Charm++ benchmark, as far as it follows from   *)
(* what every PE knows when it starts to build it: the particles the exchange *)
(* has brought and the key ranges PE 0 has broadcast (src/charm/              *)
(* DataManager.cpp, Worker.cpp, Node.h, ActiveBinInfo.h).  CharmTreeBuild and *)
(* CharmTraversal are about what the PEs do with it.                          *)
EXTENDS KeyTree, FiniteSetsExt, Functions

CONSTANTS
    PE,              \* the processing elements
    NumParticles,    \* globalParams.numParticles
    Limit            \* globalParams.ppb*BUCKET_TOLERANCE: a bucket's size

ASSUME ConstantsAssumption ==
    /\ IsFiniteSet(PE) /\ PE # {}
    /\ NumParticles \in Nat \ {0}
    /\ Limit \in Nat

Particle == 1 .. NumParticles

VARIABLES
    keyOf,           \* the particles' Morton keys
    cellOf,          \* per TreePiece, its leaf of the decomposition
    homeOf,          \* DataManager::homeOf, per TreePiece
    keyRanges,       \* RangeMsg::keys: two keys for every TreePiece
    tpCounts,        \* RangeMsg::tpCounts: and its number of particles
    walked           \* per PE, what buildTree and makeMoments make of that

input == <<keyOf, cellOf, homeOf, keyRanges, tpCounts, walked>>

\* NodeType.  The first three have all their particles on the PE.
Here == {"Internal", "Bucket", "EmptyBucket"}
Elsewhere == {"Remote", "RemoteBucket", "RemoteEmptyBucket"}
NodeType == Here \cup Elsewhere \cup {"Boundary"}

TreePiece == DOMAIN cellOf
NumTreePieces == Cardinality(TreePiece)

Present(b) == {p \in Particle : Covers(b, keyOf[p])}
Separable(S) == \E p, q \in S : keyOf[p] # keyOf[q]

\* What makes two of one particle, or misses one, shows in the sum.
Mass(S) == SumFunctionOnSet([p \in Particle |-> 4 ^ (p - 1)], S)

\* What the exchange has brought to pe of node b.
Mine(pe, b) ==
    {p \in Present(b) :
        \E t \in TreePiece : homeOf[t] = pe /\ Covers(cellOf[t], keyOf[p])}

----------------------------------------------------------------------------
(* Which TreePieces own a node. *)

NoOwners == [start |-> -1, end |-> -1]
Owners == [start : -1 .. KeySpace, end : -1 .. KeySpace]
Several(o) == o.end > o.start

\* binary_search_ge: the first key not below k.
SearchGE(k, lo, hi) ==
    Min({i \in lo .. hi - 1 : keyRanges[i] >= k} \cup {hi})

\* OwnershipActiveBinInfo::refine: the owners of child i of b, from those of b.
\* An odd index is inside a TreePiece, which then is on both sides.
ChildOwners(b, o, i) ==
    LET from(j) == IF j = 0 THEN 2 * o.start
                   ELSE IF j = BranchFactor THEN 2 * o.end + 2
                   ELSE SearchGE(Child(b, j).first, 2 * o.start, 2 * o.end + 2)
        range == [start |-> from(i) \div 2, end |-> (from(i + 1) - 1) \div 2]
    IN  IF o = NoOwners \/ range.end < range.start THEN NoOwners ELSE range

\* The owners of every node that is refined down to.
Ownership ==
    LET own[b \in Bin] ==
            IF b = RootBin THEN [start |-> 0, end |-> NumTreePieces - 1]
            ELSE ChildOwners(Parent(b), own[Parent(b)], Rank(b))
    IN  own

\* servingOwner: an owner with particles; which one is a hash's choice.
Serving(o) == {t \in o.start .. o.end : tpCounts[t] > 0}

----------------------------------------------------------------------------
(* Building (buildTree) and the moments walk (makeMoments, MomentsWorker). *)

\* Does pe refine node b?  (To be asked to refine a single key is a CkAssert:
\* OwnersRight.)
Splits(pe, b, own) ==
    /\ b.size > 1
    /\ \/ Several(own[b]) /\ Mine(pe, b) # {}
       \/ Cardinality(Mine(pe, b)) > Limit /\ Separable(Mine(pe, b))

\* setLeafType.  A leaf no TreePiece owns is born an EmptyBucket.
LeafType(pe, b, o) ==
    IF o # NoOwners /\ (Several(o) \/ homeOf[o.start] # pe) THEN "Remote"
    ELSE IF Mine(pe, b) # {} THEN "Bucket" ELSE "EmptyBucket"

\* setTypeFromChildren.
TypeFromChildren(types) == IF types \subseteq Here THEN "Internal" ELSE "Boundary"

\* pe's tree after the walk: moments wherever pe has all the particles, and in
\* each node the number of children that have them.
Walked(pe) ==
    LET own == Ownership
        nodes == {b \in Bin : \A a \in Path(b) \ {b} : Splits(pe, a, own)}
        inner == {b \in nodes : Splits(pe, b, own)}
        type[b \in nodes] ==
            IF b \in inner THEN TypeFromChildren({type[c] : c \in Children(b)})
                           ELSE LeafType(pe, b, own[b])
    IN  [b \in nodes |->
            [type |-> type[b],
             owners |-> own[b],
             numChildren |-> IF b \in inner THEN BranchFactor ELSE 0,
             ready |-> IF b \in inner
                       THEN Cardinality({c \in Children(b) : type[c] \in Here})
                       ELSE 0,
             mass |-> IF type[b] \in Here THEN Mass(Mine(pe, b)) ELSE 0]]

\* getOwnershipFromChildren: owned children only.
OwnersFromChildren(owners) ==
    LET owned == owners \ {NoOwners}
    IN  IF owned = {} THEN NoOwners
        ELSE [start |-> Min({o.start : o \in owned}),
              end |-> Max({o.end : o \in owned})]

\* Mutant of MakeRemote: Boundary is forgotten.
MakeRemoteNotBoundary(type) ==
    CASE type = "Internal" -> "Remote"
      [] type = "Bucket" -> "RemoteBucket"
      [] type = "EmptyBucket" -> "RemoteEmptyBucket"
      [] OTHER -> type

\* makeRemote.
MakeRemote(type) ==
    CASE type \in {"Boundary", "Internal"} -> "Remote"
      [] type = "Bucket" -> "RemoteBucket"
      [] type = "EmptyBucket" -> "RemoteEmptyBucket"
      [] OTHER -> type

\* What pe's tree comes to once all moments have come in (CharmTreeBuild): the
\* types of its Remote leaves are those their owners know, made remote, and
\* ownership above them is put together again from below.
FinalTree(pe) ==
    LET tree == walked[pe]
        known(b) ==
            LET serving == Serving(tree[b].owners)
            IN  IF serving = {} THEN "RemoteEmptyBucket"
                ELSE MakeRemote(walked[homeOf[Min(serving)]][b].type)
        owners[b \in DOMAIN tree] ==
            IF tree[b].type # "Boundary" THEN tree[b].owners
            ELSE OwnersFromChildren({owners[c] : c \in Children(b)})
    IN  [b \in DOMAIN tree |->
            [type |-> IF tree[b].type = "Remote" THEN known(b) ELSE tree[b].type,
             owners |-> owners[b],
             numChildren |-> tree[b].numChildren,
             ready |-> tree[b].numChildren,
             mass |-> Mass(Present(b))]]

----------------------------------------------------------------------------

\* What CharmDecomposition establishes of the leaves it hands over.  The
\* budget is the -p option, or 2*(N/ppc)+16, cut to the number of particles but
\* at least one for each PE (Main::setParameters).
Decomposed ==
    /\ \E budget \in Cardinality(PE) .. Max({Cardinality(PE), NumParticles}) :
          /\ NumTreePieces <= budget
          /\ (\E t \in TreePiece : Separable(Present(cellOf[t])))
                => NumTreePieces + (BranchFactor - 1) > budget
    /\ NumTreePieces = 1 /\ NumParticles > 1 => Separable(Particle)

\* Particles are numbered in key order.  The decomposition refines only nodes
\* with particles it can tell apart; which of them depends on costs.  The range
\* of a TreePiece without particles is the first key of its cell, twice.
Input ==
    /\ keyOf \in {k \in [Particle -> Key] :
                    \A p, q \in Particle : p < q => k[p] <= k[q]}
    /\ \E split \in SUBSET {b \in Bin : Separable(Present(b))} :
          /\ \A b \in split : Path(b) \subseteq split
          /\ LET cells == {b \in Bin \ split : Path(b) \ {b} \subseteq split}
             IN  cellOf = [t \in 0 .. Cardinality(cells) - 1 |-> At(cells, t + 1)]
    /\ Decomposed
    /\ homeOf \in [TreePiece -> PE]
    /\ tpCounts = [t \in TreePiece |-> Cardinality(Present(cellOf[t]))]
    /\ keyRanges = [i \in 0 .. 2 * NumTreePieces - 1 |->
                       LET keys == {keyOf[p] : p \in Present(cellOf[i \div 2])}
                       IN  IF keys = {} THEN cellOf[i \div 2].first
                           ELSE IF i % 2 = 0 THEN Min(keys) ELSE Max(keys)]
    /\ walked = [pe \in PE |-> Walked(pe)]
============================================================================

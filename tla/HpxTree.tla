------------------------------ MODULE HpxTree ------------------------------
(* The trees of the HPX benchmark (src/hpx/src/linear_octree.cpp, exchange.cpp *)
(* and traversal.cpp): what a locality builds of its own bodies, what it sends *)
(* to another, how that is merged into the receiver's tree, and what a walk    *)
(* over the result adds up.                                                    *)
EXTENDS KeyTree, Masses

CONSTANTS
    LeafCapacity,    \* --leaf-capacity
    BucketDepth,     \* bucket_bits / 3
    MaxLetDepth,     \* --max-depth
    Theta            \* --theta, an integer here

ASSUME HpxTreeAssumption ==
    /\ LeafCapacity \in Nat \ {0}
    /\ BucketDepth \in 1 .. Depth
    /\ MaxLetDepth \in 0 .. Depth
    /\ Theta \in Nat \ {0}

AtMaxDepth(b) == b.size = 1
Above(b) == Path(b) \ {b}
Within(b, S, key) == {i \in S : Covers(b, key[i])}

----------------------------------------------------------------------------
(* Building a tree. *)

\* OctreeNode; bodies stands for body_begin and body_count, kids for
\* child_mask.
EmptyNode == [mass |-> Nothing, leaf |-> FALSE, pseudo |-> FALSE,
              bodies |-> {}, kids |-> {}]

\* The adaptive stop of buildSubtreeSerial and buildSubtreeAsync.
Stops(b, S, key) ==
    AtMaxDepth(b) \/ Cardinality(Within(b, S, key)) <= LeafCapacity

\* buildOctreeBottomUp, of the bodies S.
BuildOctree(S, key) ==
    LET nodes == {b \in Bin : /\ Within(b, S, key) # {}
                              /\ \A a \in Above(b) : ~Stops(a, S, key)}
        kids(b) == {i \in ChildIndex : Within(Child(b, i), S, key) # {}}
    IN  [b \in nodes |->
            IF Stops(b, S, key)
            THEN [EmptyNode EXCEPT !.mass = MassOf(Within(b, S, key)),
                                   !.leaf = TRUE,
                                   !.bodies = Within(b, S, key)]
            ELSE [EmptyNode EXCEPT !.mass = MassOf(Within(b, S, key)),
                                   !.kids = kids(b)]]

----------------------------------------------------------------------------
(* What is sent. *)

\* serializeTreeToRecords.
Records(tree, from) ==
    {[from |-> from, cell |-> b, leaf |-> tree[b].leaf, mass |-> tree[b].mass] :
        b \in DOMAIN tree}

\* min_distance_sq.
Gap(b, c) ==
    LET apart == {0, b.first - (c.first + c.size), c.first - (b.first + b.size)}
    IN  Max(apart)

\* The Barnes-Hut test against the buckets of a rank's domain.
Fails(b, buckets) == \E c \in buckets : b.size >= Theta * Gap(b, c)

Descends(tree, b, buckets) ==
    /\ Fails(b, buckets)
    /\ b.size > SizeAt[Depth - MaxLetDepth]
    /\ ~tree[b].leaf

\* createInteractionListForRank: all records are marked as leaves.
InteractionList(tree, from, buckets) ==
    IF buckets = {} THEN {}
    ELSE {[from |-> from, cell |-> b, leaf |-> TRUE, mass |-> tree[b].mass] :
             b \in {c \in DOMAIN tree :
                       /\ \A a \in Above(c) : Descends(tree, a, buckets)
                       /\ ~Descends(tree, c, buckets)}}

----------------------------------------------------------------------------
(* What is received. *)

\* buildTreeFromPseudoLeaves: a node of the records and of everything below.
PseudoTree(records) ==
    LET cells == {r.cell : r \in records}
        nodes == UNION {Path(c) : c \in cells}
        below(b) == {r \in records : r.cell.size <= b.size /\ Covers(b, r.cell.first)}
    IN  [b \in nodes |->
            [EmptyNode EXCEPT !.mass = Total(below(b)),
                              !.leaf = \E r \in records : r.cell = b /\ r.leaf,
                              !.pseudo = b \in cells,
                              !.kids = {i \in ChildIndex : Child(b, i) \in nodes}]]

\* Mutant of StaysInternal: a record makes any node a leaf.
NeverInternal(tree, b) == FALSE

\* protected_internal.
StaysInternal(tree, b) == b \in DOMAIN tree /\ ~tree[b].leaf

\* mergeRecordsIntoTree; the records are of one tree, one for each key.
MergeRecords(tree, records) ==
    LET cells == {r.cell : r \in records}
        of(b) == CHOOSE r \in records : r.cell = b
        old(b) == IF b \in DOMAIN tree THEN tree[b] ELSE EmptyNode
        merged(b) ==
            IF b \notin cells THEN old(b)
            ELSE [old(b) EXCEPT
                     !.leaf = IF StaysInternal(tree, b) THEN @ ELSE @ \/ of(b).leaf,
                     !.mass = Plus(@, of(b).mass)]
    IN  [b \in DOMAIN tree \cup cells |->
            [merged(b) EXCEPT !.kids =
                @ \cup {i \in ChildIndex : Child(b, i) \in cells}]]

\* The merge loop of exchangeFullTrees, over the other sites in their order.
MergeSites(tree, records, sites) ==
    LET merge[n \in 0 .. Max(sites)] ==
            LET before == IF n = 0 THEN tree ELSE merge[n - 1]
                theirs == {r \in records : r.from = n}
            IN  IF n \in sites /\ theirs # {}
                THEN MergeRecords(before, theirs) ELSE before
    IN  merge[Max(sites)]

----------------------------------------------------------------------------
(* computeAccelerations, over the tree that flattenTree makes. *)

\* flatExpandable.
Expandable(tree, b) ==
    ~tree[b].leaf /\ ~tree[b].pseudo /\ ~AtMaxDepth(b)

\* The opening test fails at the nodes of the set near.
Opens(tree, near, b) == Expandable(tree, b) /\ b \in near

\* The nodes a walk comes to.
Visited(tree, near) ==
    {b \in DOMAIN tree :
        \A a \in Above(b) :
            /\ a \in DOMAIN tree
            /\ Opens(tree, near, a)
            /\ \E i \in tree[a].kids :
                  LET c == Child(a, i) IN c.size >= b.size /\ Covers(c, b.first)}

\* What body i, with key k, takes of the node b: of a leaf that is near, or its
\* own, the bodies one by one and the rest of the mass, and else the mass.
Taken(tree, near, i, k, b) ==
    LET n == tree[b]
    IN  IF n.leaf /\ (i \in n.bodies \/ b \in near)
        THEN Plus(MassOf(n.bodies \ {i}), Minus(n.mass, MassOf(n.bodies)))
        ELSE IF Opens(tree, near, b) \/ (AtMaxDepth(b) /\ b.first = k)
        THEN Nothing
        ELSE n.mass

Walk(tree, near, i, k) ==
    Total({[cell |-> b, mass |-> Taken(tree, near, i, k, b)] :
              b \in Visited(tree, near)})

----------------------------------------------------------------------------
(* computeLocalPotentialEnergy, "a deliberate copy of computeAccelerations()". *)

\* What the potential of body i takes of the node b.
PotentialTaken(tree, near, i, k, b) ==
    LET n == tree[b]
    IN  CASE n.leaf /\ i \in n.bodies ->
                Plus(MassOf(n.bodies \ {i}), Minus(n.mass, MassOf(n.bodies)))
          [] AtMaxDepth(b) /\ b.first = k /\ ~(n.leaf /\ b \in near) -> Nothing
          [] ~n.leaf /\ ~n.pseudo /\ b \in near /\ ~AtMaxDepth(b) -> Nothing
          [] OTHER -> n.mass

PotentialWalk(tree, near, i, k) ==
    Total({[cell |-> b, mass |-> PotentialTaken(tree, near, i, k, b)] :
              b \in Visited(tree, near)})
============================================================================

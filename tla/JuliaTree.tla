----------------------------- MODULE JuliaTree -----------------------------
(* The trees of the Julia benchmark (src/julia_dagger/src/tree.jl, morton.jl,  *)
(* kernels.jl): a partition's own tree, what it publishes of it, what it sends *)
(* to a group of partitions, the locally essential tree a partition puts       *)
(* together and what a walk over it adds up.  Positions are integers on a      *)
(* line; lengths are compared after scaling by the number of cells.            *)
EXTENDS LineDomain, Masses, SequencesExt

CONSTANTS
    LeafCapacity,    \* --leaf_capacity; --max_depth is Depth here
    MaxBranches,     \* branch_budget
    Theta            \* --theta

ASSUME JuliaTreeAssumption ==
    /\ LeafCapacity \in Nat \ {0}
    /\ MaxBranches \in Nat \ {0}
    /\ Theta \in Nat \ {0}

----------------------------------------------------------------------------
(* Cells. *)

\* prune_accept: every one of the boxes is far enough from the cell.
PruneAccept(dom, b, boxes) ==
    \A box \in boxes :
        LET apart == {0, box.lo * KeySpace - (CellFrom(dom, b) + CellSize(dom, b)),
                         CellFrom(dom, b) - box.hi * KeySpace}
        IN  CellSize(dom, b) < Theta * Max(apart)

\* The order of the keys as numbers: the key of a cell starts with a sentinel.
SentinelLess(b, c) == b.size > c.size \/ (b.size = c.size /\ b.first < c.first)

----------------------------------------------------------------------------
(* The tree of a partition: for each cell its mass, the bodies if it is a leaf, *)
(* and the children that are there.                                             *)

Within(b, S, key) == {i \in S : Covers(b, key[i])}

\* The stop rule of _build!.
Closes(b, S, key) ==
    b.size = 1 \/ Cardinality(Within(b, S, key)) <= LeafCapacity

\* build_local_tree.
BuildLocalTree(S, key) ==
    LET cells == UNION {Path([first |-> key[i], size |-> 1]) : i \in S}
        nodes == {b \in cells : \A a \in Above(b) : ~Closes(a, S, key)}
    IN  [b \in nodes |->
            [mass |-> MassOf(Within(b, S, key)),
             items |-> IF Closes(b, S, key) THEN Within(b, S, key) ELSE {},
             kids |-> IF Closes(b, S, key) THEN {} ELSE Children(b) \cap nodes]]

CountOf(mass) == MapThenSumSet(LAMBDA i : mass[i], Body)

\* subtree_counts, whatever the masses are.
CountBelow(tree, b) ==
    Cardinality(UNION {tree[c].items : c \in {d \in DOMAIN tree : b \in Path(d)}})

\* branch_nodes: the cell with most bodies is split as long as they are fewer
\* than they may be and do not get too many.  How often is not bounded by their
\* number: a cell with one child gives way to it and leaves as many as before.
BranchNodes(tree) ==
    LET splittable(F) ==
            {b \in F : /\ tree[b].kids # {}
                       /\ Cardinality(F) < MaxBranches
                       /\ Cardinality(F) - 1 + Cardinality(tree[b].kids) <= MaxBranches}
        before(b, c) ==
            \/ CountBelow(tree, b) > CountBelow(tree, c)
            \/ CountBelow(tree, b) = CountBelow(tree, c) /\ SentinelLess(b, c)
        cutFrom[F \in SUBSET DOMAIN tree] ==
            IF splittable(F) = {} THEN F
            ELSE LET best == CHOOSE b \in splittable(F) :
                                \A c \in splittable(F) \ {b} : before(b, c)
                 IN  cutFrom[(F \ {best}) \cup tree[best].kids]
    IN  IF DOMAIN tree = {} THEN {} ELSE cutFrom[{RootBin}]

\* summarize_partition: the branches, sorted by key, each with the box of as
\* many of the partition's bodies as it has, taken one after the other.
Summarize(tree, owner, at) ==
    LET branches == InOrder(BranchNodes(tree), SentinelLess)
        count(n) == CountBelow(tree, branches[n])
        upTo(n) == MapThenSumSet(count, 1 .. n)
        places(n) == {at[s] : s \in upTo(n - 1) + 1 .. upTo(n)}
    IN  {[owner |-> owner, cell |-> branches[n], mass |-> tree[branches[n]].mass,
          box |-> [lo |-> Min(places(n)), hi |-> Max(places(n))]] :
            n \in DOMAIN branches}

----------------------------------------------------------------------------
(* The coarse tree and who needs what; branches are those of all partitions.   *)

\* build_coarse_tree.
CoarseTree(branches) ==
    LET nodes == UNION {Path(b.cell) : b \in branches}
    IN  [c \in nodes |->
            [mass |-> Total({b \in branches : c \in Path(b.cell)}),
             owners |-> {b.owner : b \in {d \in branches : d.cell = c}}]]

\* target_cells.
TargetCells(branches, i) == {b.box : b \in {d \in branches : d.owner = i}}

\* import_requests: the cells of j that i may have to open.
Requests(dom, coarse, cells, i, j) ==
    {c \in DOMAIN coarse : /\ j # i
                           /\ j \in coarse[c].owners
                           /\ cells[i] # {}
                           /\ ~PruneAccept(dom, c, cells[i])}

\* export_bundle: of the requested cells the nodes down to those that all boxes
\* accept, with the bodies of leaves.  The coarse tree has the mass of the cells
\* themselves.
ExportBundle(dom, tree, owner, keys, boxes) ==
    LET accepted == {b \in DOMAIN tree : PruneAccept(dom, b, boxes)}
        sent == {b \in DOMAIN tree :
                    \E k \in keys \cap Path(b) :
                        \A a \in Above(b) \cap accepted : k \notin Path(a)}
    IN  {[owner |-> owner, cell |-> b,
          mass |-> IF b \in keys THEN Nothing ELSE tree[b].mass,
          items |-> IF b \in accepted THEN {} ELSE tree[b].items] :
            b \in sent}

\* Mutant of Foreign: a merged bundle's nodes are all taken.
ForeignOrOwn(bundle, self) == bundle

\* A merged bundle may hold what this partition itself has sent.
Foreign(bundle, self) == {n \in bundle : n.owner # self}

\* Not from a bundle.
Local == 0

\* _add_local: the coarse tree has the mass at and above the branches.
AddLocal(tree, branches) ==
    {[owner |-> Local, cell |-> b,
      mass |-> IF Above(b) \cap branches # {} THEN tree[b].mass ELSE Nothing,
      items |-> tree[b].items] : b \in DOMAIN tree}

\* assemble_let: coarse tree, own tree and bundle together, without what all of
\* this partition's boxes accept.
AssembleLet(dom, coarse, tree, bundle, boxes, branches, self) ==
    LET sources == AddLocal(tree, branches) \cup Foreign(bundle, self)
        known == DOMAIN coarse \cup {n.cell : n \in sources}
        of(b) == {n \in sources : n.cell = b}
        inner(b) == Children(b) \cap known # {}
        bodies(b) == Total({[mass |-> MassOf(n.items), owner |-> n.owner] : n \in of(b)})
        summaries == {b \in known : inner(b) /\ PruneAccept(dom, b, boxes)}
        emitted == {b \in known : Above(b) \subseteq known \ summaries}
    IN  [b \in emitted |->
            [mass |-> Plus(Total(of(b)),
                           IF b \in DOMAIN coarse THEN coarse[b].mass ELSE Nothing),
             items |-> IF b \in summaries THEN Nothing ELSE bodies(b),
             kids |-> IF b \in summaries THEN {} ELSE Children(b) \cap known]]

----------------------------------------------------------------------------
(* traverse_batch!, for body i with key k; x has where all bodies are.         *)

Sum(mass, x) == MapThenSumSet(LAMBDA j : mass[j] * x[j], Body)
Magnitude(n) == IF n < 0 THEN -n ELSE n

\* The distance test; the guard keeps a body from the cell it is in.
FarEnough(dom, b, mass, x, i, k) ==
    /\ CellSize(dom, b) * CountOf(mass)
           < Theta * KeySpace * Magnitude(Sum(mass, x) - CountOf(mass) * x[i])
    /\ ~(3 * Theta * Theta > 1 /\ Covers(b, k))

SummaryNode(let, b) == let[b].kids = {} /\ let[b].items = Nothing

\* How often the walk of body i counts each body.
Traverse(dom, let, x, i, k) ==
    LET stops == {b \in DOMAIN let : \/ SummaryNode(let, b)
                                     \/ FarEnough(dom, b, let[b].mass, x, i, k)}
        visited == {b \in DOMAIN let : Above(b) \cap stops = {}}
    IN  Total({[cell |-> b, mass |-> IF b \in stops THEN let[b].mass
                                     ELSE [let[b].items EXCEPT ![i] = 0]] : b \in visited})
=============================================================================

------------------------------ MODULE ItyrStep ------------------------------
(* The Barnes-Hut application on ItoyoriFBC                                    *)
(* (src/ItoyoriFBC/src/barneshut_ityr.cpp): ranks of some nodes, each node     *)
(* with arrays its ranks share, go through the phases of a step.  Barriers of  *)
(* a node, collectives of its leaders and of all ranks are all that keeps the  *)
(* phases apart.  In one phase, the forces, any rank runs any task; what a     *)
(* node has not computed its leader then pulls from where it was.              *)
(*                                                                             *)
(* Bodies are on a line and pull each other with a force of one, whatever the  *)
(* distance, so that the distance is the potential; half a kick changes the    *)
(* displacement per step by the pull.                                          *)
(* Arrays are indexed from 0, like the code's.                                 *)
EXTENDS LineDomain, Sequences, TLC

CONSTANTS
    NumBodies,
    Leaf,          \* --leaf
    Chunk,         \* --chunk
    Theta,         \* --theta
    Steps,         \* --steps
    EnergyEvery,   \* --energy-every
    OutputEvery,   \* --output-every
    EnergyBlock,   \* ENERGY_BLOCK
    Topologies,    \* numbers of nodes and of ranks per node, with --build-cutoff:
                   \* a block of the sort, a subtree of the plan
    Arenas,        \* values of: BARNESHUT_NODE_ARENA_MB is not 0
    Starts         \* the inputs: positions and displacements per step

ASSUME ItyrStepAssumption ==
    /\ {NumBodies, Leaf, Chunk, Theta, EnergyBlock} \subseteq Nat \ {0}
    /\ {Steps, EnergyEvery, OutputEvery} \subseteq Nat
    /\ Topologies \subseteq [nodes : {1, 2}, ranks : Nat \ {0}, cutoff : Nat \ {0}]
    /\ Arenas \subseteq BOOLEAN
    /\ \A start \in Starts : start \in [1 .. NumBodies -> [x : Int, d : Int]]

VARIABLES
    topo, arena,   \* the options of this run
    at,            \* per rank: how many phases it is past, counted over all steps
    bounds,        \* xmin and box_side
    live,          \* per node: its slice of the bodies
    ranked,        \* per node: the rank-runs, in the memory of pairs
    run, pairs,    \* per node: its slice in the order of keys; with the bodies
    gkeys, keys,   \* per node: the runs of all nodes; these merged
    mypos,         \* per node: where in the merged order each of its run is
    recv,          \* per node: what the leader has got of other nodes
    compact,       \* per node: positions of all bodies
    plan, tree,    \* per node: cells of the plan; the tree in its memory
    acc, cmask,    \* per node: pulls, and the chunks that were computed here
    masks,         \* what the leaders know of all nodes' cmask
    todo,          \* ranges whose force tasks have not run
    hdr, mark,     \* per node: the end of what its arena has given away; per
                   \* rank: persistent_, the part of that every step keeps
    placed,        \* per node: where in the arena its arrays are
    report, frame, \* the last energies the master has printed, snapshot it has written
    reference      \* the bodies, moved one after the other by all others

options == <<topo, arena>>
sorting == <<ranked, run, pairs, gkeys, mypos, recv>>
built == <<keys, compact, plan, tree>>
forces == <<acc, cmask, masks, todo>>
memory == <<hdr, mark, placed>>
written == <<report, frame>>
beside == <<memory, written, reference>>
vars == <<options, at, bounds, live, sorting, built, forces, beside>>

----------------------------------------------------------------------------
(* Ranks, their shares, and the phases. *)

Index == 0 .. NumBodies - 1
Node == 0 .. topo.nodes - 1
Ranks == Node \X (0 .. topo.ranks - 1)
Leaders == Node \X {0}
Master == <<0, 0>>
Home(r) == r[1]
Peers(r) == {q \in Ranks : Home(q) = Home(r)}

\* compute_slice_layout.
SliceFrom(s) ==
    IF s = topo.nodes THEN NumBodies
    ELSE ((s * NumBodies) \div (topo.nodes * topo.cutoff)) * topo.cutoff
SliceSize(m) == SliceFrom(m + 1) - SliceFrom(m)
Slice(m) == 0 .. SliceSize(m) - 1
SliceOf(g) == Max({m \in Node : SliceFrom(m) <= g})

\* The part of n elements that is a rank's.
Share(r, n) == (r[2] * n) \div topo.ranks .. ((r[2] + 1) * n) \div topo.ranks - 1

\* The ranks that build one tree: those of a node, or all.
LocalBuild == arena /\ topo.nodes > 1
Builders(r) == IF LocalBuild THEN Peers(r) ELSE Ranks
My(r) == IF LocalBuild THEN r[2] ELSE r[1] * topo.ranks + r[2]
TreeHome(r) == IF LocalBuild THEN Home(r) ELSE Home(Master)

Phases == <<"move", "bounds",
            "keys", "run", "pairs", "place",
            "gather", "positions", "pack", "exchange", "scatter",
            "compact", "share",
            "plan", "fold", "assemble", "replicate", "table",
            "zero", "forces", "masks", "pull", "combined",
            "energy", "sums", "output">>

\* The phases before the first step end at phase 0.
PhaseAt(n) == IF n < 0 THEN <<"setup", "mark">>[n + 3] ELSE Phases[1 + (n % Len(Phases))]
StepAt(n) == n \div Len(Phases)

Doing(r) == PhaseAt(at[r])
Step(r) == StepAt(at[r])

\* The steps whose energies are taken, and those whose bodies are written.
EnergyDue(step) ==
    step = 0 \/ (EnergyEvery > 0 /\ (step % EnergyEvery = 0 \/ step = Steps))
OutputDue(step) == step = 0 \/ (OutputEvery > 0 /\ step % OutputEvery = 0)

TakesPart(r, phase, step) ==
    CASE phase = "place" -> topo.nodes = 1
      [] phase \in {"positions", "pack", "scatter", "combined"} -> topo.nodes > 1
      [] phase \in {"gather", "exchange", "masks", "pull"} -> topo.nodes > 1 /\ r \in Leaders
      [] phase = "share" -> r \in Leaders
      [] phase = "assemble" -> My(r) = 0
      [] phase = "replicate" -> topo.nodes > 1 /\ ~arena /\ r \in Leaders
      [] phase = "energy" -> r \in Leaders /\ EnergyDue(step)
      [] phase = "sums" -> EnergyDue(step)
      [] phase = "output" -> OutputDue(step)
      [] OTHER -> TRUE

After(r) ==
    Min({n \in at[r] + 1 .. at[r] + Len(Phases) : TakesPart(r, PhaseAt(n), StepAt(n))})

\* Mutant of NodeBarrier: the rank-runs are merged before all of them are there.
NodeBarrierButOne(phase) ==
    \/ phase \in {"pairs", "place", "gather", "positions", "pack", "scatter",
                  "share", "plan", "forces", "masks", "combined"}
    \/ phase = "compact" /\ topo.nodes > 1

\* Phases that begin with a barrier of the node.
NodeBarrier(phase) ==
    \/ phase \in {"run", "pairs", "place", "gather", "positions", "pack", "scatter",
                  "share", "plan", "forces", "masks", "combined"}
    \/ phase = "compact" /\ topo.nodes > 1

Met(r, others) == \A q \in others : at[q] >= at[r]

\* Rank r is in a phase, past the barrier it begins with, and ends it.
In(r, phase) ==
    /\ Doing(r) = phase
    /\ NodeBarrier(phase) => Met(r, Peers(r))
    /\ phase = "assemble" => Met(r, Builders(r))

Ends(ranks) == at' = [r \in Ranks |-> IF r \in ranks THEN After(r) ELSE at[r]]

\* A collective: all of ranks are in it.
Together(ranks, phase) == \A r \in ranks : In(r, phase)

----------------------------------------------------------------------------
(* Before the first step. *)

\* The arrays the leader of m takes memory for, in its order, and their bytes:
\* those of init_build_replicas,
BuildArrays(m) ==
    LET size == SliceSize(m)
        some(arrays) == IF size > 0 THEN arrays ELSE <<>>
    IN  some(<<[name |-> "live", size |-> 64 * size], [name |-> "run", size |-> 16 * size],
               [name |-> "pairs", size |-> 72 * size]>>)
        \o (IF topo.nodes = 1 THEN <<>>
            ELSE some(<<[name |-> "recv", size |-> 72 * size],
                        [name |-> "krun", size |-> 8 * size],
                        [name |-> "mypos", size |-> 4 * size]>>)
                 \o <<[name |-> "gkeys", size |-> 8 * NumBodies]>>)
        \o <<[name |-> "keys", size |-> 8 * NumBodies]>>

\* those of the master only,
MasterArrays ==
    <<[name |-> "compact", size |-> 32 * NumBodies], [name |-> "bodies", size |-> 64 * NumBodies]>>
    \o (IF topo.cutoff % EnergyBlock = 0 THEN <<>>
        ELSE <<[name |-> "vel_scratch", size |-> 32 * NumBodies]>>)

\* and those of alloc_node_accel.
NumChunks == (NumBodies + Chunk - 1) \div Chunk
AccelArrays == <<[name |-> "acc", size |-> 32 * NumBodies],
                 [name |-> "cmask", size |-> 8 * ((NumChunks + 63) \div 64)]>>

Arrays(m) ==
    IF m = Home(Master)
    THEN <<[name |-> "input", size |-> 64 * NumBodies]>>
         \o BuildArrays(m) \o MasterArrays \o AccelArrays
    ELSE BuildArrays(m) \o AccelArrays \o <<[name |-> "compact", size |-> 32 * NumBodies]>>

\* NodeArena::alloc: the next aligned place, and where it ends.
Alloc(from, size) ==
    LET begin == ((from + 63) \div 64) * 64 IN [first |-> begin, end |-> begin + size]

\* The places of the arrays of m, taken one after the other.
Layout(m) ==
    LET list == Arrays(m)
        place[i \in 1 .. Len(list)] ==
            Alloc(IF i = 1 THEN 0 ELSE place[i - 1].end, list[i].size)
    IN  [name \in {list[i].name : i \in DOMAIN list} |->
            place[CHOOSE i \in DOMAIN list : list[i].name = name]]

\* Leaders take memory and tell all ranks where it is; scatter_input, which ends
\* with a barrier of all, gives each node its slice.
Setup ==
    /\ Together(Ranks, "setup") /\ Ends(Ranks)
    /\ live' = [m \in Node |->
                   [j \in Slice(m) |->
                       LET i == SliceFrom(m) + j + 1
                       IN  [id |-> i, x |-> reference[i].x, d |-> reference[i].d]]]
    /\ placed' = [m \in Node |-> IF arena THEN Layout(m) ELSE <<>>]
    /\ hdr' = [m \in Node |-> IF arena THEN LET place == Layout(m)
                                       IN  Max({place[a].end : a \in DOMAIN place})
                              ELSE 0]
    /\ UNCHANGED <<options, bounds, sorting, built, forces, mark, written, reference>>

\* mark_persistent.
MarkPersistent(r) ==
    /\ In(r, "mark") /\ Ends({r})
    /\ mark' = [mark EXCEPT ![r] = hdr[Home(r)]]
    /\ UNCHANGED <<options, bounds, live, sorting, built, forces, hdr, placed, written, reference>>

----------------------------------------------------------------------------
(* Moving bodies. *)

\* A body's key, by make_key; the box of bodies at one place has a side of one.
MakeKey(x) ==
    Max({0, Min({((x - bounds.xmin) * (KeySpace - 1)) \div bounds.side, KeySpace - 1})})

\* half_kicks: the one that ends a step is fused with the one that begins the next.
HalfKicks(step) == IF step \in {1, Steps + 1} THEN 1 ELSE 2

\* kick_live, or bounds_from_replica before the first step.
Move(r) ==
    LET m == Home(r)
        kicked(b, pull) ==
            LET d == b.d + HalfKicks(Step(r)) * pull
            IN  [b EXCEPT !.d = d, !.x = IF Step(r) <= Steps THEN @ + d ELSE @]
    IN  /\ In(r, "move") /\ Ends({r})
        /\ live' = IF Step(r) = 0 THEN live
                   ELSE [live EXCEPT ![m] =
                            [j \in Share(r, SliceSize(m)) |->
                                kicked(@[j], acc[m][SliceFrom(m) + j].pull)] @@ @]
        /\ UNCHANGED <<options, bounds, sorting, built, forces, beside>>

Sign(n) == IF n > 0 THEN 1 ELSE IF n < 0 THEN -1 ELSE 0

Others(i) ==
    MapThenSumSet(LAMBDA j : Sign(reference[j].x - reference[i].x), 1 .. NumBodies)

\* Leapfrog: d is what it is in the middle of a step.
Leapt(i, step) ==
    LET d == reference[i].d + HalfKicks(step) * Others(i)
    IN  [x |-> IF step <= Steps THEN reference[i].x + d ELSE reference[i].x, d |-> d]

\* The MPI_Allreduce of the extremes.
Bounds ==
    LET places == {b.x : b \in UNION {{live[m][j] : j \in Slice(m)} : m \in Node}}
        step == Step(Master)
    IN  /\ Together(Ranks, "bounds") /\ step <= Steps /\ Ends(Ranks)
        /\ bounds' = [xmin |-> Min(places),
                      side |-> IF Cardinality(places) = 1 THEN 1 ELSE Max(places) - Min(places)]
        /\ reference' = IF step = 0 THEN reference
                        ELSE [i \in 1 .. NumBodies |-> Leapt(i, step)]
        /\ UNCHANGED <<options, live, sorting, built, forces, memory, written>>

----------------------------------------------------------------------------
(* slice_keys_phase. *)

\* The indices of keys, in the order a stable sort has them in.
Stable(key) ==
    InOrder(DOMAIN key, LAMBDA a, b : key[a] < key[b] \/ (key[a] = key[b] /\ a < b))

\* The blocks of a rank are cut at multiples of topo.cutoff.
BlocksOf(r) ==
    LET count == (SliceSize(Home(r)) + topo.cutoff - 1) \div topo.cutoff
    IN  {j \in Slice(Home(r)) : j \div topo.cutoff \in Share(r, count)}

\* A rank gives the memory of the last step back, sorts its blocks and merges
\* them into a rank-run.
SortBlocks(r) ==
    LET m == Home(r)
        mine == BlocksOf(r)
        order == Stable([j \in mine |-> MakeKey(live[m][j].x)])
        entry(j) == [key |-> MakeKey(live[m][j].x), idx |-> j]
    IN  /\ In(r, "keys") /\ Ends({r})
        /\ ranked' = [ranked EXCEPT ![m] =
                         [j \in mine |-> entry(order[j - Min(mine) + 1])] @@ @]
        /\ hdr' = [hdr EXCEPT ![m] = mark[r]]
        /\ UNCHANGED <<options, bounds, live, run, pairs, gkeys, mypos, recv, built, forces,
                       mark, placed, written, reference>>

\* It computes its chunk of the node's run from all rank-runs.
MergeChunk(r) ==
    LET m == Home(r)
        order == Stable([j \in Slice(m) |-> ranked[m][j].key])
    IN  /\ In(r, "run") /\ Ends({r})
        /\ run' = [run EXCEPT ![m] =
                      [j \in Share(r, SliceSize(m)) |-> ranked[m][order[j + 1]]] @@ @]
        /\ UNCHANGED <<options, bounds, live, ranked, pairs, gkeys, mypos, recv, built, forces, beside>>

\* A rank-run's entry i and the pair j are in the same memory.
Overlay(i, j) == 16 * i < 72 * (j + 1) /\ 72 * j < 16 * (i + 1)

Materialize(r) ==
    LET m == Home(r)
        mine == Share(r, SliceSize(m))
    IN  /\ In(r, "pairs") /\ Ends({r})
        /\ pairs' = [pairs EXCEPT ![m] =
                        [j \in mine |-> [key |-> run[m][j].key, body |-> live[m][run[m][j].idx]]] @@ @]
        /\ ranked' = [ranked EXCEPT ![m] =
                         [i \in {i \in Slice(m) : \E j \in mine : Overlay(i, j)} |->
                             [key |-> 0, idx |-> 0]] @@ @]
        /\ UNCHANGED <<options, bounds, live, run, gkeys, mypos, recv, built, forces, beside>>

----------------------------------------------------------------------------
(* redistribute_build. *)

\* On a single node.
Place(r) ==
    LET mine == Share(r, NumBodies)
    IN  /\ In(r, "place") /\ Ends({r})
        /\ keys' = [keys EXCEPT ![0] = [j \in mine |-> run[0][j].key] @@ @]
        /\ live' = [live EXCEPT ![0] = [j \in mine |-> pairs[0][j].body] @@ @]
        /\ UNCHANGED <<options, bounds, sorting, compact, plan, tree, forces, beside>>

\* The leaders' MPI_Allgatherv of the runs' keys.
GatherKeys ==
    /\ topo.nodes > 1 /\ Together(Leaders, "gather") /\ Ends(Leaders)
    /\ gkeys' = [m \in Node |->
                    [g \in Index |-> run[SliceOf(g)][g - SliceFrom(SliceOf(g))].key]]
    /\ UNCHANGED <<options, bounds, live, ranked, run, pairs, mypos, recv, built, forces, beside>>

\* merge_keys_parallel: a rank merges its chunk of all keys and writes down
\* where those of its node's run have gone.
MergeKeys(r) ==
    LET m == Home(r)
        order == Stable(gkeys[m])
        chunk == Share(r, NumBodies)
        mine == {o \in chunk : SliceOf(order[o + 1]) = m}
        local(o) == order[o + 1] - SliceFrom(m)
    IN  /\ In(r, "positions") /\ Ends({r})
        /\ keys' = [keys EXCEPT ![m] = [o \in chunk |-> gkeys[m][order[o + 1]]] @@ @]
        /\ mypos' = [mypos EXCEPT ![m] =
                        [j \in {local(o) : o \in mine} |->
                            CHOOSE o \in mine : local(o) = j] @@ @]
        /\ UNCHANGED <<options, bounds, live, ranked, run, pairs, gkeys, recv,
                       compact, plan, tree, forces, beside>>

\* The position takes the place of the key.
Pack(r) ==
    LET m == Home(r)
    IN  /\ In(r, "pack") /\ Ends({r})
        /\ pairs' = [pairs EXCEPT ![m] =
                        [j \in Share(r, SliceSize(m)) |-> [@[j] EXCEPT !.key = mypos[m][j]]] @@ @]
        /\ UNCHANGED <<options, bounds, live, ranked, run, gkeys, mypos, recv, built, forces, beside>>

\* scnts and sdspls: how many of m's pairs are for s, and where these begin.
CountFor(m, s) == Cardinality({j \in Slice(m) : SliceOf(pairs[m][j].key) = s})
BeginFor(m, s) == MapThenSumSet(LAMBDA t : CountFor(m, t), {t \in Node : t < s})

\* What s gets is what node 0 and then node 1 have for it.
Received(s) ==
    LET first == CountFor(0, s)
    IN  [k \in Slice(s) |-> IF k < first THEN pairs[0][BeginFor(0, s) + k]
                            ELSE pairs[1][BeginFor(1, s) + k - first]]

\* The leaders' MPI_Alltoallv, after the MPI_Reduce of their nodes' counts.
Exchange ==
    /\ topo.nodes > 1 /\ Together(Leaders, "exchange") /\ Ends(Leaders)
    /\ \A r \in Ranks : \A l \in Leaders : at[r] >= at[l]
    /\ recv' = [s \in Node |-> Received(s)]
    /\ UNCHANGED <<options, bounds, live, ranked, run, pairs, gkeys, mypos, built, forces, beside>>

Scatter(r) ==
    LET m == Home(r)
        mine == {recv[m][k] : k \in Share(r, SliceSize(m))}
    IN  /\ In(r, "scatter") /\ Ends({r})
        /\ live' = [live EXCEPT ![m] =
                       [j \in {e.key - SliceFrom(m) : e \in mine} |->
                           (CHOOSE e \in mine : e.key - SliceFrom(m) = j).body] @@ @]
        /\ UNCHANGED <<options, bounds, sorting, built, forces, beside>>

Compact(r) ==
    LET m == Home(r)
    IN  /\ In(r, "compact") /\ Ends({r})
        /\ compact' = [compact EXCEPT ![m] =
                          [g \in {SliceFrom(m) + i : i \in Share(r, SliceSize(m))} |->
                              live[m][g - SliceFrom(m)].x] @@ @]
        /\ UNCHANGED <<options, bounds, live, sorting, keys, plan, tree, forces, beside>>

\* The leaders' MPI_Allgatherv of what their nodes have compacted.
ShareCompact ==
    /\ Together(Leaders, "share") /\ Ends(Leaders)
    /\ compact' = [m \in Node |-> [g \in Index |-> compact[SliceOf(g)][g]]]
    /\ UNCHANGED <<options, bounds, live, sorting, keys, plan, tree, forces, beside>>

----------------------------------------------------------------------------
(* build_tree_spmd. *)

\* The bodies of a cell; keys have one digit more than the tree has levels.
InCell(ks, b) == {g \in Index : Covers(b, ks[g])}
Splits(ks, limit, b) == Cardinality(InCell(ks, b)) > limit /\ b.size > BranchFactor

\* The cells from top on that a walk splitting above limit bodies comes to.
Cells(ks, limit, top) ==
    {b \in Bin : /\ top \in Path(b) /\ InCell(ks, b) # {}
                 /\ \A a \in Above(b) : top \in Path(a) => Splits(ks, limit, a)}

\* The root's octants that have bodies, and their numbers.
Octants(ks) == {b \in Children(RootBin) : InCell(ks, b) # {}}
NumberOf(ks, b) == Cardinality({c \in Octants(ks) : c.first < b.first})

\* plan_node_struct, for the octants whose turn it is.
SubPlan(r) ==
    LET ks == keys[Home(r)]
    IN  UNION {Cells(ks, topo.cutoff, c) :
                  c \in {c \in Octants(ks) :
                            NumberOf(ks, c) % Cardinality(Builders(r)) = My(r)}}

\* The collectives that put the plan together.
Plan(r) ==
    LET group == Builders(r)
        whole == {RootBin} \cup (IF NumBodies > topo.cutoff
                                 THEN UNION {SubPlan(q) : q \in group} ELSE {})
        home == TreeHome(r)
        place == Alloc(hdr[home], 80 * Cardinality(Cells(keys[home], Leaf, RootBin)))
    IN  /\ My(r) = 0 /\ Together(group, "plan") /\ Ends(group)
        /\ plan' = [m \in Node |-> IF \E q \in group : Home(q) = m THEN whole ELSE plan[m]]
        /\ tree' = [tree EXCEPT ![home] = <<>>]
        /\ IF arena THEN /\ hdr' = [hdr EXCEPT ![home] = place.end]
                         /\ placed' = [placed EXCEPT ![home] = ("tree" :> place) @@ @]
           ELSE UNCHANGED <<hdr, placed>>
        /\ UNCHANGED <<options, bounds, live, sorting, keys, compact, forces, mark, written, reference>>

\* Leaves of the plan, in its order: that of the ranks, and then of the keys.
PlanLeaves(r) == {b \in plan[Home(r)] : Children(b) \cap plan[Home(r)] = {}}

Turn(r, b) ==
    LET ks == keys[Home(r)]
        owner(a) == Cardinality({c \in Octants(ks) : c.first + c.size <= a.first})
                        % Cardinality(Builders(r))
    IN  Cardinality({a \in PlanLeaves(r) : \/ owner(a) < owner(b)
                                           \/ owner(a) = owner(b) /\ a.first < b.first})

\* A node of the tree over bodies of a replica.
TreeNode(ks, places, b) ==
    LET S == InCell(ks, b)
    IN  [bodies |-> S, leaf |-> ~Splits(ks, Leaf, b), mass |-> Cardinality(S),
         moment |-> MapThenSumSet(LAMBDA g : places[g], S)]

\* fold_from_rec, for every leaf of the plan whose turn it is.
Fold(r) ==
    LET ks == keys[Home(r)]
        mine == {b \in PlanLeaves(r) : Turn(r, b) % Cardinality(Builders(r)) = My(r)}
        cells == UNION {Cells(ks, Leaf, b) : b \in mine}
    IN  /\ In(r, "fold") /\ Ends({r})
        /\ tree' = [tree EXCEPT ![TreeHome(r)] =
                       [b \in cells |-> TreeNode(ks, compact[Home(r)], b)] @@ @]
        /\ UNCHANGED <<options, bounds, live, sorting, keys, compact, plan, forces, beside>>

\* The first builder adds up what is above the leaves of the plan.
Assemble(r) ==
    LET m == Home(r)
        below(b) == {tree[m][a] : a \in {a \in PlanLeaves(r) : b \in Path(a)}}
        sum(b) == [bodies |-> UNION {n.bodies : n \in below(b)}, leaf |-> FALSE,
                   mass |-> MapThenSumSet(LAMBDA n : n.mass, below(b)),
                   moment |-> MapThenSumSet(LAMBDA n : n.moment, below(b))]
    IN  /\ In(r, "assemble") /\ Ends({r})
        /\ tree' = [tree EXCEPT ![m] = [b \in plan[m] \ PlanLeaves(r) |-> sum(b)] @@ @]
        /\ UNCHANGED <<options, bounds, live, sorting, keys, compact, plan, forces, beside>>

\* make_node_replicas: without an arena the leaders broadcast the tree.
Replicate ==
    /\ topo.nodes > 1 /\ ~arena /\ Together(Leaders, "replicate") /\ Ends(Leaders)
    /\ tree' = [m \in Node |-> tree[0]]
    /\ UNCHANGED <<options, bounds, live, sorting, keys, compact, plan, forces, beside>>

----------------------------------------------------------------------------
(* Forces. *)

\* The ranges par_for cuts lo .. hi - 1 into.
ParFor[lo \in 0 .. NumBodies, hi \in 0 .. NumBodies] ==
    LET mid == lo + Max({Chunk, ((hi - lo) \div (2 * Chunk)) * Chunk})
    IN  IF hi - lo <= Chunk THEN {<<lo, hi>>} ELSE ParFor[lo, mid] \cup ParFor[mid, hi]

\* broadcast_uintptr_table: all ranks know of all trees.  The tasks that
\* forces_phase will spawn are not there before the master is.
Table ==
    /\ Together(Ranks, "table") /\ Ends(Ranks)
    /\ todo' = ParFor[0, NumBodies]
    /\ UNCHANGED <<options, bounds, live, sorting, built, acc, cmask, masks, beside>>

Cleared(r) == IF r \in Leaders THEN [cmask EXCEPT ![Home(r)] = {}] ELSE cmask

NoForce == [pull |-> 0, pot |-> 0]

\* zero_node_accel.
Zero(r) ==
    /\ In(r, "zero") /\ Ends({r})
    /\ acc' = [acc EXCEPT ![Home(r)] = [g \in Share(r, NumBodies) |-> NoForce] @@ @]
    /\ cmask' = Cleared(r)
    /\ UNCHANGED <<options, bounds, live, sorting, built, masks, todo, beside>>

Magnitude(n) == IF n < 0 THEN -n ELSE n

\* walk_compact for the body at g.
Walk(m, g) ==
    LET nodes == tree[m]
        x == compact[m][g]
        offset(b) == nodes[b].moment - nodes[b].mass * x
        far(b) == /\ ~nodes[b].leaf
                  /\ bounds.side * b.size * nodes[b].mass
                         < Theta * KeySpace * Magnitude(offset(b))
        visited == {b \in DOMAIN nodes : \A a \in Above(b) : ~nodes[a].leaf /\ ~far(a)}
        taken == {b \in visited : far(b)}
        near == UNION {nodes[b].bodies : b \in {b \in visited : nodes[b].leaf}} \ {g}
    IN  [pull |-> MapThenSumSet(LAMBDA b : nodes[b].mass * Sign(offset(b)), taken)
                  + MapThenSumSet(LAMBDA o : Sign(compact[m][o] - x), near),
         pot |-> MapThenSumSet(LAMBDA b : Magnitude(offset(b)), taken)
                 + MapThenSumSet(LAMBDA o : Magnitude(compact[m][o] - x), near)]

\* A leaf of force_range, on the rank that has taken it.
RunRange(r, range) ==
    LET m == Home(r)
        mine == range[1] .. range[2] - 1
    IN  /\ In(r, "forces") /\ In(Master, "forces") /\ Step(r) = Step(Master)
        /\ range \in todo /\ todo' = todo \ {range}
        /\ acc' = [acc EXCEPT ![m] = [g \in mine |-> Walk(m, g)] @@ @]
        /\ cmask' = [cmask EXCEPT ![m] = @ \cup {g \div Chunk : g \in mine}]
        /\ UNCHANGED <<options, at, bounds, live, sorting, built, masks, beside>>

\* root_exec ends with a barrier of all ranks.
RootExecEnds ==
    /\ Together(Ranks, "forces") /\ todo = {} /\ Ends(Ranks)
    /\ UNCHANGED <<options, bounds, live, sorting, built, forces, beside>>

\* combine_accel: the leaders exchange their masks.
ExchangeMasks ==
    /\ topo.nodes > 1 /\ Together(Leaders, "masks") /\ Ends(Leaders)
    /\ masks' = cmask
    /\ UNCHANGED <<options, bounds, live, sorting, built, acc, cmask, todo, beside>>

\* The node that a leader takes a chunk of; runs go on while it has the next.
OwnerOf(m) ==
    LET owner[c \in 0 .. NumChunks - 1] ==
            IF c > 0 /\ c \in masks[owner[c - 1]] THEN owner[c - 1]
            ELSE LET has == {j \in Node : c \in masks[j]}
                 IN  IF has = {} THEN m ELSE Min(has)
    IN  owner

\* MPI_Get of the chunks that are missing here.
PullMissing(r) ==
    LET m == Home(r)
        owner == OwnerOf(m)
    IN  /\ In(r, "pull") /\ Ends({r})
        /\ acc' = [acc EXCEPT ![m] = [g \in Index |-> acc[owner[g \div Chunk]][g]]]
        /\ UNCHANGED <<options, bounds, live, sorting, built, cmask, masks, todo, beside>>

\* The barrier of the node that ends it.
Combined(l) ==
    /\ Together(Peers(l), "combined") /\ Ends(Peers(l))
    /\ UNCHANGED <<options, bounds, live, sorting, built, forces, beside>>

----------------------------------------------------------------------------
(* Energies and output. *)

\* Twice the energies, of the bodies in a set.
Kinetic(m, S) == MapThenSumSet(LAMBDA g : live[m][g - SliceFrom(m)].d ^ 2, S)
Potential(m, S) == MapThenSumSet(LAMBDA g : acc[m][g].pot, S)

NumBlocks == (NumBodies + EnergyBlock - 1) \div EnergyBlock
Blocks == 0 .. NumBlocks - 1
Block(k) == k * EnergyBlock .. Min({(k + 1) * EnergyBlock, NumBodies}) - 1

\* owner_ek and owner_ep: the nodes that sum a block.
OwnerEk(k) == Min({m \in Node : k * EnergyBlock < SliceFrom(m + 1)})
OwnerEp(k) == Min({(k * topo.nodes) \div NumBlocks, topo.nodes - 1})

\* Mutant of PotentialSum: "a single Allgather over parts.data() would only
\* exchange the EK half".
PotentialSumOfMaster ==
    MapThenSumSet(LAMBDA k : Potential(0, Block(k)), {k \in Blocks : OwnerEp(k) = 0})

\* What the leaders' MPI_Allgathers bring together and tree_combine adds up.
KineticSum == MapThenSumSet(LAMBDA k : Kinetic(OwnerEk(k), Block(k)), Blocks)
PotentialSum == MapThenSumSet(LAMBDA k : Potential(OwnerEp(k), Block(k)), Blocks)

\* Where no block spans two slices; else the master gathers masses and velocities,
\* in the memory of pairs, and sums them and its own potentials.
EnergyPhase ==
    LET step == Step(Master)
        aligned == topo.cutoff % EnergyBlock = 0
        gathered == MapThenSumSet(LAMBDA m : Kinetic(m, {g \in Index : SliceOf(g) = m}), Node)
    IN  /\ Together(Leaders, "energy") /\ Ends(Leaders)
        /\ report' = IF aligned THEN [step |-> step, ek |-> KineticSum, ep |-> PotentialSum]
                     ELSE [step |-> step, ek |-> gathered, ep |-> Potential(0, Index)]
        /\ pairs' = IF aligned THEN pairs
                    ELSE [m \in Node |-> [j \in Slice(m) |-> [key |-> 0, body |-> live[m][j]]]]
        /\ UNCHANGED <<options, bounds, live, ranked, run, gkeys, mypos, recv, built, forces,
                       memory, frame, reference>>

\* The MPI_Bcast of the sums: nobody has them before the master.
Sums(r) ==
    /\ In(r, "sums") /\ at[Master] >= at[r] /\ Ends({r})
    /\ UNCHANGED <<options, bounds, live, sorting, built, forces, beside>>

\* gather_full_bodies.
GatherFullBodies == [g \in Index |-> live[SliceOf(g)][g - SliceFrom(SliceOf(g))]]

\* The root task that writes them, with the master's forces, ends with a barrier
\* of all.
Output ==
    /\ Together(Ranks, "output") /\ Ends(Ranks)
    /\ frame' = [step |-> Step(Master),
                 bodies |-> {[body |-> GatherFullBodies[g], force |-> acc[0][g]] : g \in Index}]
    /\ UNCHANGED <<options, bounds, live, sorting, built, forces, memory, report, reference>>

----------------------------------------------------------------------------

\* After the input is read; what memory holds before it is written is not read.
Init ==
    \E start \in Starts :
        /\ topo \in Topologies /\ arena \in Arenas
        /\ at = [r \in Ranks |-> -2]
        /\ bounds = [xmin |-> 0, side |-> 1]
        /\ live = [m \in Node |-> <<>>]
        /\ ranked = [m \in Node |-> [j \in Slice(m) |-> [key |-> 0, idx |-> 0]]]
        /\ run = ranked
        /\ pairs = [m \in Node |->
                       [j \in Slice(m) |-> [key |-> 0, body |-> [id |-> 0, x |-> 0, d |-> 0]]]]
        /\ recv = pairs
        /\ mypos = [m \in Node |-> [j \in Slice(m) |-> 0]]
        /\ gkeys = [m \in Node |-> [g \in Index |-> 0]]
        /\ keys = gkeys /\ compact = gkeys
        /\ acc = [m \in Node |-> [g \in Index |-> NoForce]]
        /\ plan = [m \in Node |-> {}] /\ tree = [m \in Node |-> <<>>]
        /\ cmask = [m \in Node |-> {}] /\ masks = cmask
        /\ todo = {}
        /\ hdr = [m \in Node |-> 0] /\ mark = [r \in Ranks |-> 0]
        /\ placed = [m \in Node |-> <<>>]
        /\ report = [step |-> -1, ek |-> 0, ep |-> 0]
        /\ frame = [step |-> -1, bodies |-> {}]
        /\ reference = start

Finished == \A r \in Ranks : Step(r) = Steps + 1 /\ Doing(r) = "bounds"
Terminated == Finished /\ UNCHANGED vars

Next ==
    \/ Bounds \/ GatherKeys \/ Exchange \/ ShareCompact \/ Replicate \/ Table
    \/ RootExecEnds \/ ExchangeMasks \/ EnergyPhase \/ Output \/ Setup \/ Terminated
    \/ \E l \in Leaders : Combined(l)
    \/ \E r \in Ranks :
           \/ MarkPersistent(r) \/ Sums(r)
           \/ Move(r) \/ SortBlocks(r) \/ MergeChunk(r) \/ Materialize(r)
           \/ Place(r) \/ MergeKeys(r) \/ Pack(r) \/ Scatter(r) \/ Compact(r)
           \/ Plan(r) \/ Fold(r) \/ Assemble(r)
           \/ Zero(r) \/ PullMissing(r)
           \/ \E range \in todo : RunRange(r, range)

Spec == Init /\ [][Next]_vars

----------------------------------------------------------------------------
(* Properties. *)

Bodies == {GatherFullBodies[g] : g \in Index}

\* Whoever has computed its force, on whatever node it is by now, a body is
\* where a leapfrog has it that adds up all others for it: after each drift, and
\* after the last half kick.
BodiesMoved ==
    LET are(state(_)) == Bodies = {[id |-> i, x |-> state(i).x, d |-> state(i).d] :
                                      i \in 1 .. NumBodies}
    IN  /\ (\A r \in Ranks : Doing(r) = "keys") => are(LAMBDA i : reference[i])
        /\ Finished => are(LAMBDA i : Leapt(i, Steps + 1))

Distances(i) ==
    MapThenSumSet(LAMBDA j : Magnitude(reference[j].x - reference[i].x), 1 .. NumBodies)

\* The step the reference has moved to.
Reached == StepAt(at[Master] - 2)

\* Energies and snapshots are taken at every step they are due, before a rank
\* moves a body again, and of the bodies of that step with the forces on them
\* there: each body once, wherever the blocks and the slices begin.
ReportsRight ==
    /\ report.step = Reached /\ Reached >= 0 =>
          /\ report.ek = MapThenSumSet(LAMBDA i : reference[i].d ^ 2, 1 .. NumBodies)
          /\ report.ep = MapThenSumSet(Distances, 1 .. NumBodies)
    /\ frame.step = Reached /\ Reached >= 0 =>
          frame.bodies = {[body |-> [id |-> i, x |-> reference[i].x, d |-> reference[i].d],
                           force |-> [pull |-> Others(i), pot |-> Distances(i)]] :
                             i \in 1 .. NumBodies}
    /\ \A r \in Ranks : Step(r) > Reached /\ Reached >= 0 =>
          /\ EnergyDue(Reached) => report.step = Reached
          /\ OutputDue(Reached) => frame.step = Reached

\* The run is that of one process that adds up all pairs of bodies.
AsBruteForce == BodiesMoved /\ ReportsRight

\* The tree build_rec_direct makes of a replica.
SerialTree(ks, places) ==
    [b \in Cells(ks, Leaf, RootBin) |-> TreeNode(ks, places, b)]

\* In the arena no two arrays share memory, and no rank takes that of the tree
\* back while it is walked: what a rank has marked and when it resets are right
\* only by the barriers around them.
MemoryApart ==
    arena =>
        \A m \in Node :
            /\ \A a, b \in DOMAIN placed[m] :
                   a # b => \/ placed[m][a].end <= placed[m][b].first
                            \/ placed[m][b].end <= placed[m][a].first
            /\ todo # {} => \A a \in DOMAIN placed[m] : placed[m][a].end <= hdr[m]

\* As long as forces are to be computed each node has the same sorted keys and positions,
\* those of the bodies in the nodes' slices, and the tree a serial build makes
\* of them: a walk gives the same on every node.
ReplicasAgree ==
    /\ MemoryApart
    /\ todo # {} =>
        \A m \in Node :
            /\ tree[m] = SerialTree(keys[m], compact[m])
            /\ \A g \in Index :
                   LET body == GatherFullBodies[g]
                   IN  /\ compact[m][g] = body.x
                       /\ keys[m][g] = MakeKey(body.x)
                       /\ g > 0 => keys[m][g - 1] <= keys[m][g]
=============================================================================

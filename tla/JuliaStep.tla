----------------------------- MODULE JuliaStep -----------------------------
(* The time step of the Julia benchmark (src/julia_dagger/src/simulation.jl,   *)
(* sort.jl and treebuild.jl): a driver that spawns tasks, phase by phase, and  *)
(* waits for some of them, and tasks that run in any order in which each comes *)
(* after those it has as arguments.  Tasks of a partition work on its arrays   *)
(* in place; nothing but arguments and waits keeps them apart.                 *)
(*                                                                             *)
(* The time step is such that half a kick changes a displacement per step by   *)
(* the pull, an integer.                                                       *)
EXTENDS JuliaTree

CONSTANTS
    NumPartitions,   \* one per process
    NumTiles,        \* s.ntile
    TreeTasks,       \* --tree_tasks
    ExportGroups,    \* export_groups
    ImportFanin,     \* import_fanin
    Steps,           \* --steps
    EnergyInterval,  \* --energy_interval
    VtkInterval,     \* --vtk_interval
    VtkFormat,       \* vtk or vtp
    CsvStates,       \* which of initial_state.csv and final_state.csv are wanted
    Starts,          \* the inputs: positions and displacements per step
    Sorts,           \* values of --parallel_sort, with threads enough for it
    Overlaps,        \* values of: let_exchange and tree.build are not timed
    Warmups          \* --warmup_steps

Partition == 1 .. NumPartitions
BlockSize == (NumBodies + NumPartitions - 1) \div NumPartitions

ASSUME JuliaStepAssumption ==
    /\ NumPartitions \in Nat /\ NumPartitions > 1
    /\ NumTiles \in Nat \ {0} /\ TreeTasks \in Nat \ {0}
    /\ ExportGroups \in Partition /\ ImportFanin \in Partition
    /\ Steps \in Nat \ {0} /\ {EnergyInterval, VtkInterval} \subseteq Nat
    /\ \A start \in Starts : start \in [Body -> [x : Int, d : Int]]
    /\ VtkFormat \in {"vtk", "vtp"} /\ CsvStates \subseteq {"initial", "final"}
    /\ Sorts \subseteq BOOLEAN /\ Overlaps \subseteq BOOLEAN
    /\ Warmups \subseteq Nat

VARIABLES
    parallel, overlap,   \* the options of this run
    pc,        \* what the driver is in or waits for
    step,      \* not above 0 in the steps that warm up and the first forces
    synced,    \* v_synced
    spawned,   \* this step's tasks
    done,      \* those that have run
    result,    \* what they have returned
    buf, sbuf, \* per partition: bodies by slot, and the scratch block
    acc,       \* per partition: by slot, the pull, what it is made of, the potential
    tree,      \* per partition: the nodes of the local tree by their index
    let,       \* per partition
    global,    \* the driver's: domain, branches, coarse tree, target cells, requests
    energyLog, \* the energies that were taken
    frameSteps,  \* s.snapshot_times, as steps
    frameFiles,  \* the pieces of snapshots, by number and partition
    csvFiles,    \* initial_state.csv and final_state.csv, if they are there
    collection,  \* simulation.pvd: step, partition, and the number in the file's name
    leapfrog   \* what a leapfrog with the same pulls has for each body

options == <<parallel, overlap>>
driver == <<pc, step, synced, spawned>>
blocks == <<buf, sbuf, acc>>
readings == <<energyLog, frameSteps, frameFiles, csvFiles, collection>>
beside == <<readings, leapfrog>>
vars == <<options, driver, done, result, blocks, tree, let, global, beside>>

CeilDiv(a, b) == (a + b - 1) \div b

\* partition_size; slots are counted from one.
SizeOf == [i \in Partition |-> Max({0, Min({NumBodies - (i - 1) * BlockSize, BlockSize})})]
Slot(i) == 1 .. SizeOf[i]
Ids(i) == {buf[i][s].id : s \in Slot(i)}
SlotOf(i, id) == CHOOSE s \in Slot(i) : buf[i][s].id = id
Sign(n) == IF n > 0 THEN 1 ELSE IF n < 0 THEN -1 ELSE 0

----------------------------------------------------------------------------
(* Tasks: what it does, for which partition, and which one of them. *)

Task(kind, i, k) == [kind |-> kind, part |-> i, k |-> k]
TasksOf(kind, i, K) == {Task(kind, i, k) : k \in K}
One(kind, i) == Task(kind, i, 1)
All(kind) == {t \in spawned : t.kind = kind}

\* partition_tiles.
Tiles(i) == Min({NumTiles, SizeOf[i]})
Tile(i, t) ==
    LET n == SizeOf[i]
        last[u \in 0 .. t] ==
            IF u = 0 THEN 0
            ELSE last[u - 1] + CeilDiv(n - last[u - 1], Tiles(i) - u + 1)
    IN  last[t - 1] + 1 .. last[t]

SampleSorted(i) == parallel /\ Tiles(i) > 1
TreeTasksOf(i) == Min({TreeTasks, Max({SizeOf[i], 1})})
Planned(i) == TreeTasksOf(i) > 1
TreeOf(i) == One(IF Planned(i) THEN "finish" ELSE "build", i)

\* Groups of those that import, and of those that export.
GroupOf(i) == Min({ExportGroups, (i - 1) \div CeilDiv(NumPartitions, ExportGroups) + 1})
Members(g) == {i \in Partition : (i - 1) \div CeilDiv(NumPartitions, ExportGroups) + 1 = g}
Owners(f) == {j \in Partition : (j - 1) \div CeilDiv(NumPartitions, ImportFanin) + 1 = f}

Requesters(j, g) == {i \in Members(g) : global.requests[i][j] # {}}
Exports(f, g) == {Task("export", j, g) : j \in {o \in Owners(f) : Requesters(o, g) # {}}}

\* Merged bundles are named by the groups.  One of one export is that export.
Imports(i) ==
    {f \in 1 .. ImportFanin : \E j \in Owners(f) : global.requests[i][j] # {}}
Imported(i) ==
    LET merged(f) == IF Cardinality(Exports(f, GroupOf(i))) = 1 THEN Exports(f, GroupOf(i))
                     ELSE {Task("merge", f, GroupOf(i))}
    IN  UNION {merged(f) : f \in Imports(i)}

\* Mutant of Scattered: bucket_ranges has only the totals as arguments.
ScatteredNone(i) == {}

\* The arguments of bucket_ranges that carry no data, only the order.
Scattered(i) == TasksOf("scatter", i, 1 .. Tiles(i))

\* The tasks a task has as arguments.
Arguments(t) ==
    LET i == t.part
    IN  CASE t.kind = "scount" -> {One("splitters", i)}
          [] t.kind \in {"place", "totals"} -> TasksOf("scount", i, 1 .. Tiles(i))
          [] t.kind = "scatter" -> {One("place", i), One("splitters", i)}
          [] t.kind = "ranges" -> {One("totals", i)} \cup Scattered(i)
          [] t.kind = "bucket" -> {One("ranges", i)}
          [] t.kind = "count" -> {One("plan", i)}
          [] t.kind = "offsets" -> {One("plan", i)} \cup TasksOf("count", i, 1 .. TreeTasksOf(i))
          [] t.kind = "reserve" -> {One("plan", i), One("offsets", i)}
                                       \cup TasksOf("count", i, 1 .. TreeTasksOf(i))
          [] t.kind = "fill" -> {One("reserve", i), One("plan", i), One("offsets", i)}
          [] t.kind = "finish" -> {One("reserve", i), One("plan", i)}
                                      \cup TasksOf("fill", i, 1 .. TreeTasksOf(i))
          [] t.kind \in {"summarize", "export"} -> {TreeOf(i)}
          [] t.kind = "merge" -> Exports(i, t.k)
          [] t.kind = "assemble" -> {TreeOf(i)} \cup Imported(i)
          [] t.kind = "forces" -> {One("assemble", i)}
          [] OTHER -> {}

Runs(t) ==
    /\ t \in spawned \ done
    /\ Arguments(t) \subseteq done
    /\ done' = done \cup {t}

\* A task that only returns something.
Returns(t, value) ==
    /\ Runs(t)
    /\ result' = (t :> value) @@ result
    /\ UNCHANGED <<options, driver, blocks, tree, let, global, beside>>

----------------------------------------------------------------------------
(* Moving and sorting.  The pulls stay in their slots. *)

\* task_post_drift_box; nothing moves in a step that warms up.
Box(t) ==
    LET b(s) == buf[t.part][s]
        after(s) == IF step > 0 THEN b(s).x + b(s).d + acc[t.part][s].pull ELSE b(s).x
        places == {after(s) : s \in Slot(t.part)}
    IN  /\ t.kind = "box"
        /\ Returns(t, IF places = {} THEN {} ELSE {Min(places), Max(places)})

\* Mutant of LeadingKick: the trailing half kick that was left out is lost.
LeadingKickHalf == 1

\* kick_h, in half kicks.
LeadingKick == IF synced THEN 1 ELSE 2

\* task_move!
Moved(b, pull) ==
    LET d == IF step > 0 THEN b.d + LeadingKick * pull ELSE b.d
        x == IF step > 0 THEN b.x + d ELSE b.x
    IN  [id |-> b.id, x |-> x, d |-> d, key |-> MortonKey(global.dom, x)]

Move(t) ==
    /\ t.kind = "move" /\ Runs(t)
    /\ buf' = [buf EXCEPT ![t.part] =
                  [s \in DOMAIN @ |-> IF s \in Tile(t.part, t.k)
                                      THEN Moved(@[s], acc[t.part][s].pull) ELSE @[s]]]
    /\ UNCHANGED <<options, driver, result, sbuf, acc, tree, let, global, beside>>

MortonOrder(b, c) == b.key < c.key \/ (b.key = c.key /\ b.id < c.id)

\* task_sort!
Sort(t) ==
    /\ t.kind = "sort" /\ Runs(t)
    /\ buf' = [buf EXCEPT ![t.part] = SortSeq(@, MortonOrder)]
    /\ UNCHANGED <<options, driver, result, sbuf, acc, tree, let, global, beside>>

\* round, to even.
Round(a, b) ==
    LET up == (2 * a + b) \div (2 * b)
    IN  IF (2 * a + b) % (2 * b) = 0 /\ up % 2 = 1 THEN up - 1 ELSE up

\* task_sort_splitters, with so few bodies that all keys are sampled.
Splitters(t) ==
    LET n == SizeOf[t.part]
        sample == SortSeq([s \in Slot(t.part) |-> buf[t.part][s].key], <)
        cut(j) == Max({1, Min({Round(j * n, Tiles(t.part)), n})})
    IN  /\ t.kind = "splitters"
        /\ Returns(t, [j \in 1 .. Tiles(t.part) - 1 |-> sample[cut(j)]])

\* sort_bucket.
BucketOf(i, s) ==
    LET splitters == result[One("splitters", i)]
    IN  Cardinality({j \in DOMAIN splitters : splitters[j] <= buf[i][s].key}) + 1

InBucket(i, tile, b) == {s \in Tile(i, tile) : BucketOf(i, s) = b}

\* task_sort_count.
SortCount(t) ==
    /\ t.kind = "scount"
    /\ Returns(t, [b \in 1 .. Tiles(t.part) |-> Cardinality(InBucket(t.part, t.k, b))])

Counted(i, tile, b) == result[Task("scount", i, tile)][b]
BucketTotal(i, b) == MapThenSumSet(LAMBDA u : Counted(i, u, b), 1 .. Tiles(i))

\* task_sort_place: buckets after each other, in each the tiles.
Place(t) ==
    LET tiles == 1 .. Tiles(t.part)
        at(u, b) == 1 + MapThenSumSet(LAMBDA c : BucketTotal(t.part, c), 1 .. b - 1)
                      + MapThenSumSet(LAMBDA v : Counted(t.part, v, b), 1 .. u - 1)
    IN  /\ t.kind = "place"
        /\ Returns(t, [u \in tiles |-> [b \in tiles |-> at(u, b)]])

\* task_sort_totals.
Totals(t) ==
    /\ t.kind = "totals"
    /\ Returns(t, [b \in 1 .. Tiles(t.part) |-> BucketTotal(t.part, b)])

\* task_sort_scatter!
Scatter(t) ==
    LET i == t.part
        to(s) == result[One("place", i)][t.k][BucketOf(i, s)]
                     + Cardinality({r \in InBucket(i, t.k, BucketOf(i, s)) : r < s})
    IN  /\ t.kind = "scatter" /\ Runs(t)
        /\ sbuf' = [sbuf EXCEPT ![i] =
                       [p \in DOMAIN @ |->
                           IF \E s \in Tile(i, t.k) : to(s) = p
                           THEN buf[i][CHOOSE s \in Tile(i, t.k) : to(s) = p] ELSE @[p]]]
        /\ UNCHANGED <<options, driver, result, buf, acc, tree, let, global, beside>>

\* bucket_ranges.
Ranges(t) ==
    LET totals == result[One("totals", t.part)]
        upTo(b) == MapThenSumSet(LAMBDA c : totals[c], 1 .. b)
    IN  /\ t.kind = "ranges"
        /\ Returns(t, [b \in DOMAIN totals |-> upTo(b - 1) + 1 .. upTo(b)])

\* task_sort_bucket!: sorted in the scratch block and copied back.
SortBucket(t) ==
    LET i == t.part
        range == result[One("ranges", i)][t.k]
        sorted == SortSeq(SubSeq(sbuf[i], Min(range), Max(range)), MortonOrder)
        with(block) == [s \in DOMAIN block |->
                           IF s \in range THEN sorted[s - Min(range) + 1] ELSE block[s]]
    IN  /\ t.kind = "bucket" /\ Runs(t)
        /\ IF range = {} THEN UNCHANGED <<buf, sbuf>>
           ELSE /\ sbuf' = [sbuf EXCEPT ![i] = with(@)]
                /\ buf' = [buf EXCEPT ![i] = with(@)]
        /\ UNCHANGED <<options, driver, result, acc, tree, let, global, beside>>

----------------------------------------------------------------------------
(* The local tree, in one task or in several that fill ranges of one array. *)

KeyOf(i) == [id \in Ids(i) |-> buf[i][SlotOf(i, id)].key]
Serial(i) == BuildLocalTree(Ids(i), KeyOf(i))

\* The node of a cell of a tree whose cells are at these indices.
Node(full, b, index) ==
    [cell |-> b, mass |-> full[b].mass, items |-> full[b].items,
     kids |-> {index[c] : c \in full[b].kids}]
Undefined == [cell |-> RootBin, mass |-> Nothing, items |-> {}, kids |-> {}]

PreOrder(b, c) == b.first < c.first \/ (b.first = c.first /\ b.size > c.size)
IndexIn(seq, b) == CHOOSE n \in DOMAIN seq : seq[n] = b

SetsTree(t, nodes) ==
    /\ tree' = [tree EXCEPT ![t.part] = nodes]
    /\ UNCHANGED <<options, driver, blocks, let, global, beside>>

\* task_build_tree.
Build(t) ==
    LET full == Serial(t.part)
        cells == InOrder(DOMAIN full, PreOrder)
        index == [b \in DOMAIN full |-> IndexIn(cells, b)]
    IN  /\ t.kind = "build" /\ Runs(t)
        /\ SetsTree(t, [n \in DOMAIN cells |-> Node(full, cells[n], index)])
        /\ UNCHANGED result

\* The largest piece a task should get, and the cells that are cut for it.  The
\* cap on the pieces is above the number of bodies here.
PieceLimit(i) == Max({LeafCapacity, CeilDiv(SizeOf[i], TreeTasksOf(i))})
CutFor(i, b) ==
    /\ ~Closes(b, Ids(i), KeyOf(i))
    /\ Cardinality(Within(b, Ids(i), KeyOf(i))) > PieceLimit(i)

\* The largest first, each to the task with least to do.
Pack(sizes, tasks) ==
    LET given[n \in 0 .. Len(sizes)] ==
            IF n = 0 THEN <<>>
            ELSE LET before == given[n - 1]
                     load(g) == MapThenSumSet(LAMBDA m : sizes[m],
                                    {m \in DOMAIN before : before[m] = g})
                     least == {g \in tasks : \A h \in tasks : load(g) <= load(h)}
                 IN  Append(before, Min(least))
    IN  given[Len(sizes)]

\* task_tree_plan: the upper tree, and the stubs that are left by task.
Plan(t) ==
    LET i == t.part
        full == Serial(i)
        upper == {b \in DOMAIN full : \A a \in Above(b) : CutFor(i, a)}
        cells == InOrder(upper, SentinelLess)
        index == [b \in upper |-> IndexIn(cells, b)]
        node(b) == IF full[b].kids = {} THEN Node(full, b, index)
                   ELSE [Undefined EXCEPT !.cell = b,
                            !.kids = IF CutFor(i, b) THEN {index[c] : c \in full[b].kids}
                                     ELSE {}]
        stubs == {b \in upper : full[b].kids # {} /\ ~CutFor(i, b)}
        size(b) == Cardinality(Within(b, Ids(i), KeyOf(i)))
        larger(b, c) == size(b) > size(c) \/ (size(b) = size(c) /\ b.first < c.first)
        order == InOrder(stubs, larger)
        tasks == 1 .. Min({TreeTasksOf(i), Cardinality(stubs)})
        given == Pack([n \in DOMAIN order |-> size(order[n])], tasks)
        group(g) == SelectSeq([n \in DOMAIN order |->
                                  [cell |-> order[n], node |-> index[order[n]], task |-> given[n]]],
                              LAMBDA stub : stub.task = g)
    IN  /\ t.kind = "plan" /\ Runs(t)
        /\ result' = (t :> [g \in tasks |-> group(g)]) @@ result
        /\ SetsTree(t, [n \in DOMAIN cells |-> node(cells[n])])

\* group_range: the stubs of the task; there may be fewer groups than tasks.
Groups(i) == result[One("plan", i)]
Stubs(i) == FlattenSeq(Groups(i))
GroupRange(i, k) ==
    {n \in DOMAIN Stubs(i) : Stubs(i)[n].task = k}

Below(full, b) == {c \in DOMAIN full : b \in Path(c)}

\* task_tree_count.
Count(t) ==
    LET nodes(stub) == Cardinality(Below(Serial(t.part), stub.cell))
    IN  /\ t.kind = "count"
        /\ Returns(t, IF t.k \in DOMAIN Groups(t.part)
                      THEN [n \in DOMAIN Groups(t.part)[t.k] |->
                               nodes(Groups(t.part)[t.k][n])]
                      ELSE <<>>)

\* The counts of all tasks one after the other, as for the stubs.
Counts(i) == FlattenSeq([k \in 1 .. TreeTasksOf(i) |-> result[Task("count", i, k)]])

\* The index before the first node of a stub, its root being in the upper tree.
Offset(i, n) ==
    Len(tree[i]) + MapThenSumSet(LAMBDA m : Counts(i)[m] - 1, 1 .. n - 1)

\* task_tree_offsets.
Offsets(t) ==
    /\ t.kind = "offsets"
    /\ Returns(t, [n \in DOMAIN Counts(t.part) |-> Offset(t.part, n)])

\* task_tree_reserve: the array grows to what the offsets say, in place.
Reserve(t) ==
    LET i == t.part
        last == Len(Stubs(i))
        size == result[One("offsets", i)][last] + Counts(i)[last] - 1
    IN  /\ t.kind = "reserve" /\ Runs(t)
        /\ SetsTree(t, IF last = 0 THEN tree[i]
                       ELSE [n \in 1 .. size |->
                                IF n \in DOMAIN tree[i] THEN tree[i][n] ELSE Undefined])
        /\ UNCHANGED result

\* task_tree_fill!: what is below the stubs of a task, from their offsets on.
Fill(t) ==
    LET i == t.part
        full == Serial(i)
        cells(n) == InOrder(Below(full, Stubs(i)[n].cell) \ {Stubs(i)[n].cell}, PreOrder)
        index(n, b) == IF b = Stubs(i)[n].cell THEN Stubs(i)[n].node
                       ELSE result[One("offsets", i)][n] + IndexIn(cells(n), b)
        written(n) == [p \in {index(n, b) : b \in Below(full, Stubs(i)[n].cell)} |->
                          LET b == CHOOSE c \in Below(full, Stubs(i)[n].cell) : index(n, c) = p
                          IN  Node(full, b, [c \in full[b].kids |-> index(n, c)])]
        writers(p) == {n \in GroupRange(i, t.k) : p \in DOMAIN written(n)}
    IN  /\ t.kind = "fill" /\ Runs(t)
        /\ SetsTree(t, [p \in DOMAIN tree[i] |->
                           IF writers(p) = {} THEN tree[i][p] ELSE written(Max(writers(p)))[p]])
        /\ UNCHANGED result

\* task_tree_finish!: the masses above the stubs.
Finish(t) ==
    LET i == t.part
        stubs == {Stubs(i)[n].node : n \in DOMAIN Stubs(i)}
        mass[p \in DOMAIN tree[i]] ==
            IF p \in stubs \/ tree[i][p].kids = {} THEN tree[i][p].mass
            ELSE Total({[node |-> q, mass |-> mass[q]] : q \in tree[i][p].kids})
    IN  /\ t.kind = "finish" /\ Runs(t)
        /\ SetsTree(t, IF stubs = {} THEN tree[i]
                       ELSE [p \in DOMAIN tree[i] |-> [tree[i][p] EXCEPT !.mass = mass[p]]])
        /\ UNCHANGED result

\* The tree as one walks it from the root.
AsTree(i) ==
    LET level[n \in 0 .. Depth] ==
            IF n = 0 THEN {1} \cap DOMAIN tree[i]
            ELSE UNION {tree[i][p].kids \cap DOMAIN tree[i] : p \in level[n - 1]}
        reached == UNION {level[n] : n \in 0 .. Depth}
        at(b) == CHOOSE p \in reached : tree[i][p].cell = b
    IN  [b \in {tree[i][p].cell : p \in reached} |->
            [mass |-> tree[i][at(b)].mass, items |-> tree[i][at(b)].items,
             kids |-> {tree[i][p].cell : p \in tree[i][at(b)].kids \cap DOMAIN tree[i]}]]

\* task_summarize.
Summary(t) ==
    /\ t.kind = "summarize"
    /\ Returns(t, Summarize(AsTree(t.part), t.part, [s \in Slot(t.part) |-> buf[t.part][s].x]))

----------------------------------------------------------------------------
(* Locally essential trees and forces. *)

\* task_export, to the group t.k: what its members request, pruned for those
\* that request from this partition.
Export(t) ==
    LET keys == UNION {global.requests[i][t.part] : i \in Members(t.k)}
        boxes == UNION {global.cells[i] : i \in Requesters(t.part, t.k)}
    IN  /\ t.kind = "export"
        /\ Returns(t, ExportBundle(global.dom, AsTree(t.part), t.part, keys, boxes))

\* task_merge_bundles.
Merge(t) ==
    /\ t.kind = "merge"
    /\ Returns(t, UNION {result[e] : e \in Exports(t.part, t.k)})

\* task_assemble_let.
Assemble(t) ==
    LET i == t.part
        branches == {b.cell : b \in {c \in global.branches : c.owner = i}}
    IN  /\ t.kind = "assemble" /\ Runs(t)
        /\ let' = [let EXCEPT ![i] =
                      AssembleLet(global.dom, global.coarse, AsTree(i),
                                  UNION {result[m] : m \in Imported(i)},
                                  global.cells[i], branches, i)]
        /\ UNCHANGED <<options, driver, result, blocks, tree, global, beside>>

\* Where all bodies are, when none are moving.
Positions == [id \in Body |-> LET i == CHOOSE j \in Partition : id \in Ids(j)
                              IN  buf[i][SlotOf(i, id)].x]

\* task_forces!: the pull is to the side where more bodies are counted, the
\* potential is the distance.
Forces(t) ==
    LET i == t.part
        x == Positions
        seen(s) == Traverse(global.dom, let[i], x, buf[i][s].id, buf[i][s].key)
        pot(s) == MapThenSumSet(LAMBDA j : seen(s)[j] * Magnitude(x[j] - buf[i][s].x), Body)
        pull(s) == Sign(MapThenSumSet(LAMBDA j : seen(s)[j] * Sign(x[j] - buf[i][s].x), Body))
    IN  /\ t.kind = "forces" /\ Runs(t)
        /\ acc' = [acc EXCEPT ![i] =
                      [s \in DOMAIN @ |-> IF s \in Tile(i, t.k)
                                          THEN [pull |-> pull(s), seen |-> seen(s), pot |-> pot(s)]
                                          ELSE @[s]]]
        /\ UNCHANGED <<options, driver, result, buf, sbuf, tree, let, global, beside>>

\* task_kick!: half a kick.
Kick(t) ==
    /\ t.kind = "kick" /\ Runs(t)
    /\ buf' = [buf EXCEPT ![t.part] =
                  [s \in DOMAIN @ |-> [@[s] EXCEPT !.d = @ + acc[t.part][s].pull]]]
    /\ UNCHANGED <<options, driver, result, sbuf, acc, tree, let, global, beside>>

----------------------------------------------------------------------------
(* The driver. *)

BoxTasks == {One("box", i) : i \in Partition}
PullOf(id) == LET i == CHOOSE j \in Partition : id \in Ids(j) IN acc[i][SlotOf(i, id)].pull

\* build_sim: the bodies in Morton order are cut into blocks.  Then the first
\* step, or the forces for it, which come to the same.
Init ==
    \E start \in Starts, warmups \in Warmups :
        LET places == {start[id].x : id \in Body}
            dom == BoundingDomain(Min(places), Max(places))
            input == SortSeq([id \in Body |-> [id |-> id, x |-> start[id].x, d |-> start[id].d,
                                                key |-> MortonKey(dom, start[id].x)]], MortonOrder)
        IN  /\ parallel \in Sorts /\ overlap \in Overlaps
            /\ pc = "domain" /\ synced = TRUE
            /\ step = 1 - Max({1, warmups})
            /\ spawned = BoxTasks /\ done = {} /\ result = <<>>
            /\ buf = [i \in Partition |-> [s \in Slot(i) |-> input[(i - 1) * BlockSize + s]]]
            /\ sbuf = [i \in Partition |-> [s \in Slot(i) |-> [id |-> 0, x |-> 0, d |-> 0, key |-> 0]]]
            /\ acc = [i \in Partition |-> [s \in Slot(i) |-> [pull |-> 0, seen |-> Nothing, pot |-> 0]]]
            /\ tree = [i \in Partition |-> <<>>]
            /\ let = [i \in Partition |-> <<>>]
            /\ global = [dom |-> dom, branches |-> {}, coarse |-> <<>>, cells |-> <<>>, requests |-> <<>>]
            /\ energyLog = <<>> /\ frameSteps = <<>>
            /\ frameFiles = <<>> /\ csvFiles = <<>> /\ collection = {}
            /\ leapfrog = [id \in Body |-> [x |-> start[id].x, d |-> start[id].d]]

Spawns(tasks) == spawned' = spawned \cup tasks
Waited(kinds) == \A t \in spawned : t.kind \in kinds => t \in done
Drives == UNCHANGED <<options, done, result, blocks, tree, let, readings>>

\* update_domain!
UpdateDomain ==
    LET places == UNION {result[t] : t \in BoxTasks}
        drifted(id) == LET d == leapfrog[id].d + PullOf(id)
                       IN  [x |-> leapfrog[id].x + d, d |-> d]
    IN  /\ pc = "domain" /\ Waited({"box"}) /\ pc' = "move"
        /\ global' = [global EXCEPT !.dom = BoundingDomain(Min(places), Max(places))]
        /\ Spawns(UNION {TasksOf("move", i, 1 .. Tiles(i)) : i \in Partition})
        /\ leapfrog' = IF step > 0 THEN [id \in Body |-> drifted(id)] ELSE leapfrog
        /\ UNCHANGED <<step, synced>> /\ Drives

\* sort_partitions!
SortTasks(i) ==
    IF SizeOf[i] = 0 THEN {}
    ELSE IF ~SampleSorted(i) THEN {One("sort", i)}
    ELSE {One(kind, i) : kind \in {"splitters", "place", "totals", "ranges"}}
         \cup UNION {TasksOf(kind, i, 1 .. Tiles(i)) : kind \in {"scount", "scatter", "bucket"}}

SortPartitions ==
    /\ pc = "move" /\ Waited({"move"}) /\ pc' = "sort"
    /\ Spawns(UNION {SortTasks(i) : i \in Partition})
    /\ UNCHANGED <<step, synced, global, leapfrog>> /\ Drives

\* spawn_tree.
TreeTasksFor(i) ==
    IF ~Planned(i) THEN {One("build", i)}
    ELSE {One(kind, i) : kind \in {"plan", "offsets", "reserve", "finish"}}
         \cup UNION {TasksOf(kind, i, 1 .. TreeTasksOf(i)) : kind \in {"count", "fill"}}

BuildTrees ==
    /\ pc = "sort" /\ Waited({"sort", "bucket"}) /\ pc' = "build"
    /\ Spawns(UNION {TreeTasksFor(i) \cup {One("summarize", i)} : i \in Partition})
    /\ synced' = IF step > 0 THEN FALSE ELSE synced
    /\ UNCHANGED <<step, global, leapfrog>> /\ Drives

\* The rest of build_trees!; check_invariants! stops a run that has lost bodies.
CoarseFromSummaries ==
    LET branches == UNION {result[One("summarize", i)] : i \in Partition}
        coarse == CoarseTree(branches)
        cells == [i \in Partition |-> TargetCells(branches, i)]
        requests == [i \in Partition |-> [j \in Partition |->
                        Requests(global.dom, coarse, cells, i, j)]]
    IN  /\ pc = "build" /\ Waited({"summarize"})
        /\ overlap \/ Waited({"build", "finish"})
        /\ CountOf(coarse[RootBin].mass) = NumBodies
        /\ pc' = "coarse"
        /\ global' = [global EXCEPT !.branches = branches, !.coarse = coarse,
                                    !.cells = cells, !.requests = requests]
        /\ UNCHANGED <<step, synced, spawned, leapfrog>> /\ Drives

\* build_lets!
BuildLets ==
    LET merges(f, g) == IF Cardinality(Exports(f, g)) > 1 THEN {Task("merge", f, g)} ELSE {}
    IN  /\ pc = "coarse" /\ pc' = "lets"
        /\ Spawns({One("assemble", i) : i \in Partition}
                  \cup UNION {Exports(f, g) \cup merges(f, g) :
                                  f \in 1 .. ImportFanin, g \in 1 .. ExportGroups})
        /\ UNCHANGED <<step, synced, global, leapfrog>> /\ Drives

\* compute_interactions!
ComputeInteractions ==
    /\ pc = "lets"
    /\ overlap \/ Waited({"assemble"})
    /\ pc' = "forces"
    /\ Spawns(UNION {TasksOf("forces", i, 1 .. Tiles(i)) : i \in Partition})
    /\ UNCHANGED <<step, synced, global, leapfrog>> /\ Drives

\* What is wanted after a step; the last step's even if no interval ends there.
Wanted(interval) == interval > 0 /\ (step \in {0, Steps} \/ step % interval = 0)
Sync == step > 0 /\ (Wanted(EnergyInterval) \/ Wanted(VtkInterval) \/ step = Steps)

\* Half a kick if the velocities are wanted, and else no more in this step.
\* Those of the input are what they are.
AfterForces ==
    LET kicked(id) == [leapfrog[id] EXCEPT !.d = @ + PullOf(id)]
    IN  /\ pc = "forces" /\ Waited({"forces"})
        /\ pc' = IF Sync THEN "kick" ELSE IF step = 0 THEN "read" ELSE "next"
        /\ Spawns(IF Sync THEN {One("kick", i) : i \in Partition} ELSE {})
        /\ leapfrog' = IF step > 0 THEN [id \in Body |-> kicked(id)] ELSE leapfrog
        /\ UNCHANGED <<step, synced, global>> /\ Drives

\* The region ends.
AfterKick ==
    /\ pc = "kick" /\ Waited({"kick"}) /\ pc' = "read"
    /\ synced' = TRUE
    /\ UNCHANGED <<step, spawned, global, leapfrog>> /\ Drives

\* task_energy!, doubled.
Energy(i) == [ke |-> MapThenSumSet(LAMBDA s : buf[i][s].d ^ 2, Slot(i)),
              pe |-> MapThenSumSet(LAMBDA s : acc[i][s].pot, Slot(i))]

\* energies: their sums.
Energies == [step |-> step, ke |-> MapThenSumSet(LAMBDA i : Energy(i).ke, Partition),
             pe |-> MapThenSumSet(LAMBDA i : Energy(i).pe, Partition)]

\* write_vtk_piece and write_vtp_piece.
Piece(i) == {[id |-> buf[i][s].id, x |-> buf[i][s].x, d |-> buf[i][s].d,
              pull |-> acc[i][s].pull] : s \in Slot(i)}

\* write_csv_piece: a line for each body, without its pull.
CsvPiece(i) == [s \in Slot(i) |-> [id |-> buf[i][s].id, x |-> buf[i][s].x, d |-> buf[i][s].d]]

\* merge_csv_pieces.
MergedPieces == FlattenSeq([i \in Partition |-> CsvPiece(i)])

\* write_snapshot: numbered by how many there are, whatever the step.
WriteSnapshot ==
    LET files == {Len(frameSteps)} \X Partition
    IN  /\ frameFiles' = [f \in files |-> Piece(f[2])] @@ frameFiles
        /\ frameSteps' = Append(frameSteps, step)

\* write_final_state, under its two names.
WriteState == (IF step = 0 THEN "initial" ELSE "final") :> MergedPieces

\* write_pvd: the snapshots in the order of their times.
Collection(times) ==
    {[step |-> times[n], part |-> i, number |-> n - 1] : n \in DOMAIN times, i \in Partition}

\* What run_simulation does after the first forces and after a step that ends
\* with a kick.
TakeReadings ==
    LET stateWanted == (step = 0 /\ "initial" \in CsvStates)
                       \/ (step = Steps /\ "final" \in CsvStates)
        listed == step = Steps /\ VtkInterval > 0 /\ VtkFormat = "vtp"
    IN  /\ pc = "read" /\ pc' = "written"
        /\ energyLog' = IF Wanted(EnergyInterval) THEN Append(energyLog, Energies) ELSE energyLog
        /\ IF Wanted(VtkInterval) THEN WriteSnapshot ELSE UNCHANGED <<frameSteps, frameFiles>>
        /\ csvFiles' = IF stateWanted THEN WriteState @@ csvFiles ELSE csvFiles
        /\ collection' = IF listed THEN Collection(frameSteps') ELSE collection
        /\ UNCHANGED <<options, step, synced, spawned, done, result, blocks, tree, let,
                       global, leapfrog>>

NextStep ==
    /\ pc \in {"written", "next"} /\ step < Steps
    /\ pc' = "domain" /\ step' = step + 1
    /\ spawned' = BoxTasks /\ done' = {} /\ result' = <<>>
    /\ UNCHANGED <<options, synced, blocks, tree, let, global, beside>>

Terminated == pc = "written" /\ step = Steps /\ UNCHANGED vars

MoveAndSort(t) ==
    \/ Box(t) \/ Move(t) \/ Sort(t)
    \/ Splitters(t) \/ SortCount(t) \/ Place(t) \/ Totals(t)
    \/ Scatter(t) \/ Ranges(t) \/ SortBucket(t)

TreeAndForces(t) ==
    \/ Build(t) \/ Plan(t) \/ Count(t) \/ Offsets(t) \/ Reserve(t) \/ Fill(t) \/ Finish(t)
    \/ Summary(t) \/ Export(t) \/ Merge(t) \/ Assemble(t) \/ Forces(t) \/ Kick(t)

Driver ==
    \/ UpdateDomain \/ SortPartitions \/ BuildTrees \/ CoarseFromSummaries \/ BuildLets
    \/ ComputeInteractions \/ AfterForces \/ AfterKick \/ TakeReadings \/ NextStep

Next ==
    \/ Driver
    \/ \E t \in spawned \ done : MoveAndSort(t) \/ TreeAndForces(t)
    \/ Terminated

Spec == Init /\ [][Next]_vars

----------------------------------------------------------------------------
(* Properties. *)

\* When its sort has ended, every partition has its bodies in Morton order; when
\* all trees are there, each is the one that a single task would have built of
\* them: in whatever order the tasks of the sort and of the build have run.
TreesAsSerial ==
    \A i \in Partition :
        /\ pc = "sort" /\ Waited({"sort", "bucket"}) =>
              \A s \in Slot(i) : s + 1 \in Slot(i) => MortonOrder(buf[i][s], buf[i][s + 1])
        /\ pc = "build" /\ Waited({"build", "finish"}) => AsTree(i) = Serial(i)

\* A step's forces count every other body once for each body: what a partition
\* gets of others, merged for a group of partitions and pruned for their boxes,
\* has neither gaps nor its own bodies, and nothing the coarse tree also has.
SeenOnce ==
    pc \in {"kick", "next", "read"} =>
        \A i \in Partition : \A s \in Slot(i) :
            acc[i][s].seen = MassOf(Body \ {buf[i][s].id})

\* What is read after a step is what a leapfrog of two half kicks a step has
\* for the same pulls, although half kicks are left out and made up for, and
\* bodies change slots while their pulls do not; and all that is wanted is read:
\* energies, snapshots, of which each has files of its own and one entry for each
\* in the collection, and the states before and after, with every body once.
MatchesLeapfrog ==
    LET steps(interval) == {n \in 0 .. step : interval > 0 /\ (n \in {0, Steps} \/ n % interval = 0)}
        apart(i) == MapThenSumSet(LAMBDA j : Magnitude(leapfrog[j].x - leapfrog[i].x), Body)
    IN  /\ pc = "read" =>
              /\ \A i, j \in Partition : i # j => Ids(i) \cap Ids(j) = {}
              /\ \A i \in Partition : \A s \in Slot(i) :
                    [x |-> buf[i][s].x, d |-> buf[i][s].d] = leapfrog[buf[i][s].id]
        /\ pc = "written" =>
              /\ {energyLog[n].step : n \in DOMAIN energyLog} = steps(EnergyInterval)
              /\ Range(frameSteps) = steps(VtkInterval)
              /\ DOMAIN frameFiles = (0 .. Len(frameSteps) - 1) \X Partition
              /\ Wanted(VtkInterval) =>
                    /\ UNION {frameFiles[<<Len(frameSteps) - 1, i>>] : i \in Partition}
                          = {[id |-> i, x |-> leapfrog[i].x, d |-> leapfrog[i].d,
                              pull |-> PullOf(i)] : i \in Body}
                    /\ step = Steps /\ VtkFormat = "vtp" =>
                          \A f \in DOMAIN frameFiles :
                             {c.step : c \in {e \in collection : e.number = f[1] /\ e.part = f[2]}}
                                = {frameSteps[f[1] + 1]}
              /\ step = Steps => DOMAIN csvFiles = CsvStates
              /\ LET state == IF step = 0 THEN "initial" ELSE "final"
                     line(i) == [id |-> i, x |-> leapfrog[i].x, d |-> leapfrog[i].d]
                 IN  step \in {0, Steps} /\ state \in CsvStates =>
                        /\ Len(csvFiles[state]) = NumBodies
                        /\ Range(csvFiles[state]) = {line(i) : i \in Body}

\* The keys are those of a domain the bodies are in.  Stated by
\* simulation.jl of task_post_drift_box; the code does not keep it.
InDomain ==
    pc = "sort" =>
        \A i \in Partition : \A s \in Slot(i) :
            /\ global.dom.lo <= buf[i][s].x
            /\ buf[i][s].x <= global.dom.lo + global.dom.edge
=============================================================================

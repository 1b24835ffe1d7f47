------------------------------ MODULE TtgStep ------------------------------
(* The time steps of the TTG benchmark (src/ttg-parsec/src): the host builds a *)
(* tree and seeds a graph of tasks, which adds up moments towards the root,    *)
(* walks the tree for every leaf, adds up what the walks find and moves the    *)
(* bodies of a leaf as soon as its walk has ended.  A task runs when its data  *)
(* have arrived, in any order; aggregators wait for a known number of them.    *)
(*                                                                             *)
(* Bodies are on a line; half a kick changes the displacement per step by the  *)
(* pull.  One process: the stores of particles and of multipoles are its own.  *)
EXTENDS LineDomain, Masses

CONSTANTS
    MaxLeaves,   \* values of --max-leaf; MAX_LEVEL is Depth here
    Theta,       \* --theta
    Steps,       \* --steps
    Starts       \* the inputs: positions and displacements per step

ASSUME TtgStepAssumption ==
    /\ MaxLeaves \subseteq Nat \ {0} /\ Theta \in Nat \ {0} /\ Steps \in Nat \ {0}
    /\ \A start \in Starts : start \in [Body -> [x : Int, d : Int]]

VARIABLES
    maxLeaf,        \* the option of this run
    host,           \* "build", "fence" or "end"
    evaluation,     \* how many force evaluations are over, up to Steps + 1
    particles,      \* what step_particles is called with
    nodes,          \* the tree: for each node the particles below it
    dom,
    seeds,          \* seed_edge: leaves
    raw,            \* raw_edge: moments on their way to a parent
    completed,      \* done_edge has been signalled and not been taken
    descend,        \* descend_edge: targets and sources
    contribute,     \* contribute_edge: what a source has given to a target
    final,          \* final_edge
    leafParticles, multipoles,   \* the stores
    updated,        \* the result of step_particles, as far as it is there
    reference       \* bodies moved one after the other by all others

\* UpwardGraph and DownwardGraph: what is on the edges of the two passes.
upward == <<seeds, raw, completed>>
downward == <<descend, contribute, final>>

\* BHPass: both, joined by done_edge.
graph == <<upward, downward>>

\* LeafParticleStore and MultipoleStore, written in one pass and read in the other.
stores == <<leafParticles, multipoles>>

\* Tree, read only once it is built.
tree == <<nodes, dom>>
vars == <<maxLeaf, host, evaluation, particles, tree, graph, stores, updated, reference>>

----------------------------------------------------------------------------
(* The tree. *)

KeyOf(d, i) == MortonKey(d, particles[i].x)

\* build_recursive: the particles of a cell; a leaf has few or cannot be cut.
Inside(d, b) == {i \in Body : Covers(b, KeyOf(d, i))}
Few(b, S) == Cardinality(S) <= maxLeaf \/ b.size = 1

BuildRecursive(d) ==
    LET cells == {b \in Bin : /\ Inside(d, b) # {}
                              /\ \A a \in Above(b) : ~Few(a, Inside(d, a))}
    IN  [b \in cells |-> Inside(d, b)]

Leaves == {b \in DOMAIN nodes : Few(b, nodes[b])}
ChildrenOf(b) == IF b \in Leaves THEN {} ELSE Children(b) \cap DOMAIN nodes

\* Mutant of NumChildren: the first to come is enough.
FirstChild(b) == 1

\* num_children, the target of both aggregators.
NumChildren(b) == Cardinality(ChildrenOf(b))

----------------------------------------------------------------------------
(* The upward pass. *)

\* A store, and what is written to it.
Written(new, store) ==
    [b \in DOMAIN new \cup DOMAIN store |-> IF b \in DOMAIN new THEN new[b] ELSE store[b]]
Write(n, value, store) == Written([b \in {n} |-> value], store)

\* What a task of the graph sends and takes, and what it leaves alone.
Task == UNCHANGED <<maxLeaf, host, evaluation, particles, tree, reference>>

Moment(n, mass) == [to |-> Parent(n), from |-> n, mass |-> mass]

\* seed_leaf; run_bh_pass does not seed the only leaf of a tree.
SeedLeaf(n) ==
    /\ n \in seeds
    /\ seeds' = seeds \ {n}
    /\ leafParticles' = Write(n, nodes[n], leafParticles)
    /\ raw' = raw \cup {Moment(n, MassOf(nodes[n]))}
    /\ UNCHANGED <<completed, downward, multipoles, updated>> /\ Task

\* combine_up.
CombineUp(n) ==
    LET arrived == {r \in raw : r.to = n}
        multipole == Total(arrived)
    IN  /\ arrived # {} /\ Cardinality(arrived) = NumChildren(n)
        /\ multipoles' = Write(n, multipole, multipoles)
        /\ raw' = (raw \ arrived) \cup (IF n # RootBin THEN {Moment(n, multipole)} ELSE {})
        /\ completed' = (completed \/ n = RootBin)
        /\ UNCHANGED <<seeds, downward, leafParticles, updated>> /\ Task

----------------------------------------------------------------------------
(* The downward pass. *)

Pair(t, s) == [target |-> t, source |-> s]

\* seed_from_upward.
SeedFromUpward ==
    /\ completed /\ completed' = FALSE
    /\ descend' = descend \cup {Pair(t, RootBin) : t \in DOMAIN leafParticles}
    /\ UNCHANGED <<seeds, raw, contribute, final, stores, updated>> /\ Task

Magnitude(n) == IF n < 0 THEN -n ELSE n
CountOf(mass) == SumFunctionOnSet(mass, Body)

\* mac_accept_box: the source is far from all of the target's box.
MacAcceptBox(t, mass, s) ==
    LET count == CountOf(mass)
        sum == SumFunctionOnSet([i \in Body |-> mass[i] * particles[i].x], Body)
        distance == Magnitude((2 * CellFrom(dom, t) + CellSize(dom, t)) * count
                                  - 2 * KeySpace * sum)
    IN  2 * CellSize(dom, s) * count < Theta * (distance - CellSize(dom, t) * count)

\* What the particles of a target get of a leaf, and of a node that is far.
DirectSum(t, s) == [i \in nodes[t] |-> MassOf(leafParticles[s] \ {i})]
FromMultipole(t, s) == [i \in nodes[t] |-> multipoles[s]]

\* To the slot of the source's parent, or to the sink.
Contributes(t, s, seen, taken) ==
    IF s = RootBin
    THEN /\ final' = final \cup {[target |-> t, seen |-> seen]}
         /\ contribute' = contribute \ taken
    ELSE /\ contribute' = (contribute \ taken)
                              \cup {[to |-> Pair(t, Parent(s)), from |-> s, seen |-> seen]}
         /\ final' = final

Dispatch(p) ==
    LET t == p.target
        s == p.source
        far == s \notin Leaves /\ MacAcceptBox(t, multipoles[s], s)
    IN  /\ p \in descend
        /\ \/ /\ s \in Leaves \/ far
              /\ Contributes(t, s, IF far THEN FromMultipole(t, s) ELSE DirectSum(t, s), {})
              /\ descend' = descend \ {p}
           \/ /\ s \notin Leaves /\ ~far
              /\ descend' = (descend \ {p}) \cup {Pair(t, c) : c \in ChildrenOf(s)}
              /\ UNCHANGED <<contribute, final>>
        /\ UNCHANGED <<upward, stores, updated>> /\ Task

\* combine_down.
CombineDown(p) ==
    LET arrived == {c \in contribute : c.to = p}
        sum == [i \in nodes[p.target] |->
                   Total({[from |-> c.from, mass |-> c.seen[i]] : c \in arrived})]
    IN  /\ arrived # {} /\ Cardinality(arrived) = NumChildren(p.source)
        /\ Contributes(p.target, p.source, sum, arrived)
        /\ UNCHANGED <<upward, descend, stores, updated>> /\ Task

----------------------------------------------------------------------------
(* Integration, and the host. *)

Sign(n) == IF n > 0 THEN 1 ELSE IF n < 0 THEN -1 ELSE 0
Pull(i, seen) ==
    SumFunctionOnSet([j \in Body |-> seen[j] * Sign(particles[j].x - particles[i].x)], Body)

\* Mutant of KickDt: the last kick is as long as those before.
KickAfterFirst(n) == IF n = 0 THEN 1 ELSE 2

\* kick_dt and drift_dt of main's calls: in half kicks, and in steps.
KickDt(n) == IF n \in {0, Steps} THEN 1 ELSE 2
DriftDt(n) == IF n = Steps THEN 0 ELSE 1

\* kick_one and drift_one.
KickOne(b, pull) == [b EXCEPT !.d = @ + KickDt(evaluation) * pull]
DriftOne(b) == [b EXCEPT !.x = @ + DriftDt(evaluation) * b.d]

\* The callback of step_particles.
Integrated(b, pull) == DriftOne(KickOne(b, pull))

\* sink, with the callback of step_particles.
Sink(f) ==
    /\ f \in final /\ final' = final \ {f}
    /\ updated' = Written([i \in leafParticles[f.target] |->
                              Integrated(particles[i], Pull(i, f.seen[i]))], updated)
    /\ UNCHANGED <<upward, descend, contribute, stores>> /\ Task

Init ==
    \E start \in Starts :
        /\ maxLeaf \in MaxLeaves
        /\ host = "build" /\ evaluation = 0
        /\ particles = start /\ reference = start
        /\ nodes = <<>> /\ dom = BoundingDomain(0, 0)
        /\ seeds = {} /\ raw = {} /\ completed = FALSE
        /\ descend = {} /\ contribute = {} /\ final = {}
        /\ leafParticles = <<>> /\ multipoles = <<>> /\ updated = <<>>

\* step_particles, until it waits: the tree, a new graph, and its seeds.  The
\* only leaf of a tree is walked at once.
StepParticles ==
    LET places == {particles[i].x : i \in Body}
    IN  /\ host = "build" /\ host' = "fence"
        /\ dom' = BoundingDomain(Min(places), Max(places))
        /\ nodes' = BuildRecursive(dom')
        /\ IF Few(RootBin, Body)
           THEN /\ leafParticles' = [b \in {RootBin} |-> Body]
                /\ descend' = {Pair(RootBin, RootBin)}
                /\ seeds' = {}
           ELSE /\ leafParticles' = <<>>
                /\ descend' = {}
                /\ seeds' = {b \in DOMAIN nodes' : Few(b, nodes'[b])}
        /\ multipoles' = <<>> /\ updated' = <<>>
        /\ UNCHANGED <<maxLeaf, evaluation, particles, raw, completed, contribute, final, reference>>

Others(i) == Pull(i, MassOf(Body \ {i}))

\* Half a kick that ends a step, and half a kick and a drift that begin one.
ByOthers(i) ==
    LET ended == IF evaluation > 0 THEN reference[i].d + Others(i) ELSE reference[i].d
        begun == ended + Others(i)
    IN  IF evaluation = Steps THEN [x |-> reference[i].x, d |-> ended]
        ELSE [x |-> reference[i].x + begun, d |-> begun]

\* ttg::fence returns when no task is left.
Fence ==
    /\ host = "fence"
    /\ seeds = {} /\ raw = {} /\ ~completed
    /\ descend = {} /\ contribute = {} /\ final = {}
    /\ evaluation' = evaluation + 1
    /\ host' = IF evaluation = Steps THEN "end" ELSE "build"
    /\ particles' = updated
    /\ reference' = [i \in Body |-> ByOthers(i)]
    /\ UNCHANGED <<maxLeaf, tree, graph, stores, updated>>

\* main is through its evaluations: the last fence, and finalize.
Terminated == host = "end" /\ UNCHANGED vars

Next ==
    \/ StepParticles \/ Fence \/ Terminated
    \/ \E n \in seeds : SeedLeaf(n)
    \/ \E n \in {r.to : r \in raw} : CombineUp(n)
    \/ SeedFromUpward
    \/ \E p \in descend : Dispatch(p)
    \/ \E p \in {c.to : c \in contribute} : CombineDown(p)
    \/ \E f \in final : Sink(f)

Spec == Init /\ [][Next]_vars

----------------------------------------------------------------------------
(* Properties. *)

\* After every evaluation each body is where a leapfrog has it that adds up all
\* others for it, with half a kick at both ends of every step: no walk has left
\* out or counted twice a part of the tree, in whatever order tasks have run.
MatchesBruteForce ==
    host \in {"build", "end"} => particles = reference

\* The stores are read without their locks: when a task is there that reads
\* them, no task is left that writes to them, and what it reads is there.
StoresSettled ==
    descend # {} \/ completed \/ contribute # {} \/ final # {} =>
        /\ seeds = {} /\ raw = {}
        /\ DOMAIN leafParticles = Leaves
        /\ DOMAIN multipoles = DOMAIN nodes \ Leaves
=============================================================================

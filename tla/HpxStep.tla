------------------------------ MODULE HpxStep ------------------------------
(* The main loop of the HPX benchmark (src/hpx/src/main.cpp, load_balancing.cpp *)
(* and exchange.cpp), on several localities.                                    *)
(*                                                                              *)
(* Every locality runs the same program and meets the others only in            *)
(* collectives.  Each communicator counts its rounds, each locality its calls:  *)
(* a call is for the round of its number, so a locality that leaves out a call  *)
(* the others make waits for ever.  In between localities run freely; one may   *)
(* be in a later collective while another has yet to fetch what it was sent.    *)
EXTENDS HpxTree, SequencesExt

CONSTANTS
    Size,            \* the number of localities
    Steps,           \* t_end / dt
    RebalanceInterval,
    EnergyAt,        \* the steps with an energy sample (--energy, --et)
    OutputAt,        \* the steps with a snapshot (--vs)
    Paths,           \* where the bodies may go: keys for each step
    Policies,        \* --fc: tree, let, let_direct
    TimerGroups,     \* what may be given to --timers
    Endings          \* what follows the last step: gather, error, none

Site == 0 .. Size - 1
Root == 0

ASSUME HpxStepAssumption ==
    /\ Size \in Nat /\ Size > 1
    /\ Steps \in Nat \ {0}
    /\ RebalanceInterval \in Nat \ {0}
    /\ 0 \in OutputAt
    /\ \A path \in Paths : \A n \in 0 .. Steps - 1 : path[n] \in [Body -> Key]
    /\ Policies \subseteq {"tree", "let", "let_direct"}
    /\ TimerGroups \subseteq SUBSET {"all", "loadbal", "tree", "interactions", "output"}
    /\ Endings \subseteq {"gather", "error", "none"}

\* Collectives, in the order of a step.  The bounding box is reduced a second
\* time after a migration, through the same communicator; output waits for the
\* barrier that timers use.
Phase == {"bcast", "scatter", "bbox", "hist", "migrate", "rebbox", "exchange",
          "potential", "energy", "output", "timers", "gather", "error"}
Comm == (Phase \ {"rebbox", "output"}) \cup {"barrier"}
CommOf(phase) ==
    CASE phase = "rebbox" -> "bbox"
      [] phase = "output" -> "barrier"
      [] OTHER -> phase

VARIABLES
    path,       \* the keys the bodies have in each step
    policy,     \* fcPol
    ending,     \* is_reference, or whether there is a reference to compare with
    readable,   \* can the input be read?
    exact,      \* --energy-exact
    timed,      \* PhaseTimers::enabled
    pc,         \* per site: the collective it is in, or walk, start, done
    step,       \* per site
    calls,      \* per site: Ctx::gen_*, the calls made on each communicator
    posted,     \* per communicator: each site's last contribution, and the
                \* number of the round it is for
    begun,      \* per site: the timers it has started since its last call
    local,      \* per site: its bodies, in the order of its arrays
    acc,        \* per site: local_acc, which body's force in which step
    vel,        \* per body: the forces of its half-kicks so far
    keyOf,      \* the bodies' Morton keys
    domains,    \* per site: rank_domain_keys, the buckets of every rank
    splitters,  \* per site
    tree,       \* per site: my_tree, and the full tree when it is made of it
    remote,     \* per site: the records received
    files,      \* the files of frames, each with what it shows
    index,      \* the .pvd files: the steps of the frames they list
    final       \* final_ref.csv, or what enters the error

input == <<path, policy, ending, readable, exact, timed>>
comms == <<calls, posted, begun>>
motion == <<acc, vel>>
disk == <<files, index, final>>
vars == <<input, pc, step, comms, local, motion, keyOf, domains, splitters, tree, remote, disk>>

Bodies(s) == Range(local[s])

----------------------------------------------------------------------------
(* Collectives (hpx_collectives.h, and HPX's own). *)

Generation(comm, s) == posted[comm][s][1]
Contribution(comm, s) == posted[comm][s][2]

\* Whose contributions a call waits for.
Awaited(s, comm) ==
    CASE comm \in {"bcast", "scatter"} -> {Root}
      [] comm = "gather" -> IF s = Root THEN Site ELSE {}
      [] OTHER -> Site

Arrived(s, comm) ==
    \A q \in Awaited(s, comm) :
        IF comm = "barrier" THEN Generation(comm, q) >= calls[s][comm]
        ELSE Generation(comm, q) = calls[s][comm]

Enters(s, comm, value) ==
    /\ calls' = [calls EXCEPT ![s][comm] = @ + 1]
    /\ posted' = [posted EXCEPT ![comm][s] = <<calls[s][comm] + 1, value>>]

\* The site's call on the phase's communicator, with its contribution.
Call(s, phase, value) ==
    /\ pc' = [pc EXCEPT ![s] = phase]
    /\ Enters(s, CommOf(phase), value)
    /\ begun' = [begun EXCEPT ![s] = 0]

----------------------------------------------------------------------------
(* Timers (PhaseTimers of main.cpp): to start one waits for everybody.          *)

Rebalances(n) == n % RebalanceInterval = 0

\* parseTimerGroups and configure.
Enabled(groups) ==
    LET of == [loadbal |-> {"domain", "migrate"}, tree |-> {"build", "exchange"},
               interactions |-> {"interact", "energy"}, output |-> {"output"}]
        chosen == UNION {of[g] : g \in IF "all" \in groups THEN DOMAIN of ELSE groups}
    IN  IF chosen = {} THEN {} ELSE chosen \cup {"step"}

\* The timers a site starts before it makes its next call, or walks.
TimersAhead(s) ==
    CASE pc[s] \in {"scatter", "timers"} -> {"step", "domain"}
      [] pc[s] = "hist" -> IF Rebalances(step[s]) THEN {"migrate"} ELSE {"build", "exchange"}
      [] pc[s] = "rebbox" -> {"build", "exchange"}
      [] pc[s] = "exchange" -> {"interact"}
      [] pc[s] = "kicked" /\ step[s] \in EnergyAt -> {"energy"}
      [] pc[s] \in {"kicked", "energy"} /\ step[s] \in OutputAt -> {"output"}
      [] OTHER -> {}

\* After the last step's reduction of timers there is no other step.
Due(s) ==
    IF pc[s] = "timers" /\ step[s] + 1 = Steps THEN 0
    ELSE Cardinality(TimersAhead(s) \cap timed)

TimersStarted(s) ==
    /\ begun[s] = Due(s)
    /\ begun[s] > 0 => Arrived(s, "barrier")

\* PhaseTimers::start.
StartTimer(s) ==
    /\ pc[s] = "kicked" \/ (pc[s] \in Phase /\ (begun[s] = 0 => Arrived(s, CommOf(pc[s]))))
    /\ begun[s] < Due(s)
    /\ begun[s] > 0 => Arrived(s, "barrier")
    /\ Enters(s, "barrier", {})
    /\ begun' = [begun EXCEPT ![s] = @ + 1]
    /\ UNCHANGED <<input, disk, pc, step, local, motion, keyOf, domains, splitters, tree, remote>>

\* The site's call returns, the round of its number being complete, and the timers
\* of what follows run.
Returns(s, phase) ==
    /\ pc[s] = phase
    /\ begun[s] = 0 => Arrived(s, CommOf(phase))
    /\ TimersStarted(s)

----------------------------------------------------------------------------
(* Load balancing (load_balancing.cpp).  A bucket is a cell at BucketDepth.    *)

BucketSize == SizeAt[Depth - BucketDepth]
NumBuckets == SizeAt[BucketDepth]
Bucket(k) == k \div BucketSize
CellOf(bucket) == [first |-> bucket * BucketSize, size |-> BucketSize]

Histogram(S) ==
    [c \in 0 .. NumBuckets - 1 |-> Cardinality({i \in S : Bucket(keyOf[i]) = c})]

\* update_rank_domains: the splitter buckets.
Splitters(hist) ==
    LET total == SumFunction(hist)
        ideal == (total + Size - 1) \div Size
        upTo(c) == SumFunctionOnSet(hist, 0 .. c)
        chosen[c \in -1 .. NumBuckets - 1] ==
            IF c = -1 THEN <<>>
            ELSE LET before == chosen[c - 1]
                 IN  IF Len(before) < Size - 1 /\ upTo(c) >= (Len(before) + 1) * ideal
                     THEN Append(before, c) ELSE before
    IN  chosen[NumBuckets - 1]

\* upper_bound: the rank a bucket goes to.
RankOf(sp, bucket) == Cardinality({n \in DOMAIN sp : sp[n] <= bucket})

\* Mutant of Destination: lower_bound, where the domains have upper_bound.
DestinationLower(sp, bucket) == Cardinality({n \in DOMAIN sp : sp[n] < bucket})

\* rebalance_bodies works it out for itself.
Destination(sp, bucket) == RankOf(sp, bucket)

Domains(hist, sp) ==
    [r \in Site |-> {c \in DOMAIN hist : hist[c] > 0 /\ RankOf(sp, c) = r}]

\* A place of an array with so many before it, and the bodies of some places, each
\* after those of the places in ahead.
Nth(places, ahead, before) == CHOOSE n \in places : Cardinality(ahead[n]) = before
Placed(bodies, places, ahead) ==
    [m \in 1 .. Cardinality(places) |-> bodies[Nth(places, ahead, m - 1)]]

Outgoing(s, sp) ==
    [r \in Site |->
        LET going == {n \in DOMAIN local[s] : Destination(sp, Bucket(keyOf[local[s][n]])) = r}
        IN  Placed(local[s], going, [n \in going |-> {m \in going : m < n}])]

Arrivals(s) == FlattenSeq([n \in 1 .. Size |-> Contribution("migrate", n - 1)[s]])

\* Mutant of Incoming: the site's arrays are not cleared.
IncomingKept(s) == local[s] \o Arrivals(s)

\* rebalance_bodies, what a site has afterwards.
Incoming(s) == Arrivals(s)

----------------------------------------------------------------------------
(* Tree exchange (exchange.cpp). *)

\* What site s sends: its tree to everyone, or to each rank what it needs.
TreeSent(s, t, dom) ==
    IF policy = "tree"
    THEN [r \in Site |-> Records(t, s)]
    ELSE [r \in Site |-> IF r = s THEN {}
                         ELSE InteractionList(t, s, {CellOf(c) : c \in dom[r]})]

Received(s) == UNION {Contribution("exchange", q)[s] : q \in Site \ {s}}

\* exchangeFullTrees and computeAccelerationsWithLET, the merging;
\* computeAccelerationsWithRemoteDirectSum leaves the tree alone.
Merged(t, records) ==
    CASE policy = "tree" -> MergeSites(t, records, {r.from : r \in records} \cup {0})
      [] policy = "let" /\ records # {} ->
            MergeRecords(t, Records(PseudoTree(records), Root))
      [] OTHER -> t

----------------------------------------------------------------------------
(* What a body adds up, when cells of more than 1/reach of their distance count *)
(* as near.                                                                     *)

Near(i, reach) ==
    {b \in Bin : b.size >= reach * Gap(b, [first |-> keyOf[i], size |-> 1])}

\* computeAccelerations, ...WithLET and ...WithRemoteDirectSum.
Acceleration(s, i, reach) ==
    LET walked == Walk(tree[s], Near(i, reach), i, keyOf[i])
    IN  IF policy = "let_direct" THEN Plus(walked, Total(remote[s])) ELSE walked


\* energy_tree: what the walks had.
EnergyTree(s) == tree[s]

\* computeLocalPotentialEnergy and ...WithRemoteDirectSum.
Potential(s, i, reach) ==
    LET walked == PotentialWalk(EnergyTree(s), Near(i, reach), i, keyOf[i])
    IN  IF policy = "let_direct" THEN Plus(walked, Total(remote[s])) ELSE walked

----------------------------------------------------------------------------
(* Frames (io.cpp).  A site without bodies, or without records, writes no file; *)
(* the indexes name a file for each site all the same.                          *)

Kind == {"sim", "received_lets", "histogram"}

\* What an earlier run in the same directory has left.
Old == <<Steps>>

\* vis_step, the number of the frame.
VisStep(s) == Cardinality({n \in OutputAt : n < step[s]})

FileOf(kind, s, content) ==
    IF content = {} THEN {}
    ELSE {[kind |-> kind, frame |-> VisStep(s), part |-> s, content |-> content]}

\* writeSnapshot: place, velocity and acceleration of a site's bodies.
Snapshot(s) ==
    FileOf("sim", s, {<<local[s][n], keyOf[local[s][n]], vel[local[s][n]], acc[s][n]>> :
                         n \in DOMAIN local[s]})

\* writeReceivedLETs, with who sent what.
ReceivedLETs(s) ==
    IF policy = "let" THEN FileOf("received_lets", s, remote[s]) ELSE {}

\* The sum of the sites' histograms: nobody reduces another before the barrier.
GlobalHistogram ==
    [c \in 0 .. NumBuckets - 1 |->
        SumFunctionOnSet([q \in Site |-> Contribution("hist", q)[c]], Site)]

\* writeHistogram: the buckets that are not empty.
HistogramFile(s) ==
    LET hist == GlobalHistogram
    IN  IF s # Root THEN {}
        ELSE FileOf("histogram", s, {<<c, hist[c], RankOf(splitters[s], c)>> :
                                        c \in {b \in DOMAIN hist : hist[b] > 0}})

Listed == {"sim", "histogram"} \cup (IF policy = "let" THEN {"received_lets"} ELSE {})

\* updatePVDFile and its like: the first frame begins a new file.
Indexed(s) ==
    [kind \in Kind |-> IF kind \notin Listed THEN index[kind]
                       ELSE IF VisStep(s) = 0 THEN <<step[s]>>
                       ELSE Append(index[kind], step[s])]

\* local_entries: what is saved as the reference, or compared with it.
FinalEntries(s) == [n \in DOMAIN local[s] |-> <<local[s][n], keyOf[local[s][n]]>>]

----------------------------------------------------------------------------
(* The program of a locality (worker_main). *)

Init ==
    /\ path \in Paths
    /\ policy \in Policies
    /\ ending \in Endings
    /\ ending = "gather" => policy = "tree"
    /\ readable \in BOOLEAN
    /\ exact \in BOOLEAN
    /\ timed \in {Enabled(groups) : groups \in TimerGroups}
    /\ pc = [s \in Site |-> "start"]
    /\ step = [s \in Site |-> 0]
    /\ calls = [s \in Site |-> [c \in Comm |-> 0]]
    /\ begun = [s \in Site |-> 0]
    /\ posted = [c \in Comm |-> [s \in Site |-> <<0, {}>>]]
    /\ local = [s \in Site |-> <<>>]
    /\ acc = [s \in Site |-> <<>>]
    /\ vel = [i \in Body |-> <<>>]
    /\ keyOf = path[0]
    /\ domains = [s \in Site |-> [r \in Site |-> {}]]
    /\ splitters = [s \in Site |-> <<>>]
    /\ tree = [s \in Site |-> <<>>]
    /\ remote = [s \in Site |-> {}]
    /\ files = {} /\ final = <<>>
    /\ index = [kind \in Kind |-> Old]

\* Up to the broadcast of the number of bodies, or of an error.
Start(s) ==
    /\ pc[s] = "start"
    /\ Call(s, "bcast", IF s = Root THEN readable ELSE TRUE)
    /\ UNCHANGED <<input, disk, step, local, motion, keyOf, domains, splitters, tree, remote>>

\* counts and displs: the bodies a site starts with.
Slice(s) ==
    LET base == NumBodies \div Size
        rem == NumBodies % Size
        before == s * base + Min({s, rem})
        count == base + (IF s < rem THEN 1 ELSE 0)
    IN  [n \in 1 .. count |-> before + n]

Broadcast(s) ==
    /\ Returns(s, "bcast")
    /\ IF Contribution("bcast", Root)
       THEN Call(s, "scatter", IF s = Root THEN [r \in Site |-> Slice(r)] ELSE <<>>)
       ELSE pc' = [pc EXCEPT ![s] = "done"] /\ UNCHANGED comms
    /\ UNCHANGED <<input, disk, step, local, motion, keyOf, domains, splitters, tree, remote>>

\* The scatter, and the first step as far as the bounding box.
Scatter(s) ==
    /\ Returns(s, "scatter")
    /\ local' = [local EXCEPT ![s] = Contribution("scatter", Root)[s]]
    /\ Call(s, "bbox", {})
    /\ UNCHANGED <<input, disk, step, motion, keyOf, domains, splitters, tree, remote>>

\* Mutant of BoundingBox: a site without bodies does not reduce a histogram.
BoundingBoxIfAny(s) ==
    /\ Returns(s, "bbox")
    /\ IF local[s] = <<>> THEN Call(s, "exchange", [r \in Site |-> {}])
       ELSE Call(s, "hist", Histogram(Bodies(s)))
    /\ UNCHANGED <<input, disk, step, local, motion, keyOf, domains, splitters, tree, remote>>

\* The box is known, and with it the keys: update_rank_domains' reduction.
BoundingBox(s) ==
    /\ Returns(s, "bbox")
    /\ Call(s, "hist", Histogram(Bodies(s)))
    /\ UNCHANGED <<input, disk, step, local, motion, keyOf, domains, splitters, tree, remote>>

\* sortBodiesByMortonKey: stable, and all arrays but local_acc.
Sorted(bodies) ==
    LET key(n) == keyOf[bodies[n]]
        less(m, n) == key(m) < key(n) \/ (key(m) = key(n) /\ m < n)
        places == DOMAIN bodies
    IN  Placed(bodies, places, [n \in places |-> {m \in places : less(m, n)}])

\* Sorting, buildOctreeBottomUp and the exchange of trees.
BuildAndExchange(s, dom) ==
    LET t == BuildOctree(Bodies(s), keyOf)
    IN  /\ local' = [local EXCEPT ![s] = Sorted(@)]
        /\ tree' = [tree EXCEPT ![s] = t]
        /\ Call(s, "exchange", TreeSent(s, t, dom))

\* The domains are known: migrate, or go on with the bodies one has.
ReduceHistogram(s) ==
    LET sp == Splitters(GlobalHistogram)
        dom == Domains(GlobalHistogram, sp)
    IN  /\ Returns(s, "hist")
        /\ splitters' = [splitters EXCEPT ![s] = sp]
        /\ domains' = [domains EXCEPT ![s] = dom]
        /\ IF Rebalances(step[s])
           THEN Call(s, "migrate", Outgoing(s, sp)) /\ UNCHANGED <<local, tree>>
           ELSE BuildAndExchange(s, dom)
        /\ UNCHANGED <<input, disk, step, motion, keyOf, remote>>

Migrate(s) ==
    /\ Returns(s, "migrate")
    /\ local' = [local EXCEPT ![s] = Incoming(s)]
    /\ Call(s, "rebbox", {})
    /\ UNCHANGED <<input, disk, step, motion, keyOf, domains, splitters, tree, remote>>

BoundingBoxAgain(s) ==
    /\ Returns(s, "rebbox")
    /\ BuildAndExchange(s, domains[s])
    /\ UNCHANGED <<input, disk, step, motion, keyOf, domains, splitters, remote>>

\* The records are in, and merged: all is ready for the walks.
Exchange(s) ==
    /\ Returns(s, "exchange")
    /\ remote' = [remote EXCEPT ![s] = Received(s)]
    /\ tree' = [tree EXCEPT ![s] = Merged(@, Received(s))]
    /\ pc' = [pc EXCEPT ![s] = "walk"]
    /\ begun' = [begun EXCEPT ![s] = 0]
    /\ UNCHANGED <<input, disk, step, calls, posted, local, motion, keyOf, domains, splitters>>

\* A half-kick of all the bodies of a site, by the force in their place.
Kicked(s, forces) ==
    [i \in Body |-> IF i \in Bodies(s)
                    THEN Append(vel[i], forces[CHOOSE n \in DOMAIN local[s] : local[s][n] = i])
                    ELSE vel[i]]

\* What follows a step: the next one's opening kick and drift, or the end.
NextStep(s) ==
    /\ tree' = [tree EXCEPT ![s] = <<>>]
    /\ remote' = [remote EXCEPT ![s] = {}]
    /\ \/ /\ step[s] + 1 < Steps
          /\ step' = [step EXCEPT ![s] = @ + 1]
          /\ keyOf' = [i \in Body |-> IF i \in Bodies(s) THEN path[step[s] + 1][i]
                                      ELSE keyOf[i]]
          /\ vel' = Kicked(s, acc[s])
          /\ Call(s, "bbox", {})
       \/ /\ step[s] + 1 = Steps
          /\ IF ending = "none" THEN pc' = [pc EXCEPT ![s] = "done"] /\ UNCHANGED comms
             ELSE Call(s, ending, FinalEntries(s))
          /\ UNCHANGED <<step, keyOf, vel>>

\* endStep.
EndStep(s) ==
    IF timed = {} THEN NextStep(s)
    ELSE Call(s, "timers", {}) /\ UNCHANGED <<step, keyOf, vel, tree, remote>>

ReduceTimers(s) ==
    /\ Returns(s, "timers")
    /\ NextStep(s)
    /\ UNCHANGED <<input, disk, local, acc, domains, splitters>>

\* A frame's files are written before the barrier ...
Output(s) ==
    IF step[s] \in OutputAt
    THEN /\ files' = files \cup Snapshot(s) \cup ReceivedLETs(s) \cup HistogramFile(s)
         /\ Call(s, "output", {})
         /\ UNCHANGED <<step, keyOf, vel, tree, remote>>
    ELSE EndStep(s) /\ UNCHANGED files

\* The walks and the second half-kick.
Walks(s) ==
    LET forces == [n \in DOMAIN local[s] |-> <<local[s][n], step[s]>>]
    IN  /\ pc[s] = "walk"
        /\ acc' = [acc EXCEPT ![s] = forces]
        /\ vel' = Kicked(s, forces)
        /\ pc' = [pc EXCEPT ![s] = "kicked"]
        /\ UNCHANGED <<input, disk, step, comms, local, keyOf, domains, splitters, tree, remote>>

\* computeGlobalEnergy, if the step has a sample: the potential as what each body
\* adds up, which only the exact one needs all the others' bodies for.
SampleEnergy(s) ==
    /\ pc[s] = "kicked" /\ TimersStarted(s)
    /\ IF step[s] \in EnergyAt
       THEN /\ IF exact THEN Call(s, "potential", Bodies(s)) ELSE Call(s, "energy", {})
            /\ UNCHANGED <<step, keyOf, vel, tree, remote, files>>
       ELSE Output(s)
    /\ UNCHANGED <<input, local, acc, domains, splitters, index, final>>

\* computeLocalExactPotentialEnergy: over everybody's bodies but oneself, by id.
ExactPotential(s) ==
    LET all == [i \in Body |-> MapThenSumSet(
                   LAMBDA q : IF i \in Contribution("potential", q) THEN 1 ELSE 0, Site)]
    IN  [i \in Bodies(s) |-> Minus(all, MassOf({i}))]

GatherBodies(s) ==
    /\ Returns(s, "potential")
    /\ Call(s, "energy", ExactPotential(s))
    /\ UNCHANGED <<input, disk, step, local, motion, keyOf, domains, splitters, tree, remote>>

Energy(s) ==
    /\ Returns(s, "energy")
    /\ Output(s)
    /\ UNCHANGED <<input, local, acc, domains, splitters, index, final>>

\* ... and its entries in the indexes after it.
AfterOutput(s) ==
    /\ Returns(s, "output")
    /\ index' = IF s = Root THEN Indexed(s) ELSE index
    /\ EndStep(s)
    /\ UNCHANGED <<input, local, acc, domains, splitters, files, final>>

\* performReferenceAndErrorAnalysis.
Finish(s) ==
    /\ Returns(s, ending)
    /\ pc' = [pc EXCEPT ![s] = "done"]
    /\ final' = IF s = Root
                THEN FlattenSeq([n \in 1 .. Size |-> Contribution(ending, n - 1)]) ELSE final
    /\ UNCHANGED <<input, files, index, step, comms, local, motion, keyOf, domains, splitters, tree, remote>>

SiteNext(s) ==
    \/ Start(s) \/ Broadcast(s) \/ Scatter(s)
    \/ BoundingBox(s) \/ ReduceHistogram(s) \/ Migrate(s) \/ BoundingBoxAgain(s)
    \/ Exchange(s) \/ Walks(s) \/ SampleEnergy(s) \/ GatherBodies(s) \/ Energy(s)
    \/ AfterOutput(s) \/ StartTimer(s) \/ ReduceTimers(s) \/ Finish(s)

Next == \E s \in Site : SiteNext(s)

Spec == Init /\ [][Next]_vars

\* No locality stops running.
FairSpec == Spec /\ \A s \in Site : WF_vars(SiteNext(s))

----------------------------------------------------------------------------
(* Properties. *)

Sampling == {"potential", "energy"}
HasDomains == {"migrate", "rebbox", "exchange", "walk", "kicked", "output", "timers"} \cup Sampling
InLoop == {"bbox", "hist"} \cup HasDomains

\* How many migrations a site has fetched its bodies of.
Fetched(s) == calls[s]["migrate"] - (IF pc[s] = "migrate" THEN 1 ELSE 0)

\* A body is never lost or doubled in a migration: from the scatter on it is
\* with one site, or in one contribution whose receiver has yet to fetch it,
\* although sites fetch theirs at different times (rebalance_bodies).
BodiesKept ==
    (\A s \in Site : pc[s] \in InLoop) =>
       \A i \in Body :
          Cardinality({s \in Site : pc[s] # "migrate" /\ i \in Bodies(s)})
            + Cardinality({e \in Site \X Site :
                  /\ Generation("migrate", e[1]) = Fetched(e[2]) + 1
                  /\ i \in Range(Contribution("migrate", e[1])[e[2]])}) = 1

\* Every site works out the domains for itself, and they are the same in the
\* same step; and in a step that migrates, every body is where they say, which
\* is what the trees sent to its site are made for (update_rank_domains,
\* rebalance_bodies).
DomainsAgree ==
    \A s \in Site : pc[s] \in HasDomains =>
       /\ \A q \in Site : pc[q] \in HasDomains /\ step[q] = step[s] =>
             domains[q] = domains[s] /\ splitters[q] = splitters[s]
       /\ Rebalances(step[s]) /\ pc[s] # "migrate" =>
             \A i \in Bodies(s) : Bucket(keyOf[i]) \in domains[s][s]

\* How near a walk may find what it comes to.
Reaches == {0, 1, 2}

OwnTree(s) == BuildOctree(Bodies(s), keyOf)

\* Body j came in a record for a cell where the receiver has an internal node,
\* of its own or of a site merged before.
Shadowed(s, j) ==
    \E r \in remote[s] :
       /\ r.mass[j] > 0 /\ r.leaf
       /\ \/ StaysInternal(OwnTree(s), r.cell)
          \/ \E q \in remote[s] :
                q.cell = r.cell /\ ~q.leaf /\ q.from < r.from
                /\ r.cell \notin DOMAIN OwnTree(s)

\* However near or far a walk finds what it comes to, a body adds up every
\* body of its own site once, itself never, and every remote body once - with
\* the whole trees, with the merged essential ones and with direct sums -
\* except bodies that are Shadowed (see MassConserved), and, with essential
\* trees, when the step's domains leave its site no bucket.
SeenOnce ==
    \A s \in Site : pc[s] = "walk" =>
       \A i \in Bodies(s), reach \in Reaches :
          LET seen == Acceleration(s, i, reach)
          IN  \A j \in Body :
                 IF j = i THEN seen[j] = 0
                 ELSE IF j \in Bodies(s) THEN seen[j] = 1
                 ELSE IF policy = "let_direct" \/ ~Shadowed(s, j)
                 THEN seen[j] = (IF policy = "tree" \/ domains[s][s] # {} THEN 1 ELSE 0)
                 ELSE seen[j] <= 1

\* "The receiver has no children for it and would otherwise open it and
\* silently drop its mass": no mass is dropped.
MassConserved ==
    \A s \in Site : pc[s] = "walk" /\ domains[s][s] # {} =>
       \A i \in Bodies(s), reach \in Reaches :
          \A j \in Body \ {i} : Acceleration(s, i, reach)[j] = 1

\* Every step drifts a whole dt: the time of the positions after step n, in
\* halves of dt.
HalfDrifts(n) == 2 * (n + 1)

\* The half-kicks of body i up to the end of step n, each by its own force, two
\* from the same force where one step closes and the next opens.  Step 0 opens
\* without one, so that there is one fewer than there are half drifts: the
\* velocities are half a step behind.
HalfKicks(i, n) == [k \in 1 .. HalfDrifts(n) - 1 |-> <<i, (k - 1) \div 2>>]

\* "Positions and velocities are time-synchronised at exactly this point of the
\* KDK leapfrog": a sample of the energy has velocities with as many half-kicks
\* as its positions have half drifts.  The code, which leaves out the opening
\* kick of step 0, does not keep it.
Synchronised ==
    \A s \in Site : pc[s] \in Sampling =>
       \A i \in Bodies(s) : Len(vel[i]) = HalfDrifts(step[s])

\* What enters a sample of the energy is of the sample's step, the velocities
\* half a step behind the positions: each has its body's own forces, although
\* the arrays have been sent away and sorted in between and local_acc has not;
\* the potential adds up what the forces did ("if the acceptance criterion in
\* traversal.cpp changes, change it here too"), and the exact one every other
\* body once.
SampleOfStep(s) ==
    \A i \in Bodies(s) :
       /\ vel[i] = HalfKicks(i, step[s])
       /\ IF exact
          THEN pc[s] = "energy" => Contribution("energy", s)[i] = MassOf(Body \ {i})
          ELSE \A reach \in Reaches : Potential(s, i, reach) = Acceleration(s, i, reach)

\* The n-th frame, of step t: its files show every body once, with the position,
\* the velocity half a step behind it and the force of that step, and its
\* histogram counts them all.
FrameWhole(n, t) ==
    LET shown(kind) == {f \in files : f.kind = kind /\ f.frame = n}
    IN  /\ UNION {f.content : f \in shown("sim")}
              = {<<i, path[t][i], HalfKicks(i, t), <<i, t>>>> : i \in Body}
        /\ MapThenSumSet(LAMBDA f : Cardinality(f.content), shown("sim")) = NumBodies
        /\ \A f \in shown("histogram") :
              MapThenSumSet(LAMBDA c : c[2], f.content) = NumBodies


\* Every locality gets through all the collectives and ends: none leaves out a
\* call the others make, whatever bodies it has.
SitesFinish == <>(\A s \in Site : pc[s] = "done")
============================================================================

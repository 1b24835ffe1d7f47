--------------------------- MODULE CharmTraversal ---------------------------
(* The tree walks of one step of the Charm++ benchmark                        *)
(* (src/charm/DataManager.cpp, TreePiece.cpp, Traversal_defs.h, Worker.h,     *)
(* Request.cpp).                                                              *)
(*                                                                            *)
(* Every TreePiece walks its PE's tree twice for each of its buckets, a few   *)
(* buckets (a group) at a time: a local walk over the PE's own part, and a    *)
(* remote walk over the rest, which fetches what is below a Remote leaf it    *)
(* opens, or the particles of a RemoteBucket, from a PE that owns it.  The PE *)
(* asks for each once; the walks that wait for it resume where they were when *)
(* it comes.  A PE that is asked before its own tree is ready keeps the       *)
(* request.  What a PE fetched hangs in its own tree, and goes out again with *)
(* the nodes it serves.  When all PEs are finished the trees are thrown away. *)
EXTENDS CharmTree, SequencesExt

CONSTANTS
    CacheLine,       \* globalParams.cacheLineSize: levels fetched at once
    GroupSize,       \* WALK_GROUP_MAX_BUCKETS: buckets that walk together
    GroupParticles,  \* globalParams.walkGroupParticles: and their particles
    YieldPeriod,     \* globalParams.yieldPeriod: buckets walked in one go
    Reach            \* how far away a node is opened, as a part of its size

ASSUME TraversalAssumption ==
    /\ CacheLine \in Nat \ {0} /\ YieldPeriod \in Nat \ {0}
    /\ GroupSize \in Nat \ {0} /\ GroupParticles \in Nat
    /\ Reach \subseteq Nat

VARIABLES
    reach,           \* the opening criterion of this run, from Reach
    phase,           \* per PE: where it is in the step
    nodeTable,       \* DataManager::nodeTable, per PE: the nodes it built
    cached,          \* per PE, the nodes it fetched: Node::isCached
    fetched,         \* per PE: the RemoteBuckets whose particles it has
    sent,            \* Request::sent, per PE: <<kind, node>>
    waiting,         \* Request::requestors, per PE
    buffered,        \* bufferedNodeRequests and bufferedParticleRequests
    requests,        \* RequestMsgs in flight
    replies,         \* NodeReplyMsgs and ParticleReplyMsgs in flight
    walkGroups,      \* TreePiece::walkGroups: sets of buckets
    prepared,        \* the TreePieces a startTraversal is on its way to
    current,         \* State::current, per TreePiece and side: groups begun
    pending,         \* State::pending, the same
    walksDone,       \* TreePiece::numTraversalsDone
    reports,         \* traversalsDone calls in flight, per TreePiece
    piecesDone,      \* DataManager::numTreePiecesDoneTraversals
    seen             \* traversalMass, per bucket

\* DataManager's tree, what it has fetched, and whom it has yet to serve.
serving == <<nodeTable, cached, fetched, buffered>>

\* The Requests of its tables, with their Requestors.
asking == <<sent, waiting, requests>>

\* The TreePieces.
walking == <<walkGroups, prepared, current, pending, walksDone, reports, piecesDone, seen>>
vars == <<input, reach, phase, serving, asking, replies, walking>>

\* LocalTraversalWorker and RemoteTraversalWorker.
Side == {"local", "remote"}
LocalPieces(pe) == {t \in TreePiece : homeOf[t] = pe}

\* What hangs f's entries into g.
Extended(f, g) ==
    [x \in DOMAIN f \cup DOMAIN g |-> IF x \in DOMAIN f THEN f[x] ELSE g[x]]

\* The nodes below DataManager::root.
Tree(pe) == Extended(cached[pe], nodeTable[pe])

----------------------------------------------------------------------------
(* Which buckets a TreePiece walks for (startTraversal, formWalkGroups). *)

\* TreePieceDescriptor::largestKey, which is 0 without particles.
LargestKey(t) == IF tpCounts[t] > 0 THEN keyRanges[2 * t + 1] ELSE 0

\* The buckets of pe are cut at the first whose first key is not below the
\* TreePiece's largest; the last TreePiece takes what is left.
PieceOf(pe, b) ==
    Min({t \in LocalPieces(pe) : b.first < LargestKey(t)} \cup {Max(LocalPieces(pe))})

BucketsOf(t) ==
    LET nodes == nodeTable[homeOf[t]]
    IN  {b \in DOMAIN nodes : nodes[b].type = "Bucket" /\ PieceOf(homeOf[t], b) = t}

\* formWalkGroups: in key order, a group is closed when it has GroupSize buckets
\* or the next one's particles would be too many.
Groups(pe, buckets) ==
    LET particles(group) == Cardinality(UNION {Mine(pe, b) : b \in group})
        closed(group, b) == \/ Cardinality(group) = GroupSize
                            \/ particles(group \cup {b}) > GroupParticles
        join(groups, b) ==
            IF groups = <<>> \/ closed(Last(groups), b)
            THEN Append(groups, {b})
            ELSE [groups EXCEPT ![Len(groups)] = @ \cup {b}]
    IN  FoldLeft(join, <<>>, [i \in 1 .. Cardinality(buckets) |-> At(buckets, i)])
NumGroups(t) == Len(walkGroups[t])

\* allBuckets: the mask a group starts its walk with.
AllBuckets(t, g) == walkGroups[t][g]

\* The last group walked before the walk that has done g of them yields.
Until(t, g) ==
    Min({h \in g + 1 .. NumGroups(t) :
            Cardinality(UNION {walkGroups[t][i] : i \in g + 1 .. h}) >= YieldPeriod}
        \cup {NumGroups(t)})

----------------------------------------------------------------------------
(* One walk (gravityWalk, gravityLeaf, TraversalWorker). *)

\* Mutant of Keep: the remote walk passes RemoteBuckets over.
KeepNoRemoteBucket(side) == IF side = "local" THEN {"Internal", "Bucket", "Boundary"}
                                             ELSE {"Boundary", "Remote"}

\* keepTable.
Keep(side) == IF side = "local" THEN {"Internal", "Bucket", "Boundary"}
                                ELSE {"Boundary", "Remote", "RemoteBucket"}

\* "only one of the two may apply it: the local traversal does".
Applies(side, type) == type # "Boundary" \/ side = "local"

\* The opening criterion, on distance and size.  It is the same function of
\* node and bucket in every walk, which is all that matters here.
Opens(k, b) ==
    LET distance == IF k.first < b.first THEN b.first - k.first ELSE k.first - b.first
    IN  distance < reach * k.size

\* What the walk applies to a bucket on the way: the nodes that do not open for
\* it (visit), and the particles of the leaves it reaches (applyParticles).
OfNodes(nodes, accepted) == MapThenSumSet(LAMBDA k : nodes[k].mass, accepted)
OfParticles(particles, reached) == MapThenSumSet(LAMBDA k : Mass(particles[k]), reached)

\* Both, for each bucket of the mask: in the lanes of a packet, or in lists of
\* sources, until the walk ends.
Gathered(mask, nodes, accepted, particles, reached) ==
    [b \in mask |-> OfNodes(nodes, accepted[b]) + OfParticles(particles, reached[b])]

\* A walk of the buckets `mask' from the nodes `starts', down pe's tree `nodes',
\* with the particles `held' has of RemoteBuckets: the mass each bucket sees,
\* and the leaves it has to wait for, with the buckets that opened them.
Walk(pe, nodes, held, side, starts, mask) ==
    LET below == {k \in DOMAIN nodes :
                     \E s \in starts : Covers(s, k.first) /\ k.size <= s.size}
        kept == {k \in below : nodes[k].type \in Keep(side)}
        came(open, k) == IF k \in starts THEN mask ELSE open[Parent(k)]
        opened[k \in below] ==
            IF k \in kept THEN {b \in came(opened, k) : Opens(k, b)} ELSE {}
        leaves == {k \in kept : nodes[k].numChildren = 0 /\ opened[k] # {}}
        particles == Extended([k \in {l \in leaves : nodes[l].type = "Bucket"} |-> Mine(pe, k)],
                              held)
        accepted == [b \in mask |-> {k \in kept : /\ Applies(side, nodes[k].type)
                                                  /\ b \in came(opened, k) \ opened[k]}]
        reached == [b \in mask |->
                       {k \in leaves \cap DOMAIN particles : b \in opened[k]}]
    IN  [seen |-> Gathered(mask, nodes, accepted, particles, reached),
         asks |-> {[kind |-> IF nodes[k].type = "Remote" THEN "node" ELSE "particles",
                    node |-> k, mask |-> opened[k]] :
                      k \in {l \in leaves \ DOMAIN particles :
                                nodes[l].type \in {"Remote", "RemoteBucket"}}}]

\* endWalk, of walks of disjoint masks: what they gathered goes to the buckets.
Adding(walks) ==
    [b \in DOMAIN seen |->
        seen[b] + MapThenSumSet(LAMBDA w : w.seen[b], {w \in walks : b \in DOMAIN w.seen})]

\* requestNode and requestParticles on the asking PE: the first to ask for a
\* node sends for it, to an owner with particles or, for a RemoteBucket, its
\* only owner; all are put down.  With no such owner the PE aborts.
Ask(pe, nodes, asks) ==
    LET keys == {<<a.kind, a.node>> : a \in asks} \ sent[pe]
        servers(key) == LET o == nodes[key[2]].owners
                        IN  IF key[1] = "node" THEN Serving(o) ELSE {o.start}
    IN  /\ sent' = [sent EXCEPT ![pe] = @ \cup keys]
        /\ \E server \in [keys -> TreePiece] :
              /\ \A key \in keys : server[key] \in servers(key)
              /\ requests' = requests \cup
                    {[to |-> homeOf[server[key]], kind |-> key[1], node |-> key[2],
                      from |-> pe] : key \in keys}

\* Mutant of Left: the walks that are now waiting are not counted.
LeftOfGroups(count, asks, ended) == count - ended

\* State::reset, before there is anything to wait for, and to wait for p.
Reset(p) == [side \in Side |-> p]

\* State::pending after walks that wait for `asks' more (incrPending) and of
\* which `ended' have come to their end (decrPending).
Left(count, asks, ended) == count + asks - ended

\* traversalDone, for the walks that end: the second of a TreePiece reports.
TraversalDone(ending) ==
    LET done(t) == walksDone[t] + Cardinality({e \in ending : e[1] = t})
    IN  /\ walksDone' = [t \in TreePiece |-> IF done(t) >= 2 THEN 0 ELSE done(t)]
        /\ reports' = [t \in TreePiece |-> reports[t] + done(t) \div 2]

----------------------------------------------------------------------------
(* Serving requests. *)

\* Node::serialize and deserialize: the nodes below k, CacheLine levels of
\* them; those at the last level come without children.  The server's own nodes
\* become remote ones.
Serialized(nodes, k) ==
    LET levels(c) == Cardinality(Path(c) \ Path(k))
        sub == {c \in DOMAIN nodes :
                   Covers(k, c.first) /\ c.size < k.size /\ levels(c) <= CacheLine}
        remote(c) == [nodes[c] EXCEPT !.type = MakeRemote(@)]
    IN  [c \in sub |-> IF levels(c) = CacheLine THEN [remote(c) EXCEPT !.numChildren = 0]
                                                ELSE remote(c)]

\* What is sent for a node, and for particles.
Reply(pe, nodes, r) ==
    [to |-> r.from, kind |-> r.kind, node |-> r.node,
     nodes |-> IF r.kind = "node" THEN Serialized(nodes, r.node) ELSE <<>>,
     particles |-> IF r.kind = "node" THEN {} ELSE Mine(pe, r.node)]

----------------------------------------------------------------------------

\* Every PE's moments have come in or will (CharmTreeBuild); a PE whose root is
\* a Bucket never has its tree ready, and the step is not taken.
Init ==
    /\ Input
    /\ \A pe \in PE : walked[pe][RootBin].type # "Bucket"
    /\ reach \in Reach
    /\ phase = [pe \in PE |-> "building"]
    /\ nodeTable = [pe \in PE |-> FinalTree(pe)]
    /\ cached = [pe \in PE |-> <<>>]
    /\ fetched = [pe \in PE |-> <<>>]
    /\ sent = [pe \in PE |-> {}]
    /\ waiting = [pe \in PE |-> {}]
    /\ buffered = [pe \in PE |-> {}]
    /\ requests = {}
    /\ replies = {}
    /\ walkGroups = [t \in TreePiece |-> <<>>]
    /\ prepared = {}
    /\ current = [t \in TreePiece |-> [side \in Side |-> 0]]
    /\ pending = [t \in TreePiece |-> Reset(-1)]
    /\ walksDone = [t \in TreePiece |-> 0]
    /\ reports = [t \in TreePiece |-> 0]
    /\ piecesDone = [pe \in PE |-> 0]
    /\ seen = [b \in Bin |-> 0]

\* treeReady, flushBufferedRemoteDataRequests, startTraversal.
TreeReady(pe) ==
    /\ phase[pe] = "building"
    /\ phase' = [phase EXCEPT ![pe] = IF LocalPieces(pe) = {} THEN "finished"
                                                             ELSE "walking"]
    /\ buffered' = [buffered EXCEPT ![pe] = {}]
    /\ replies' = replies \cup {Reply(pe, Tree(pe), r) : r \in buffered[pe]}
    /\ prepared' = prepared \cup LocalPieces(pe)
    /\ UNCHANGED <<input, reach, nodeTable, cached, fetched, asking, walkGroups, current,
                   pending, walksDone, reports, piecesDone, seen>>

\* TreePiece::startTraversal.
StartTraversal(t) ==
    LET groups == Groups(homeOf[t], BucketsOf(t))
    IN  /\ t \in prepared
        /\ prepared' = prepared \ {t}
        /\ walkGroups' = [walkGroups EXCEPT ![t] = groups]
        /\ IF groups = <<>>
           THEN TraversalDone({<<t, side>> : side \in Side}) /\ UNCHANGED pending
           ELSE /\ pending' = [pending EXCEPT ![t] = Reset(Len(groups))]
                /\ UNCHANGED <<walksDone, reports>>
        /\ UNCHANGED <<input, reach, phase, serving, asking, replies, current,
                       piecesDone, seen>>

\* doLocalGravity and doRemoteGravity, up to where they yield.
DoGravity(t, side) ==
    LET pe == homeOf[t]
        begun == current[t][side] + 1 .. Until(t, current[t][side])
        walks == {Walk(pe, Tree(pe), fetched[pe], side, {RootBin}, AllBuckets(t, g)) :
                     g \in begun}
        asks == UNION {w.asks : w \in walks}
        left == Left(pending[t][side], Cardinality(asks), Cardinality(begun))
    IN  /\ pending[t][side] > 0 /\ current[t][side] < NumGroups(t)
        /\ seen' = Adding(walks)
        /\ Ask(pe, Tree(pe), asks)
        /\ waiting' = [waiting EXCEPT ![pe] = @ \cup
                          {[kind |-> a.kind, node |-> a.node, tp |-> t, mask |-> a.mask] :
                              a \in asks}]
        /\ current' = [current EXCEPT ![t][side] = @ + Cardinality(begun)]
        /\ pending' = [pending EXCEPT ![t][side] = left]
        /\ TraversalDone(IF left = 0 THEN {<<t, side>>} ELSE {})
        /\ UNCHANGED <<input, reach, phase, serving, replies, walkGroups, prepared,
                       piecesDone>>

\* requestNode and requestParticles of DataManager, on the PE asked.
Serve(r) ==
    /\ requests' = requests \ {r}
    /\ IF phase[r.to] = "building"
       THEN /\ buffered' = [buffered EXCEPT ![r.to] = @ \cup {r}]
            /\ UNCHANGED replies
       ELSE /\ replies' = replies \cup {Reply(r.to, Tree(r.to), r)}
            /\ UNCHANGED buffered
    /\ UNCHANGED <<input, reach, phase, nodeTable, cached, fetched, sent, waiting, walking>>

\* Mutant of Delivered: only the first to ask is resumed.
DeliveredOne(pe, kind, k) ==
    LET all == {w \in waiting[pe] : w.kind = kind /\ w.node = k}
    IN  IF all = {} THEN {} ELSE {CHOOSE w \in all : TRUE}

\* The walks that wait for a node's children or particles.
Delivered(pe, kind, k) == {w \in waiting[pe] : w.kind = kind /\ w.node = k}

\* recvNode and recvParticles, deliverNode and deliverParticles: what came is
\* hung in the tree, and each walk that waited goes on from there.
Receive(m) ==
    LET pe == m.to
        attached(nodes) ==
            [k \in DOMAIN nodes |-> IF k = m.node /\ m.kind = "node"
                                    THEN [nodes[k] EXCEPT !.numChildren = BranchFactor]
                                    ELSE nodes[k]]
        nodes == Extended(Extended(m.nodes, attached(cached[pe])), attached(nodeTable[pe]))
        held == IF m.kind = "node" THEN fetched[pe]
                ELSE Extended(fetched[pe], [k \in {m.node} |-> m.particles])
        resumed == Delivered(pe, m.kind, m.node)
        walk(w) == IF m.kind = "node"
                   THEN Walk(pe, nodes, held, "remote", Children(m.node), w.mask)
                   ELSE [seen |-> [b \in w.mask |-> Mass(m.particles)], asks |-> {}]
        asks(w) == {[kind |-> a.kind, node |-> a.node, tp |-> w.tp, mask |-> a.mask] :
                       a \in walk(w).asks}
        of(t) == {w \in resumed : w.tp = t}
        left(t) == Left(pending[t]["remote"],
                        SumFunctionOnSet([w \in resumed |-> Cardinality(asks(w))], of(t)),
                        Cardinality(of(t)))
    IN  /\ replies' = replies \ {m}
        /\ nodeTable' = [nodeTable EXCEPT ![pe] = attached(@)]
        /\ cached' = [cached EXCEPT ![pe] = Extended(m.nodes, attached(@))]
        /\ fetched' = [fetched EXCEPT ![pe] = held]
        /\ seen' = Adding({walk(w) : w \in resumed})
        /\ Ask(pe, nodes, UNION {asks(w) : w \in resumed})
        /\ waiting' = [waiting EXCEPT ![pe] = (@ \ resumed) \cup UNION {asks(w) : w \in resumed}]
        /\ pending' = [t \in TreePiece |-> [pending[t] EXCEPT !["remote"] = left(t)]]
        /\ TraversalDone({<<w.tp, "remote">> : w \in {v \in resumed : left(v.tp) = 0}})
        /\ UNCHANGED <<input, reach, phase, buffered, walkGroups, prepared, current, piecesDone>>

\* DataManager::traversalsDone, and with the last TreePiece finishIteration.
TraversalsDone(t) ==
    LET pe == homeOf[t]
    IN  /\ reports[t] > 0
        /\ reports' = [reports EXCEPT ![t] = @ - 1]
        /\ piecesDone' = [piecesDone EXCEPT ![pe] = @ + 1]
        /\ phase' = [phase EXCEPT ![pe] =
                        IF piecesDone[pe] + 1 = Cardinality(LocalPieces(pe)) THEN "finished"
                        ELSE @]
        /\ UNCHANGED <<input, reach, serving, asking, replies, walkGroups, prepared, current,
                       pending, walksDone, seen>>

\* Mutant of MayAdvance: a PE does not wait for the reduction.
MayAdvanceAlone(pe) == phase[pe] = "finished"

\* The reduction finishIteration contributes to, whose result starts advance.
MayAdvance(pe) ==
    phase[pe] = "finished" /\ \A q \in PE : phase[q] \in {"finished", "advanced"}

\* advance: freeCachedData, freeTree.
Advance(pe) ==
    /\ MayAdvance(pe)
    /\ phase' = [phase EXCEPT ![pe] = "advanced"]
    /\ nodeTable' = [nodeTable EXCEPT ![pe] = <<>>]
    /\ cached' = [cached EXCEPT ![pe] = <<>>]
    /\ fetched' = [fetched EXCEPT ![pe] = <<>>]
    /\ sent' = [sent EXCEPT ![pe] = {}]
    /\ piecesDone' = [piecesDone EXCEPT ![pe] = 0]
    /\ UNCHANGED <<input, reach, buffered, waiting, requests, replies, walkGroups, prepared,
                   current, pending, walksDone, reports, seen>>

Next ==
    \/ \E pe \in PE : TreeReady(pe) \/ Advance(pe)
    \/ \E t \in TreePiece : StartTraversal(t) \/ TraversalsDone(t)
    \/ \E t \in TreePiece, side \in Side : DoGravity(t, side)
    \/ \E r \in requests : Serve(r)
    \/ \E m \in replies : Receive(m)

Spec == Init /\ [][Next]_vars

----------------------------------------------------------------------------
(* Properties. *)

\* RequestMsg, for nodeRequestTable and for particleRequestTable.
Kind == {"node", "particles"}
Request == [to : PE, kind : Kind, node : Bin, from : PE]

TypeOK ==
    /\ reach \in Reach
    /\ phase \in [PE -> {"building", "walking", "finished", "advanced"}]
    /\ \A pe \in PE : /\ DOMAIN nodeTable[pe] \subseteq Bin
                      /\ DOMAIN cached[pe] \subseteq Bin \ DOMAIN nodeTable[pe]
                      /\ DOMAIN fetched[pe] \subseteq DOMAIN Tree(pe)
                      /\ sent[pe] \subseteq Kind \X DOMAIN Tree(pe)
                      /\ buffered[pe] \subseteq Request
                      /\ waiting[pe] \subseteq [kind : Kind, node : DOMAIN Tree(pe),
                                                tp : LocalPieces(pe), mask : SUBSET DOMAIN nodeTable[pe]]
    /\ requests \subseteq Request
    /\ \A m \in replies : m.to \in PE /\ m.kind \in Kind /\ m.node \in Bin
    /\ prepared \subseteq TreePiece
    /\ \A t \in TreePiece : /\ walksDone[t] \in 0 .. 1 /\ reports[t] \in 0 .. 1
                            /\ \A side \in Side : pending[t][side] >= -1
    /\ \A pe \in PE : piecesDone[pe] \in 0 .. Cardinality(LocalPieces(pe))

\* What a bucket whose groups have been walked still waits for.
Awaited(pe, b) == {w.node : w \in {v \in waiting[pe] : b \in v.mask}}

\* "Every bucket must end a step having interacted with the entire system,
\* once": at any time after both walks of a bucket have begun, what it has seen
\* and what is below the leaves it still waits for are all the particles there
\* are, each once.  The walks, the requests, what came with a reply and what
\* resumed from it all have to fit together for that.
SeesAllOnce ==
    \A t \in TreePiece :
       \A g \in 1 .. Min({current[t][side] : side \in Side}) : \A b \in walkGroups[t][g] :
          seen[b] + MapThenSumSet(LAMBDA k : Mass(Present(k)), Awaited(homeOf[t], b))
             = Mass(Particle)

\* State::pending is the groups still to walk and the walks still waiting, so
\* that a TreePiece reports, and its PE is finished, when nothing of it waits:
\* not earlier, on an answer that comes between two yields, and not twice.
PendingExact ==
    /\ \A t \in TreePiece : \A side \in Side :
          pending[t][side] >= 0 =>
             pending[t][side] = (NumGroups(t) - current[t][side])
                + (IF side = "local" THEN 0
                   ELSE Cardinality({w \in waiting[homeOf[t]] : w.tp = t}))
    /\ \A pe \in PE : phase[pe] \in {"finished", "advanced"} =>
          /\ waiting[pe] = {}
          /\ \A t \in LocalPieces(pe) :
                /\ t \notin prepared /\ reports[t] = 0
                /\ \A side \in Side : pending[t][side] \in {-1, 0}

\* The assertions on the PE that is asked and on the one that is answered: the
\* node is one the server built ("it != nodeTable.end()"), has children ("Leaf
\* children request") or is a Bucket; a RemoteBucket has one owner; an answer
\* finds a walk waiting and its request not answered before; and no request or
\* answer comes to a PE that has thrown its tree away.
NoBadRequest ==
    /\ \A r \in requests \cup UNION {buffered[pe] : pe \in PE} :
          /\ r.node \in DOMAIN nodeTable[r.to]
          /\ IF r.kind = "node" THEN nodeTable[r.to][r.node].numChildren > 0
                               ELSE nodeTable[r.to][r.node].type = "Bucket"
    /\ \A pe \in PE : \A key \in sent[pe] :
          LET o == Tree(pe)[key[2]].owners
          IN  IF key[1] = "particles" THEN o.start = o.end ELSE Serving(o) # {}
    /\ \A m \in replies :
          /\ \E w \in waiting[m.to] : w.kind = m.kind /\ w.node = m.node
          /\ IF m.kind = "node" THEN Tree(m.to)[m.node].numChildren = 0
                               ELSE m.node \notin DOMAIN fetched[m.to]

\* Nothing is left to run.
Quiescent ==
    /\ requests = {} /\ replies = {} /\ prepared = {}
    /\ \A pe \in PE : phase[pe] # "building" /\ ~MayAdvance(pe)
    /\ \A t \in TreePiece :
          /\ reports[t] = 0
          /\ \A side \in Side : pending[t][side] > 0 => current[t][side] = NumGroups(t)

\* The step ends on every PE: none waits for an answer that was buffered or
\* lost, or for a TreePiece that does not report.
NobodyStuck == Quiescent => \A pe \in PE : phase[pe] = "advanced"
============================================================================

--------------------------- MODULE CharmTreeBuild ---------------------------
(* Tree construction in one step of the Charm++ benchmark                     *)
(* (src/charm/DataManager.cpp, Worker.cpp, Node.h, ActiveBinInfo.h).          *)
(*                                                                            *)
(* Every PE builds its own tree over the Morton keys, refined where it holds  *)
(* particles, and finds out from the broadcast key ranges which TreePieces    *)
(* own each node.  A leaf that belongs elsewhere is Remote: its moments are   *)
(* requested from an owner, which answers when it has them itself - it may be *)
(* waiting for a third PE, and it may be asked before it has built its tree.  *)
(* Moments are passed up as they come in, and when they reach the root the    *)
(* PE's tree is ready and its traversal starts.                               *)
EXTENDS CharmTree

VARIABLES
    nodeTable,       \* DataManager::nodeTable, per PE: its tree
    doneTreeBuild,   \* DataManager::doneTreeBuild, per PE
    pendingMoments,  \* DataManager::pendingMoments, per PE: <<node, PE>>
    requests,        \* requestMoments calls in flight
    momentsMsgs,     \* MomentsMsgs in flight
    treesReady       \* how often treeReady has run, per PE

vars == <<input, nodeTable, doneTreeBuild, pendingMoments, requests,
          momentsMsgs, treesReady>>

\* Mutant of AllReady: a node answers before its children have their moments.
ReadyOnceTyped(n) == n.type # "Invalid"

\* allChildrenMomentsReady, true of every leaf.
AllReady(n) == n.ready = n.numChildren

----------------------------------------------------------------------------
(* Passing moments up. *)

\* Mutant of FromChildren: one child from elsewhere makes the node Remote.
FromChildrenIfAny(n, children) ==
    [n EXCEPT !.mass = @ + SumFunction([i \in ChildIndex |-> children[i].mass]),
              !.type = IF \E i \in ChildIndex : children[i].type \in Elsewhere
                       THEN "Remote" ELSE "Boundary",
              !.owners = OwnersFromChildren({children[i].owners : i \in ChildIndex})]

\* getMomentsFromChildren and getOwnershipFromChildren, on a node whose last
\* child has its moments now.
FromChildren(n, children) ==
    [n EXCEPT !.mass = @ + SumFunction([i \in ChildIndex |-> children[i].mass]),
              !.type = IF {children[i].type : i \in ChildIndex} \subseteq Elsewhere
                       THEN "Remote" ELSE "Boundary",
              !.owners = OwnersFromChildren({children[i].owners : i \in ChildIndex})]

\* passMomentsUpward, on each node of `fresh' (none of them above another, so
\* that their order does not matter): the nodes it is called for ...
Completed(table, fresh) ==
    LET done[b \in DOMAIN table] ==
            \/ b \in fresh
            \/ /\ AllReady(table[b]) = FALSE
               /\ table[b].ready + Cardinality({c \in Children(b) : done[c]})
                     = table[b].numChildren
    IN  {b \in DOMAIN table : done[b]}

\* ... and the tree it leaves.
PassedUp(table, fresh, done) ==
    LET new[b \in DOMAIN table] ==
            LET n == IF table[b].numChildren = 0 THEN table[b]
                     ELSE [table[b] EXCEPT !.ready =
                              @ + Cardinality(Children(b) \cap done)]
            IN  IF b \in done \ fresh
                THEN FromChildren(n, [i \in ChildIndex |-> new[Child(b, i)]])
                ELSE n
    IN  new

\* The pending requests for the given nodes, for respondToMomentsRequest.
Answered(waiting, nodes) == {r \in waiting : r[1] \in nodes}

\* Mutant of Erased: the list is not emptied.
ErasedNone(waiting, answered) == waiting

\* What is pending afterwards.
Erased(waiting, answered) == waiting \ answered

MomentsMsgs(answered, table) ==
    {[to |-> r[2], node |-> r[1], type |-> table[r[1]].type,
      mass |-> table[r[1]].mass] : r \in answered}

----------------------------------------------------------------------------

Init ==
    /\ Input
    /\ nodeTable = [pe \in PE |-> <<>>]
    /\ doneTreeBuild = [pe \in PE |-> FALSE]
    /\ pendingMoments = [pe \in PE |-> {}]
    /\ requests = {}
    /\ momentsMsgs = {}
    /\ treesReady = [pe \in PE |-> 0]

\* "are all particles local to this PE?"
RootIsLocal(n) == n.type = "Internal"

\* settleEmptyRemoteLeaves: the leaves it is for.
EmptyEverywhere(table) ==
    {b \in DOMAIN table : table[b].type = "Remote" /\ Serving(table[b].owners) = {}}

\* processSubmittedParticles from buildTree on: the arrivals are complete.
BuildTree(pe) ==
    LET built == walked[pe]
        asked == {b \in DOMAIN built :
                     built[b].type = "Remote" /\ Serving(built[b].owners) # {}}
        empty == EmptyEverywhere(built)
        settled == [b \in DOMAIN built |->
                       IF b \in empty
                       THEN [built[b] EXCEPT !.type = "RemoteEmptyBucket"]
                       ELSE built[b]]
        risen == IF empty = {} THEN {} ELSE Completed(settled, empty)
        table == IF empty = {} THEN built ELSE PassedUp(settled, empty, risen)
        done == risen \cup {b \in {RootBin} : RootIsLocal(built[b])}
        answered == Answered(pendingMoments[pe],
                             done \cup {b \in DOMAIN table : AllReady(table[b])})
    IN  /\ ~doneTreeBuild[pe]
        /\ doneTreeBuild' = [doneTreeBuild EXCEPT ![pe] = TRUE]
        /\ nodeTable' = [nodeTable EXCEPT ![pe] = table]
        /\ \E server \in [asked -> TreePiece] :
              /\ \A b \in asked : server[b] \in Serving(built[b].owners)
              /\ requests' = requests \cup
                    {[to |-> homeOf[server[b]], node |-> b, from |-> pe] : b \in asked}
        /\ pendingMoments' = [pendingMoments EXCEPT ![pe] = Erased(@, answered)]
        /\ momentsMsgs' = momentsMsgs \cup MomentsMsgs(answered, table)
        /\ treesReady' = [treesReady EXCEPT ![pe] =
                             IF RootBin \in done THEN @ + 1 ELSE @]
        /\ UNCHANGED input

\* requestMoments, on the PE asked.  A node it has not built is a CkAbort.
RequestMoments(r) ==
    LET table == nodeTable[r.to]
        waiting == pendingMoments[r.to] \cup {<<r.node, r.from>>}
        answered == IF doneTreeBuild[r.to] /\ AllReady(table[r.node])
                    THEN Answered(waiting, {r.node}) ELSE {}
    IN  /\ doneTreeBuild[r.to] => r.node \in DOMAIN table
        /\ requests' = requests \ {r}
        /\ pendingMoments' = [pendingMoments EXCEPT ![r.to] = Erased(waiting, answered)]
        /\ momentsMsgs' = momentsMsgs \cup MomentsMsgs(answered, table)
        /\ UNCHANGED <<input, nodeTable, doneTreeBuild, treesReady>>

\* receiveMoments, updateLeafMoments.
ReceiveMoments(m) ==
    LET pe == m.to
        updated == [nodeTable[pe] EXCEPT ![m.node].mass = m.mass,
                                         ![m.node].type = MakeRemote(m.type)]
        done == Completed(updated, {m.node})
        table == PassedUp(updated, {m.node}, done)
        answered == Answered(pendingMoments[pe], done)
    IN  /\ nodeTable' = [nodeTable EXCEPT ![pe] = table]
        /\ pendingMoments' = [pendingMoments EXCEPT ![pe] = Erased(@, answered)]
        /\ momentsMsgs' = (momentsMsgs \ {m}) \cup MomentsMsgs(answered, table)
        /\ treesReady' = [treesReady EXCEPT ![pe] =
                             IF RootBin \in done THEN @ + 1 ELSE @]
        /\ UNCHANGED <<input, doneTreeBuild, requests>>

Next ==
    \/ \E pe \in PE : BuildTree(pe)
    \/ \E r \in requests : RequestMoments(r)
    \/ \E m \in momentsMsgs : ReceiveMoments(m)

Spec == Init /\ [][Next]_vars

----------------------------------------------------------------------------
(* Properties. *)

Node == [type : NodeType, owners : Owners, numChildren : {0, BranchFactor},
         ready : 0 .. BranchFactor, mass : 0 .. Mass(Particle)]

TypeOK ==
    /\ \A pe \in PE : /\ DOMAIN nodeTable[pe] \subseteq Bin
                      /\ \A b \in DOMAIN nodeTable[pe] : nodeTable[pe][b] \in Node
    /\ doneTreeBuild \in [PE -> BOOLEAN]
    /\ pendingMoments \in [PE -> SUBSET (Bin \X PE)]
    /\ requests \subseteq [to : PE, node : Bin, from : PE]
    /\ momentsMsgs \subseteq [to : PE, node : Bin, type : NodeType,
                              mass : 0 .. Mass(Particle)]
    /\ treesReady \in [PE -> 0 .. 1]

\* Moments are never passed on, nor a traversal started, on part of them: what
\* a MomentsMsg carries, and every node of a tree that is ready, counts each
\* particle in the node's range exactly once, whichever PEs they are on and in
\* whatever order the moments came in (requestMoments, flushMomentRequests and
\* passMomentsUpward all decide on numChildrenMomentsReady alone).
MomentsRight ==
    /\ \A m \in momentsMsgs : m.mass = Mass(Present(m.node))
    /\ \A pe \in PE : treesReady[pe] > 0 =>
          \A b \in DOMAIN nodeTable[pe] :
             nodeTable[pe][b].mass = Mass(Present(b))

\* A request never asks for a node its receiver has not built ("bad request",
\* and the assertion in flushMomentRequests): the asker's and the server's
\* trees differ, and the asker picks the server from the ranges and counts of
\* the RangeMsg alone (servingOwner).
NoBadRequest ==
    /\ \A r \in requests :
          doneTreeBuild[r.to] => r.node \in DOMAIN nodeTable[r.to]
    /\ \A pe \in PE : doneTreeBuild[pe] =>
          \A r \in pendingMoments[pe] : r[1] \in DOMAIN nodeTable[pe]

\* The type a node has when the tree is ready, which alone tells the
\* traversals whether to interact here or to fetch, agrees with where its
\* particles are.  No local particle is in a leaf that is Remote.
TypesTellWhere ==
    \A pe \in PE : treesReady[pe] > 0 =>
       \A b \in DOMAIN nodeTable[pe] :
          LET type == nodeTable[pe][b].type
              mine == Mine(pe, b)
          IN  /\ type \in {"Internal", "Bucket"} => mine # {} /\ mine = Present(b)
              /\ type = "Boundary" =>
                    /\ mine # {}
                    /\ \E t \in TreePiece : /\ homeOf[t] # pe
                                            /\ Covers(b, cellOf[t].first)
              /\ type \in {"Remote", "RemoteBucket"} =>
                    mine = {} /\ Present(b) # {}
              /\ type \in {"EmptyBucket", "RemoteEmptyBucket"} => Present(b) = {}

\* The owner range a PE works out for a node by halving the list of key ranges
\* has in it every TreePiece with a particle in the node, and a range of
\* several has only TreePieces whose cells are inside the node; a node has one
\* owner at the latest when it is a single key (the depth assertion in
\* Node::refine); the children's ranges join up (the CkAbort in
\* getOwnershipFromChildren).
OwnersRight ==
    \A pe \in PE : \A b \in DOMAIN nodeTable[pe] :
       LET n == nodeTable[pe][b]
           owned == {i \in ChildIndex : nodeTable[pe][Child(b, i)].owners # NoOwners}
       IN  /\ \A t \in TreePiece : \A p \in Present(cellOf[t]) :
                 Covers(b, keyOf[p]) => n.owners.start <= t /\ t <= n.owners.end
           /\ Several(n.owners) =>
                 /\ b.size > 1
                 /\ \A t \in n.owners.start .. n.owners.end :
                       cellOf[t].first >= b.first
                         /\ cellOf[t].first + cellOf[t].size <= b.first + b.size
           /\ n.numChildren > 0 =>
                 \A i, j \in owned :
                    i < j /\ (\A k \in owned : k <= i \/ j <= k) =>
                       nodeTable[pe][Child(b, j)].owners.start
                         - nodeTable[pe][Child(b, i)].owners.end \in {0, 1}

\* Each PE works out for itself who owns a node and where its particles are,
\* and is right (rangeOwners, processRemoteNode, getOwnershipFromChildren).
OwnersAndTypes == OwnersRight /\ TypesTellWhere

\* Whatever the order of answers, and whoever gave them, a tree that is ready
\* is the one FinalTree says: in particular two PEs that have the same node
\* know the same owners of it, and the same type but for being remote.
TreeSettled ==
    \A pe \in PE : treesReady[pe] > 0 => nodeTable[pe] = FinalTree(pe)

\* CkAssert(pendingMoments.empty()) in advance: once every tree is ready no
\* request for moments, pending or in flight, and no answer is left over for
\* the next step's tree to trip on.
NothingLeftOver ==
    (\A pe \in PE : treesReady[pe] > 0) =>
        /\ requests = {} /\ momentsMsgs = {}
        /\ \A pe \in PE : pendingMoments[pe] = {}

\* Nothing is left to run: no step of any PE is enabled.
Quiescent ==
    (\A pe \in PE : doneTreeBuild[pe]) /\ requests = {} /\ momentsMsgs = {}

RootIsBucket(pe) == doneTreeBuild[pe] /\ nodeTable[pe][RootBin].type = "Bucket"

\* PEs waiting for moments never wait for each other in a circle, and an
\* answer is never forgotten (a PE answers from requestMoments if it can, else
\* from flushMomentRequests or passMomentsUpward): when nothing is left to run
\* every tree is ready, except where one PE has all the particles and they fit
\* one bucket, for which see AllTreesReady.
NobodyStuck ==
    Quiescent => \A pe \in PE : treesReady[pe] = 1 \/ RootIsBucket(pe)

\* Tree construction ends with every tree ready and nothing left over, and no PE
\* aborts over a request it cannot answer.
EverybodyReady == NobodyStuck /\ NothingLeftOver /\ NoBadRequest

\* "are all particles local to this PE?", asks processSubmittedParticles, and if
\* so passes the moments up: a PE that has all the particles gets its tree
\* ready like every other.
AllTreesReady == Quiescent => \A pe \in PE : treesReady[pe] = 1
============================================================================

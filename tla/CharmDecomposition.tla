------------------------- MODULE CharmDecomposition -------------------------
(* The domain decomposition of the Charm++ benchmark: the rounds of histogram *)
(* and refinement by which the PEs agree on the TreePieces of one step        *)
(* (src/charm/DataManager.cpp and ActiveBinInfo.h).                           *)
(*                                                                            *)
(* Every PE keeps the leaves of a sorting tree over the Morton keys, the same *)
(* tree everywhere, and contributes to a reduction what its own particles     *)
(* come to in each leaf.  PE 0 receives the whole histogram and either names  *)
(* the leaves to refine in a SplitterMsg, for another round, or is done: the  *)
(* leaves, in key order, are TreePieces 0, 1, ..., their key ranges and       *)
(* counts go out in a RangeMsg, and every PE flushes its particles to the     *)
(* TreePiece of the leaf they are in.  Names of leaves never travel, only     *)
(* positions in each PE's own list of leaves: everything rests on the lists   *)
(* being the same.                                                            *)
EXTENDS KeyTree, FiniteSetsExt, Functions

CONSTANTS
    PE,              \* the processing elements
    Root,            \* PE 0
    NumParticles,    \* globalParams.numParticles
    Budget,          \* globalParams.numTreePieces, the -p option
    Target,          \* DECOMP_TOLERANCE*ppc, what a leaf may weigh
    BalanceByCost,   \* globalParams.balanceByCost
    Costs            \* what a particle may cost: interactions last step

ASSUME ConstantsAssumption ==
    /\ Root \in PE /\ IsFiniteSet(PE)
    /\ NumParticles \in Nat \ {0}
    /\ Budget \in Nat \ {0}
    /\ Target \in Nat
    /\ BalanceByCost \in BOOLEAN
    /\ Costs \subseteq Nat

Particle == 1 .. NumParticles

\* NodeDescriptor.
Descriptor == [n : 0 .. NumParticles, smallest : Key, largest : Key, cost : Nat]

VARIABLES
    keyOf,          \* the particles' Morton keys
    cost,           \* the particles' costs
    owner,          \* the PE each particle is on when the step begins
    stage,          \* per PE: idle, histogram, flushed; aborted ends the run
    frontier,       \* per PE: ActiveBinInfo::oldvec, the leaves, as a set;
                    \* they stand in it in key order
    contribution,   \* per PE: what it has contributed to the reduction, and
                    \* <<>> when it has not contributed to this round
    splitters,      \* per PE: the SplitterMsg on its way, {} if there is none
    numTreePieces,  \* per PE: DataManager::numTreePieces
    rangeMsgs,      \* the PEs a RangeMsg is on its way to
    keyRanges,      \* what PE 0 broadcasts: the leaves' first and last key
    tpCounts,       \* and their numbers of particles
    sentTo          \* the TreePiece each particle has been flushed to, or -1

input == <<keyOf, cost, owner>>
outcome == <<keyRanges, tpCounts>>
vars == <<input, stage, frontier, contribution, splitters, numTreePieces,
          rangeMsgs, outcome, sentTo>>

----------------------------------------------------------------------------
(* The sorting tree.  Positions in a PE's list of leaves are KeyTree's: leaves *)
(* are disjoint, and the list is in key order.                                *)

\* Mutant of Refined: leaves that were not refined are dropped from the list
\* (keepUnrefined off).
RefinedOnly(bins, chosen) ==
    UNION {Children(b) : b \in {c \in bins : Position(bins, c) \in chosen}}

\* ActiveBinInfo::processRefine, with keepUnrefined set.
Refined(bins, chosen) ==
    LET split == {b \in bins : Position(bins, b) \in chosen}
    IN  (bins \ split) \cup UNION {Children(b) : b \in split}

\* ActiveBinInfo::addNewNode: what the particles S come to in bin b.  The
\* first key below an empty bin stands for its smallest and largest.
Describe(b, S) ==
    LET mine == {p \in S : Covers(b, keyOf[p])}
    IN  IF mine = {}
        THEN [n |-> 0, smallest |-> b.first, largest |-> b.first, cost |-> 0]
        ELSE [n |-> Cardinality(mine),
              smallest |-> Min({keyOf[p] : p \in mine}),
              largest |-> Max({keyOf[p] : p \in mine}),
              cost |-> SumFunctionOnSet(cost, mine)]

\* Mutant of Histogram: a PE without particles contributes nothing.
HistogramIfAny(pe, bins) ==
    IF \A p \in Particle : owner[p] # pe THEN <<>>
    ELSE [i \in 1 .. Cardinality(bins) |->
             Describe(At(bins, i), {p \in Particle : owner[p] = pe})]

\* sendHistogram: one descriptor for each leaf.
Histogram(pe, bins) ==
    [i \in 1 .. Cardinality(bins) |->
        Describe(At(bins, i), {p \in Particle : owner[p] = pe})]

----------------------------------------------------------------------------
(* The reduction (Descriptor.h, Reduction.cpp). *)

\* NodeDescriptor::grow.
Grow(d, e) ==
    IF e.n = 0 THEN d
    ELSE IF d.n = 0 THEN e
    ELSE [n |-> d.n + e.n, smallest |-> Min({d.smallest, e.smallest}),
          largest |-> Max({d.largest, e.largest}), cost |-> d.cost + e.cost]

\* The orders in which the contributions may be combined.
Orders == {o \in [1 .. Cardinality(PE) -> PE] :
              \A i, j \in DOMAIN o : o[i] = o[j] => i = j}

\* NodeDescriptorReduction: leaf by leaf, by position.
Reduce(order) ==
    [i \in DOMAIN contribution[order[1]] |->
        LET upTo[k \in DOMAIN order] ==
                IF k = 1 THEN contribution[order[1]][i]
                         ELSE Grow(upTo[k - 1], contribution[order[k]][i])
        IN  upTo[Cardinality(PE)]]

----------------------------------------------------------------------------
(* PE 0's decisions on a histogram h (receiveHistogram). *)

TotalCost(h) == SumFunction([i \in DOMAIN h |-> h[i].cost])
TotalParticles(h) == SumFunction([i \in DOMAIN h |-> h[i].n])

\* Weights are scaled by the total cost, to stay integers: a leaf is too heavy
\* if Weight > Target * Scale.
ByCost(h) == BalanceByCost /\ TotalCost(h) > 0
Weight(h, i) == IF ByCost(h) THEN h[i].cost * TotalParticles(h) ELSE h[i].n
Scale(h) == IF ByCost(h) THEN TotalCost(h) ELSE 1

Separable(h, i) == h[i].smallest # h[i].largest

WantsRefine(h) ==
    {i \in DOMAIN h : Weight(h, i) > Target * Scale(h) /\ Separable(h, i)}

\* Mutant of Room: the budget is rounded up.
RoomRoundedUp(used) == (Budget - used) \div (BranchFactor - 1) + 1

\* How many more leaves can be split.
Room(used) == (Budget - used) \div (BranchFactor - 1)

\* The first round of decisions: the leaves that are too heavy, in order,
\* while TreePieces last.
Refinements(h, used) ==
    {i \in WantsRefine(h) :
        used + (BranchFactor - 1) * Cardinality({j \in WantsRefine(h) : j <= i})
            <= Budget}

\* The second: the heaviest leaves that can be split at all, as many as there
\* are TreePieces left for.
Heavier(h, i, j) ==
    \/ Weight(h, i) > Weight(h, j)
    \/ Weight(h, i) = Weight(h, j) /\ i < j
Leftover(h, used) ==
    LET candidates == {i \in DOMAIN h : Separable(h, i)}
    IN  {i \in candidates :
            Cardinality({j \in candidates : Heavier(h, j, i)}) < Room(used)}

Chosen(h, used) ==
    IF Refinements(h, used) = {} /\ used < Budget
    THEN Leftover(h, used)
    ELSE Refinements(h, used)

\* CkAbort: all bodies at one position to the keys' resolution.
AllAtOnePosition(h) ==
    Cardinality(DOMAIN h) = 1 /\ h[1].n > 1 /\ h[1].smallest = h[1].largest

----------------------------------------------------------------------------

\* Particles are numbered in key order; where they are and what they cost is
\* arbitrary.
Init ==
    /\ keyOf \in {k \in [Particle -> Key] :
                    \A p, q \in Particle : p < q => k[p] <= k[q]}
    /\ cost \in [Particle -> Costs]
    /\ owner \in [Particle -> PE]
    /\ stage = [pe \in PE |-> "idle"]
    /\ frontier = [pe \in PE |-> {}]
    /\ contribution = [pe \in PE |-> <<>>]
    /\ splitters = [pe \in PE |-> {}]
    /\ numTreePieces = [pe \in PE |-> 0]
    /\ rangeMsgs = {}
    /\ keyRanges = <<>>
    /\ tpCounts = <<>>
    /\ sentTo = [p \in Particle |-> -1]

\* decompose, initHistogramParticles, sendHistogram.
Decompose(pe) ==
    /\ stage[pe] = "idle"
    /\ stage' = [stage EXCEPT ![pe] = "histogram"]
    /\ numTreePieces' = [numTreePieces EXCEPT ![pe] = 1]
    /\ frontier' = [frontier EXCEPT ![pe] = {RootBin}]
    /\ contribution' = [contribution EXCEPT ![pe] = Histogram(pe, {RootBin})]
    /\ UNCHANGED <<input, splitters, rangeMsgs, outcome, sentTo>>

\* Mutant of FlushParticles: leaves empty on this PE are not counted.
FlushSkippingEmpty(pe) ==
    LET filled == {b \in frontier[pe] :
                      \E p \in Particle : owner[p] = pe /\ Covers(b, keyOf[p])}
    IN  sentTo' = [p \in Particle |->
                      IF owner[p] = pe
                      THEN Position(filled, CHOOSE b \in filled : Covers(b, keyOf[p])) - 1
                      ELSE sentTo[p]]

\* flushParticles on one PE: its n-th leaf, its n-th TreePiece.
FlushParticles(pe) ==
    sentTo' = [p \in Particle |->
                  IF owner[p] = pe
                  THEN Position(frontier[pe], CHOOSE b \in frontier[pe] :
                                                 Covers(b, keyOf[p])) - 1
                  ELSE sentTo[p]]

\* receiveHistogram, on PE 0, when every PE has contributed.
ReceiveHistogram ==
    /\ \A pe \in PE : contribution[pe] # <<>>
    /\ contribution' = [pe \in PE |-> <<>>]
    /\ \E order \in Orders :
          LET h == Reduce(order)
              used == numTreePieces[Root]
              chosen == Chosen(h, used)
          IN  \/ /\ chosen # {}
                 /\ splitters' = [pe \in PE |-> chosen]
                 /\ numTreePieces' = [numTreePieces EXCEPT ![Root] =
                        @ + Cardinality(chosen) * (BranchFactor - 1)]
                 /\ UNCHANGED <<stage, rangeMsgs, outcome, sentTo>>
              \/ /\ chosen = {} /\ AllAtOnePosition(h)
                 /\ stage' = [pe \in PE |-> "aborted"]
                 /\ UNCHANGED <<splitters, numTreePieces, rangeMsgs, outcome, sentTo>>
              \/ /\ chosen = {} /\ ~AllAtOnePosition(h)
                 /\ keyRanges' = [i \in DOMAIN h |-> <<h[i].smallest, h[i].largest>>]
                 /\ tpCounts' = [i \in DOMAIN h |-> h[i].n]
                 /\ FlushParticles(Root)
                 /\ stage' = [stage EXCEPT ![Root] = "flushed"]
                 /\ rangeMsgs' = PE \ {Root}
                 /\ UNCHANGED <<splitters, numTreePieces>>
    /\ UNCHANGED <<input, frontier>>

\* receiveSplitters: refine, and contribute to the next round.
ReceiveSplitters(pe) ==
    /\ splitters[pe] # {}
    /\ splitters' = [splitters EXCEPT ![pe] = {}]
    /\ frontier' = [frontier EXCEPT ![pe] = Refined(@, splitters[pe])]
    /\ contribution' = [contribution EXCEPT ![pe] = Histogram(pe, frontier'[pe])]
    /\ UNCHANGED <<input, stage, numTreePieces, rangeMsgs, outcome, sentTo>>

\* sendParticles, the part that concerns the tree: the other PEs learn of the
\* number of TreePieces only now.
SendParticles(pe) ==
    /\ pe \in rangeMsgs
    /\ rangeMsgs' = rangeMsgs \ {pe}
    /\ numTreePieces' = [numTreePieces EXCEPT ![pe] = Cardinality(DOMAIN tpCounts)]
    /\ FlushParticles(pe)
    /\ stage' = [stage EXCEPT ![pe] = "flushed"]
    /\ UNCHANGED <<input, frontier, contribution, splitters, outcome>>

Next ==
    \/ ReceiveHistogram
    \/ \E pe \in PE : \/ Decompose(pe)
                      \/ ReceiveSplitters(pe)
                      \/ SendParticles(pe)

Spec == Init /\ [][Next]_vars

----------------------------------------------------------------------------
(* Properties. *)

IndexSet == 1 .. KeySpace

TypeOK ==
    /\ stage \in [PE -> {"idle", "histogram", "flushed", "aborted"}]
    /\ \A pe \in PE : /\ frontier[pe] \subseteq Bin
                      /\ splitters[pe] \subseteq IndexSet
                      /\ DOMAIN contribution[pe] \subseteq IndexSet
                      /\ \A i \in DOMAIN contribution[pe] :
                            contribution[pe][i] \in Descriptor
    /\ numTreePieces \in [PE -> 0 .. Budget]
    /\ rangeMsgs \subseteq PE
    /\ DOMAIN keyRanges = DOMAIN tpCounts
    /\ sentTo \in [Particle -> -1 .. Budget - 1]

\* Whatever the order of the messages, the leaves of every PE tile the key
\* space at all times: a leaf that a round forgets would be a region whose
\* particles are never flushed (processRefine, keepUnrefined).
FrontierTiles ==
    \A pe \in PE : stage[pe] # "idle" =>
        \A k \in Key : Cardinality({b \in frontier[pe] : Covers(b, k)}) = 1

\* PE 0 never names a leaf that cannot be split: CkAssert(depth < ...) in
\* Node::refine does not fail on any PE, however particles coincide, and the
\* position it names exists in that PE's list.
SplittersApply ==
    \A pe \in PE : \A i \in splitters[pe] :
        /\ i <= Cardinality(frontier[pe])
        /\ At(frontier[pe], i).size > 1

\* PEs that exchange nothing but positions agree on the leaves: every PE's
\* leaves tile the key space, and what PE 0 names exists in each PE's list.
LeavesAgree == FrontierTiles /\ SplittersApply

\* The -p option is a budget the refinement never exceeds (TreePieces past the
\* end of the array would be addressed), and PE 0's count of TreePieces is the
\* number of its leaves, those that a SplitterMsg has yet to make included.
BudgetRespected ==
    /\ numTreePieces[Root] <= Budget
    /\ stage[Root] # "idle" =>
          numTreePieces[Root] = Cardinality(Refined(frontier[Root], splitters[Root]))

\* The refinement does not end early: when it ends, no leaf that could still be
\* split is left unless there are not TreePieces enough for one more split.
\* In particular a leaf over the target cannot be split or afforded.
WellSpent ==
    stage[Root] = "flushed" =>
       \A i \in DOMAIN tpCounts :
          keyRanges[i][1] # keyRanges[i][2]
             => numTreePieces[Root] + (BranchFactor - 1) > Budget

\* The budget is kept, and made use of.
BudgetWellSpent == BudgetRespected /\ WellSpent

\* What PE 0 broadcasts is true of all the PEs' particles together: the count
\* of every TreePiece, and the range of keys in it.  (The check that the
\* counts sum to numParticles cannot fail.)
RangesExact ==
    stage[Root] = "flushed" =>
       /\ DOMAIN tpCounts = 1 .. numTreePieces[Root]
       /\ \A i \in DOMAIN tpCounts :
             LET d == Describe(At(frontier[Root], i), Particle)
             IN  tpCounts[i] = d.n /\ keyRanges[i] = <<d.smallest, d.largest>>

\* Every PE flushes a particle to the one TreePiece whose broadcast range has
\* its key, although it finds the TreePiece by counting its own leaves; so
\* when all have flushed, every TreePiece gets the number of particles the
\* RangeMsg makes it expect.
FlushAgrees ==
    /\ \A p \in Particle : sentTo[p] # -1 =>
          \A i \in DOMAIN tpCounts :
             sentTo[p] = i - 1 <=> /\ tpCounts[i] > 0
                                   /\ keyRanges[i][1] <= keyOf[p]
                                   /\ keyOf[p] <= keyRanges[i][2]
    /\ (\A pe \in PE : stage[pe] = "flushed") =>
          \A i \in DOMAIN tpCounts :
             Cardinality({p \in Particle : sentTo[p] = i - 1}) = tpCounts[i]

\* What the decomposition hands to the exchange: the counts and ranges that are
\* broadcast are true, and every PE flushes by them.
HandedOver == RangesExact /\ FlushAgrees
============================================================================

--------------------------- MODULE CharmExchange ---------------------------
(* One step of the Charm++ benchmark's particle exchange, repeated for        *)
(* NumIterations steps (src/charm/DataManager.cpp).  Every PE runs one        *)
(* DataManager.  A step goes                                                  *)
(*                                                                            *)
(*   recvUnivBoundingBox / decompose    sort, contribute a histogram          *)
(*   receiveHistogram (PE 0 only)       the histogram is settled: flush the   *)
(*                                      particles, broadcast a RangeMsg       *)
(*   sendParticles (the other PEs)      on the RangeMsg: flush the particles  *)
(*   receiveParticles                   buffer what the other PEs flushed     *)
(*   tryProcessParticles                when all have come, adopt them        *)
(*   finishIteration / advance          tree and traversal over, integrate    *)
(*                                                                            *)
(* Messages are not ordered: a ParticleMsg may overtake the RangeMsg, and     *)
(* one PE may be through the exchange while another has not begun it.         *)
(* The refinement rounds that settle the histogram are CharmDecomposition;    *)
(* what happens between the exchange and finishIteration is CharmTreeBuild.   *)
EXTENDS Integers, FiniteSets

CONSTANTS
    PE,                   \* the processing elements, one DataManager each
    Root,                 \* PE 0, where the histogram reduction is delivered
    TreePiece,            \* the elements of the TreePiece array
    homeOf,               \* DataManager::homeOf, the location manager's map
    NumParticles,         \* globalParams.numParticles
    MaxParticlesPerMsg,   \* MAX_PARTICLES_PER_MSG
    NumIterations         \* globalParams.iterations

ASSUME ConstantsAssumption ==
    /\ Root \in PE
    /\ homeOf \in [TreePiece -> PE]
    /\ NumParticles \in Nat
    /\ MaxParticlesPerMsg \in Nat \ {0}
    /\ NumIterations \in Nat \ {0}

Particle == 1 .. NumParticles

Phases == {"advanced", "decompose", "exchange", "tree", "finished", "done"}

VARIABLES
    iteration,            \* DataManager::iteration, per PE
    phase,                \* how far into the step the PE is
    haveRanges,           \* DataManager::haveRanges, per PE
    numParticlesArrived,  \* DataManager::numParticlesArrived, per PE
    numParticlesExpected, \* DataManager::numParticlesExpected, per PE
    arrivedParticleMsgs,  \* DataManager::arrivedParticleMsgs, per PE
    myParticles,          \* the storage of DataManager::myParticles, per PE
    tpOf,                 \* the leaf (= TreePiece) of the settled histogram
                          \* that holds each particle's key
    particleMsgs,         \* ParticleMsgs in flight
    rangeMsgs             \* the PEs the RangeMsg is still on its way to

local == <<iteration, phase, haveRanges, numParticlesArrived,
           numParticlesExpected, arrivedParticleMsgs, myParticles>>
vars == <<local, tpOf, particleMsgs, rangeMsgs>>

ParticleMsg == [to : PE, parts : SUBSET Particle]

Assigned(assignment, pe) == {p \in Particle : homeOf[assignment[p]] = pe}

----------------------------------------------------------------------------
(* Flushing. *)

\* emitFlushRun: the particles of one run, in order, at most
\* MaxParticlesPerMsg to a message.
Rank(S, p) == Cardinality({q \in S : q < p})
Chunk(S, p) ==
    {q \in S : Rank(S, q) \div MaxParticlesPerMsg
                  = Rank(S, p) \div MaxParticlesPerMsg}

\* Mutant of Chunks: what is left over after the first message is not sent.
FirstChunkOnly(S) == {{q \in S : Rank(S, q) < MaxParticlesPerMsg}} \ {{}}

Chunks(S) == {Chunk(S, p) : p \in S}

\* flushParticles: the leaves in TreePiece order, one run per destination
\* (TreePieces are block-mapped); an empty run sends nothing.
FlushMsgs(pe, assignment) ==
    UNION {{[to |-> q, parts |-> c] :
                c \in Chunks(myParticles[pe] \cap Assigned(assignment, q))} :
           q \in PE}

\* Mutant of Expected: the particles the PE holds already are not counted.
ExpectedFromOthers(pe, assignment) ==
    Cardinality(Assigned(assignment, pe) \ myParticles[pe])

\* expectParticles.
Expected(pe, assignment) == Cardinality(Assigned(assignment, pe))

----------------------------------------------------------------------------
\* Mutant of Ready: haveRanges is not looked at.
ReadyWithoutRanges(ranges, count, expected) == count = expected

\* tryProcessParticles: are the arrivals complete?
Ready(ranges, count, expected) == ranges /\ count = expected

(* tryProcessParticles and processSubmittedParticles, on the values haveRanges, *)
(* the arrived messages and the two counters have when it is called.           *)
(* `phaseBefore' is the phase the PE stays in if it has to go on waiting.      *)

TryProcessParticles(pe, ranges, arrived, count, expected, phaseBefore) ==
    LET process == Ready(ranges, count, expected)
    IN  /\ haveRanges' = [haveRanges EXCEPT ![pe] = ranges]
        /\ numParticlesExpected' = [numParticlesExpected EXCEPT ![pe] = expected]
        /\ arrivedParticleMsgs' =
              [arrivedParticleMsgs EXCEPT ![pe] = IF process THEN {} ELSE arrived]
        /\ numParticlesArrived' =
              [numParticlesArrived EXCEPT ![pe] = IF process THEN 0 ELSE count]
        /\ myParticles' =
              [myParticles EXCEPT ![pe] = IF process THEN UNION arrived ELSE @]
        /\ phase' = [phase EXCEPT ![pe] = IF process THEN "tree" ELSE phaseBefore]

----------------------------------------------------------------------------

\* The loaders give every PE a share of the input; any share will do.
Init ==
    /\ iteration = [pe \in PE |-> 0]
    /\ phase = [pe \in PE |-> "advanced"]
    /\ haveRanges = [pe \in PE |-> FALSE]
    /\ numParticlesArrived = [pe \in PE |-> 0]
    /\ numParticlesExpected = [pe \in PE |-> 0]
    /\ arrivedParticleMsgs = [pe \in PE |-> {}]
    /\ \E loadedBy \in [Particle -> PE] :
          myParticles = [pe \in PE |-> {p \in Particle : loadedBy[p] = pe}]
    /\ tpOf \in [Particle -> TreePiece]
    /\ particleMsgs = {}
    /\ rangeMsgs = {}

\* decompose, called by recvUnivBoundingBox: the bounding box is reduced over
\* every PE's contribution from the end of the previous step.
Decompose(pe) ==
    /\ phase[pe] = "advanced"
    /\ \A q \in PE : iteration[q] >= iteration[pe]
    /\ phase' = [phase EXCEPT ![pe] = "decompose"]
    /\ UNCHANGED <<iteration, haveRanges, numParticlesArrived,
                   numParticlesExpected, arrivedParticleMsgs, myParticles,
                   tpOf, particleMsgs, rangeMsgs>>

\* receiveHistogram on PE 0, its done branch: every PE has contributed.  The
\* leaves are settled (which particle falls in which leaf depends on
\* positions: any assignment); PE 0 flushes, broadcasts the ranges, and then
\* expects its own particles.  Its own copy of the broadcast, which
\* sendParticles only asserts on and frees, is not modelled.
ReceiveHistogram ==
    /\ \A pe \in PE : phase[pe] = "decompose"
    /\ \E assignment \in [Particle -> TreePiece] :
          /\ tpOf' = assignment
          /\ particleMsgs' = particleMsgs \cup FlushMsgs(Root, assignment)
          /\ TryProcessParticles(Root, TRUE, arrivedParticleMsgs[Root],
                                 numParticlesArrived[Root],
                                 Expected(Root, assignment), "exchange")
    /\ rangeMsgs' = rangeMsgs \cup (PE \ {Root})
    /\ UNCHANGED iteration

\* sendParticles on another PE, when the RangeMsg reaches it.  The flush comes
\* before haveRanges: what it sends lives in myParticles, which processing the
\* arrivals overwrites.
SendParticles(pe) ==
    /\ pe \in rangeMsgs
    /\ rangeMsgs' = rangeMsgs \ {pe}
    /\ particleMsgs' = particleMsgs \cup FlushMsgs(pe, tpOf)
    /\ TryProcessParticles(pe, TRUE, arrivedParticleMsgs[pe],
                           numParticlesArrived[pe], Expected(pe, tpOf),
                           "exchange")
    /\ UNCHANGED <<iteration, tpOf>>

\* receiveParticles.
ReceiveParticles(m) ==
    /\ particleMsgs' = particleMsgs \ {m}
    /\ TryProcessParticles(m.to, haveRanges[m.to],
                           arrivedParticleMsgs[m.to] \cup {m.parts},
                           numParticlesArrived[m.to] + Cardinality(m.parts),
                           numParticlesExpected[m.to], phase[m.to])
    /\ UNCHANGED <<iteration, tpOf, rangeMsgs>>

\* finishIteration: the PE's TreePieces have finished their traversals.
FinishIteration(pe) ==
    /\ phase[pe] = "tree"
    /\ phase' = [phase EXCEPT ![pe] = "finished"]
    /\ UNCHANGED <<iteration, haveRanges, numParticlesArrived,
                   numParticlesExpected, arrivedParticleMsgs, myParticles,
                   tpOf, particleMsgs, rangeMsgs>>

\* The end of advance: after the last step nothing calls decompose again.
NextPhase(n) == IF n = NumIterations THEN "done" ELSE "advanced"

\* advance: the reduction every PE contributed to in finishIteration.
Advance(pe) ==
    /\ phase[pe] = "finished"
    /\ \A q \in PE : phase[q] = "finished" \/ iteration[q] > iteration[pe]
    /\ haveRanges' = [haveRanges EXCEPT ![pe] = FALSE]
    /\ iteration' = [iteration EXCEPT ![pe] = @ + 1]
    /\ phase' = [phase EXCEPT ![pe] = NextPhase(iteration[pe] + 1)]
    /\ UNCHANGED <<numParticlesArrived, numParticlesExpected,
                   arrivedParticleMsgs, myParticles, tpOf, particleMsgs,
                   rangeMsgs>>

Next ==
    \/ ReceiveHistogram
    \/ \E pe \in PE : \/ Decompose(pe)
                      \/ SendParticles(pe)
                      \/ FinishIteration(pe)
                      \/ Advance(pe)
    \/ \E m \in particleMsgs : ReceiveParticles(m)

Spec == Init /\ [][Next]_vars

----------------------------------------------------------------------------
(* Properties. *)

TypeOK ==
    /\ iteration \in [PE -> 0 .. NumIterations]
    /\ phase \in [PE -> Phases]
    /\ haveRanges \in [PE -> BOOLEAN]
    /\ numParticlesArrived \in [PE -> Nat]
    /\ numParticlesExpected \in [PE -> Nat]
    /\ arrivedParticleMsgs \in [PE -> SUBSET (SUBSET Particle)]
    /\ myParticles \in [PE -> SUBSET Particle]
    /\ tpOf \in [Particle -> TreePiece]
    /\ particleMsgs \in SUBSET ParticleMsg
    /\ rangeMsgs \in SUBSET PE

\* What pe holds: between its flush and its adoption of the arrivals, the
\* storage of myParticles holds only copies of what has been sent.
Held(pe) == IF phase[pe] = "exchange" THEN {} ELSE myParticles[pe]

\* No interleaving of the exchange loses a particle or makes two of one: at
\* every moment each particle is held by one PE, or in one message in flight,
\* or in one message that waits at its destination (flushParticles,
\* receiveParticles, processSubmittedParticles).
ParticlesConserved ==
    /\ \A p \in Particle :
          \/ \E pe \in PE : p \in Held(pe)
          \/ \E m \in particleMsgs : p \in m.parts
          \/ \E pe \in PE : \E s \in arrivedParticleMsgs[pe] : p \in s
    /\ \A pe, q \in PE : pe # q => Held(pe) \cap Held(q) = {}
    /\ \A m, n \in particleMsgs : m # n => m.parts \cap n.parts = {}
    /\ \A pe, q \in PE : \A s \in arrivedParticleMsgs[pe],
                            t \in arrivedParticleMsgs[q] :
          (pe # q \/ s # t) => s \cap t = {}
    /\ \A pe \in PE, m \in particleMsgs : m.parts \cap Held(pe) = {}
    /\ \A pe \in PE : \A s \in arrivedParticleMsgs[pe] :
          /\ \A m \in particleMsgs : s \cap m.parts = {}
          /\ \A q \in PE : s \cap Held(q) = {}

\* A PE that leaves the exchange holds exactly the particles of the TreePieces
\* whose home it is: a message of another step, or one counted twice, would
\* let it leave with the right number of wrong particles
\* (tryProcessParticles compares two counters, not two sets).
OwnershipExact ==
    \A pe \in PE : phase[pe] \in {"tree", "finished"}
                     => myParticles[pe] = Assigned(tpOf, pe)

\* CkAssert(numParticlesArrived <= numParticlesExpected) in
\* tryProcessParticles never fails, whatever overtakes the RangeMsg.
NoOverrun ==
    \A pe \in PE : haveRanges[pe]
                     => numParticlesArrived[pe] <= numParticlesExpected[pe]

\* Particles of one step never reach a PE that is not in that step's
\* exchange: nothing is in flight to, or waits at, a PE that has finished
\* its exchange or not begun the step (haveRanges is all that tells steps
\* apart, and advance resets it).
StepIsolation ==
    /\ \A m \in particleMsgs : phase[m.to] \in {"decompose", "exchange"}
    /\ \A pe \in PE : phase[pe] \notin {"decompose", "exchange"}
                        => arrivedParticleMsgs[pe] = {} /\ pe \notin rangeMsgs

\* The exchange implements the redistribution it is for: the PEs still to
\* adopt their share are those in the exchange and those the RangeMsg has not
\* reached.
Unsettled ==
    {pe \in PE : \/ phase[pe] = "exchange"
                 \/ /\ phase[pe] = "decompose"
                    /\ phase[Root] \in {"exchange", "tree", "finished"}}
Target == [p \in Particle |-> homeOf[tpOf[p]]]

R == INSTANCE Redistribution
        WITH held <- myParticles, target <- Target, settled <- PE \ Unsettled

\* Every step of the exchange is a step of the redistribution, or leaves it
\* alone.
ImplementsRedistribution == R!Spec
============================================================================

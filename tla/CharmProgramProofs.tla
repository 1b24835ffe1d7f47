------------------------- MODULE CharmProgramProofs -------------------------
(* The safety of the Charm++ program for any number of PEs, TreePieces,       *)
(* particles and steps, in three parts.                                       *)
(*                                                                            *)
(* The exchange.  Its invariants are not inductive as they stand; IndInv adds *)
(* to them how far apart the PEs can be (Coupled, RootFirst), where messages  *)
(* can be (RangesOK, MsgsOK, ArrivedOK) and what the counters count (CountOK, *)
(* ExpectedOK).  All of it holds in the whole program, whose steps are steps  *)
(* of the exchange or leave it alone.                                         *)
(*                                                                            *)
(* The leapfrog.  LeapfrogExact speaks of steps that are under way.  LeapInv  *)
(* says as much of every moment: between the last reduction of a step and the *)
(* next decompose some PEs have moved their particles and others have not     *)
(* (Clocks, Forces), and what is reduced, the box and the energies, is filled *)
(* by one PE after the other (Contributed, BoxOK, EnergiesOK).                *)
(*                                                                            *)
(* The output.  OutInv says what has been written by the PEs that have ended  *)
(* a step.                                                                    *)
EXTENDS CharmProgram, FiniteSetTheorems, TLAPS

Exchanging == {"exchange", "tree", "finished"}

\* A PE is at most the final reduction of a step ahead of another one.
Coupled ==
    \A pe, q \in PE :
       /\ phase[pe] = "advanced" =>
             \/ iteration[q] = iteration[pe] /\ phase[q] \in {"advanced", "decompose"}
             \/ iteration[q] + 1 = iteration[pe] /\ phase[q] = "finished"
       /\ phase[pe] = "decompose" =>
             /\ iteration[q] = iteration[pe]
             /\ phase[q] \in {"advanced", "decompose"} \cup Exchanging
       /\ phase[pe] \in {"exchange", "tree"} =>
             /\ iteration[q] = iteration[pe]
             /\ phase[q] \in {"decompose"} \cup Exchanging
       /\ phase[pe] = "finished" =>
             \/ /\ iteration[q] = iteration[pe]
                /\ phase[q] \in {"decompose"} \cup Exchanging
             \/ /\ iteration[q] = iteration[pe] + 1
                /\ phase[q] \in {"advanced", "done"}
       /\ phase[pe] = "done" =>
             \/ iteration[q] = iteration[pe] /\ phase[q] = "done"
             \/ iteration[q] + 1 = iteration[pe] /\ phase[q] = "finished"

Ended == \A pe \in PE : phase[pe] = "done" <=> iteration[pe] = NumIterations

\* No PE flushes before PE 0 does.
RootFirst ==
    phase[Root] = "decompose" =>
       \A pe \in PE : phase[pe] \in {"advanced", "decompose"}

RangesOK ==
    /\ \A pe \in PE : haveRanges[pe] <=> phase[pe] \in Exchanging
    /\ \A pe \in rangeMsgs : /\ pe # Root
                             /\ phase[pe] = "decompose"
                             /\ phase[Root] \in Exchanging

MsgsOK ==
    \A m \in particleMsgs :
       /\ phase[m.to] \in {"decompose", "exchange"}
       /\ phase[Root] \in Exchanging
       /\ m.parts # {}
       /\ m.parts \subseteq Assigned(tpOf, m.to)

ArrivedOK ==
    \A pe \in PE : \A s \in arrivedParticleMsgs[pe] :
       /\ phase[pe] \in {"decompose", "exchange"}
       /\ phase[Root] \in Exchanging
       /\ s \subseteq Assigned(tpOf, pe)

CountOK ==
    \A pe \in PE :
       numParticlesArrived[pe] = Cardinality(UNION arrivedParticleMsgs[pe])

ExpectedOK ==
    \A pe \in PE : phase[pe] = "exchange" =>
                      numParticlesExpected[pe] = Cardinality(Assigned(tpOf, pe))

Control == Coupled /\ Ended /\ RootFirst /\ RangesOK
Counters == CountOK /\ ExpectedOK

IndInv == /\ TypeOK /\ Control /\ MsgsOK /\ ArrivedOK /\ Counters
          /\ OwnershipExact /\ ParticlesConserved
----------------------------------------------------------------------------
(* Sets of particles and their sizes. *)

\* Every set of particles is finite, so it has a size, and a subset of the
\* same size is the whole set.
LEMMA ParticleSets ==
    ASSUME NEW S \in SUBSET Particle
    PROVE  /\ IsFiniteSet(S)
           /\ Cardinality(S) \in Nat
           /\ \A T \in SUBSET S : /\ Cardinality(T) <= Cardinality(S)
                                  /\ Cardinality(T) = Cardinality(S) => T = S
<1>1. IsFiniteSet(Particle)
  BY ConstantsAssumption, FS_Interval DEF Particle
<1>2. IsFiniteSet(S) /\ Cardinality(S) \in Nat
  BY <1>1, FS_Subset, FS_CardinalityType
<1>3. ASSUME NEW T \in SUBSET S
      PROVE  Cardinality(T) <= Cardinality(S) /\ (Cardinality(T) = Cardinality(S) => T = S)
  BY <1>2, FS_Subset
<1> QED
  BY <1>2, <1>3

\* The sizes of two sets of particles that share none add up.
LEMMA DisjointUnion ==
    ASSUME NEW S \in SUBSET Particle, NEW T \in SUBSET Particle, S \cap T = {}
    PROVE  Cardinality(S \cup T) = Cardinality(S) + Cardinality(T)
<1>1. /\ IsFiniteSet(S) /\ Cardinality(S) \in Nat
      /\ IsFiniteSet(T) /\ Cardinality(T) \in Nat
  BY ParticleSets
<1>2. Cardinality(S \cap T) = 0
  BY FS_EmptySet
<1>3. Cardinality(S \cup T) = Cardinality(S) + Cardinality(T) - Cardinality(S \cap T)
  BY <1>1, FS_Union
<1> QED
  BY <1>1, <1>2, <1>3

\* emitFlushRun cuts a run into messages that are not empty, share nothing and
\* together hold the run.
LEMMA ChunksPartition ==
    ASSUME NEW S
    PROVE  /\ \A c \in Chunks(S) : c \subseteq S /\ c # {}
           /\ \A c, d \in Chunks(S) : c # d => c \cap d = {}
           /\ \A p \in S : \E c \in Chunks(S) : p \in c
<1> DEFINE Class(p) == Rank(S, p) \div MaxParticlesPerMsg
<1>1. Chunks(S) = {{q \in S : Class(q) = Class(p)} : p \in S}
  BY DEF Chunks, Chunk
<1> HIDE DEF Class
<1>2. \A c \in Chunks(S) : c \subseteq S /\ c # {}
  BY <1>1, Zenon
<1>3. ASSUME NEW c \in Chunks(S), NEW d \in Chunks(S), NEW x \in c \cap d
      PROVE  c = d
  <2>1. PICK p \in S : c = {q \in S : Class(q) = Class(p)}
    BY <1>1
  <2>2. PICK r \in S : d = {q \in S : Class(q) = Class(r)}
    BY <1>1
  <2>3. Class(p) = Class(r)
    BY <2>1, <2>2
  <2> QED
    BY <2>1, <2>2, <2>3
<1>4. ASSUME NEW p \in S
      PROVE  \E c \in Chunks(S) : p \in c
  <2>1. {q \in S : Class(q) = Class(p)} \in Chunks(S)
    BY <1>1
  <2> QED
    BY <2>1
<1> QED
  BY <1>2, <1>3, <1>4

\* flushParticles sends every particle of the PE, once, to the home of its
\* TreePiece.
LEMMA FlushSendsAll ==
    ASSUME NEW pe \in PE, myParticles[pe] \in SUBSET Particle,
           NEW assignment \in [Particle -> TreePiece]
    PROVE  /\ FlushMsgs(pe, assignment) \subseteq ParticleMsg
           /\ \A m \in FlushMsgs(pe, assignment) :
                 /\ m.to \in PE
                 /\ m.parts # {}
                 /\ m.parts \subseteq myParticles[pe]
                 /\ m.parts \subseteq Assigned(assignment, m.to)
           /\ \A m, n \in FlushMsgs(pe, assignment) : m # n => m.parts \cap n.parts = {}
           /\ \A p \in myParticles[pe] : \E m \in FlushMsgs(pe, assignment) : p \in m.parts
<1> DEFINE Run(q) == myParticles[pe] \cap Assigned(assignment, q)
<1>1. \A m : m \in FlushMsgs(pe, assignment) <=>
                \E q \in PE : \E c \in Chunks(Run(q)) : m = [to |-> q, parts |-> c]
  BY DEF FlushMsgs
<1>2. \A q \in PE : /\ \A c \in Chunks(Run(q)) : c \subseteq Run(q) /\ c # {}
                    /\ \A c, d \in Chunks(Run(q)) : c # d => c \cap d = {}
                    /\ \A p \in Run(q) : \E c \in Chunks(Run(q)) : p \in c
  <2> TAKE q \in PE
  <2> HIDE DEF Run
  <2> QED
    BY ChunksPartition
<1>3. \A q, r \in PE : q # r => Run(q) \cap Run(r) = {}
  BY DEF Assigned
<1>4. \A p \in myParticles[pe] : \E q \in PE : p \in Run(q)
  BY ConstantsAssumption DEF Assigned
<1>5. \A q \in PE : Run(q) \subseteq Particle
  BY DEF Assigned
<1> HIDE DEF Run
<1>6. FlushMsgs(pe, assignment) \subseteq ParticleMsg
  BY <1>1, <1>2, <1>5 DEF ParticleMsg
<1>7. ASSUME NEW m \in FlushMsgs(pe, assignment)
      PROVE  /\ m.to \in PE /\ m.parts # {} /\ m.parts \subseteq myParticles[pe]
             /\ m.parts \subseteq Assigned(assignment, m.to)
  <2>1. PICK q \in PE : \E c \in Chunks(Run(q)) : m = [to |-> q, parts |-> c]
    BY <1>1
  <2> PICK c \in Chunks(Run(q)) : m = [to |-> q, parts |-> c]
    BY <2>1
  <2>2. m.to = q /\ m.parts = c
    BY <2>1
  <2>3. c \subseteq Run(q) /\ c # {}
    BY <1>2, <2>1
  <2> QED
    BY <2>2, <2>3 DEF Run
<1>8. ASSUME NEW m \in FlushMsgs(pe, assignment), NEW n \in FlushMsgs(pe, assignment),
             m # n
      PROVE  m.parts \cap n.parts = {}
  <2>1. PICK q \in PE : \E c \in Chunks(Run(q)) : m = [to |-> q, parts |-> c]
    BY <1>1
  <2>2. PICK r \in PE : \E c \in Chunks(Run(r)) : n = [to |-> r, parts |-> c]
    BY <1>1
  <2>3. CASE q = r
    BY <2>1, <2>2, <2>3, <1>2, <1>8
  <2>4. CASE q # r
    BY <2>1, <2>2, <2>4, <1>2, <1>3
  <2> QED
    BY <2>3, <2>4
<1>9. ASSUME NEW p \in myParticles[pe]
      PROVE  \E m \in FlushMsgs(pe, assignment) : p \in m.parts
  <2>1. PICK q \in PE : p \in Run(q)
    BY <1>4
  <2>2. PICK c \in Chunks(Run(q)) : p \in c
    BY <1>2, <2>1
  <2>3. [to |-> q, parts |-> c] \in FlushMsgs(pe, assignment)
    BY <1>1, <2>2
  <2> QED
    BY <2>2, <2>3
<1> QED
  BY <1>6, <1>7, <1>8, <1>9

\* If what has arrived at a PE belongs there, then either everything that
\* belongs there has come, or less has come than is expected.
LEMMA AllArrived ==
    ASSUME NEW assignment \in [Particle -> TreePiece], NEW pe \in PE,
           NEW arrived, \A s \in arrived : s \subseteq Assigned(assignment, pe)
    PROVE  /\ Cardinality(UNION arrived) \in Nat
           /\ Expected(pe, assignment) \in Nat
           /\ Cardinality(UNION arrived) <= Expected(pe, assignment)
           /\ Cardinality(UNION arrived) = Expected(pe, assignment)
                 => UNION arrived = Assigned(assignment, pe)
<1>1. UNION arrived \in SUBSET Assigned(assignment, pe)
  OBVIOUS
<1>2. Assigned(assignment, pe) \in SUBSET Particle
  BY DEF Assigned
<1> QED
  BY <1>1, <1>2, ParticleSets DEF Expected

----------------------------------------------------------------------------
(* What flushing and adopting do to the particles.  The two actions that      *)
(* flush, receiveHistogram on PE 0 and sendParticles elsewhere, share this.   *)

FlushAndTry(pe, assignment) ==
    /\ tpOf' = assignment
    /\ particleMsgs' = particleMsgs \cup FlushMsgs(pe, assignment)
    /\ TryProcessParticles(pe, TRUE, arrivedParticleMsgs[pe],
                           numParticlesArrived[pe], Expected(pe, assignment),
                           "exchange")

\* What is known of the messages when a PE flushes: they belong where they
\* are going under the assignment it flushes by.
Routed(assignment) ==
    /\ \A m \in particleMsgs : m.parts \subseteq Assigned(assignment, m.to)
    /\ \A pe \in PE : \A s \in arrivedParticleMsgs[pe] :
                         s \subseteq Assigned(assignment, pe)

\* A PE adopts its arrivals exactly when they are all that is assigned to it.
LEMMA TryProcess ==
    ASSUME TypeOK, NEW pe \in PE, NEW assignment \in [Particle -> TreePiece],
           NEW arrived \in SUBSET (SUBSET Particle),
           \A s \in arrived : s \subseteq Assigned(assignment, pe),
           NEW before \in Phases,
           TryProcessParticles(pe, TRUE, arrived, Cardinality(UNION arrived),
                               Expected(pe, assignment), before)
    PROVE  /\ haveRanges' = [haveRanges EXCEPT ![pe] = TRUE]
           /\ numParticlesExpected' =
                 [numParticlesExpected EXCEPT ![pe] = Expected(pe, assignment)]
           /\ \/ /\ UNION arrived = Assigned(assignment, pe)
                 /\ phase' = [phase EXCEPT ![pe] = "tree"]
                 /\ arrivedParticleMsgs' = [arrivedParticleMsgs EXCEPT ![pe] = {}]
                 /\ numParticlesArrived' = [numParticlesArrived EXCEPT ![pe] = 0]
                 /\ myParticles' = [myParticles EXCEPT ![pe] = Assigned(assignment, pe)]
              \/ /\ phase' = [phase EXCEPT ![pe] = before]
                 /\ arrivedParticleMsgs' = [arrivedParticleMsgs EXCEPT ![pe] = arrived]
                 /\ numParticlesArrived' =
                       [numParticlesArrived EXCEPT ![pe] = Cardinality(UNION arrived)]
                 /\ myParticles' = myParticles
<1>1. CASE Cardinality(UNION arrived) = Expected(pe, assignment)
  BY <1>1, AllArrived DEF TryProcessParticles, Ready
<1>2. CASE Cardinality(UNION arrived) # Expected(pe, assignment)
  BY <1>2 DEF TryProcessParticles, Ready, TypeOK
<1> QED
  BY <1>1, <1>2

\* ParticlesConserved, read particle by particle.
Placed(p) ==
    /\ \/ \E pe \in PE : p \in Held(pe)
       \/ \E m \in particleMsgs : p \in m.parts
       \/ \E pe \in PE : \E s \in arrivedParticleMsgs[pe] : p \in s
    /\ \A pe, q \in PE : p \in Held(pe) /\ p \in Held(q) => pe = q
    /\ \A m, n \in particleMsgs : p \in m.parts /\ p \in n.parts => m = n
    /\ \A pe, q \in PE : \A s \in arrivedParticleMsgs[pe], t \in arrivedParticleMsgs[q] :
          p \in s /\ p \in t => pe = q /\ s = t
    /\ \A m \in particleMsgs, pe \in PE : ~(p \in m.parts /\ p \in Held(pe))
    /\ \A m \in particleMsgs, pe \in PE : \A s \in arrivedParticleMsgs[pe] :
          ~(p \in s /\ p \in m.parts)
    /\ \A pe, q \in PE : \A s \in arrivedParticleMsgs[pe] : ~(p \in s /\ p \in Held(q))

AllPlaced == \A p \in Particle : Placed(p)

\* ParticlesConserved, taken apart by particle: each one is in one place.
LEMMA PlacedConserved == TypeOK => (ParticlesConserved <=> AllPlaced)
<1> SUFFICES ASSUME TypeOK
             PROVE  ParticlesConserved <=> \A p \in Particle : Placed(p)
  BY DEF AllPlaced
<1>1. /\ \A pe \in PE : Held(pe) \subseteq Particle
      /\ \A m \in particleMsgs : m.parts \subseteq Particle /\ m.to \in PE
      /\ \A pe \in PE : \A s \in arrivedParticleMsgs[pe] : s \subseteq Particle
  BY DEF TypeOK, Held, ParticleMsg
<1>2. ASSUME ParticlesConserved, NEW p \in Particle  PROVE Placed(p)
  <2>1. \A pe, q \in PE : p \in Held(pe) /\ p \in Held(q) => pe = q
    BY <1>2 DEF ParticlesConserved
  <2>2. \A m, n \in particleMsgs : p \in m.parts /\ p \in n.parts => m = n
    BY <1>2 DEF ParticlesConserved
  <2>3. \A pe, q \in PE : \A s \in arrivedParticleMsgs[pe], t \in arrivedParticleMsgs[q] :
          p \in s /\ p \in t => pe = q /\ s = t
    BY <1>2 DEF ParticlesConserved
  <2>4. /\ \A m \in particleMsgs, pe \in PE : ~(p \in m.parts /\ p \in Held(pe))
        /\ \A m \in particleMsgs, pe \in PE : \A s \in arrivedParticleMsgs[pe] :
              ~(p \in s /\ p \in m.parts)
    BY <1>2 DEF ParticlesConserved
  <2>5. \A pe, q \in PE : \A s \in arrivedParticleMsgs[pe] : ~(p \in s /\ p \in Held(q))
    BY <1>2 DEF ParticlesConserved
  <2> QED
    BY <2>1, <2>2, <2>3, <2>4, <2>5, <1>2 DEF Placed, ParticlesConserved
<1>3. ASSUME \A p \in Particle : Placed(p)  PROVE ParticlesConserved
  <2>1. \A pe, q \in PE : pe # q => Held(pe) \cap Held(q) = {}
    BY <1>1, <1>3 DEF Placed
  <2>2. \A m, n \in particleMsgs : m # n => m.parts \cap n.parts = {}
    BY <1>1, <1>3 DEF Placed
  <2>3. \A pe, q \in PE : \A s \in arrivedParticleMsgs[pe], t \in arrivedParticleMsgs[q] :
          (pe # q \/ s # t) => s \cap t = {}
    BY <1>1, <1>3 DEF Placed
  <2>4. \A pe \in PE, m \in particleMsgs : m.parts \cap Held(pe) = {}
    BY <1>1, <1>3 DEF Placed
  <2>5. \A pe \in PE : \A s \in arrivedParticleMsgs[pe] :
          /\ \A m \in particleMsgs : s \cap m.parts = {}
          /\ \A q \in PE : s \cap Held(q) = {}
    BY <1>1, <1>3 DEF Placed
  <2> QED
    BY <2>1, <2>2, <2>3, <2>4, <2>5, <1>3 DEF Placed, ParticlesConserved
<1> QED
  BY <1>2, <1>3

\* What flushing does, in terms of places: the PE's particles go into
\* messages, and its arrivals, when they are complete, into its storage.
LEMMA FlushMoves ==
    ASSUME TypeOK, CountOK, UNCHANGED iteration, rangeMsgs' \in SUBSET PE,
           NEW pe \in PE, phase[pe] = "decompose",
           NEW assignment \in [Particle -> TreePiece],
           Routed(assignment), FlushAndTry(pe, assignment)
    PROVE  /\ TypeOK' /\ CountOK'
           /\ haveRanges' = [haveRanges EXCEPT ![pe] = TRUE]
           /\ numParticlesExpected' =
                 [numParticlesExpected EXCEPT ![pe] = Expected(pe, assignment)]
           /\ \A q \in PE : q # pe => /\ Held(q)' = Held(q)
                                      /\ myParticles'[q] = myParticles[q]
                                      /\ arrivedParticleMsgs'[q] = arrivedParticleMsgs[q]
           /\ Held(pe) = myParticles[pe]
           /\ \/ /\ phase' = [phase EXCEPT ![pe] = "exchange"]
                 /\ Held(pe)' = {}
                 /\ arrivedParticleMsgs'[pe] = arrivedParticleMsgs[pe]
                 /\ myParticles' = myParticles
              \/ /\ phase' = [phase EXCEPT ![pe] = "tree"]
                 /\ Held(pe)' = UNION arrivedParticleMsgs[pe]
                 /\ arrivedParticleMsgs'[pe] = {}
                 /\ myParticles'[pe] = Assigned(assignment, pe)
                 /\ UNION arrivedParticleMsgs[pe] = Assigned(assignment, pe)
<1> DEFINE A == arrivedParticleMsgs[pe]
<1>1. /\ \A s \in A : s \subseteq Assigned(assignment, pe)
      /\ A \in SUBSET (SUBSET Particle)
      /\ numParticlesArrived[pe] = Cardinality(UNION A)
      /\ "exchange" \in Phases
      /\ Assigned(assignment, pe) \in SUBSET Particle
      /\ numParticlesArrived \in [PE -> Nat]
  BY DEF Routed, TypeOK, CountOK, Phases, Assigned
<1>2. TryProcessParticles(pe, TRUE, A, Cardinality(UNION A), Expected(pe, assignment), "exchange")
  BY <1>1 DEF FlushAndTry
<1>3. /\ haveRanges' = [haveRanges EXCEPT ![pe] = TRUE]
      /\ numParticlesExpected' = [numParticlesExpected EXCEPT ![pe] = Expected(pe, assignment)]
      /\ \/ /\ UNION A = Assigned(assignment, pe)
            /\ phase' = [phase EXCEPT ![pe] = "tree"]
            /\ arrivedParticleMsgs' = [arrivedParticleMsgs EXCEPT ![pe] = {}]
            /\ numParticlesArrived' = [numParticlesArrived EXCEPT ![pe] = 0]
            /\ myParticles' = [myParticles EXCEPT ![pe] = Assigned(assignment, pe)]
         \/ /\ phase' = [phase EXCEPT ![pe] = "exchange"]
            /\ arrivedParticleMsgs' = arrivedParticleMsgs
            /\ numParticlesArrived' = numParticlesArrived
            /\ myParticles' = myParticles
  <2>1. [arrivedParticleMsgs EXCEPT ![pe] = A] = arrivedParticleMsgs
    BY DEF TypeOK
  <2>2. [numParticlesArrived EXCEPT ![pe] = Cardinality(UNION A)] = numParticlesArrived
    BY <1>1
  <2> HIDE DEF A
  <2>3. haveRanges' = [haveRanges EXCEPT ![pe] = TRUE]
        /\ numParticlesExpected' = [numParticlesExpected EXCEPT ![pe] = Expected(pe, assignment)]
    BY <1>2 DEF TryProcessParticles, Ready
  <2>4. \/ /\ UNION A = Assigned(assignment, pe)
           /\ phase' = [phase EXCEPT ![pe] = "tree"]
           /\ arrivedParticleMsgs' = [arrivedParticleMsgs EXCEPT ![pe] = {}]
           /\ numParticlesArrived' = [numParticlesArrived EXCEPT ![pe] = 0]
           /\ myParticles' = [myParticles EXCEPT ![pe] = Assigned(assignment, pe)]
        \/ /\ phase' = [phase EXCEPT ![pe] = "exchange"]
           /\ arrivedParticleMsgs' = [arrivedParticleMsgs EXCEPT ![pe] = A]
           /\ numParticlesArrived' =
                 [numParticlesArrived EXCEPT ![pe] = Cardinality(UNION A)]
           /\ myParticles' = myParticles
    BY <1>1, <1>2, TryProcess
  <2> QED
    BY <2>1, <2>2, <2>3, <2>4
<1>4. tpOf' = assignment /\ particleMsgs' = particleMsgs \cup FlushMsgs(pe, assignment)
  BY DEF FlushAndTry
<1>5. TypeOK'
  <2>1. FlushMsgs(pe, assignment) \subseteq ParticleMsg
    BY FlushSendsAll DEF TypeOK
  <2>2. Expected(pe, assignment) \in Nat
    BY <1>1, ParticleSets DEF Expected
  <2> QED
    BY <1>1, <1>3, <1>4, <2>1, <2>2 DEF TypeOK, Phases
<1>6. CountOK'
  <2>1. UNION {} = {} /\ Cardinality({}) = 0
    BY FS_EmptySet
  <2> QED
    BY ZenonT(30), <1>1, <1>3, <2>1 DEF CountOK, TypeOK
<1>7. \A q \in PE : q # pe => /\ Held(q)' = Held(q)
                              /\ myParticles'[q] = myParticles[q]
                              /\ arrivedParticleMsgs'[q] = arrivedParticleMsgs[q]
  BY <1>3 DEF Held, TypeOK
<1>8. Held(pe) = myParticles[pe]
  BY DEF Held
<1>9. \/ /\ phase' = [phase EXCEPT ![pe] = "exchange"]
         /\ Held(pe)' = {}
         /\ arrivedParticleMsgs'[pe] = arrivedParticleMsgs[pe]
         /\ myParticles' = myParticles
      \/ /\ phase' = [phase EXCEPT ![pe] = "tree"]
         /\ Held(pe)' = UNION arrivedParticleMsgs[pe]
         /\ arrivedParticleMsgs'[pe] = {}
         /\ myParticles'[pe] = Assigned(assignment, pe)
         /\ UNION arrivedParticleMsgs[pe] = Assigned(assignment, pe)
  BY <1>3 DEF Held, TypeOK
<1> QED
  BY <1>3, <1>5, <1>6, <1>7, <1>8, <1>9

\* So no particle is lost or doubled by it.
LEMMA FlushConserves ==
    ASSUME TypeOK, CountOK, ParticlesConserved,
           UNCHANGED iteration, rangeMsgs' \in SUBSET PE,
           NEW pe \in PE, phase[pe] = "decompose",
           NEW assignment \in [Particle -> TreePiece],
           Routed(assignment), FlushAndTry(pe, assignment)
    PROVE  ParticlesConserved'
<1> DEFINE M == FlushMsgs(pe, assignment)
<1> DEFINE A == arrivedParticleMsgs[pe]
<1>1. /\ \A m \in M : m.to \in PE /\ m.parts # {} /\ m.parts \subseteq Held(pe)
      /\ \A m, n \in M : m # n => m.parts \cap n.parts = {}
      /\ \A p \in Held(pe) : \E m \in M : p \in m.parts
  BY FlushSendsAll DEF TypeOK, Held
<1>2. particleMsgs' = particleMsgs \cup M
  BY DEF FlushAndTry
<1>3. /\ TypeOK'
      /\ \A q \in PE : q # pe => /\ Held(q)' = Held(q)
                                 /\ arrivedParticleMsgs'[q] = arrivedParticleMsgs[q]
      /\ \/ Held(pe)' = {} /\ arrivedParticleMsgs'[pe] = A
         \/ Held(pe)' = UNION A /\ arrivedParticleMsgs'[pe] = {}
  BY FlushMoves
<1> HIDE DEF M
<1> SUFFICES ASSUME NEW p \in Particle, Placed(p)
             PROVE  Placed(p)'
  <2>1. (TypeOK => (ParticlesConserved <=> AllPlaced))'
    BY PlacedConserved, PTL
  <2> QED
    BY <1>3, <2>1, PlacedConserved DEF AllPlaced
<1>4. \/ \E q \in PE : p \in Held(q)'
      \/ \E m \in particleMsgs' : p \in m.parts
      \/ \E q \in PE : \E s \in arrivedParticleMsgs'[q] : p \in s
  <2>1. CASE \E q \in PE : p \in Held(q)
    BY <2>1, <1>1, <1>2, <1>3
  <2>2. CASE \E m \in particleMsgs : p \in m.parts
    BY <2>2, <1>2
  <2>3. CASE \E q \in PE : \E s \in arrivedParticleMsgs[q] : p \in s
    BY <2>3, <1>3
  <2> QED
    BY <2>1, <2>2, <2>3 DEF Placed
<1>5. \A q, r \in PE : p \in Held(q)' /\ p \in Held(r)' => q = r
  BY <1>3 DEF Placed
<1>6. \A m, n \in particleMsgs' : p \in m.parts /\ p \in n.parts => m = n
  BY <1>1, <1>2 DEF Placed
<1>7. \A q, r \in PE : \A s \in arrivedParticleMsgs'[q], t \in arrivedParticleMsgs'[r] :
         p \in s /\ p \in t => q = r /\ s = t
  BY <1>3 DEF Placed
<1>8. \A m \in particleMsgs', q \in PE : ~(p \in m.parts /\ p \in Held(q)')
  <2> TAKE m \in particleMsgs', q \in PE
  <2>1. CASE m \in particleMsgs
    BY <2>1, <1>3 DEF Placed
  <2>2. CASE m \in M
    BY <2>2, <1>1, <1>3 DEF Placed
  <2> QED
    BY <2>1, <2>2, <1>2
<1>9. \A m \in particleMsgs', q \in PE : \A s \in arrivedParticleMsgs'[q] :
         ~(p \in s /\ p \in m.parts)
  BY <1>1, <1>2, <1>3 DEF Placed
<1>10. \A q, r \in PE : \A s \in arrivedParticleMsgs'[q] : ~(p \in s /\ p \in Held(r)')
  BY <1>3 DEF Placed
<1> QED
  BY <1>4, <1>5, <1>6, <1>7, <1>8, <1>9, <1>10 DEF Placed

----------------------------------------------------------------------------
(* Every action preserves IndInv. *)

\* The loaded particles start out held by one PE each.
LEMMA InitIndInv == Init => IndInv
<1> SUFFICES ASSUME Init  PROVE IndInv
  OBVIOUS
<1> USE ConstantsAssumption
<1>1. PICK loadedBy \in [Particle -> PE] :
         myParticles = [pe \in PE |-> {p \in Particle : loadedBy[p] = pe}]
  BY DEF Init
<1>2. TypeOK
  BY <1>1 DEF Init, TypeOK, Phases, ParticleMsg
<1>3. Control
  BY DEF Init, Control, Coupled, Ended, RootFirst, RangesOK, Exchanging
<1>4. MsgsOK /\ ArrivedOK
  BY DEF Init, MsgsOK, ArrivedOK
<1>5. Counters
  <2>1. UNION {} = {} /\ Cardinality({}) = 0
    BY FS_EmptySet
  <2> QED
    BY <2>1 DEF Init, Counters, CountOK, ExpectedOK
<1>6. OwnershipExact
  BY DEF Init, OwnershipExact
<1>7. ParticlesConserved
  BY <1>1 DEF Init, ParticlesConserved, Held
<1> QED
  BY <1>2, <1>3, <1>4, <1>5, <1>6, <1>7 DEF IndInv

\* A PE that neither enters nor leaves the exchange moves no particle.
LEMMA QuietConserves ==
    ASSUME ParticlesConserved,
           UNCHANGED <<myParticles, arrivedParticleMsgs, particleMsgs>>,
           \A q \in PE : phase'[q] = "exchange" <=> phase[q] = "exchange"
    PROVE  ParticlesConserved'
<1>1. \A q \in PE : Held(q)' = Held(q)
  BY DEF Held
<1> QED
  BY <1>1 DEF ParticlesConserved

\* A PE that begins to decompose moves nothing, and is in its step.
LEMMA DecomposeIndInv ==
    ASSUME IndInv, NEW pe \in PE, Decompose(pe)
    PROVE  IndInv'
<1> USE ConstantsAssumption
<1>1. TypeOK'
  BY DEF IndInv, TypeOK, Decompose, Phases
<1>2. Control'
  <2>1. \A q \in PE : /\ iteration[q] = iteration[pe]
                      /\ phase[q] \in {"advanced", "decompose"}
    BY DEF IndInv, Control, Coupled, Decompose, TypeOK
  <2>2. \A q \in PE : phase'[q] \in {"advanced", "decompose"} /\ iteration'[q] = iteration[pe]
    BY <2>1 DEF IndInv, TypeOK, Decompose
  <2>3. Coupled' /\ RootFirst'
    BY <2>2 DEF Coupled, RootFirst
  <2>4. Ended'
    BY DEF IndInv, Control, Ended, Decompose, TypeOK
  <2>5. RangesOK'
    BY <2>1 DEF IndInv, Control, RangesOK, Decompose, TypeOK, Exchanging
  <2> QED
    BY <2>3, <2>4, <2>5 DEF Control
<1>3. MsgsOK' /\ ArrivedOK'
  BY DEF IndInv, MsgsOK, ArrivedOK, Decompose, TypeOK, ParticleMsg, Exchanging, Assigned
<1>4. Counters'
  BY DEF IndInv, Counters, CountOK, ExpectedOK, Decompose, TypeOK, Assigned
<1>5. OwnershipExact'
  BY DEF IndInv, OwnershipExact, Decompose, TypeOK, Assigned
<1>6. ParticlesConserved'
  BY QuietConserves DEF IndInv, Decompose, TypeOK
<1> QED
  BY <1>1, <1>2, <1>3, <1>4, <1>5, <1>6 DEF IndInv

\* A PE that ends its step keeps the particles it adopted.
LEMMA FinishIterationIndInv ==
    ASSUME IndInv, NEW pe \in PE, FinishIteration(pe)
    PROVE  IndInv'
<1> USE ConstantsAssumption
<1>1. TypeOK'
  BY DEF IndInv, TypeOK, FinishIteration, Phases
<1>2. Control'
  <2>1. \A q \in PE : /\ iteration[q] = iteration[pe]
                      /\ phase[q] \in {"decompose"} \cup Exchanging
    BY DEF IndInv, Control, Coupled, FinishIteration, TypeOK
  <2>2. \A q \in PE : /\ phase'[q] \in {"decompose"} \cup Exchanging
                      /\ iteration'[q] = iteration[pe]
    BY <2>1 DEF IndInv, TypeOK, FinishIteration, Exchanging
  <2>3. Coupled'
    BY <2>2 DEF Coupled, Exchanging
  <2>4. RootFirst'
    BY <2>2 DEF IndInv, Control, RootFirst, FinishIteration, TypeOK
  <2>5. Ended'
    BY DEF IndInv, Control, Ended, FinishIteration, TypeOK
  <2>6. RangesOK'
    BY <2>1 DEF IndInv, Control, RangesOK, FinishIteration, TypeOK, Exchanging
  <2> QED
    BY <2>3, <2>4, <2>5, <2>6 DEF Control
<1>3. MsgsOK' /\ ArrivedOK'
  BY DEF IndInv, MsgsOK, ArrivedOK, FinishIteration, TypeOK, ParticleMsg, Exchanging, Assigned
<1>4. Counters'
  BY DEF IndInv, Counters, CountOK, ExpectedOK, FinishIteration, TypeOK, Assigned
<1>5. OwnershipExact'
  BY DEF IndInv, OwnershipExact, FinishIteration, TypeOK, Assigned
<1>6. ParticlesConserved'
  BY QuietConserves DEF IndInv, FinishIteration, TypeOK
<1> QED
  BY <1>1, <1>2, <1>3, <1>4, <1>5, <1>6 DEF IndInv

\* No PE is still in the exchange when one advances: the reduction that
\* advance is called by has had every PE's contribution.
LEMMA AdvanceBarrier ==
    ASSUME IndInv, NEW pe \in PE, Advance(pe)
    PROVE  /\ \A q \in PE : \/ iteration[q] = iteration[pe] /\ phase[q] = "finished"
                            \/ /\ iteration[q] = iteration[pe] + 1
                               /\ phase[q] \in {"advanced", "done"}
           /\ particleMsgs = {} /\ rangeMsgs = {}
<1>1. \A q \in PE : \/ iteration[q] = iteration[pe] /\ phase[q] = "finished"
                    \/ /\ iteration[q] = iteration[pe] + 1
                       /\ phase[q] \in {"advanced", "done"}
  BY DEF IndInv, Control, Coupled, Advance, NextPhase, TypeOK
<1>2. particleMsgs = {}
  BY <1>1 DEF IndInv, MsgsOK, TypeOK, ParticleMsg
<1>3. rangeMsgs = {}
  BY <1>1 DEF IndInv, Control, RangesOK, TypeOK
<1> QED
  BY <1>1, <1>2, <1>3

\* A PE that goes on to the next step, or ends, forgets the ranges.
LEMMA AdvanceIndInv ==
    ASSUME IndInv, NEW pe \in PE, Advance(pe)
    PROVE  IndInv'
<1> USE ConstantsAssumption
<1>1. \A q \in PE : \/ iteration[q] = iteration[pe] /\ phase[q] = "finished"
                    \/ /\ iteration[q] = iteration[pe] + 1
                       /\ phase[q] \in {"advanced", "done"}
  BY AdvanceBarrier
<1>2. iteration[pe] \in 0 .. (NumIterations - 1)
  <2>1. iteration[pe] \in 0 .. NumIterations
    BY DEF IndInv, TypeOK
  <2>2. iteration[pe] # NumIterations
    BY DEF IndInv, Control, Ended, Advance, NextPhase
  <2> QED
    BY <2>1, <2>2
<1>3. TypeOK'
  <2>1. iteration' \in [PE -> 0 .. NumIterations]
    BY <1>2 DEF IndInv, TypeOK, Advance, NextPhase
  <2> QED
    BY <2>1 DEF IndInv, TypeOK, Advance, NextPhase, Phases
<1>4. Control'
  <2>1. /\ iteration'[pe] = iteration[pe] + 1
        /\ phase'[pe] \in {"advanced", "done"}
        /\ phase'[pe] = "done" <=> iteration[pe] + 1 = NumIterations
        /\ \A q \in PE : q # pe => iteration'[q] = iteration[q] /\ phase'[q] = phase[q]
    BY DEF IndInv, TypeOK, Advance, NextPhase
  <2>2. Ended'
    BY <2>1 DEF IndInv, Control, Ended
  <2>3. \A q \in PE : \/ iteration'[q] = iteration[pe] /\ phase'[q] = "finished"
                      \/ iteration'[q] = iteration[pe] + 1 /\ phase'[q] \in {"advanced", "done"}
    BY <1>1, <2>1
  <2>4. Coupled' /\ RootFirst'
    BY <2>2, <2>3, <1>2 DEF Coupled, RootFirst, Ended, Exchanging
  <2>5. RangesOK'
    BY <2>1, AdvanceBarrier DEF IndInv, Control, RangesOK, Advance, NextPhase, TypeOK, Exchanging
  <2> QED
    BY <2>2, <2>4, <2>5 DEF Control
<1>5. MsgsOK' /\ ArrivedOK'
  BY <1>1, AdvanceBarrier DEF IndInv, MsgsOK, ArrivedOK, Advance, NextPhase, TypeOK
<1>6. Counters'
  BY DEF IndInv, Counters, CountOK, ExpectedOK, Advance, NextPhase, TypeOK, Assigned
<1>7. OwnershipExact'
  BY DEF IndInv, OwnershipExact, Advance, NextPhase, TypeOK, Assigned
<1>8. ParticlesConserved'
  BY QuietConserves DEF IndInv, Advance, NextPhase, TypeOK
<1> QED
  BY <1>3, <1>4, <1>5, <1>6, <1>7, <1>8 DEF IndInv

\* Before PE 0 has the histogram, nothing is in flight or waiting.
LEMMA HistogramBarrier ==
    ASSUME IndInv, \A pe \in PE : phase[pe] = "decompose"
    PROVE  /\ particleMsgs = {} /\ rangeMsgs = {}
           /\ \A pe \in PE : arrivedParticleMsgs[pe] = {}
<1> USE ConstantsAssumption
<1>1. phase[Root] \notin Exchanging
  BY DEF Exchanging
<1> QED
  BY <1>1 DEF IndInv, MsgsOK, ArrivedOK, Control, RangesOK

\* PE 0's flush, when every PE waits for the ranges.
LEMMA ReceiveHistogramIndInv ==
    ASSUME IndInv, ReceiveHistogram
    PROVE  IndInv'
<1> USE ConstantsAssumption
<1>1. PICK assignment \in [Particle -> TreePiece] : FlushAndTry(Root, assignment)
  BY DEF ReceiveHistogram, FlushAndTry
<1>2. /\ particleMsgs = {} /\ rangeMsgs = {}
      /\ \A pe \in PE : phase[pe] = "decompose" /\ arrivedParticleMsgs[pe] = {}
  BY HistogramBarrier DEF ReceiveHistogram
<1>3. /\ UNCHANGED iteration /\ rangeMsgs' = PE \ {Root}
      /\ particleMsgs' = FlushMsgs(Root, assignment) /\ tpOf' = assignment
  BY <1>1, <1>2 DEF ReceiveHistogram, FlushAndTry
<1>4. Routed(assignment)
  BY <1>2 DEF Routed
<1>5. /\ TypeOK' /\ CountOK'
      /\ haveRanges' = [haveRanges EXCEPT ![Root] = TRUE]
      /\ numParticlesExpected' =
            [numParticlesExpected EXCEPT ![Root] = Expected(Root, assignment)]
      /\ \A q \in PE : arrivedParticleMsgs'[q] = {}
      /\ \/ phase' = [phase EXCEPT ![Root] = "exchange"]
         \/ /\ phase' = [phase EXCEPT ![Root] = "tree"]
            /\ myParticles'[Root] = Assigned(assignment, Root)
  BY <1>1, <1>2, <1>3, <1>4, FlushMoves DEF IndInv, Counters
<1>6. /\ phase'[Root] \in {"exchange", "tree"}
      /\ \A q \in PE : q # Root => phase'[q] = "decompose"
  BY <1>2, <1>5 DEF IndInv, TypeOK
<1>7. Control'
  <2>1. \A q \in PE : iteration'[q] = iteration'[Root]
    BY <1>2, <1>3 DEF IndInv, Control, Coupled
  <2>2. Coupled' /\ RootFirst'
    BY <1>6, <2>1 DEF Coupled, RootFirst, Exchanging
  <2>3. Ended'
    BY <1>2, <1>3, <1>6 DEF IndInv, Control, Ended
  <2>4. RangesOK'
    BY <1>2, <1>3, <1>5, <1>6 DEF IndInv, Control, RangesOK, Exchanging, TypeOK
  <2> QED
    BY <2>2, <2>3, <2>4 DEF Control
<1>8. MsgsOK' /\ ArrivedOK'
  <2>1. \A m \in FlushMsgs(Root, assignment) :
           m.to \in PE /\ m.parts # {} /\ m.parts \subseteq Assigned(assignment, m.to)
    BY FlushSendsAll DEF IndInv, TypeOK
  <2>2. CASE phase'[Root] = "exchange"
    BY <1>3, <1>5, <1>6, <2>1, <2>2 DEF MsgsOK, ArrivedOK, Exchanging, Assigned
  <2>3. CASE phase'[Root] = "tree"
    <3>1. UNION arrivedParticleMsgs[Root] = Assigned(assignment, Root)
      BY <1>1, <1>2, <1>3, <1>4, <2>3, FlushMoves DEF IndInv, Counters, TypeOK
    <3>2. Assigned(assignment, Root) = {}
      BY <3>1, <1>2
    <3> QED
      BY <1>3, <1>5, <1>6, <2>1, <2>3, <3>2 DEF MsgsOK, ArrivedOK, Exchanging, Assigned
  <2> QED
    BY <1>6, <2>2, <2>3
<1>9. ExpectedOK'
  <2>1. numParticlesExpected'[Root] = Cardinality(Assigned(tpOf', Root))
    BY <1>3, <1>5 DEF IndInv, TypeOK, Expected
  <2>2. \A q \in PE : phase'[q] = "exchange" => q = Root
    BY <1>6
  <2> QED
    BY <2>1, <2>2 DEF ExpectedOK, Assigned
<1>10. OwnershipExact'
  BY <1>3, <1>5, <1>6 DEF OwnershipExact, Assigned, IndInv, TypeOK
<1>11. ParticlesConserved'
  BY <1>1, <1>2, <1>3, <1>4, FlushConserves DEF IndInv, Counters
<1> QED
  BY <1>5, <1>7, <1>8, <1>9, <1>10, <1>11 DEF IndInv, Counters

\* Another PE's flush: what has overtaken its RangeMsg is counted already.
LEMMA SendParticlesIndInv ==
    ASSUME IndInv, NEW pe \in PE, SendParticles(pe)
    PROVE  IndInv'
<1> USE ConstantsAssumption
<1>1. /\ pe \in rangeMsgs /\ phase[pe] = "decompose" /\ pe # Root
      /\ phase[Root] \in Exchanging
  BY DEF SendParticles, IndInv, Control, RangesOK
<1>2. tpOf \in [Particle -> TreePiece] /\ FlushAndTry(pe, tpOf)
  BY DEF SendParticles, FlushAndTry, IndInv, TypeOK
<1>3. UNCHANGED <<iteration, tpOf>> /\ rangeMsgs' = rangeMsgs \ {pe}
  BY DEF SendParticles
<1>4. Routed(tpOf)
  BY DEF IndInv, MsgsOK, ArrivedOK, Routed
<1>5. /\ TypeOK' /\ CountOK'
      /\ haveRanges' = [haveRanges EXCEPT ![pe] = TRUE]
      /\ numParticlesExpected' =
            [numParticlesExpected EXCEPT ![pe] = Expected(pe, tpOf)]
      /\ \A q \in PE : q # pe => /\ myParticles'[q] = myParticles[q]
                                 /\ arrivedParticleMsgs'[q] = arrivedParticleMsgs[q]
      /\ \/ /\ phase' = [phase EXCEPT ![pe] = "exchange"]
            /\ arrivedParticleMsgs'[pe] = arrivedParticleMsgs[pe]
         \/ /\ phase' = [phase EXCEPT ![pe] = "tree"]
            /\ arrivedParticleMsgs'[pe] = {}
            /\ myParticles'[pe] = Assigned(tpOf, pe)
            /\ UNION arrivedParticleMsgs[pe] = Assigned(tpOf, pe)
  BY <1>1, <1>2, <1>3, <1>4, FlushMoves DEF IndInv, Counters, TypeOK
<1>6. /\ phase'[pe] \in {"exchange", "tree"}
      /\ \A q \in PE : q # pe => phase'[q] = phase[q]
  BY <1>5 DEF IndInv, TypeOK
<1>7. \A q \in PE : /\ phase[q] \in {"decompose"} \cup Exchanging
                    /\ iteration[q] = iteration[pe]
  BY <1>1 DEF IndInv, Control, Coupled, Exchanging, TypeOK
<1>8. Control'
  <2>1. \A q \in PE : /\ phase'[q] \in {"decompose"} \cup Exchanging
                      /\ iteration'[q] = iteration[pe]
    BY <1>3, <1>6, <1>7 DEF Exchanging
  <2>2. Coupled'
    BY <2>1 DEF Coupled, Exchanging
  <2>3. RootFirst'
    BY <1>1, <1>6 DEF RootFirst, Exchanging
  <2>4. Ended'
    BY <1>1, <1>3, <1>6 DEF IndInv, Control, Ended
  <2>5. RangesOK'
    BY <1>1, <1>3, <1>5, <1>6 DEF IndInv, Control, RangesOK, Exchanging, TypeOK
  <2> QED
    BY <2>2, <2>3, <2>4, <2>5 DEF Control
<1>9. ArrivedOK'
  <2>1. \A s \in arrivedParticleMsgs'[pe] :
           phase'[pe] = "exchange" /\ s \subseteq Assigned(tpOf, pe)
    BY <1>5 DEF IndInv, ArrivedOK, TypeOK
  <2>2. phase'[Root] \in Exchanging
    BY <1>1, <1>6
  <2> QED
    BY <1>3, <1>5, <1>6, <2>1, <2>2 DEF IndInv, ArrivedOK, Assigned
<1>10. MsgsOK'
  <2> SUFFICES ASSUME NEW m \in particleMsgs'
               PROVE  /\ phase'[m.to] \in {"decompose", "exchange"}
                      /\ m.parts # {}
                      /\ m.parts \subseteq Assigned(tpOf, m.to)
    BY <1>1, <1>3, <1>6 DEF MsgsOK, Assigned
  <2>1. \A n \in FlushMsgs(pe, tpOf) :
           /\ n.to \in PE /\ n.parts # {} /\ n.parts \subseteq myParticles[pe]
           /\ n.parts \subseteq Assigned(tpOf, n.to)
    BY <1>2, FlushSendsAll DEF IndInv, TypeOK
  <2>2. Held(pe) = myParticles[pe]
    BY <1>1 DEF Held
  <2>3. m.to \in PE /\ m.parts # {} /\ m.parts \subseteq Assigned(tpOf, m.to)
    BY <1>2, <2>1 DEF IndInv, MsgsOK, TypeOK, ParticleMsg, FlushAndTry
  <2>4. m.parts \cap UNION arrivedParticleMsgs[m.to] = {}
    BY <1>2, <2>1, <2>2, <2>3 DEF IndInv, ParticlesConserved, FlushAndTry
  <2>5. phase[m.to] \in {"decompose", "exchange"}
    <3>1. CASE m \in particleMsgs
      BY <3>1 DEF IndInv, MsgsOK
    <3>2. CASE m \in FlushMsgs(pe, tpOf)
      <4>1. SUFFICES ASSUME phase[m.to] \in {"tree", "finished"} PROVE FALSE
        BY <1>7, <2>3 DEF Exchanging
      <4>2. Held(m.to) = Assigned(tpOf, m.to)
        BY <4>1, <2>3 DEF IndInv, OwnershipExact, Held
      <4>3. Held(m.to) \cap Held(pe) = {}
        BY <1>1, <2>3, <4>1 DEF IndInv, ParticlesConserved
      <4> QED
        BY <2>1, <2>2, <3>2, <4>2, <4>3
    <3> QED
      BY <1>2, <3>1, <3>2 DEF FlushAndTry
  <2>6. CASE m.to = pe
    BY <1>5, <1>6, <2>3, <2>4, <2>6 DEF IndInv, TypeOK
  <2>7. CASE m.to # pe
    BY <1>6, <2>3, <2>5, <2>7
  <2> QED
    BY <2>3, <2>6, <2>7
<1>11. ExpectedOK'
  <2>1. numParticlesExpected'[pe] = Cardinality(Assigned(tpOf, pe))
    BY <1>5 DEF IndInv, TypeOK, Expected
  <2>2. \A q \in PE : q # pe => numParticlesExpected'[q] = numParticlesExpected[q]
    BY <1>5 DEF IndInv, TypeOK
  <2> QED
    BY <1>3, <1>6, <2>1, <2>2 DEF IndInv, Counters, ExpectedOK, Assigned
<1>12. OwnershipExact'
  BY <1>3, <1>5, <1>6 DEF OwnershipExact, Assigned, IndInv, TypeOK
<1>13. ParticlesConserved'
  BY <1>1, <1>2, <1>3, <1>4, <1>5, FlushConserves DEF IndInv, Counters, TypeOK
<1> QED
  BY <1>5, <1>8, <1>9, <1>10, <1>11, <1>12, <1>13 DEF IndInv, Counters

\* What receiving a message does: it goes to those that wait, and when they
\* are complete they all go into the PE's storage.
WaitingWith(m) == arrivedParticleMsgs[m.to] \cup {m.parts}

Received(m, pe, B) ==
    /\ pe \in PE
    /\ phase[pe] \in {"decompose", "exchange"}
    /\ B \in SUBSET (SUBSET Particle)
    /\ \A s \in B : s \subseteq Assigned(tpOf, pe)
    /\ UNCHANGED <<iteration, tpOf, rangeMsgs, haveRanges, numParticlesExpected>>
    /\ particleMsgs' = particleMsgs \ {m}
    /\ \/ /\ UNCHANGED <<phase, myParticles>>
          /\ arrivedParticleMsgs' = [arrivedParticleMsgs EXCEPT ![pe] = B]
          /\ numParticlesArrived' =
                [numParticlesArrived EXCEPT ![pe] = Cardinality(UNION B)]
       \/ /\ phase[pe] = "exchange"
          /\ UNION B = Assigned(tpOf, pe)
          /\ phase' = [phase EXCEPT ![pe] = "tree"]
          /\ myParticles' = [myParticles EXCEPT ![pe] = UNION B]
          /\ arrivedParticleMsgs' = [arrivedParticleMsgs EXCEPT ![pe] = {}]
          /\ numParticlesArrived' = [numParticlesArrived EXCEPT ![pe] = 0]

\* What a ParticleMsg does where it arrives: it waits with the others, or
\* they are adopted, all together.
LEMMA ReceiveMoves ==
    ASSUME IndInv, NEW m \in particleMsgs, ReceiveParticles(m)
    PROVE  Received(m, m.to, WaitingWith(m))
<1> DEFINE pe == m.to
<1> DEFINE B == WaitingWith(m)
<1> DEFINE A == arrivedParticleMsgs[pe]
<1>1. /\ pe \in PE /\ m.parts \in SUBSET Particle /\ A \in SUBSET (SUBSET Particle)
      /\ phase[pe] \in {"decompose", "exchange"}
      /\ haveRanges[pe] <=> phase[pe] = "exchange"
      /\ tpOf \in [Particle -> TreePiece]
  BY DEF IndInv, TypeOK, ParticleMsg, MsgsOK, Control, RangesOK, Exchanging
<1>2. \A s \in B : s \subseteq Assigned(tpOf, pe)
  BY <1>1 DEF IndInv, MsgsOK, ArrivedOK, WaitingWith
<1>3. numParticlesArrived[pe] + Cardinality(m.parts) = Cardinality(UNION B)
  <2>1. UNION A \in SUBSET Particle
    BY <1>1
  <2>3. (UNION A) \cap m.parts = {}
    BY <1>1 DEF IndInv, ParticlesConserved
  <2>4. Cardinality((UNION A) \cup m.parts) = Cardinality(UNION A) + Cardinality(m.parts)
    BY <1>1, <2>1, <2>3, DisjointUnion
  <2>5. UNION B = (UNION A) \cup m.parts
    BY DEF WaitingWith
  <2>6. numParticlesArrived[pe] = Cardinality(UNION A)
    BY <1>1 DEF IndInv, Counters, CountOK
  <2> QED
    BY <2>4, <2>5, <2>6
<1>4. TryProcessParticles(pe, haveRanges[pe], B, Cardinality(UNION B),
                          numParticlesExpected[pe], phase[pe])
  BY <1>3 DEF ReceiveParticles, WaitingWith
<1>5. /\ UNCHANGED <<iteration, tpOf, rangeMsgs>> /\ particleMsgs' = particleMsgs \ {m}
      /\ UNCHANGED <<haveRanges, numParticlesExpected>>
  BY <1>1, <1>4 DEF ReceiveParticles, TryProcessParticles, Ready, IndInv, TypeOK
<1>6. B \in SUBSET (SUBSET Particle)
  BY <1>1 DEF WaitingWith
<1> SUFFICES Received(m, pe, B)
  OBVIOUS
<1> HIDE DEF pe, B
<1>7. CASE haveRanges[pe] /\ Cardinality(UNION B) = numParticlesExpected[pe]
  <2>1. numParticlesExpected[pe] = Expected(pe, tpOf)
    BY <1>1, <1>7 DEF IndInv, Counters, ExpectedOK, Expected
  <2>2. UNION B = Assigned(tpOf, pe)
    BY <1>1, <1>2, <1>7, <2>1, AllArrived
  <2> QED
    BY <1>1, <1>2, <1>4, <1>5, <1>6, <1>7, <2>2 DEF TryProcessParticles, Ready, Received
<1>8. CASE ~(haveRanges[pe] /\ Cardinality(UNION B) = numParticlesExpected[pe])
  <2>1. /\ phase' = [phase EXCEPT ![pe] = phase[pe]]
        /\ myParticles' = [myParticles EXCEPT ![pe] = myParticles[pe]]
        /\ arrivedParticleMsgs' = [arrivedParticleMsgs EXCEPT ![pe] = B]
        /\ numParticlesArrived' = [numParticlesArrived EXCEPT ![pe] = Cardinality(UNION B)]
    BY <1>4, <1>8 DEF TryProcessParticles, Ready
  <2>2. UNCHANGED <<phase, myParticles>>
    BY <2>1 DEF IndInv, TypeOK
  <2> QED
    BY <1>1, <1>2, <1>5, <1>6, <2>1, <2>2 DEF Received
<1> QED
  BY <1>7, <1>8

\* A ParticleMsg that arrives, early or last, loses and doubles nothing.
LEMMA ReceiveConserves ==
    ASSUME IndInv, TypeOK', NEW m \in particleMsgs, ReceiveParticles(m)
    PROVE  ParticlesConserved'
<1> DEFINE pe == m.to
<1> DEFINE A == arrivedParticleMsgs[pe]
<1>1. /\ pe \in PE
      /\ particleMsgs' = particleMsgs \ {m}
      /\ \A q \in PE : q # pe => /\ Held(q)' = Held(q)
                                 /\ arrivedParticleMsgs'[q] = arrivedParticleMsgs[q]
      /\ \/ Held(pe)' = Held(pe) /\ arrivedParticleMsgs'[pe] = A \cup {m.parts}
         \/ /\ Held(pe) = {} /\ Held(pe)' = UNION (A \cup {m.parts})
            /\ arrivedParticleMsgs'[pe] = {}
  <2>1. Received(m, pe, WaitingWith(m))
    BY ReceiveMoves
  <2> QED
    BY <2>1 DEF IndInv, TypeOK, Held, Received, WaitingWith
<1> SUFFICES ASSUME NEW p \in Particle, Placed(p)
             PROVE  Placed(p)'
  <2>1. (TypeOK => (ParticlesConserved <=> AllPlaced))'
    BY PlacedConserved, PTL
  <2> QED
    BY <2>1, PlacedConserved DEF AllPlaced, IndInv
<1> HIDE DEF pe
<1>2. \A q \in PE : /\ p \in Held(q) => p \in Held(q)'
                    /\ p \in Held(q)' => \/ p \in Held(q)
                                         \/ q = pe /\ p \in m.parts
                                         \/ q = pe /\ \E s \in A : p \in s
  BY <1>1
<1>3. \/ \E q \in PE : p \in Held(q)'
      \/ \E n \in particleMsgs' : p \in n.parts
      \/ \E q \in PE : \E s \in arrivedParticleMsgs'[q] : p \in s
  <2>1. CASE p \in m.parts
    BY <1>1, <2>1
  <2>2. CASE \E q \in PE : \E s \in arrivedParticleMsgs[q] : p \in s
    BY <1>1, <2>2
  <2>3. CASE \E n \in particleMsgs : n # m /\ p \in n.parts
    BY <1>1, <2>3
  <2>4. CASE \E q \in PE : p \in Held(q)
    BY <1>2, <2>4
  <2> QED
    BY <2>1, <2>2, <2>3, <2>4 DEF Placed
<1>4. \A q, r \in PE : p \in Held(q)' /\ p \in Held(r)' => q = r
  BY <1>1, <1>2 DEF Placed
<1>5. \A n, o \in particleMsgs' : p \in n.parts /\ p \in o.parts => n = o
  BY <1>1 DEF Placed
<1>6. \A q, r \in PE : \A s \in arrivedParticleMsgs'[q], t \in arrivedParticleMsgs'[r] :
         p \in s /\ p \in t => q = r /\ s = t
  BY <1>1 DEF Placed
<1>7. \A n \in particleMsgs', q \in PE : ~(p \in n.parts /\ p \in Held(q)')
  BY <1>1, <1>2 DEF Placed
<1>8. \A n \in particleMsgs', q \in PE : \A s \in arrivedParticleMsgs'[q] :
         ~(p \in s /\ p \in n.parts)
  BY <1>1 DEF Placed
<1>9. \A q, r \in PE : \A s \in arrivedParticleMsgs'[q] : ~(p \in s /\ p \in Held(r)')
  BY <1>1, <1>2 DEF Placed
<1> QED
  BY <1>3, <1>4, <1>5, <1>6, <1>7, <1>8, <1>9 DEF Placed

\* A ParticleMsg, before the RangeMsg or after it.
LEMMA ReceiveParticlesIndInv ==
    ASSUME IndInv, NEW m \in particleMsgs, ReceiveParticles(m)
    PROVE  IndInv'
<1> DEFINE pe == m.to
<1> DEFINE B == WaitingWith(m)
<1>1. /\ pe \in PE
      /\ phase[pe] \in {"decompose", "exchange"}
      /\ B \in SUBSET (SUBSET Particle)
      /\ \A s \in B : s \subseteq Assigned(tpOf, pe)
      /\ UNCHANGED <<iteration, tpOf, rangeMsgs, haveRanges, numParticlesExpected>>
      /\ particleMsgs' = particleMsgs \ {m}
      /\ \/ /\ UNCHANGED <<phase, myParticles>>
            /\ arrivedParticleMsgs' = [arrivedParticleMsgs EXCEPT ![pe] = B]
            /\ numParticlesArrived' =
                  [numParticlesArrived EXCEPT ![pe] = Cardinality(UNION B)]
         \/ /\ phase[pe] = "exchange"
            /\ UNION B = Assigned(tpOf, pe)
            /\ phase' = [phase EXCEPT ![pe] = "tree"]
            /\ myParticles' = [myParticles EXCEPT ![pe] = UNION B]
            /\ arrivedParticleMsgs' = [arrivedParticleMsgs EXCEPT ![pe] = {}]
            /\ numParticlesArrived' = [numParticlesArrived EXCEPT ![pe] = 0]
  BY ReceiveMoves DEF Received
<1>2. /\ m.parts # {} /\ m.parts \subseteq Assigned(tpOf, pe)
      /\ phase[Root] \in Exchanging /\ Root \in PE
  BY ConstantsAssumption DEF IndInv, MsgsOK
<1> HIDE DEF pe, B
<1>3. UNION B \in SUBSET Particle /\ Cardinality(UNION B) \in Nat
  BY <1>1, ParticleSets
<1>4. TypeOK'
  BY <1>1, <1>3 DEF IndInv, TypeOK, Phases
<1>5. Control'
  <2>1. CASE UNCHANGED phase
    BY <1>1, <2>1 DEF IndInv, Control, Coupled, Ended, RootFirst, RangesOK
  <2>2. CASE phase[pe] = "exchange" /\ phase' = [phase EXCEPT ![pe] = "tree"]
    <3>1. /\ phase'[pe] = "tree" /\ \A q \in PE : q # pe => phase'[q] = phase[q]
          /\ \A q \in PE : /\ iteration[q] = iteration[pe]
                           /\ phase[q] \in {"decompose"} \cup Exchanging
      BY <1>1, <2>2 DEF IndInv, TypeOK, Control, Coupled
    <3>2. \A q \in PE : /\ iteration'[q] = iteration[pe]
                        /\ phase'[q] \in {"decompose"} \cup Exchanging
      BY <1>1, <3>1 DEF Exchanging
    <3>3. Coupled'
      BY <3>2 DEF Coupled, Exchanging
    <3>4. Ended'
      BY <1>1, <2>2, <3>1 DEF IndInv, Control, Ended
    <3>5. RootFirst' /\ RangesOK'
      BY <1>1, <1>2, <2>2, <3>1 DEF IndInv, Control, RangesOK, RootFirst, Exchanging, TypeOK
    <3> QED
      BY <3>3, <3>4, <3>5 DEF Control
  <2> QED
    BY <1>1, <2>1, <2>2
<1>6. ArrivedOK'
  <2>1. phase'[Root] \in Exchanging
    BY <1>1, <1>2 DEF IndInv, TypeOK, Exchanging
  <2>2. \A q \in PE : \A s \in arrivedParticleMsgs'[q] :
           /\ phase'[q] \in {"decompose", "exchange"} /\ s \subseteq Assigned(tpOf, q)
    BY <1>1 DEF IndInv, ArrivedOK, TypeOK
  <2> QED
    BY <1>1, <2>1, <2>2 DEF ArrivedOK, Assigned
<1>7. MsgsOK'
  <2>1. phase'[Root] \in Exchanging
    BY <1>1, <1>2 DEF IndInv, TypeOK, Exchanging
  <2> SUFFICES ASSUME NEW n \in particleMsgs, n # m
               PROVE  /\ phase'[n.to] \in {"decompose", "exchange"}
                      /\ n.parts # {} /\ n.parts \subseteq Assigned(tpOf, n.to)
    BY <1>1, <2>1 DEF MsgsOK, Assigned
  <2>2. /\ phase[n.to] \in {"decompose", "exchange"} /\ n.to \in PE
        /\ n.parts # {} /\ n.parts \subseteq Assigned(tpOf, n.to)
    BY DEF IndInv, MsgsOK, TypeOK, ParticleMsg
  <2>3. ASSUME n.to = pe, UNION B = Assigned(tpOf, pe)  PROVE FALSE
    <3>1. n.parts \cap m.parts = {}
      BY DEF IndInv, ParticlesConserved
    <3>2. n.parts \cap UNION arrivedParticleMsgs[pe] = {}
      BY <1>1 DEF IndInv, ParticlesConserved
    <3> QED
      BY <2>2, <2>3, <3>1, <3>2 DEF B, pe, WaitingWith
  <2> QED
    BY <1>1, <2>2, <2>3 DEF IndInv, TypeOK
<1>8. CountOK'
  <2>1. UNION {} = {} /\ Cardinality({}) = 0
    BY FS_EmptySet
  <2> QED
    BY <1>1, <2>1 DEF IndInv, Counters, CountOK, TypeOK
<1>9. ExpectedOK'
  BY <1>1 DEF IndInv, Counters, ExpectedOK, TypeOK, Assigned
<1>10. OwnershipExact'
  <2>1. \A q \in PE : phase'[q] \in {"tree", "finished"}
                        => myParticles'[q] = Assigned(tpOf, q)
    BY <1>1 DEF IndInv, OwnershipExact, TypeOK
  <2> QED
    BY <1>1, <2>1 DEF OwnershipExact, Assigned
<1>11. ParticlesConserved'
  BY <1>4, ReceiveConserves
<1> QED
  BY <1>4, <1>5, <1>6, <1>7, <1>8, <1>9, <1>10, <1>11 DEF IndInv, Counters

----------------------------------------------------------------------------
(* The theorems. *)

\* IndInv is inductive: every action of the exchange keeps it
\* (DataManager.cpp, decompose to advance).
THEOREM NextIndInv == IndInv /\ [Next]_vars => IndInv'
<1> SUFFICES ASSUME IndInv, [Next]_vars  PROVE IndInv'
  OBVIOUS
<1>1. CASE ReceiveHistogram
  BY <1>1, ReceiveHistogramIndInv
<1>2. ASSUME NEW pe \in PE, Decompose(pe)  PROVE IndInv'
  BY <1>2, DecomposeIndInv
<1>3. ASSUME NEW pe \in PE, SendParticles(pe)  PROVE IndInv'
  BY <1>3, SendParticlesIndInv
<1>4. ASSUME NEW pe \in PE, FinishIteration(pe)  PROVE IndInv'
  BY <1>4, FinishIterationIndInv
<1>5. ASSUME NEW pe \in PE, Advance(pe)  PROVE IndInv'
  BY <1>5, AdvanceIndInv
<1>6. ASSUME NEW m \in particleMsgs, ReceiveParticles(m)  PROVE IndInv'
  BY <1>6, ReceiveParticlesIndInv
<1>7. CASE UNCHANGED vars
  BY <1>7 DEF vars, local, IndInv, TypeOK, Control, Coupled, Ended, RootFirst,
              RangesOK, MsgsOK, ArrivedOK, Counters, CountOK, ExpectedOK,
              OwnershipExact, ParticlesConserved, Held, Assigned
<1> QED
  BY <1>1, <1>2, <1>3, <1>4, <1>5, <1>6, <1>7 DEF Next

\* IndInv is an invariant of the exchange (DataManager.cpp, decompose to
\* advance).
THEOREM Invariance == Spec => []IndInv
BY InitIndInv, NextIndInv, PTL DEF Spec

\* Type correctness of the exchange.
THEOREM TypeCorrect == Spec => []TypeOK
<1>1. IndInv => TypeOK
  BY DEF IndInv
<1> QED
  BY <1>1, Invariance, PTL

\* The exchange neither loses nor duplicates a particle
\* (flushParticles, receiveParticles, processSubmittedParticles).
THEOREM Conservation == Spec => []ParticlesConserved
<1>1. IndInv => ParticlesConserved
  BY DEF IndInv
<1> QED
  BY <1>1, Invariance, PTL

\* A PE leaves the exchange with exactly the particles of its TreePieces
\* (tryProcessParticles).
THEOREM Ownership == Spec => []OwnershipExact
<1>1. IndInv => OwnershipExact
  BY DEF IndInv
<1> QED
  BY <1>1, Invariance, PTL

\* The assertion of tryProcessParticles never fails.
THEOREM Overrun == Spec => []NoOverrun
<1>1. IndInv => NoOverrun
  <2> SUFFICES ASSUME IndInv, NEW pe \in PE, haveRanges[pe]
               PROVE  numParticlesArrived[pe] <= numParticlesExpected[pe]
    BY DEF NoOverrun
  <2>1. phase[pe] \in Exchanging
    BY DEF IndInv, Control, RangesOK
  <2>2. CASE phase[pe] = "exchange"
    <3>1. /\ tpOf \in [Particle -> TreePiece]
          /\ \A s \in arrivedParticleMsgs[pe] : s \subseteq Assigned(tpOf, pe)
          /\ numParticlesExpected[pe] = Expected(pe, tpOf)
          /\ numParticlesArrived[pe] = Cardinality(UNION arrivedParticleMsgs[pe])
      BY <2>2 DEF IndInv, TypeOK, ArrivedOK, Counters, CountOK, ExpectedOK, Expected
    <3>2. Cardinality(UNION arrivedParticleMsgs[pe]) <= Expected(pe, tpOf)
      BY <3>1, AllArrived
    <3> QED
      BY <3>1, <3>2
  <2>3. CASE phase[pe] \in {"tree", "finished"}
    <3>1. arrivedParticleMsgs[pe] = {}
      BY <2>3 DEF IndInv, ArrivedOK
    <3>2. UNION arrivedParticleMsgs[pe] = {}
      BY <3>1
    <3>3. numParticlesArrived[pe] = 0
      BY <3>2, FS_EmptySet DEF IndInv, Counters, CountOK
    <3> QED
      BY <3>3 DEF IndInv, TypeOK
  <2> QED
    BY <2>1, <2>2, <2>3 DEF Exchanging
<1> QED
  BY <1>1, Invariance, PTL

\* Messages of one step never meet a PE in another step.
THEOREM Isolation == Spec => []StepIsolation
<1>1. IndInv => StepIsolation
  BY DEF IndInv, StepIsolation, MsgsOK, ArrivedOK, Control, RangesOK
<1> QED
  BY <1>1, Invariance, PTL

----------------------------------------------------------------------------
(* The exchange implements Redistribution. *)

\* The loaded particles are a redistribution in which every PE has settled.
LEMMA RefinesInit == Init => R!Init
<1> SUFFICES ASSUME Init  PROVE R!Init
  OBVIOUS
<1> USE ConstantsAssumption
<1>1. PICK loadedBy \in [Particle -> PE] :
         myParticles = [pe \in PE |-> {p \in Particle : loadedBy[p] = pe}]
  BY DEF Init
<1>2. \E owner \in [Particle -> PE] : myParticles = [pe \in PE |-> R!Share(owner, pe)]
  BY <1>1 DEF R!Share
<1>3. Target \in [Particle -> PE]
  BY DEF Init, Target
<1>4. Unsettled = {}
  BY DEF Init, Unsettled
<1> QED
  BY <1>2, <1>3, <1>4 DEF R!Init

\* A PE's share of the target is what its TreePieces are assigned.
LEMMA ShareOfTarget ==
    /\ \A pe \in PE : R!Share(Target, pe) = Assigned(tpOf, pe)
    /\ tpOf \in [Particle -> TreePiece] => Target \in [Particle -> PE]
BY ConstantsAssumption DEF R!Share, Target, Assigned

\* A step that leaves held, target and settled alone is a stutter.
LEMMA Stutter ==
    ASSUME UNCHANGED <<myParticles, tpOf>>, Unsettled' = Unsettled
    PROVE  UNCHANGED R!vars
BY DEF R!vars, Target

\* A PE that goes from waiting to "tree" adopts its share.
LEMMA AdoptStep ==
    ASSUME IndInv, TypeOK', UNCHANGED tpOf, NEW pe \in PE, pe \in Unsettled,
           phase' = [phase EXCEPT ![pe] = "tree"],
           phase[Root] \in Exchanging,
           \A q \in PE : q # pe => myParticles'[q] = myParticles[q],
           myParticles'[pe] = Assigned(tpOf, pe)
    PROVE  R!Adopt(pe)
<1>1. phase'[Root] \in Exchanging
  BY ConstantsAssumption DEF IndInv, TypeOK, Exchanging
<1>2. Unsettled' = Unsettled \ {pe}
  BY <1>1 DEF IndInv, TypeOK, Unsettled, Exchanging
<1>3. PE \ Unsettled' = (PE \ Unsettled) \cup {pe}
  BY <1>2
<1>4. myParticles' = [myParticles EXCEPT ![pe] = R!Share(Target, pe)]
  BY ShareOfTarget DEF IndInv, TypeOK
<1>5. Target' = Target
  BY DEF Target
<1> QED
  BY <1>3, <1>4, <1>5 DEF R!Adopt

\* The settled histogram is the decision.
LEMMA RefinesReceiveHistogram ==
    ASSUME IndInv, ReceiveHistogram
    PROVE  R!Decide
<1> USE ConstantsAssumption
<1>1. PICK assignment \in [Particle -> TreePiece] : FlushAndTry(Root, assignment)
  BY DEF ReceiveHistogram, FlushAndTry
<1>2. /\ \A pe \in PE : phase[pe] = "decompose"
      /\ UNCHANGED iteration /\ rangeMsgs' \in SUBSET PE
      /\ tpOf' = assignment /\ Routed(assignment)
  BY <1>1, HistogramBarrier DEF ReceiveHistogram, FlushAndTry, Routed, IndInv, TypeOK
<1>3. /\ TypeOK'
      /\ \A q \in PE : q # Root => myParticles'[q] = myParticles[q]
      /\ \/ phase' = [phase EXCEPT ![Root] = "exchange"] /\ myParticles' = myParticles
         \/ /\ phase' = [phase EXCEPT ![Root] = "tree"]
            /\ myParticles'[Root] = Assigned(assignment, Root)
  BY <1>1, <1>2, FlushMoves DEF IndInv, Counters
<1>4. Unsettled = {}
  BY <1>2 DEF Unsettled
<1>5. \A q \in PE : /\ q # Root => q \in Unsettled'
                    /\ q = Root => (q \in Unsettled' <=> phase'[Root] = "exchange")
  BY <1>2, <1>3 DEF Unsettled, IndInv, TypeOK
<1>6. Target' \in [Particle -> PE]
  BY <1>2 DEF Target
<1>7. \A q \in PE : R!Share(Target', q) = Assigned(assignment, q)
  BY <1>2 DEF R!Share, Target, Assigned
<1>8. myParticles' = [q \in PE |-> IF q \in PE \ Unsettled' THEN R!Share(Target', q)
                                                           ELSE myParticles[q]]
  BY <1>3, <1>5, <1>7 DEF TypeOK, IndInv
<1> QED
  BY <1>4, <1>6, <1>8 DEF R!Decide

\* A PE that has all it is to get when it learns of it adopts its share.
LEMMA RefinesSendParticles ==
    ASSUME IndInv, NEW pe \in PE, SendParticles(pe)
    PROVE  R!Adopt(pe) \/ UNCHANGED R!vars
<1> USE ConstantsAssumption
<1>1. /\ pe \in rangeMsgs /\ phase[pe] = "decompose" /\ pe # Root
      /\ phase[Root] \in Exchanging
  BY DEF SendParticles, IndInv, Control, RangesOK
<1>2. tpOf \in [Particle -> TreePiece] /\ FlushAndTry(pe, tpOf) /\ Routed(tpOf)
  BY DEF SendParticles, FlushAndTry, IndInv, TypeOK, MsgsOK, ArrivedOK, Routed
<1>3. UNCHANGED <<iteration, tpOf>> /\ rangeMsgs' \in SUBSET PE
  BY DEF SendParticles, IndInv, TypeOK
<1>4. /\ TypeOK'
      /\ \A q \in PE : q # pe => myParticles'[q] = myParticles[q]
      /\ \/ phase' = [phase EXCEPT ![pe] = "exchange"] /\ myParticles' = myParticles
         \/ /\ phase' = [phase EXCEPT ![pe] = "tree"]
            /\ myParticles'[pe] = Assigned(tpOf, pe)
  BY <1>1, <1>2, <1>3, FlushMoves DEF IndInv, Counters
<1>5. pe \in Unsettled
  BY <1>1 DEF Unsettled, Exchanging
<1>6. CASE phase' = [phase EXCEPT ![pe] = "exchange"] /\ myParticles' = myParticles
  <2>1. Unsettled' = Unsettled
    BY <1>1, <1>6 DEF Unsettled, Exchanging, IndInv, TypeOK
  <2> QED
    BY <1>3, <1>6, <2>1, Stutter
<1>7. CASE phase' = [phase EXCEPT ![pe] = "tree"] /\ myParticles'[pe] = Assigned(tpOf, pe)
  BY <1>1, <1>3, <1>4, <1>5, <1>7, AdoptStep
<1> QED
  BY <1>4, <1>6, <1>7

\* The last ParticleMsg a PE waits for makes it adopt its share.
LEMMA RefinesReceiveParticles ==
    ASSUME IndInv, NEW m \in particleMsgs, ReceiveParticles(m)
    PROVE  R!Adopt(m.to) \/ UNCHANGED R!vars
<1> USE ConstantsAssumption
<1>1. Received(m, m.to, WaitingWith(m)) /\ TypeOK' /\ phase[Root] \in Exchanging
  BY ReceiveMoves, ReceiveParticlesIndInv DEF IndInv, MsgsOK
<1>2. CASE UNCHANGED <<phase, myParticles>>
  BY <1>1, <1>2, Stutter DEF Received, Unsettled
<1>3. CASE /\ phase[m.to] = "exchange"
           /\ UNION WaitingWith(m) = Assigned(tpOf, m.to)
           /\ phase' = [phase EXCEPT ![m.to] = "tree"]
           /\ myParticles' = [myParticles EXCEPT ![m.to] = UNION WaitingWith(m)]
  <2>1. /\ m.to \in PE /\ m.to \in Unsettled /\ UNCHANGED tpOf
        /\ \A q \in PE : q # m.to => myParticles'[q] = myParticles[q]
        /\ myParticles'[m.to] = Assigned(tpOf, m.to)
    BY <1>1, <1>3 DEF Received, Unsettled, IndInv, TypeOK
  <2> QED
    BY <1>1, <1>3, <2>1, AdoptStep
<1> QED
  BY <1>1, <1>2, <1>3 DEF Received

\* The exchange of particles, for every number of PEs, TreePieces, particles
\* and steps and every order of its messages, implements the redistribution:
\* each PE comes by one step of its own from what it held before to exactly
\* what PE 0's histogram gives it.
THEOREM Refinement == Spec => ImplementsRedistribution
<1> USE ConstantsAssumption
<1>1. Init => R!Init
  BY RefinesInit
<1>2. IndInv /\ [Next]_vars => [R!Next]_R!vars
  <2> SUFFICES ASSUME IndInv, [Next]_vars
               PROVE  R!Decide \/ (\E pe \in PE : R!Adopt(pe)) \/ UNCHANGED R!vars
    BY DEF R!Next
  <2>1. CASE ReceiveHistogram
    BY <2>1, RefinesReceiveHistogram
  <2>2. ASSUME NEW pe \in PE, Decompose(pe)  PROVE UNCHANGED R!vars
    <3>1. \A q \in PE : phase[q] \in {"advanced", "decompose"}
      BY <2>2 DEF IndInv, Control, Coupled, Decompose, TypeOK
    <3>2. \A q \in PE : phase'[q] \in {"advanced", "decompose"}
      BY <2>2, <3>1 DEF IndInv, TypeOK, Decompose
    <3>3. Unsettled = {} /\ Unsettled' = {}
      BY <3>1, <3>2 DEF Unsettled
    <3> QED
      BY <2>2, <3>3, Stutter DEF Decompose
  <2>3. ASSUME NEW pe \in PE, SendParticles(pe)
        PROVE  R!Adopt(pe) \/ UNCHANGED R!vars
    BY <2>3, RefinesSendParticles
  <2>4. ASSUME NEW pe \in PE, FinishIteration(pe)  PROVE UNCHANGED R!vars
    <3>1. Unsettled' = Unsettled
      BY <2>4 DEF Unsettled, FinishIteration, IndInv, TypeOK
    <3> QED
      BY <2>4, <3>1, Stutter DEF FinishIteration
  <2>5. ASSUME NEW pe \in PE, Advance(pe)  PROVE UNCHANGED R!vars
    <3>1. \A q \in PE : phase[q] \in {"finished", "advanced", "done"}
      BY <2>5, AdvanceBarrier
    <3>2. \A q \in PE : phase'[q] \in {"finished", "advanced", "done"}
      BY <2>5, <3>1 DEF IndInv, TypeOK, Advance, NextPhase
    <3>3. Unsettled = {} /\ Unsettled' = {}
      BY <3>1, <3>2 DEF Unsettled
    <3> QED
      BY <2>5, <3>3, Stutter DEF Advance, NextPhase
  <2>6. ASSUME NEW m \in particleMsgs, ReceiveParticles(m)
        PROVE  (\E pe \in PE : R!Adopt(pe)) \/ UNCHANGED R!vars
    <3>1. m.to \in PE
      BY DEF IndInv, TypeOK, ParticleMsg
    <3> QED
      BY <2>6, <3>1, RefinesReceiveParticles
  <2>7. CASE UNCHANGED vars
    BY <2>7, Stutter DEF vars, local, Unsettled
  <2> QED
    BY <2>1, <2>2, <2>3, <2>4, <2>5, <2>6, <2>7 DEF Next
<1> QED
  BY <1>1, <1>2, Invariance, PTL DEF Spec, ImplementsRedistribution, R!Spec

----------------------------------------------------------------------------
(* The program implements the exchange. *)

\* Every step of the program is a step of the exchange or a stutter.
LEMMA ProgramImplementsNext == [ProgramNext]_allVars => [Next]_vars
<1> SUFFICES ASSUME [ProgramNext]_allVars  PROVE [Next]_vars
  OBVIOUS
<1>1. CASE UNCHANGED allVars
  BY <1>1 DEF allVars
<1>2. CASE Histogram
  BY <1>2 DEF Histogram, Next
<1>3. ASSUME NEW pe \in PE,
             DecomposeIn(pe) \/ Send(pe) \/ Finish(pe) \/ AdvanceAll(pe)
      PROVE  [Next]_vars
  BY <1>3 DEF DecomposeIn, Send, Finish, AdvanceAll, Next
<1>4. ASSUME NEW m \in particleMsgs, Receive(m)  PROVE [Next]_vars
  BY <1>4 DEF Receive, Next
<1>5. CASE ExitOnNaN \/ ReportFinalEnergy \/ ReportPhaseTimers
  BY <1>5 DEF ExitOnNaN, ReportFinalEnergy, ReportPhaseTimers
<1> QED
  BY <1>1, <1>2, <1>3, <1>4, <1>5 DEF ProgramNext, ProgramStep

\* Integration, output and timers do not disturb the exchange
\* (DataManager.cpp, processSubmittedParticles to advance).
THEOREM ProgramImplementsExchange == ProgramSpec => Spec
<1>1. ProgramInit => Init
  BY DEF ProgramInit
<1> QED
  BY <1>1, ProgramImplementsNext, PTL DEF ProgramSpec, Spec

\* No particle is lost or doubled in a run of the program (flushParticles,
\* receiveParticles, processSubmittedParticles).
THEOREM ProgramConservation == ProgramSpec => []ParticlesConserved
BY ProgramImplementsExchange, Conservation, PTL

\* Every PE sums up forces for exactly the particles its TreePieces own
\* (tryProcessParticles).
THEOREM ProgramOwnership == ProgramSpec => []OwnershipExact
BY ProgramImplementsExchange, Ownership, PTL

\* Messages of one step never meet a PE in another step (receiveParticles).
THEOREM ProgramIsolation == ProgramSpec => []StepIsolation
BY ProgramImplementsExchange, Isolation, PTL

\* The program redistributes its particles in every step (decompose to
\* processSubmittedParticles).
THEOREM ProgramRefinement == ProgramSpec => ImplementsRedistribution
BY ProgramImplementsExchange, Refinement, PTL

----------------------------------------------------------------------------
(* The leapfrog. *)

Energy == [id : Particle, kinetic : Int, potential : SUBSET Int]

LeapTypes ==
    /\ pos \in [Particle -> Int]
    /\ vel \in [Particle -> Int]
    /\ acc \in [Particle -> SUBSET Int]
    /\ universe \in [PE -> SUBSET (Particle \X Int)]
    /\ reduced \in [step : Int, from : SUBSET PE, grown : SUBSET (Particle \X Int),
                    energies : SUBSET Energy]

\* Where a particle is in time when its PE has begun step n.
Clock(p, n) == pos[p] = 2 * n /\ vel[p] = IF n = 0 THEN 0 ELSE 2 * n - 1

Underway == {"decompose", "exchange", "tree"}

\* While a step is under way all particles are at its beginning, also those in
\* messages; before and after, those a PE holds.
Clocks ==
    \A pe \in PE : \A p \in Particle :
       phase[pe] \in Underway \/ p \in myParticles[pe] => Clock(p, iteration[pe])

\* The force a PE has found is of that beginning.
Forces ==
    \A pe \in PE : \A p \in myParticles[pe] :
       phase[pe] = "finished" => acc[p] = {2 * iteration[pe]}

\* reduced is of the last step some PE has ended; the others are about to.
Contributed ==
    \A pe \in PE : \/ iteration[pe] = reduced.step + 1
                   \/ iteration[pe] = reduced.step /\ phase[pe] = "finished"

\* p's PE has not contributed yet.
Awaited(p) == \E pe \in PE : iteration[pe] = reduced.step /\ p \in myParticles[pe]

\* The box has every particle where it will be in the next step.
BoxOK ==
    /\ reduced.grown \subseteq {<<p, 2 * (reduced.step + 1)>> : p \in Particle}
    /\ \A p \in Particle : <<p, 2 * (reduced.step + 1)>> \in reduced.grown \/ Awaited(p)

\* And the energies are of one instant.
EnergiesOK ==
    /\ \A e \in reduced.energies :
          e.kinetic = 2 * reduced.step /\ e.potential = {2 * reduced.step}
    /\ reduced.step >= 0 =>
          \A p \in Particle : (\E e \in reduced.energies : e.id = p) \/ Awaited(p)

\* What a PE has hashed its particles in.
UniverseOK ==
    \A pe \in PE : phase[pe] \in Underway =>
       universe[pe] = {<<p, 2 * iteration[pe]>> : p \in Particle}

ReportsOK == "energy" \in reports => AllContributed

LeapInv == /\ LeapTypes /\ Clocks /\ Forces /\ Contributed
           /\ BoxOK /\ EnergiesOK /\ UniverseOK /\ ReportsOK

----------------------------------------------------------------------------
\* With no exchange under way every particle is with some PE.
LEMMA AllHeld ==
    ASSUME IndInv,
           \/ \A pe \in PE : phase[pe] \in {"advanced", "decompose"}
           \/ \A pe \in PE : phase[pe] \in {"finished", "advanced", "done"},
           NEW p \in Particle
    PROVE  \E pe \in PE : p \in myParticles[pe]
<1>1. particleMsgs = {}
  BY ConstantsAssumption DEF IndInv, MsgsOK, TypeOK, ParticleMsg, Exchanging
<1>2. \A pe \in PE : arrivedParticleMsgs[pe] = {}
  BY ConstantsAssumption DEF IndInv, ArrivedOK, Exchanging
<1>3. \E pe \in PE : p \in Held(pe)
  BY <1>1, <1>2 DEF IndInv, ParticlesConserved
<1> QED
  BY <1>3 DEF Held

\* At the beginning nothing has moved, and the loaders' box is that of step 0.
LEMMA InitLeapInv == ProgramInit => LeapInv
<1> SUFFICES ASSUME ProgramInit  PROVE LeapInv
  OBVIOUS
<1>1. /\ iteration = [pe \in PE |-> 0] /\ phase = [pe \in PE |-> "advanced"]
      /\ pos = [p \in Particle |-> 0] /\ vel = [p \in Particle |-> 0]
      /\ acc = [p \in Particle |-> {}] /\ universe = [pe \in PE |-> {}]
      /\ reports = {}
  BY DEF ProgramInit, Init
<1>2. /\ reduced.step = -1 /\ reduced.energies = {}
      /\ reduced.grown = {<<p, 0>> : p \in Particle}
      /\ reduced = [step |-> -1, from |-> PE, grown |-> {<<p, 0>> : p \in Particle},
                    energies |-> {}]
  BY DEF ProgramInit
<1>3. LeapTypes
  BY <1>1, <1>2 DEF LeapTypes
<1>4. Clocks /\ Forces /\ Contributed /\ UniverseOK /\ ReportsOK
  BY <1>1, <1>2 DEF Clocks, Clock, Forces, Contributed, UniverseOK, Underway, ReportsOK
<1>5. BoxOK /\ EnergiesOK
  BY <1>2 DEF BoxOK, EnergiesOK
<1> QED
  BY <1>3, <1>4, <1>5 DEF LeapInv

\* Every particle is counted until its PE has begun the next step.
LEMMA Waiting ==
    ASSUME LeapInv, NEW p \in Particle, Awaited(p)
    PROVE  \E pe \in PE : /\ iteration[pe] = reduced.step /\ phase[pe] = "finished"
                          /\ p \in myParticles[pe]
<1>1. PICK pe \in PE : iteration[pe] = reduced.step /\ p \in myParticles[pe]
  BY DEF Awaited
<1>2. phase[pe] = "finished"
  BY <1>1 DEF LeapInv, LeapTypes, Contributed
<1> QED
  BY <1>1, <1>2

\* A step that moves no particle, only hands some over between PEs that are in
\* the exchange, or that have finished their walks.
Settling ==
    /\ UNCHANGED <<iteration, pos, vel, acc, universe, reduced, reports>>
    /\ \A pe \in PE : \/ phase'[pe] = phase[pe] /\ myParticles'[pe] = myParticles[pe]
                      \/ phase[pe] \in Underway /\ phase'[pe] \in Underway

\* Such a step keeps LeapInv.
LEMMA SettlingLeapInv == LeapInv /\ Settling => LeapInv'
<1> SUFFICES ASSUME LeapInv, Settling  PROVE LeapInv'
  OBVIOUS
<1>1. LeapTypes'
  BY DEF LeapInv, LeapTypes, Settling
<1>2. Clocks' /\ Forces' /\ UniverseOK'
  BY DEF LeapInv, Clocks, Clock, Forces, UniverseOK, Settling, Underway
<1>3. Contributed'
  BY DEF LeapInv, Contributed, Settling, Underway
<1>4. \A p \in Particle : Awaited(p) => Awaited(p)'
  BY Waiting DEF Awaited, Settling, Underway
<1>5. BoxOK' /\ EnergiesOK'
  BY <1>4 DEF LeapInv, BoxOK, EnergiesOK, Settling
<1>6. ReportsOK'
  BY DEF LeapInv, ReportsOK, AllContributed, Settling, Underway
<1> QED
  BY <1>1, <1>2, <1>3, <1>5, <1>6 DEF LeapInv

\* The exchange settles.
LEMMA ExchangeSettles ==
    ASSUME IndInv,
           Histogram \/ (\E pe \in PE : Send(pe)) \/ (\E m \in particleMsgs : Receive(m))
    PROVE  Settling
<1> DEFINE Tries(pe) ==
       /\ UNCHANGED iteration /\ phase[pe] \in Underway
       /\ \E ranges, arrived, count, expected : \E before \in Underway :
             TryProcessParticles(pe, ranges, arrived, count, expected, before)
<1>1. PICK pe \in PE : Tries(pe)
  <2>1. CASE Histogram
    BY <2>1, ConstantsAssumption DEF Histogram, ReceiveHistogram, Underway
  <2>2. ASSUME NEW pe \in PE, Send(pe)  PROVE Tries(pe)
    BY <2>2 DEF Send, SendParticles, Underway, IndInv, Control, RangesOK
  <2>3. ASSUME NEW m \in particleMsgs, Receive(m)  PROVE m.to \in PE /\ Tries(m.to)
    BY <2>3 DEF Receive, ReceiveParticles, Underway, IndInv, MsgsOK, TypeOK, ParticleMsg
  <2> QED
    BY <2>1, <2>2, <2>3
<1>2. UNCHANGED <<pos, vel, acc, universe, reduced, reports>>
  BY DEF Histogram, Send, Receive, TimesTheTree
<1>3. \A q \in PE : \/ phase'[q] = phase[q] /\ myParticles'[q] = myParticles[q]
                    \/ phase[q] \in Underway /\ phase'[q] \in Underway
  BY <1>1 DEF TryProcessParticles, IndInv, TypeOK, Underway
<1> QED
  BY <1>1, <1>2, <1>3 DEF Settling

\* A PE that begins a step finds all particles moved, and the box of all.
LEMMA DecomposeLeapInv ==
    ASSUME IndInv, LeapInv, NEW pe \in PE, DecomposeIn(pe)
    PROVE  LeapInv'
<1> DEFINE n == iteration[pe]
<1>1. /\ phase[pe] = "advanced" /\ phase' = [phase EXCEPT ![pe] = "decompose"]
      /\ universe' = [universe EXCEPT ![pe] = reduced.grown]
      /\ UNCHANGED <<iteration, myParticles, pos, vel, acc, reduced, reports>>
      /\ phase \in [PE -> Phases]
  BY DEF DecomposeIn, Decompose, IndInv, TypeOK
<1>2. \A q \in PE : iteration[q] = n /\ phase[q] \in {"advanced", "decompose"}
  BY DEF DecomposeIn, Decompose, IndInv, TypeOK, Control, Coupled
<1>3. n = reduced.step + 1 /\ n \in Nat
  BY <1>1 DEF LeapInv, Contributed, IndInv, TypeOK
<1>4. \A p \in Particle : ~Awaited(p)
  BY <1>2, <1>3 DEF Awaited, LeapInv, LeapTypes
<1>5. reduced.grown = {<<p, 2 * n>> : p \in Particle}
  BY <1>3, <1>4 DEF LeapInv, BoxOK
<1>6. \A p \in Particle : Clock(p, n)
  BY <1>2, AllHeld DEF LeapInv, Clocks
<1> HIDE DEF n
<1>7. LeapTypes'
  BY <1>1 DEF LeapInv, LeapTypes
<1>8. Clocks'
  BY <1>1, <1>2, <1>6 DEF Clocks, Clock
<1>9. Forces' /\ Contributed' /\ ReportsOK'
  BY <1>1, <1>2 DEF LeapInv, Forces, Contributed, ReportsOK, AllContributed
<1>10. BoxOK' /\ EnergiesOK'
  BY <1>1 DEF LeapInv, BoxOK, EnergiesOK, Awaited
<1>11. UniverseOK'
  BY <1>1, <1>2, <1>5 DEF LeapInv, LeapTypes, UniverseOK, Underway
<1> QED
  BY <1>7, <1>8, <1>9, <1>10, <1>11 DEF LeapInv

\* A PE sums up forces while all particles are at the beginning of its step.
LEMMA FinishLeapInv ==
    ASSUME IndInv, LeapInv, NEW pe \in PE, Finish(pe)
    PROVE  LeapInv'
<1> DEFINE n == iteration[pe]
<1>1. /\ phase[pe] = "tree" /\ phase' = [phase EXCEPT ![pe] = "finished"]
      /\ acc' = [p \in Particle |-> IF p \in myParticles[pe]
                                    THEN {pos[q] : q \in Particle} ELSE acc[p]]
      /\ UNCHANGED <<iteration, myParticles, pos, vel, universe, reduced, reports>>
      /\ phase \in [PE -> Phases] /\ myParticles \in [PE -> SUBSET Particle]
      /\ iteration \in [PE -> 0 .. NumIterations]
  BY DEF Finish, FinishIteration, IndInv, TypeOK
<1>2. /\ \A p \in Particle : Clock(p, n)
      /\ \A q \in PE : iteration[q] = n
  BY <1>1 DEF LeapInv, Clocks, Underway, IndInv, Control, Coupled
<1>3. \A p \in myParticles[pe] : acc'[p] = {2 * n}
  BY <1>1, <1>2 DEF Clock
<1>4. \A q \in PE : phase[q] = "finished" =>
         \A p \in myParticles[q] : acc'[p] = acc[p] /\ p \in Particle
  BY <1>1 DEF IndInv, ParticlesConserved, Held
<1>5. LeapTypes'
  BY <1>1 DEF LeapInv, LeapTypes
<1>6. Clocks' /\ Contributed' /\ UniverseOK'
  BY <1>1 DEF LeapInv, Clocks, Clock, Contributed, UniverseOK, Underway
<1> HIDE DEF n
<1>7. Forces'
  BY <1>1, <1>2, <1>3, <1>4 DEF LeapInv, Forces
<1>8. BoxOK' /\ EnergiesOK'
  BY <1>1 DEF LeapInv, BoxOK, EnergiesOK, Awaited
<1>9. ReportsOK'
  BY <1>1 DEF LeapInv, ReportsOK, AllContributed
<1> QED
  BY <1>5, <1>6, <1>7, <1>8, <1>9 DEF LeapInv

\* What a PE adds to the box and the energies: for each of its particles the
\* next position, and the kick that closes the step.
LEMMA Reduction ==
    ASSUME LeapInv, NEW pe \in PE, NEW n \in Int, KickDriftKick(pe, n)
    PROVE  LET box == IF reduced.step = n THEN reduced ELSE EmptyBox(n)
           IN  /\ reduced'.step = n
               /\ reduced'.from = box.from \cup {pe}
               /\ reduced'.grown = box.grown \cup {<<p, pos'[p]>> : p \in myParticles[pe]}
               /\ reduced'.energies = box.energies \cup
                     {[id |-> p, kinetic |-> vel[p] + ClosingKick(n), potential |-> acc[p]] :
                         p \in myParticles[pe]}
               /\ reduced' = [step |-> n, from |-> reduced'.from, grown |-> reduced'.grown,
                              energies |-> reduced'.energies]
<1>1. CASE reduced.step = n
  BY <1>1 DEF KickDriftKick, LeapInv, LeapTypes
<1>2. CASE reduced.step # n
  BY <1>2 DEF KickDriftKick, EmptyBox
<1> QED
  BY <1>1, <1>2

\* A PE that ends its step closes one kick and opens the next; whoever was first
\* to do so has begun a new box.
LEMMA AdvanceLeapInv ==
    ASSUME IndInv, LeapInv, NEW pe \in PE, AdvanceAll(pe)
    PROVE  LeapInv'
<1> DEFINE n == iteration[pe]
<1> DEFINE mine == myParticles[pe]
<1> DEFINE closed(p) == vel[p] + ClosingKick(n)
<1> DEFINE box == IF reduced.step = n THEN reduced ELSE EmptyBox(n)
<1>1. Advance(pe) /\ KickDriftKick(pe, n) /\ UNCHANGED <<universe, reports>>
  BY DEF AdvanceAll
<1>2. /\ phase[pe] = "finished"
      /\ phase'[pe] \in {"advanced", "done"} /\ iteration'[pe] = n + 1
      /\ \A q \in PE : q # pe => phase'[q] = phase[q] /\ iteration'[q] = iteration[q]
      /\ UNCHANGED myParticles
      /\ mine \subseteq Particle /\ n \in Nat
      /\ \A q \in PE : myParticles[q] \subseteq Particle
  BY <1>1 DEF Advance, NextPhase, IndInv, TypeOK
<1>3. \A q \in PE : \/ iteration[q] = n /\ phase[q] = "finished"
                    \/ iteration[q] = n + 1 /\ phase[q] \in {"advanced", "done"}
  BY <1>1, AdvanceBarrier
<1>4. \A p \in Particle : \E q \in PE : p \in myParticles[q]
  BY <1>3, AllHeld
<1>5. \A q \in PE : q # pe => mine \cap myParticles[q] = {}
  BY <1>2, <1>3 DEF IndInv, ParticlesConserved, Held
<1>6. \A p \in mine : Clock(p, n) /\ acc[p] = {2 * n}
  BY <1>2 DEF LeapInv, Clocks, Forces
<1>7. /\ pos' = [p \in Particle |-> IF p \in mine THEN pos[p] + 2 ELSE pos[p]]
      /\ vel' = [p \in Particle |-> IF p \in mine THEN closed(p) + 1 ELSE vel[p]]
      /\ acc' = [p \in Particle |-> IF p \in mine THEN {} ELSE acc[p]]
  BY <1>1 DEF KickDriftKick
<1>8. \A p \in mine : closed(p) = 2 * n
  BY <1>6, <1>2 DEF Clock, ClosingKick
<1>9. /\ \A p \in mine : Clock(p, iteration[pe])' /\ pos'[p] = 2 * (n + 1)
      /\ \A p \in Particle \ mine : /\ pos'[p] = pos[p] /\ vel'[p] = vel[p]
                                    /\ acc'[p] = acc[p]
  <2>1. ASSUME NEW p \in mine
        PROVE  Clock(p, iteration[pe])' /\ pos'[p] = 2 * (n + 1)
    <3>1. pos'[p] = pos[p] + 2 /\ vel'[p] = closed(p) + 1
      BY <1>2, <1>7
    <3>2. pos[p] = 2 * n /\ closed(p) = 2 * n /\ n + 1 # 0 /\ n \in Nat
      BY <1>2, <1>6, <1>8 DEF Clock
    <3>3. pos'[p] = 2 * (n + 1) /\ vel'[p] = 2 * (n + 1) - 1
      <4> HIDE DEF n, closed
      <4> QED
        BY <3>1, <3>2
    <3>4. iteration[pe] + 1 # 0
      BY <3>2
    <3> QED
      BY <3>3, <3>4, <1>2 DEF Clock
  <2> QED
    BY <2>1, <1>7
<1>10. /\ reduced'.step = n
       /\ reduced'.grown = box.grown \cup {<<p, pos'[p]>> : p \in mine}
       /\ reduced'.energies = box.energies \cup
             {[id |-> p, kinetic |-> closed(p), potential |-> acc[p]] : p \in mine}
       /\ reduced'.from = box.from \cup {pe}
       /\ reduced' = [step |-> n, from |-> reduced'.from, grown |-> reduced'.grown,
                      energies |-> reduced'.energies]
  BY <1>1, <1>2, Reduction
<1>11. /\ reduced.step \in Int
       /\ \/ box = reduced /\ reduced.step = n
          \/ /\ box.grown = {} /\ box.energies = {} /\ box.from = {}
             /\ reduced.step = n - 1 /\ \A q \in PE : iteration[q] = n
  <2>1. reduced.step \in Int /\ (reduced.step = n \/ reduced.step + 1 = n)
    BY <1>2 DEF LeapInv, LeapTypes, Contributed
  <2>2. CASE reduced.step + 1 = n
    BY <1>3, <2>1, <2>2, <1>2 DEF LeapInv, Contributed, EmptyBox
  <2> QED
    BY <2>1, <2>2
<1> HIDE DEF box
<1>12. LeapTypes'
  <2>1. pos' \in [Particle -> Int] /\ vel' \in [Particle -> Int]
    BY <1>7, <1>8, <1>2 DEF LeapInv, LeapTypes
  <2>2. acc' \in [Particle -> SUBSET Int] /\ universe' \in [PE -> SUBSET (Particle \X Int)]
    BY <1>1, <1>7 DEF LeapInv, LeapTypes
  <2>3. reduced'.from \in SUBSET PE /\ reduced'.grown \in SUBSET (Particle \X Int)
    BY <2>1, <1>2, <1>10, <1>11 DEF LeapInv, LeapTypes
  <2>4. reduced'.energies \in SUBSET Energy
    <3>1. \A p \in mine : p \in Particle /\ closed(p) \in Int /\ acc[p] \in SUBSET Int
      BY <1>2, <1>8 DEF LeapInv, LeapTypes
    <3>2. {[id |-> p, kinetic |-> closed(p), potential |-> acc[p]] : p \in mine}
             \in SUBSET Energy
      <4> HIDE DEF mine, closed
      <4> QED
        BY <3>1 DEF Energy
    <3> QED
      BY <3>2, <1>10, <1>11 DEF LeapInv, LeapTypes
  <2> QED
    BY <2>1, <2>2, <2>3, <2>4, <1>2, <1>10 DEF LeapTypes
<1>13. \A q \in PE : \/ iteration'[q] = n /\ phase'[q] = "finished" /\ q # pe
                     \/ iteration'[q] = n + 1 /\ phase'[q] \in {"advanced", "done"}
  BY <1>2, <1>3
<1>14. Clocks'
  <2> SUFFICES ASSUME NEW q \in PE, NEW p \in Particle, p \in myParticles[q]
               PROVE  Clock(p, iteration[q])'
    BY <1>13, <1>2 DEF Clocks, Underway
  <2>1. CASE q = pe
    BY <2>1, <1>2, <1>9 DEF Clock
  <2>2. CASE q # pe
    BY <2>2, <1>2, <1>5, <1>9 DEF LeapInv, Clocks, Clock
  <2> QED
    BY <2>1, <2>2
<1>15. Forces'
  BY <1>2, <1>5, <1>9, <1>13 DEF LeapInv, Forces
<1>16. Contributed'
  BY <1>10, <1>13 DEF Contributed
<1>17. \A p \in Particle \ mine : reduced.step = n /\ Awaited(p) => Awaited(p)'
  BY <1>2, <1>10, <1>11 DEF Awaited
<1>18. \A p \in Particle \ mine : reduced.step # n => Awaited(p)'
  BY <1>2, <1>4, <1>10, <1>11 DEF Awaited
<1>19. BoxOK'
  <2>1. reduced'.grown \subseteq {<<p, 2 * (n + 1)>> : p \in Particle}
    BY <1>2, <1>9, <1>10, <1>11 DEF LeapInv, BoxOK
  <2>2. ASSUME NEW p \in Particle
        PROVE  <<p, 2 * (n + 1)>> \in reduced'.grown \/ Awaited(p)'
    BY <1>9, <1>10, <1>11, <1>17, <1>18 DEF LeapInv, BoxOK
  <2> QED
    BY <2>1, <2>2, <1>10 DEF BoxOK
<1>20. EnergiesOK'
  <2>1. ASSUME NEW e \in reduced'.energies
        PROVE  e.kinetic = 2 * n /\ e.potential = {2 * n}
    BY <1>6, <1>8, <1>10, <1>11 DEF LeapInv, EnergiesOK
  <2>2. ASSUME NEW p \in Particle
        PROVE  (\E e \in reduced'.energies : e.id = p) \/ Awaited(p)'
    <3>1. CASE p \in mine
      <4>1. PICK e \in reduced'.energies :
               e = [id |-> p, kinetic |-> closed(p), potential |-> acc[p]]
        BY <3>1, <1>10
      <4> QED
        BY <4>1
    <3>2. CASE p \notin mine /\ reduced.step = n
      <4>1. reduced.energies \subseteq reduced'.energies
        BY <3>2, <1>2, <1>10, <1>11
      <4>2. reduced.step >= 0
        BY <3>2, <1>2
      <4>3. (\E e \in reduced.energies : e.id = p) \/ Awaited(p)
        BY <4>2 DEF LeapInv, EnergiesOK
      <4> QED
        BY <4>1, <4>3, <3>2, <1>17
    <3>3. CASE p \notin mine /\ reduced.step # n
      BY <3>3, <1>18
    <3> QED
      BY <3>1, <3>2, <3>3
  <2> QED
    BY <2>1, <2>2, <1>10 DEF EnergiesOK
<1>21. UniverseOK' /\ ReportsOK'
  BY <1>1, <1>2, <1>13 DEF LeapInv, UniverseOK, Underway, ReportsOK, AllContributed
<1> QED
  BY <1>12, <1>14, <1>15, <1>16, <1>19, <1>20, <1>21 DEF LeapInv

\* Main's reports move nothing, and come when no step is left.
LEMMA ReportLeapInv ==
    ASSUME LeapInv, UNCHANGED allVars \/ ExitOnNaN \/ ReportFinalEnergy \/ ReportPhaseTimers
    PROVE  LeapInv'
<1>1. /\ UNCHANGED <<iteration, phase, myParticles, pos, vel, acc, universe, reduced>>
      /\ "energy" \in reports' => "energy" \in reports \/ AllContributed
  BY DEF allVars, vars, local, program, ExitOnNaN, ReportFinalEnergy, ReportPhaseTimers
<1>2. LeapTypes' /\ Clocks' /\ Forces' /\ Contributed' /\ UniverseOK'
  BY <1>1 DEF LeapInv, LeapTypes, Clocks, Clock, Forces, Contributed, UniverseOK
<1>3. BoxOK' /\ EnergiesOK'
  BY <1>1 DEF LeapInv, BoxOK, EnergiesOK, Awaited
<1>4. ReportsOK'
  BY <1>1 DEF LeapInv, ReportsOK, AllContributed
<1> QED
  BY <1>2, <1>3, <1>4 DEF LeapInv

\* Every step of the program keeps LeapInv.
LEMMA NextLeapInv == IndInv /\ LeapInv /\ [ProgramNext]_allVars => LeapInv'
<1> SUFFICES ASSUME IndInv, LeapInv, [ProgramNext]_allVars  PROVE LeapInv'
  OBVIOUS
<1>1. CASE UNCHANGED allVars \/ ExitOnNaN \/ ReportFinalEnergy \/ ReportPhaseTimers
  BY <1>1, ReportLeapInv
<1>2. CASE Histogram \/ (\E pe \in PE : Send(pe)) \/ (\E m \in particleMsgs : Receive(m))
  BY <1>2, ExchangeSettles, SettlingLeapInv
<1>3. ASSUME NEW pe \in PE, DecomposeIn(pe)  PROVE LeapInv'
  BY <1>3, DecomposeLeapInv
<1>4. ASSUME NEW pe \in PE, Finish(pe)  PROVE LeapInv'
  BY <1>4, FinishLeapInv
<1>5. ASSUME NEW pe \in PE, AdvanceAll(pe)  PROVE LeapInv'
  BY <1>5, AdvanceLeapInv
<1> QED
  BY <1>1, <1>2, <1>3, <1>4, <1>5 DEF ProgramNext, ProgramStep

\* The steps of a run of any length on any number of PEs make a leapfrog, in
\* which the half kicks of two steps are taken as one, the energies are of one
\* instant, and every tree is built in the box of where the particles are
\* (kickDriftKick, advance, recvUnivBoundingBox).
THEOREM Leapfrog == ProgramSpec => []LeapfrogExact
<1>1. IndInv /\ LeapInv => LeapfrogExact
  <2> SUFFICES ASSUME IndInv, LeapInv  PROVE LeapfrogExact
    OBVIOUS
  <2>1. \A pe \in PE : phase[pe] \in Underway =>
           /\ \A p \in Particle : Clock(p, iteration[pe])
           /\ universe[pe] = {<<p, 2 * iteration[pe]>> : p \in Particle}
    BY DEF LeapInv, Clocks, UniverseOK
  <2>2. \A e \in reduced.energies :
           e.kinetic = 2 * reduced.step /\ e.potential = {2 * reduced.step}
    BY DEF LeapInv, EnergiesOK
  <2>3. ASSUME "energy" \in reports
        PROVE  /\ reduced.step = NumIterations - 1
               /\ {e.id : e \in reduced.energies} = Particle
    <3>1. \A pe \in PE : phase[pe] = "done" /\ iteration[pe] = NumIterations
      BY <2>3 DEF LeapInv, ReportsOK, AllContributed, IndInv, Control, Ended
    <3>2. reduced.step = NumIterations - 1 /\ reduced.step >= 0
      BY <3>1, ConstantsAssumption DEF LeapInv, Contributed, LeapTypes
    <3>3. \A p \in Particle : ~Awaited(p)
      BY <3>1, <3>2, ConstantsAssumption DEF Awaited
    <3>4. \A e \in reduced.energies : e.id \in Particle
      BY DEF LeapInv, LeapTypes, Energy
    <3> QED
      BY <3>2, <3>3, <3>4 DEF LeapInv, EnergiesOK
  <2> QED
    BY <2>1, <2>2, <2>3 DEF LeapfrogExact, Clock, VelocityTime, Underway
<1>2. ProgramSpec => []IndInv
  BY ProgramImplementsExchange, Invariance, PTL
<1> QED
  BY <1>1, <1>2, InitLeapInv, NextLeapInv, PTL DEF ProgramSpec

----------------------------------------------------------------------------
(* What a run of the program leaves behind is complete, for all numbers of    *)
(* PEs, particles and steps and whichever of them write a frame.              *)
(*                                                                            *)
(* OutputComplete speaks of the end of a run.  At every other moment some PEs *)
(* have ended a step and others have not: OutInv counts the pieces, the       *)
(* points and the listed frames by the PEs that have (FramesOK, ListedOK,     *)
(* DumpOK), gives each PE's timers by its step and its phase (TimersOK), and  *)
(* says how a run can have ended (ExitOK).                                    *)

\* The particles in the frame of step n: positions and forces of its instant,
\* velocities half a step behind.
PointsOf(n) == [p \in Particle |-> <<p, 2 * n, VelocityTime(n), {2 * n}>>]

\* The particles in the dump of step n.
RecordsOf(n) == [p \in Particle |-> <<p, 2 * n, {2 * n}>>]

\* A whole is what each particle should have in a file; this is the file.
All(whole) == {whole[p] : p \in Particle}

\* The PEs that have ended step n.
Past(n) == {pe \in PE : iteration[pe] > n}

\* Step n is the last that some PE has ended, or an earlier one.
Begun(n) == n <= reduced.step

\* Some PE has ended that step, and no PE a later one.
FrontOK == \E pe \in PE : iteration[pe] = reduced.step + 1

\* What has been written of a step, by the PEs that have ended it: all but the
\* points of the particles that are with the others.
Collected(points, whole, n) ==
    /\ points \subseteq All(whole)
    /\ \A p \in Particle : \/ whole[p] \in points
                           \/ n = reduced.step /\ Awaited(p)

\* What one PE adds to the whole: the points of the particles that it has.
Part(mine, whole, pe) == mine = {whole[p] : p \in myParticles[pe]}

FramesOK ==
    /\ frames \in [Step -> [pieces : SUBSET PE, index : SUBSET PE,
                            points : SUBSET (Particle \X Int \X Int \X SUBSET Int)]]
    /\ \A n \in Step :
          IF WriteThisStep(n) /\ Begun(n)
          THEN /\ frames[n].pieces = Past(n)
               /\ frames[n].index = IF Root \in Past(n) THEN PE ELSE {}
               /\ Collected(frames[n].points, PointsOf(n), n)
          ELSE frames[n] = NoFrame

ListedOK == listed = {n \in Step : WriteThisStep(n) /\ Root \in Past(n)}

DumpOK == IF DumpStep \in Step /\ Begun(DumpStep)
          THEN Collected(dumped, RecordsOf(DumpStep), DumpStep) ELSE dumped = {}

\* What has been charged when step n begins.
ChargedBefore(n) ==
    {<<0, "input">>} \cup UNION {{k} \X StepPhases(k) : k \in 0 .. n - 1}

\* A PE's timers while it is in a phase of step n.
TimersIn(t, ph, n) ==
    /\ ph \in {"advanced", "done"} =>
          t.running = {} /\ t.charged = ChargedBefore(n)
    /\ ph \in {"decompose", "exchange"} =>
          /\ t.step = n /\ t.running = {"step", "decomposition"}
          /\ t.charged = ChargedBefore(n)
    /\ ph = "tree" =>
          /\ t.step = n /\ t.running = {"step", "treebuild"}
          /\ t.charged = ChargedBefore(n) \cup {<<n, "decomposition">>}
    /\ ph = "finished" =>
          /\ t.step = n /\ t.running = {"step"}
          /\ t.charged = ChargedBefore(n)
                            \cup ({n} \X {"decomposition", "treebuild", "traversal"})

\* What the phases of a PhaseTimers are called, and its table.
TimedPhase == {"input", "step", "decomposition", "treebuild", "traversal",
           "integration", "output", "other"}
Timer == [step : Int, running : SUBSET TimedPhase, charged : SUBSET (Int \X TimedPhase)]

TimersOK ==
    /\ timers \in [PE -> Timer]
    /\ TimersOn => \A pe \in PE : TimersIn(timers[pe], phase[pe], iteration[pe])

ExitOK ==
    exited => \/ AllContributed
              \/ haveNaN # {} /\ \E n \in Step : \A pe \in PE : iteration[pe] = n

OutInv == FrontOK /\ FramesOK /\ ListedOK /\ DumpOK /\ TimersOK /\ ExitOK
----------------------------------------------------------------------------
\* Nothing has been written when the run begins, and nothing timed but the
\* reading of the input.
LEMMA InitOutInv == ProgramInit => OutInv
<1> SUFFICES ASSUME ProgramInit  PROVE OutInv
  OBVIOUS
<1>1. /\ iteration = [pe \in PE |-> 0] /\ phase = [pe \in PE |-> "advanced"]
      /\ reduced.step = -1 /\ frames = [n \in Step |-> NoFrame]
      /\ listed = {} /\ dumped = {} /\ exited = FALSE
  BY DEF ProgramInit, Init
<1>2. \A n \in Step : n >= 0 /\ n \in Int /\ ~Begun(n) /\ Past(n) = {}
  BY <1>1, ConstantsAssumption DEF Step, Begun, Past
<1>3. FrontOK /\ FramesOK
  BY <1>1, <1>2, ConstantsAssumption DEF FrontOK, FramesOK, NoFrame
<1>4. ListedOK /\ DumpOK /\ ExitOK
  BY <1>1, <1>2 DEF ListedOK, DumpOK, ExitOK
<1>5. TimersOK
  <2>1. timers = [pe \in PE |-> [step |-> 0, running |-> {},
                                charged |-> IF TimersOn THEN {<<0, "input">>} ELSE {}]]
    BY DEF ProgramInit
  <2>2. ChargedBefore(0) = {<<0, "input">>}
    BY DEF ChargedBefore
  <2>3. timers \in [PE -> Timer]
    <3>1. (IF TimersOn THEN {<<0, "input">>} ELSE {}) \in SUBSET (Int \X TimedPhase)
      BY DEF TimedPhase
    <3>2. \A pe \in PE : timers[pe] \in Timer
      BY <2>1, <3>1 DEF Timer
    <3> QED
      BY <2>1, <3>2
  <2> QED
    BY <1>1, <2>1, <2>2, <2>3 DEF TimersOK, TimersIn
<1> QED
  BY <1>3, <1>4, <1>5 DEF OutInv

\* A step that writes nothing and ends no PE's step keeps what was written.
LEMMA NothingWritten ==
    ASSUME FrontOK, FramesOK, ListedOK, DumpOK,
           UNCHANGED <<iteration, reduced, frames, listed, dumped>>,
           \A p \in Particle : Awaited(p) => Awaited(p)'
    PROVE  FrontOK' /\ FramesOK' /\ ListedOK' /\ DumpOK'
<1>1. \A n : Past(n)' = Past(n) /\ (Begun(n)' <=> Begun(n))
  BY DEF Past, Begun
<1>2. \A points, whole, n : Collected(points, whole, n) => Collected(points, whole, n)'
  BY DEF Collected, All
<1>3. FramesOK'
  BY <1>1, <1>2 DEF FramesOK
<1>4. ListedOK'
  BY <1>1 DEF ListedOK
<1>5. DumpOK'
  BY <1>1, <1>2 DEF DumpOK
<1>6. FrontOK'
  BY DEF FrontOK
<1> QED
  BY <1>3, <1>4, <1>5, <1>6

\* Only one PE's timers move in a step that moves only that PE.
LEMMA OthersTimed ==
    ASSUME TimersOK, NEW pe \in PE, NEW t \in Timer, Timed(pe, t),
           \A q \in PE : q # pe => phase'[q] = phase[q] /\ iteration'[q] = iteration[q],
           TimersOn => TimersIn(t, phase'[pe], iteration'[pe])
    PROVE  TimersOK'
<1>1. /\ timers' \in [PE -> Timer]
      /\ TimersOn => timers'[pe] = t
      /\ \A q \in PE : q # pe => timers'[q] = timers[q]
  BY DEF Timed, TimersOK
<1> QED
  BY <1>1 DEF TimersOK

\* PhaseTimers::start and stop.
LEMMA StartStop ==
    ASSUME NEW t \in Timer, NEW phases \in SUBSET TimedPhase
    PROVE  /\ Start(t, phases) \in Timer /\ Stop(t, phases) \in Timer
           /\ Start(t, phases).step = t.step /\ Stop(t, phases).step = t.step
           /\ Start(t, phases).running = t.running \cup phases
           /\ Start(t, phases).charged = t.charged
           /\ Stop(t, phases).running = t.running \ phases
           /\ Stop(t, phases).charged =
                 t.charged \cup ({t.step} \X (phases \cap t.running))
<1> DEFINE done == t.charged \cup ({t.step} \X (phases \cap t.running))
<1> DEFINE begun == t.running \cup phases
<1> DEFINE stopped == [t EXCEPT !.running = t.running \ phases]
<1>1. t.step \in Int /\ t.running \in SUBSET TimedPhase /\ t.charged \in SUBSET (Int \X TimedPhase)
  BY DEF Timer
<1>2. done \in SUBSET (Int \X TimedPhase)
  BY <1>1
<1>3. Start(t, phases) = [t EXCEPT !.running = begun]
  BY DEF Start
<1>4. stopped = [step |-> t.step, running |-> t.running \ phases, charged |-> t.charged]
  BY DEF Timer
<1>5. Stop(t, phases) = [stopped EXCEPT !.charged = done]
  BY <1>4 DEF Stop
<1> HIDE DEF begun, done, stopped
<1>6. Stop(t, phases) = [step |-> t.step, running |-> t.running \ phases, charged |-> done]
  BY <1>4, <1>5
<1>7. Start(t, phases) = [step |-> t.step, running |-> begun, charged |-> t.charged]
  BY <1>3 DEF Timer
<1>8. begun \in SUBSET TimedPhase /\ t.running \ phases \in SUBSET TimedPhase
  BY <1>1 DEF begun
<1>9. Start(t, phases) \in Timer
  BY <1>1, <1>8, <1>7 DEF Timer
<1>10. Stop(t, phases) \in Timer
  BY <1>1, <1>2, <1>6, <1>8 DEF Timer
<1> QED
  BY <1>6, <1>9, <1>10, <1>7 DEF done, begun

\* TryProcessParticles, of a PE in the exchange, as the timers see it.
Settles(pe) ==
    /\ UNCHANGED <<iteration, reduced, frames, listed, dumped, exited, haveNaN>>
    /\ phase[pe] \in {"decompose", "exchange"}
    /\ phase'[pe] \in {"decompose", "exchange", "tree"}
    /\ \A q \in PE : q # pe => phase'[q] = phase[q]
    /\ IF phase'[pe] = "tree"
       THEN Timed(pe, Start(Stop(timers[pe], {"decomposition"}), {"treebuild"}))
       ELSE UNCHANGED timers

\* What a step of the exchange leaves of the timers and the dump.
LEMMA ExchangeSettlesTimers ==
    ASSUME IndInv,
           Histogram \/ (\E pe \in PE : Send(pe)) \/ (\E m \in particleMsgs : Receive(m))
    PROVE  \E pe \in PE : Settles(pe)
<1> DEFINE Tries(pe) ==
       /\ UNCHANGED iteration /\ phase[pe] \in {"decompose", "exchange"}
       /\ TimesTheTree(pe)
       /\ \E ranges, arrived, count, expected : \E before \in {"decompose", "exchange"} :
             TryProcessParticles(pe, ranges, arrived, count, expected, before)
<1>1. PICK pe \in PE : Tries(pe)
  <2>1. CASE Histogram
    BY <2>1, ConstantsAssumption DEF Histogram, ReceiveHistogram
  <2>2. ASSUME NEW pe \in PE, Send(pe)  PROVE Tries(pe)
    BY <2>2 DEF Send, SendParticles, IndInv, Control, RangesOK
  <2>3. ASSUME NEW m \in particleMsgs, Receive(m)  PROVE m.to \in PE /\ Tries(m.to)
    BY <2>3 DEF Receive, ReceiveParticles, IndInv, MsgsOK, TypeOK, ParticleMsg
  <2> QED
    BY <2>1, <2>2, <2>3
<1>2. /\ phase'[pe] \in {"decompose", "exchange", "tree"}
      /\ \A q \in PE : q # pe => phase'[q] = phase[q]
  BY <1>1 DEF TryProcessParticles, IndInv, TypeOK
<1>3. UNCHANGED <<reduced, frames, listed, dumped, exited, haveNaN>>
  BY <1>1 DEF TimesTheTree
<1> QED
  BY <1>1, <1>2, <1>3 DEF TimesTheTree, Settles

\* A run that is not at its end is not at its end after a step of one PE.
LEMMA NotExited ==
    ASSUME ~exited, UNCHANGED exited  PROVE ExitOK'
BY DEF ExitOK

\* The exchange writes nothing, and charges the decomposition when it is over.
LEMMA ExchangeOutInv ==
    ASSUME IndInv, LeapInv, OutInv, ~exited,
           Histogram \/ (\E pe \in PE : Send(pe)) \/ (\E m \in particleMsgs : Receive(m))
    PROVE  OutInv'
<1>1. PICK pe \in PE : Settles(pe)
  BY ExchangeSettlesTimers
<1>2. \A p \in Particle : Awaited(p) => Awaited(p)'
  BY ExchangeSettles, Waiting DEF Awaited, Settling, Underway
<1>3. FrontOK' /\ FramesOK' /\ ListedOK' /\ DumpOK'
  BY <1>1, <1>2, NothingWritten DEF Settles, OutInv
<1>4. TimersOK'
  <2> DEFINE s == Stop(timers[pe], {"decomposition"})
  <2> DEFINE t == Start(s, {"treebuild"})
  <2>1. timers[pe] \in Timer /\ iteration[pe] \in Int
    BY DEF OutInv, TimersOK, IndInv, TypeOK
  <2>2. CASE phase'[pe] = "tree"
    <3>1. {"decomposition"} \in SUBSET TimedPhase /\ {"treebuild"} \in SUBSET TimedPhase
      BY DEF TimedPhase
    <3>2. /\ s \in Timer /\ s.step = timers[pe].step
          /\ s.running = timers[pe].running \ {"decomposition"}
          /\ s.charged = timers[pe].charged
               \cup ({timers[pe].step} \X ({"decomposition"} \cap timers[pe].running))
      BY <2>1, <3>1, StartStop
    <3> HIDE DEF s
    <3>3. /\ t \in Timer /\ t.step = s.step /\ t.charged = s.charged
          /\ t.running = s.running \cup {"treebuild"}
      BY <3>1, <3>2, StartStop
    <3> HIDE DEF t
    <3>4. TimersOn => TimersIn(timers[pe], phase[pe], iteration[pe])
      BY DEF OutInv, TimersOK
    <3>5. TimersOn => TimersIn(t, "tree", iteration[pe])
      <4> SUFFICES ASSUME TimersOn  PROVE TimersIn(t, "tree", iteration[pe])
        OBVIOUS
      <4>1. /\ timers[pe].step = iteration[pe]
            /\ timers[pe].running = {"step", "decomposition"}
            /\ timers[pe].charged = ChargedBefore(iteration[pe])
        BY <1>1, <3>4 DEF Settles, TimersIn
      <4> QED
        BY <3>2, <3>3, <4>1 DEF TimersIn
    <3>6. Timed(pe, t)
      BY <1>1, <2>2 DEF Settles, s, t
    <3>7. /\ \A q \in PE : q # pe => phase'[q] = phase[q] /\ iteration'[q] = iteration[q]
          /\ iteration' = iteration
      BY <1>1 DEF Settles
    <3> QED
      BY <2>2, <3>3, <3>5, <3>6, <3>7, OthersTimed DEF OutInv
  <2>3. CASE phase'[pe] # "tree"
    BY <1>1, <2>3 DEF Settles, OutInv, TimersOK, TimersIn
  <2> QED
    BY <2>2, <2>3
<1> QED
  BY <1>1, <1>3, <1>4, NotExited DEF OutInv, Settles

\* A PE that begins a step starts to time it.
LEMMA DecomposeOutInv ==
    ASSUME IndInv, OutInv, ~exited, NEW pe \in PE, DecomposeIn(pe)
    PROVE  OutInv'
<1> DEFINE n == iteration[pe]
<1> DEFINE s == [timers[pe] EXCEPT !.step = n]
<1> DEFINE t == Start(s, {"step", "decomposition"})
<1>1. /\ phase[pe] = "advanced" /\ phase' = [phase EXCEPT ![pe] = "decompose"]
      /\ UNCHANGED <<iteration, myParticles, reduced, frames, listed, dumped, exited>>
      /\ phase \in [PE -> Phases] /\ n \in Int
  BY DEF DecomposeIn, Decompose, IndInv, TypeOK
<1>2. FrontOK' /\ FramesOK' /\ ListedOK' /\ DumpOK'
  BY <1>1, NothingWritten DEF OutInv, Awaited
<1>3. timers[pe] \in Timer /\ {"step", "decomposition"} \in SUBSET TimedPhase
  BY DEF OutInv, TimersOK, TimedPhase
<1>4. s \in Timer /\ s.step = n /\ s.running = timers[pe].running
      /\ s.charged = timers[pe].charged
  BY <1>1, <1>3 DEF Timer
<1> HIDE DEF s
<1>5. /\ t \in Timer /\ t.step = n /\ t.charged = timers[pe].charged
      /\ t.running = timers[pe].running \cup {"step", "decomposition"}
  BY <1>3, <1>4, StartStop
<1> HIDE DEF t
<1>6. TimersOn => TimersIn(timers[pe], "advanced", n)
  BY <1>1 DEF OutInv, TimersOK
<1> HIDE DEF n
<1>7. TimersOn => TimersIn(t, "decompose", n)
  BY <1>5, <1>6 DEF TimersIn
<1>8. Timed(pe, t)
  BY DEF DecomposeIn, n, s, t
<1>9. /\ \A q \in PE : q # pe => phase'[q] = phase[q] /\ iteration'[q] = iteration[q]
      /\ phase'[pe] = "decompose" /\ iteration'[pe] = n
  BY <1>1 DEF n
<1>10. TimersOK'
  BY <1>5, <1>7, <1>8, <1>9, OthersTimed DEF OutInv
<1> QED
  BY <1>1, <1>2, <1>10, NotExited DEF OutInv

\* A PE that has its forces has charged the tree and the walk.
LEMMA FinishOutInv ==
    ASSUME IndInv, OutInv, ~exited, NEW pe \in PE, Finish(pe)
    PROVE  OutInv'
<1> DEFINE n == iteration[pe]
<1> DEFINE s == Stop(timers[pe], {"treebuild"})
<1> DEFINE u == Start(s, {"traversal"})
<1> DEFINE t == Stop(u, {"traversal"})
<1>1. /\ phase[pe] = "tree" /\ phase' = [phase EXCEPT ![pe] = "finished"]
      /\ UNCHANGED <<iteration, myParticles, reduced, frames, listed, dumped, exited>>
      /\ phase \in [PE -> Phases] /\ n \in Int
  BY DEF Finish, FinishIteration, IndInv, TypeOK
<1>2. FrontOK' /\ FramesOK' /\ ListedOK' /\ DumpOK'
  BY <1>1, NothingWritten DEF OutInv, Awaited
<1>3. /\ timers[pe] \in Timer
      /\ {"treebuild"} \in SUBSET TimedPhase /\ {"traversal"} \in SUBSET TimedPhase
  BY DEF OutInv, TimersOK, TimedPhase
<1>4. /\ s \in Timer /\ s.step = timers[pe].step
      /\ s.running = timers[pe].running \ {"treebuild"}
      /\ s.charged = timers[pe].charged
              \cup ({timers[pe].step} \X ({"treebuild"} \cap timers[pe].running))
  BY <1>3, StartStop
<1> HIDE DEF s
<1>5. /\ u \in Timer /\ u.step = s.step /\ u.charged = s.charged
      /\ u.running = s.running \cup {"traversal"}
  BY <1>3, <1>4, StartStop
<1> HIDE DEF u
<1>6. /\ t \in Timer /\ t.step = u.step
      /\ t.running = u.running \ {"traversal"}
      /\ t.charged = u.charged \cup ({u.step} \X ({"traversal"} \cap u.running))
  BY <1>3, <1>5, StartStop
<1> HIDE DEF t
<1>7. TimersOn => TimersIn(timers[pe], "tree", n)
  BY <1>1 DEF OutInv, TimersOK
<1>8. Timed(pe, t)
  BY DEF Finish, s, u, t
<1> HIDE DEF n
<1>9. TimersOn => TimersIn(t, "finished", n)
  <2> SUFFICES ASSUME TimersOn  PROVE TimersIn(t, "finished", n)
    OBVIOUS
  <2>1. /\ timers[pe].step = n /\ timers[pe].running = {"step", "treebuild"}
        /\ timers[pe].charged = ChargedBefore(n) \cup {<<n, "decomposition">>}
    BY <1>7 DEF TimersIn
  <2>2. s.step = n /\ s.running = {"step"}
        /\ s.charged = ChargedBefore(n) \cup {<<n, "decomposition">>, <<n, "treebuild">>}
    BY <1>4, <2>1
  <2>3. u.step = n /\ u.running = {"step", "traversal"} /\ u.charged = s.charged
    BY <1>5, <2>2
  <2>4. t.step = n /\ t.running = {"step"}
        /\ t.charged = s.charged \cup {<<n, "traversal">>}
    BY <1>6, <2>3
  <2> QED
    BY <2>2, <2>4 DEF TimersIn
<1>10. /\ \A q \in PE : q # pe => phase'[q] = phase[q] /\ iteration'[q] = iteration[q]
       /\ phase'[pe] = "finished" /\ iteration'[pe] = n
  BY <1>1 DEF n
<1>11. TimersOK'
  BY <1>6, <1>8, <1>9, <1>10, OthersTimed DEF OutInv
<1> QED
  BY <1>1, <1>2, <1>11, NotExited DEF OutInv

\* Main's reports and the exit for a force that is no number are of all PEs.
LEMMA ReportOutInv ==
    ASSUME IndInv, OutInv,
           UNCHANGED allVars \/ ExitOnNaN \/ ReportFinalEnergy \/ ReportPhaseTimers
    PROVE  OutInv'
<1>1. UNCHANGED <<iteration, phase, myParticles, reduced, frames, listed, dumped, timers,
                  haveNaN>>
  BY DEF allVars, vars, local, program, ExitOnNaN, ReportFinalEnergy, ReportPhaseTimers
<1>2. FrontOK' /\ FramesOK' /\ ListedOK' /\ DumpOK'
  BY <1>1, NothingWritten DEF OutInv, Awaited
<1>3. TimersOK'
  BY <1>1 DEF OutInv, TimersOK
<1>4. ExitOK'
  <2>1. CASE UNCHANGED allVars
    BY <1>1, <2>1 DEF OutInv, ExitOK, AllContributed, allVars, program
  <2>2. CASE ExitOnNaN
    <3>1. PICK n \in haveNaN : \A pe \in PE : phase[pe] = "finished" /\ iteration[pe] = n
      BY <2>2 DEF ExitOnNaN
    <3>2. n \in Step
      <4>1. phase[Root] = "finished" /\ iteration[Root] = n /\ Root \in PE
        BY <3>1, ConstantsAssumption
      <4>2. n \in 0 .. NumIterations /\ n # NumIterations
        BY <4>1 DEF IndInv, TypeOK, Control, Ended
      <4> QED
        BY <4>2, ConstantsAssumption DEF Step
    <3> QED
      BY <1>1, <3>1, <3>2 DEF ExitOK
  <2>3. CASE ReportFinalEnergy \/ ReportPhaseTimers
    BY <1>1, <2>3 DEF ReportFinalEnergy, ReportPhaseTimers, ExitOK, AllContributed
  <2> QED
    BY <2>1, <2>2, <2>3
<1> QED
  BY <1>2, <1>3, <1>4 DEF OutInv

\* PhaseTimers::finishStep closes what still runs.
LEMMA FinishedStep ==
    ASSUME NEW t \in Timer
    PROVE  /\ FinishStep(t) \in Timer /\ FinishStep(t).running = {}
           /\ FinishStep(t).charged =
                 t.charged \cup ({t.step} \X t.running) \cup {<<t.step, "other">>}
<1> DEFINE c == Stop(t, t.running)
<1> DEFINE all == c.charged \cup {<<t.step, "other">>}
<1>1. t.running \in SUBSET TimedPhase /\ t.step \in Int
  BY DEF Timer
<1>2. /\ c \in Timer /\ c.running = {}
      /\ c.charged = t.charged \cup ({t.step} \X t.running)
  BY <1>1, StartStop
<1>3. FinishStep(t) = [c EXCEPT !.charged = all]
  BY DEF FinishStep
<1> HIDE DEF c
<1>4. all \in SUBSET (Int \X TimedPhase)
  BY <1>1, <1>2 DEF Timer, TimedPhase
<1> HIDE DEF all
<1>5. FinishStep(t) = [step |-> c.step, running |-> {}, charged |-> all]
  BY <1>2, <1>3 DEF Timer
<1>6. FinishStep(t) \in Timer
  BY <1>2, <1>4, <1>5 DEF Timer
<1> QED
  BY <1>2, <1>5, <1>6 DEF all

\* What a step adds to the table: each of its phases once.
LEMMA ChargedNext ==
    ASSUME NEW n \in Nat
    PROVE  ChargedBefore(n + 1) = ChargedBefore(n) \cup ({n} \X StepPhases(n))
<1>1. 0 .. (n + 1) - 1 = (0 .. n - 1) \cup {n}
  OBVIOUS
<1> QED
  BY <1>1 DEF ChargedBefore

\* advance closes the step's integration and output.
LEMMA TimedToTheEnd ==
    ASSUME NEW t \in Timer, NEW n \in Nat
    PROVE  /\ Timing(t, n) \in Timer
           /\ TimersIn(t, "finished", n) =>
                 /\ Timing(t, n).running = {}
                 /\ Timing(t, n).charged = ChargedBefore(n + 1)
<1> DEFINE a == Start(t, {"integration"})
<1> DEFINE b == Start(a, {"output"})
<1> DEFINE c == Stop(b, {"output"})
<1> DEFINE out == WriteThisStep(n) \/ n = DumpStep
<1> DEFINE d == IF out THEN c ELSE a
<1> DEFINE e == Stop(d, {"integration"})
<1>1. {"integration"} \in SUBSET TimedPhase /\ {"output"} \in SUBSET TimedPhase
  BY DEF TimedPhase
<1>2. /\ a \in Timer /\ a.step = t.step /\ a.charged = t.charged
      /\ a.running = t.running \cup {"integration"}
  BY <1>1, StartStop
<1>3. /\ b \in Timer /\ b.step = a.step /\ b.charged = a.charged
      /\ b.running = a.running \cup {"output"}
  <2> HIDE DEF a
  <2> QED  BY <1>1, <1>2, StartStop
<1>4. /\ c \in Timer /\ c.step = b.step /\ c.running = b.running \ {"output"}
      /\ c.charged = b.charged \cup ({b.step} \X ({"output"} \cap b.running))
  <2> HIDE DEF a, b
  <2> QED  BY <1>1, <1>3, StartStop
<1>5. d \in Timer
  <2> HIDE DEF a, b, c, out
  <2> QED  BY <1>2, <1>4
<1>6. /\ e \in Timer /\ e.step = d.step /\ e.running = d.running \ {"integration"}
      /\ e.charged = d.charged \cup ({d.step} \X ({"integration"} \cap d.running))
  <2> HIDE DEF d
  <2> QED  BY <1>1, <1>5, StartStop
<1>7. Timing(t, n) = FinishStep(e)
  BY DEF Timing
<1> HIDE DEF a, b, c, d, e
<1>8. /\ Timing(t, n) \in Timer /\ Timing(t, n).running = {}
      /\ Timing(t, n).charged = e.charged \cup ({e.step} \X e.running) \cup {<<e.step, "other">>}
  BY <1>6, <1>7, FinishedStep
<1>9. ASSUME TimersIn(t, "finished", n)
      PROVE  Timing(t, n).charged = ChargedBefore(n + 1)
  <2>1. /\ t.step = n /\ t.running = {"step"}
        /\ t.charged = ChargedBefore(n)
                         \cup ({n} \X {"decomposition", "treebuild", "traversal"})
    BY <1>9 DEF TimersIn
  <2>2. a.step = n /\ a.running = {"step", "integration"}
    BY <1>2, <2>1
  <2>3. c.step = n /\ c.running = {"step", "integration"}
        /\ c.charged = t.charged \cup {<<n, "output">>}
    BY <1>2, <1>3, <1>4, <2>2
  <2>4. /\ d.step = n /\ d.running = {"step", "integration"}
        /\ d.charged = t.charged \cup (IF out THEN {<<n, "output">>} ELSE {})
    BY <1>2, <2>2, <2>3 DEF d
  <2>5. /\ e.step = n /\ e.running = {"step"}
        /\ e.charged = d.charged \cup {<<n, "integration">>}
    BY <1>6, <2>4
  <2>6. Timing(t, n).charged =
           ChargedBefore(n) \cup {<<n, "decomposition">>, <<n, "treebuild">>,
                                  <<n, "traversal">>, <<n, "integration">>,
                                  <<n, "step">>, <<n, "other">>}
                            \cup (IF out THEN {<<n, "output">>} ELSE {})
    <3> HIDE DEF out
    <3> QED  BY <1>8, <2>1, <2>4, <2>5
  <2>7. {n} \X StepPhases(n) = {<<n, "decomposition">>, <<n, "treebuild">>,
                                <<n, "traversal">>, <<n, "integration">>,
                                <<n, "step">>, <<n, "other">>}
                             \cup (IF out THEN {<<n, "output">>} ELSE {})
    BY DEF StepPhases
  <2> QED
    BY <2>6, <2>7, ChargedNext
<1> QED
  BY <1>8, <1>9

\* What the PE that ends its step n finds and does: its points are of that
\* instant, and the others' particles are still awaited.
LEMMA Advancing ==
    ASSUME IndInv, LeapInv, NEW pe \in PE, AdvanceAll(pe),
           NEW n \in Int, n = iteration[pe]
    PROVE  /\ n \in Nat /\ n \in Step
           /\ iteration' = [iteration EXCEPT ![pe] = n + 1]
           /\ phase[pe] = "finished" /\ phase'[pe] \in {"advanced", "done"}
           /\ \A q \in PE : q # pe => phase'[q] = phase[q]
           /\ reduced'.step = n
           /\ \/ reduced.step = n
              \/ reduced.step = n - 1 /\ \A q \in PE : iteration[q] = n
           /\ Part(Points(pe), PointsOf(n), pe)
           /\ Part(Records(pe), RecordsOf(n), pe)
           /\ \A p \in Particle \ myParticles[pe] :
                 reduced.step = n => (Awaited(p) => Awaited(p)')
           /\ \A p \in Particle \ myParticles[pe] :
                 reduced.step = n - 1 => Awaited(p)'
<1>1. Advance(pe) /\ KickDriftKick(pe, n)
  BY DEF AdvanceAll
<1>2. /\ phase[pe] = "finished" /\ phase'[pe] \in {"advanced", "done"}
      /\ iteration' = [iteration EXCEPT ![pe] = n + 1]
      /\ \A q \in PE : q # pe => phase'[q] = phase[q] /\ iteration'[q] = iteration[q]
      /\ UNCHANGED myParticles
      /\ myParticles[pe] \subseteq Particle
  BY <1>1 DEF Advance, NextPhase, IndInv, TypeOK
<1>3. n \in Nat /\ n \in Step
  <2>1. n \in 0 .. NumIterations /\ n # NumIterations
    BY <1>2 DEF IndInv, TypeOK, Control, Ended
  <2> QED
    BY <2>1, ConstantsAssumption DEF Step
<1>4. \A q \in PE : \/ iteration[q] = n /\ phase[q] = "finished"
                    \/ iteration[q] = n + 1 /\ phase[q] \in {"advanced", "done"}
  BY <1>1, AdvanceBarrier
<1>5. \A p \in Particle : \E q \in PE : p \in myParticles[q]
  BY <1>4, AllHeld
<1>6. \A p \in myParticles[pe] :
         pos[p] = 2 * n /\ vel[p] = VelocityTime(n) /\ acc[p] = {2 * n}
  BY <1>2 DEF LeapInv, Clocks, Clock, Forces, VelocityTime
<1>7. reduced'.step = n
  BY <1>1, Reduction
<1>8. /\ reduced.step \in Int
      /\ \/ reduced.step = n
         \/ reduced.step = n - 1 /\ \A q \in PE : iteration[q] = n
  <2>1. reduced.step \in Int /\ (reduced.step = n \/ reduced.step + 1 = n)
    BY <1>2 DEF LeapInv, LeapTypes, Contributed
  <2>2. CASE reduced.step + 1 = n
    BY <1>4, <2>1, <2>2 DEF LeapInv, Contributed
  <2> QED
    BY <2>1, <2>2
<1>9. Part(Points(pe), PointsOf(n), pe) /\ Part(Records(pe), RecordsOf(n), pe)
  <2>1. Part(Points(pe), PointsOf(n), pe)
    BY <1>2, <1>6 DEF Points, PointsOf, Part
  <2>2. Part(Records(pe), RecordsOf(n), pe)
    BY <1>2, <1>6 DEF Records, RecordsOf, Part
  <2> QED
    BY <2>1, <2>2
<1>10. ASSUME NEW p \in Particle \ myParticles[pe], reduced.step = n, Awaited(p)
       PROVE  Awaited(p)'
  BY <1>2, <1>7, <1>10 DEF Awaited
<1>11. ASSUME NEW p \in Particle \ myParticles[pe], reduced.step = n - 1
       PROVE  Awaited(p)'
  <2>1. \A q \in PE : iteration[q] = n
    BY <1>3, <1>8, <1>11
  <2>2. PICK q \in PE : p \in myParticles[q]
    BY <1>5
  <2> QED
    BY <1>2, <1>7, <2>1, <2>2 DEF Awaited
<1> QED
  BY <1>2, <1>3, <1>7, <1>8, <1>9, <1>10, <1>11

\* With the points of one PE more, the collection of step n is what it should
\* be after that PE, whether it was the first or not.
LEMMA OneMore ==
    ASSUME IndInv, LeapInv, NEW pe \in PE, AdvanceAll(pe),
           NEW n \in Int, n = iteration[pe],
           NEW points, NEW mine, NEW whole, Part(mine, whole, pe),
           IF n <= reduced.step THEN Collected(points, whole, n) ELSE points = {}
    PROVE  /\ points \cup mine \subseteq All(whole)
           /\ \A p \in Particle : whole[p] \in points \cup mine \/ Awaited(p)'
<1>1. /\ reduced.step = n \/ reduced.step = n - 1
      /\ \A p \in Particle \ myParticles[pe] :
            reduced.step = n => (Awaited(p) => Awaited(p)')
      /\ \A p \in Particle \ myParticles[pe] :
            reduced.step = n - 1 => Awaited(p)'
  BY Advancing
<1>2. mine \subseteq All(whole) /\ \A p \in myParticles[pe] : whole[p] \in mine
  BY DEF Part, All, IndInv, TypeOK
<1>3. CASE reduced.step = n
  <2>1. Collected(points, whole, n)
    BY <1>3
  <2> QED
    BY <1>1, <1>2, <1>3, <2>1 DEF Collected
<1>4. CASE reduced.step = n - 1
  <2>1. points = {}
    BY <1>4
  <2> QED
    BY <1>1, <1>2, <1>4, <2>1
<1> QED
  BY <1>1, <1>3, <1>4

\* What was collected of an earlier step is complete, and stays.
LEMMA Earlier ==
    ASSUME IndInv, LeapInv, NEW pe \in PE, AdvanceAll(pe),
           NEW n \in Int, n = iteration[pe], NEW k \in Int, k < n,
           NEW points, NEW whole, Collected(points, whole, k)
    PROVE  points = All(whole)
<1>1. \/ reduced.step = n
      \/ reduced.step = n - 1 /\ \A q \in PE : iteration[q] = n
  BY Advancing
<1>2. ASSUME NEW p  PROVE ~(k = reduced.step /\ Awaited(p))
  BY <1>1 DEF Awaited
<1> QED
  BY <1>2 DEF Collected, All

\* The PE that ends its step adds its piece to the step's frame, and its points
\* to the dump; no other frame changes.
LEMMA AdvanceWrites ==
    ASSUME IndInv, LeapInv, OutInv, NEW pe \in PE, AdvanceAll(pe)
    PROVE  FrontOK' /\ FramesOK' /\ ListedOK' /\ DumpOK'
<1>1. PICK n \in Int : n = iteration[pe]
  BY DEF IndInv, TypeOK
<1>2. /\ n \in Nat /\ n \in Step
      /\ iteration' = [iteration EXCEPT ![pe] = n + 1]
      /\ reduced'.step = n
      /\ \/ reduced.step = n
         \/ reduced.step = n - 1 /\ \A q \in PE : iteration[q] = n
      /\ Part(Points(pe), PointsOf(n), pe)
      /\ Part(Records(pe), RecordsOf(n), pe)
  BY <1>1, Advancing
<1>3. Snapshot(pe, n) /\ DumpForces(pe, n)
  BY <1>1 DEF AdvanceAll
<1>4. /\ Past(n)' = Past(n) \cup {pe}
      /\ \A k \in Step : k # n => Past(k)' = Past(k)
  <2>1. iteration \in [PE -> Int]
    BY DEF IndInv, TypeOK
  <2> QED
    BY <1>1, <1>2, <2>1 DEF Past, Step
<1>5. /\ \A k \in Step : Begun(k)' <=> k <= n
      /\ \A k \in Step : k < n => Begun(k)
      /\ \A k \in Step : Begun(k) => k <= n
      /\ Begun(n) <=> reduced.step = n
      /\ ~Begun(n) => Past(n) = {}
  BY <1>2 DEF Begun, Past, Step
<1>7. ASSUME NEW k \in Step, k < n, NEW points, NEW whole, Collected(points, whole, k)
      PROVE  points = All(whole)
  <2>1. k \in Int
    BY DEF Step
  <2> QED
    BY <1>1, <1>7, <2>1, Earlier
<1>8. ASSUME NEW points, NEW mine, NEW whole, Part(mine, whole, pe),
             IF n <= reduced.step THEN Collected(points, whole, n) ELSE points = {}
      PROVE  /\ points \cup mine \subseteq All(whole)
             /\ \A p \in Particle : whole[p] \in points \cup mine \/ Awaited(p)'
  BY <1>1, <1>8, OneMore
<1>9. ListedOK'
  <2>1. CASE WriteThisStep(n) /\ pe = Root
    BY <1>2, <1>3, <1>4, <2>1 DEF OutInv, ListedOK, Snapshot, Listed
  <2>2. CASE ~(WriteThisStep(n) /\ pe = Root)
    BY <1>2, <1>3, <1>4, <2>2 DEF OutInv, ListedOK, Snapshot
  <2> QED
    BY <2>1, <2>2
<1>10. DumpOK'
  <2>1. CASE n = DumpStep
    <3>1. dumped' = dumped \cup Records(pe) /\ DumpStep \in Step
      BY <1>2, <1>3, <2>1 DEF DumpForces
    <3>2. IF n <= reduced.step THEN Collected(dumped, RecordsOf(n), n) ELSE dumped = {}
      BY <2>1, <3>1 DEF OutInv, DumpOK, Begun
    <3>3. /\ dumped' \subseteq All(RecordsOf(n))
          /\ \A p \in Particle : RecordsOf(n)[p] \in dumped' \/ Awaited(p)'
      BY <1>2, <1>8, <3>1, <3>2
    <3> QED
      BY <1>2, <1>5, <2>1, <3>1, <3>3 DEF DumpOK, Collected, RecordsOf, All
  <2>2. CASE n # DumpStep
    <3>1. dumped' = dumped
      BY <1>3, <2>2 DEF DumpForces
    <3>2. CASE DumpStep \in Step /\ DumpStep < n
      <4>1. Collected(dumped, RecordsOf(DumpStep), DumpStep)
        BY <1>5, <3>2 DEF OutInv, DumpOK
      <4>2. dumped = All(RecordsOf(DumpStep))
        BY <1>7, <3>2, <4>1
      <4> QED
        BY <1>5, <3>1, <3>2, <4>2 DEF DumpOK, Collected, RecordsOf, All
    <3>3. CASE ~(DumpStep \in Step /\ DumpStep < n)
      BY <1>2, <1>5, <2>2, <3>1, <3>3 DEF OutInv, DumpOK, Step
    <3> QED
      BY <3>2, <3>3
  <2> QED
    BY <2>1, <2>2
<1>11. FramesOK'
  <2> DEFINE Good(k) ==
         IF WriteThisStep(k) /\ Begun(k)
         THEN /\ frames[k].pieces = Past(k)
              /\ frames[k].index = IF Root \in Past(k) THEN PE ELSE {}
              /\ Collected(frames[k].points, PointsOf(k), k)
         ELSE frames[k] = NoFrame
  <2> DEFINE FrameSet == [pieces : SUBSET PE, index : SUBSET PE,
                          points : SUBSET (Particle \X Int \X Int \X SUBSET Int)]
  <2>1. frames \in [Step -> FrameSet] /\ \A k \in Step : Good(k)
    BY DEF OutInv, FramesOK
  <2>2. ASSUME NEW k \in Step, k # n  PROVE frames'[k] = frames[k] /\ Good(k)'
    <3>1. frames'[k] = frames[k]
      BY <1>3, <2>1, <2>2 DEF Snapshot
    <3>2. CASE k < n
      <4>1. CASE WriteThisStep(k)
        <5>1. /\ frames[k].pieces = Past(k)
              /\ frames[k].index = IF Root \in Past(k) THEN PE ELSE {}
              /\ Collected(frames[k].points, PointsOf(k), k)
          BY <1>5, <2>1, <3>2, <4>1
        <5>2. frames[k].points = All(PointsOf(k))
          BY <1>7, <3>2, <5>1
        <5>3. Collected(frames[k].points, PointsOf(k), k)'
          BY <3>1, <5>2 DEF Collected, PointsOf, All
        <5> QED
          BY <1>4, <1>5, <2>2, <3>1, <3>2, <4>1, <5>1, <5>3
      <4>2. CASE ~WriteThisStep(k)
        BY <2>1, <3>1, <4>2 DEF WriteThisStep
      <4> QED
        BY <4>1, <4>2
    <3>3. CASE ~(k < n)
      BY <1>2, <1>5, <2>1, <2>2, <3>1, <3>3 DEF Step, WriteThisStep
    <3> QED
      BY <3>1, <3>2, <3>3
  <2>3. frames'[n] \in FrameSet /\ Good(n)'
    <3>1. CASE WriteThisStep(n)
      <4> DEFINE old == frames[n].points
      <4>1. /\ frames[n].pieces = Past(n)
            /\ frames[n].index = IF Root \in Past(n) THEN PE ELSE {}
            /\ IF n <= reduced.step THEN Collected(old, PointsOf(n), n) ELSE old = {}
        <5>1. Good(n)
          BY <1>2, <2>1
        <5>2. CASE Begun(n)
          BY <3>1, <5>1, <5>2 DEF Begun
        <5>3. CASE ~Begun(n)
          <6>1. frames[n] = NoFrame
            BY <5>1, <5>3
          <6> QED
            BY <1>5, <5>3, <6>1 DEF NoFrame, Begun
        <5> QED
          BY <5>2, <5>3
      <4>2. /\ frames'[n].pieces = Past(n) \cup {pe}
            /\ frames'[n].index = IF pe = Root THEN PE ELSE frames[n].index
            /\ frames'[n].points = old \cup Points(pe)
            /\ frames'[n] = [pieces |-> frames'[n].pieces, index |-> frames'[n].index,
                             points |-> frames'[n].points]
        <5> DEFINE pieces == frames[n].pieces \cup {pe}
        <5> DEFINE points == old \cup Points(pe)
        <5> DEFINE v == [frames[n] EXCEPT !.pieces = pieces]
        <5> DEFINE w == [v EXCEPT !.points = points]
        <5> DEFINE u == [w EXCEPT !.index = PE]
        <5>1. frames[n] = [pieces |-> frames[n].pieces, index |-> frames[n].index,
                           points |-> old]
          BY <1>2, <2>1
        <5>2. frames'[n] = IF pe = Root THEN u ELSE w
          BY <1>2, <1>3, <2>1, <3>1 DEF Snapshot, Written, Indexed
        <5>3. v = [pieces |-> pieces, index |-> frames[n].index, points |-> old]
          BY <5>1
        <5>4. pieces = Past(n) \cup {pe} /\ points = old \cup Points(pe)
          BY <4>1
        <5> HIDE DEF v, pieces, points
        <5>5. w = [pieces |-> pieces, index |-> frames[n].index, points |-> points]
          BY <5>3
        <5> HIDE DEF w
        <5>6. u = [pieces |-> pieces, index |-> PE, points |-> points]
          BY <5>5
        <5> HIDE DEF u
        <5> QED
          BY <5>2, <5>4, <5>5, <5>6
      <4>3. /\ frames'[n].points \subseteq All(PointsOf(n))
            /\ \A p \in Particle : PointsOf(n)[p] \in frames'[n].points \/ Awaited(p)'
        <5> HIDE DEF old
        <5> QED  BY <1>2, <1>8, <4>1, <4>2
      <4>4. Collected(frames[n].points, PointsOf(n), n)'
        BY <1>2, <4>3 DEF Collected, PointsOf, All
      <4>5. frames'[n] \in FrameSet
        <5>1. All(PointsOf(n)) \in SUBSET (Particle \X Int \X Int \X SUBSET Int)
          BY <1>2 DEF PointsOf, VelocityTime, All
        <5>2. frames[n].pieces \in SUBSET PE /\ frames[n].index \in SUBSET PE
          BY <1>2, <2>1
        <5> QED
          BY <4>1, <4>2, <4>3, <5>1, <5>2
      <4> QED
        BY <1>2, <1>4, <1>5, <3>1, <4>1, <4>2, <4>4, <4>5
    <3>2. CASE ~WriteThisStep(n)
      BY <1>2, <1>3, <2>1, <3>2 DEF Snapshot, WriteThisStep
    <3> QED
      BY <3>1, <3>2
  <2>4. frames' = [k \in Step |-> frames'[k]]
    BY <1>3, <2>1 DEF Snapshot
  <2>5. \A k \in Step : frames'[k] \in FrameSet /\ Good(k)'
    BY <2>1, <2>2, <2>3
  <2>6. frames' \in [Step -> FrameSet]
    <3> HIDE DEF FrameSet
    <3> QED  BY <2>4, <2>5
  <2> QED
    BY <2>5, <2>6 DEF FramesOK
<1>12. FrontOK'
  BY <1>1, <1>2 DEF FrontOK, IndInv, TypeOK
<1> QED
  BY <1>9, <1>10, <1>11, <1>12

\* The end of a step keeps the invariant, whatever it writes.
LEMMA AdvanceOutInv ==
    ASSUME IndInv, LeapInv, OutInv, ~exited, NEW pe \in PE, AdvanceAll(pe)
    PROVE  OutInv'
<1>1. PICK n \in Int : n = iteration[pe]
  BY DEF IndInv, TypeOK
<1>2. /\ n \in Nat /\ iteration' = [iteration EXCEPT ![pe] = n + 1]
      /\ phase[pe] = "finished" /\ phase'[pe] \in {"advanced", "done"}
      /\ \A q \in PE : q # pe => phase'[q] = phase[q]
  BY <1>1, Advancing
<1>3. iteration \in [PE -> Int] /\ timers[pe] \in Timer
  BY DEF IndInv, TypeOK, OutInv, TimersOK
<1>4. Timed(pe, Timing(timers[pe], n)) /\ UNCHANGED exited
  BY <1>1 DEF AdvanceAll
<1> DEFINE t == Timing(timers[pe], n)
<1>5. /\ t \in Timer
      /\ TimersIn(timers[pe], "finished", n) =>
            t.running = {} /\ t.charged = ChargedBefore(n + 1)
  BY <1>2, <1>3, TimedToTheEnd
<1> HIDE DEF t
<1>6. TimersOn => TimersIn(timers[pe], "finished", n)
  BY <1>1, <1>2 DEF OutInv, TimersOK
<1>7. TimersOn => TimersIn(t, phase'[pe], n + 1)
  BY <1>2, <1>5, <1>6 DEF TimersIn
<1>8. /\ iteration'[pe] = n + 1
      /\ \A q \in PE : q # pe => phase'[q] = phase[q] /\ iteration'[q] = iteration[q]
  BY <1>2, <1>3
<1>9. TimersOK'
  BY <1>4, <1>5, <1>7, <1>8, OthersTimed DEF OutInv, t
<1> QED
  BY <1>4, <1>9, AdvanceWrites, NotExited DEF OutInv

\* Every step of the program keeps OutInv.
LEMMA NextOutInv == IndInv /\ LeapInv /\ OutInv /\ [ProgramNext]_allVars => OutInv'
<1> SUFFICES ASSUME IndInv, LeapInv, OutInv, [ProgramNext]_allVars  PROVE OutInv'
  OBVIOUS
<1>1. CASE UNCHANGED allVars \/ ExitOnNaN \/ ReportFinalEnergy \/ ReportPhaseTimers
  BY <1>1, ReportOutInv
<1>2. CASE ~exited /\ (\/ Histogram \/ (\E pe \in PE : Send(pe))
                      \/ (\E m \in particleMsgs : Receive(m)))
  BY <1>2, ExchangeOutInv
<1>3. ASSUME ~exited, NEW pe \in PE, DecomposeIn(pe)  PROVE OutInv'
  BY <1>3, DecomposeOutInv
<1>4. ASSUME ~exited, NEW pe \in PE, Finish(pe)  PROVE OutInv'
  BY <1>4, FinishOutInv
<1>5. ASSUME ~exited, NEW pe \in PE, AdvanceAll(pe)  PROVE OutInv'
  BY <1>5, AdvanceOutInv
<1> QED
  BY <1>1, <1>2, <1>3, <1>4, <1>5 DEF ProgramNext, ProgramStep

\* When all PEs are at the beginning of a step, or at the end of the last,
\* what the steps before it have left is complete.
LEMMA CompleteBefore ==
    ASSUME IndInv, LeapInv, OutInv, NEW n \in Nat,
           \A pe \in PE : iteration[pe] = n
    PROVE  /\ listed = {k \in Step : WriteThisStep(k) /\ k < n}
           /\ listed = {k \in Step : frames[k] # NoFrame}
           /\ \A k \in listed : /\ frames[k].pieces = PE /\ frames[k].index = PE
                                /\ frames[k].points = All(PointsOf(k))
           /\ DumpStep \in Step /\ DumpStep < n => dumped = All(RecordsOf(DumpStep))
<1>1. \A k \in Step : k \in Int /\ Past(k) = IF k < n THEN PE ELSE {}
  BY DEF Past, Step
<1>2. Root \in PE
  BY ConstantsAssumption
<1>3. listed = {k \in Step : WriteThisStep(k) /\ k < n}
  BY <1>1, <1>2 DEF OutInv, ListedOK
<1>4. \A k \in Step : k < n => Begun(k) /\ \A p : ~(k = reduced.step /\ Awaited(p))
  BY <1>1, <1>2 DEF LeapInv, LeapTypes, Contributed, Begun, Awaited
<1>5. ASSUME NEW points, NEW whole, NEW k \in Step, k < n, Collected(points, whole, k)
      PROVE  points = All(whole)
  BY <1>4, <1>5 DEF Collected, All
<1>6. ASSUME NEW k \in Step, WriteThisStep(k), k < n
      PROVE  /\ frames[k].pieces = PE /\ frames[k].index = PE
             /\ frames[k].points = All(PointsOf(k))
  BY <1>1, <1>2, <1>4, <1>5, <1>6 DEF OutInv, FramesOK
<1>7. ASSUME NEW k \in Step, ~(WriteThisStep(k) /\ k < n)
      PROVE  frames[k] = NoFrame
  <2>1. CASE WriteThisStep(k) /\ Begun(k)
    BY <1>1, <1>7, <2>1 DEF OutInv, FrontOK, Begun, LeapInv, LeapTypes
  <2>2. CASE ~(WriteThisStep(k) /\ Begun(k))
    BY <2>2 DEF OutInv, FramesOK, WriteThisStep
  <2> QED
    BY <2>1, <2>2
<1>8. listed = {k \in Step : frames[k] # NoFrame}
  <2>1. NoFrame.pieces # PE
    BY <1>2 DEF NoFrame
  <2> QED
    BY <1>3, <1>6, <1>7, <2>1
<1>9. DumpStep \in Step /\ DumpStep < n => dumped = All(RecordsOf(DumpStep))
  BY <1>4, <1>5 DEF OutInv, DumpOK
<1> QED
  BY <1>3, <1>6, <1>8, <1>9

\* When a run has ended, by its last report or by a force that was no number,
\* the .pvd names the frames there are, every frame is whole, with positions and
\* forces of its instant and velocities half a step behind them, the dump has the
\* positions and forces of its step, and the timers have charged every phase to
\* its step (writeSnapshot, dumpForces, finishStep).
THEOREM Output == ProgramSpec => []OutputComplete
<1>1. IndInv /\ LeapInv /\ OutInv => OutputComplete
  <2> SUFFICES ASSUME IndInv, LeapInv, OutInv, exited  PROVE OutputComplete
    BY DEF OutputComplete
  <2>1. CASE AllContributed
    <3>1. \A pe \in PE : phase[pe] = "done" /\ iteration[pe] = NumIterations
      BY <2>1 DEF AllContributed, IndInv, Control, Ended
    <3>2. NumIterations \in Nat /\ \A k \in Step : k < NumIterations
      BY ConstantsAssumption DEF Step
    <3>3. /\ listed = {k \in Step : WriteThisStep(k)}
          /\ listed = {k \in Step : frames[k] # NoFrame}
          /\ \A k \in listed : /\ frames[k].pieces = PE /\ frames[k].index = PE
                               /\ frames[k].points = All(PointsOf(k))
          /\ DumpStep \in Step => dumped = All(RecordsOf(DumpStep))
      BY <3>1, <3>2, CompleteBefore
    <3>4. ASSUME TimersOn, NEW pe \in PE
          PROVE  timers[pe].charged = {<<0, "input">>} \cup
                                         UNION {{n} \X StepPhases(n) : n \in Step}
      <4>1. timers[pe].charged = ChargedBefore(NumIterations)
        BY <3>1, <3>4 DEF OutInv, TimersOK, TimersIn
      <4> QED
        BY <4>1 DEF ChargedBefore, Step
    <3> QED
      BY <3>3, <3>4 DEF OutputComplete, PointsOf, RecordsOf, All
  <2>2. CASE haveNaN # {} /\ \E n \in Step : \A pe \in PE : iteration[pe] = n
    <3>1. PICK n \in Step : \A pe \in PE : iteration[pe] = n
      BY <2>2
    <3>2. n \in Nat
      BY DEF Step
    <3> QED
      BY <2>2, <3>1, <3>2, CompleteBefore DEF OutputComplete, PointsOf, RecordsOf, All
  <2> QED
    BY <2>1, <2>2 DEF OutInv, ExitOK
<1>2. ProgramSpec => []IndInv
  BY ProgramImplementsExchange, Invariance, PTL
<1> QED
  BY <1>1, <1>2, InitLeapInv, NextLeapInv, InitOutInv, NextOutInv, PTL DEF ProgramSpec

=============================================================================

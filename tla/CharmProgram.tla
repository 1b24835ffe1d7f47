---------------------------- MODULE CharmProgram ----------------------------
(* The Charm++ benchmark from the first decompose to its exit: the exchange   *)
(* (CharmExchange) with what a step leaves behind -- the leapfrog of advance, *)
(* which shares one force evaluation between the closing kick of a step and   *)
(* the opening kick of the next, the box and the energies that are reduced,   *)
(* the ParaView frames and the phase timers -- and Main, which waits for the  *)
(* last reductions (src/charm/DataManager.cpp, Main.cpp, VtkOutput.h and      *)
(* Timers.h).                                                                 *)
(*                                                                            *)
(* Time is counted in half steps, dthf.  Of a position, a velocity and a      *)
(* force what is kept is the time it belongs to.                              *)
EXTENDS CharmExchange

CONSTANTS
    OutputFrequency,   \* globalParams.output.frequency, 0 without -output
    DumpStep,          \* globalParams.dumpStep, -1 without -dumpstep
    TimersOn,          \* globalParams.timerMask: all phases or none
    NaNSteps           \* the steps in which an acceleration may be no number

ASSUME ProgramAssumption ==
    /\ OutputFrequency \in Nat
    /\ DumpStep \in Int
    /\ TimersOn \in BOOLEAN
    /\ NaNSteps \subseteq 0 .. NumIterations - 1

VARIABLES
    pos,        \* the time of each particle's position
    vel,        \* and of its velocity
    acc,        \* the times of the positions its force came from, {} when it
                \* is zero
    haveNaN,    \* the PEs that found one, by the step
    reduced,    \* the boxes contributed at the end of the last step
    universe,   \* per PE: the box it hashes its particles in
    frames,     \* what has been written, by the step
    listed,     \* the steps named in the .pvd
    dumped,     \* the records of the force dump
    timers,     \* per PE: the step that is timed, the phases that run, and
                \* what has been charged to which step
    reports,    \* the final reductions Main has had
    exited

program == <<pos, vel, acc, haveNaN, reduced, universe, frames, listed,
             dumped, timers, reports, exited>>
allVars == <<vars, program>>

Step == 0 .. NumIterations - 1

\* BoundingBox: the positions it was grown by, and each particle's share of the
\* energies with the times of the velocity and of the potential.
EmptyBox(n) == [step |-> n, from |-> {}, grown |-> {}, energies |-> {}]

NoFrame == [pieces |-> {}, points |-> {}, index |-> {}]

\* PhaseTimers::stop, for the phases that were started.
Stop(t, phases) ==
    [t EXCEPT !.running = @ \ phases,
              !.charged = @ \cup ({t.step} \X (phases \cap t.running))]
\* PhaseTimers::start.
Start(t, phases) == [t EXCEPT !.running = @ \cup phases]

Timed(pe, t) == timers' = [timers EXCEPT ![pe] = IF TimersOn THEN t ELSE @]

\* PhaseTimers::finishStep: whatever still runs is closed, and the rest of the
\* step is charged to no phase.
FinishStep(t) ==
    LET closed == Stop(t, t.running)
    IN  [closed EXCEPT !.charged = @ \cup {<<t.step, "other">>}]

ProgramInit ==
    /\ Init
    /\ pos = [p \in Particle |-> 0]
    /\ vel = [p \in Particle |-> 0]
    /\ acc = [p \in Particle |-> {}]
    /\ haveNaN = {}
    /\ reduced = [step |-> -1, from |-> PE,
                  grown |-> {<<p, 0>> : p \in Particle}, energies |-> {}]
    /\ universe = [pe \in PE |-> {}]
    /\ frames = [n \in Step |-> NoFrame]
    /\ listed = {}
    /\ dumped = {}
    /\ timers = [pe \in PE |-> [step |-> 0, running |-> {},
                               charged |-> IF TimersOn THEN {<<0, "input">>} ELSE {}]]
    /\ reports = {}
    /\ exited = FALSE

----------------------------------------------------------------------------

\* recvUnivBoundingBox, and Main::commence for the first step.
DecomposeIn(pe) ==
    /\ Decompose(pe)
    /\ universe' = [universe EXCEPT ![pe] = reduced.grown]
    /\ Timed(pe, Start([timers[pe] EXCEPT !.step = iteration[pe]], {"step", "decomposition"}))
    /\ UNCHANGED <<pos, vel, acc, haveNaN, reduced, frames, listed, dumped, reports, exited>>

\* processSubmittedParticles, if pe has now got its particles.
TimesTheTree(pe) ==
    /\ IF phase'[pe] = "tree"
       THEN Timed(pe, Start(Stop(timers[pe], {"decomposition"}), {"treebuild"}))
       ELSE UNCHANGED timers
    /\ UNCHANGED <<pos, vel, acc, haveNaN, reduced, universe, frames, listed, dumped,
                   reports, exited>>

Histogram == ReceiveHistogram /\ TimesTheTree(Root)
Send(pe) == SendParticles(pe) /\ TimesTheTree(pe)
Receive(m) == ReceiveParticles(m) /\ TimesTheTree(m.to)

\* The tree is ready and the traversal has summed up forces from every particle
\* where it is; findMinVByA looks for one that is no number.
Finish(pe) ==
    /\ FinishIteration(pe)
    /\ Timed(pe, Stop(Start(Stop(timers[pe], {"treebuild"}), {"traversal"}), {"traversal"}))
    /\ acc' = [p \in Particle |-> IF p \in myParticles[pe]
                                  THEN {pos[q] : q \in Particle} ELSE acc[p]]
    /\ \/ UNCHANGED haveNaN
       \/ /\ iteration[pe] \in NaNSteps /\ myParticles[pe] # {}
          /\ haveNaN' = haveNaN \cup {iteration[pe]}
    /\ UNCHANGED <<pos, vel, reduced, universe, frames, listed, dumped, reports, exited>>

\* Mutant of ClosingKick: the first step closes a step that was never opened.
ClosingKickAlways(n) == 1

\* dtClose: nothing to close in step 0.
ClosingKick(n) == IF n = 0 THEN 0 ELSE 1

\* OutputConfig::writeThisStep.
WriteThisStep(n) == OutputFrequency > 0 /\ n % OutputFrequency = 0

\* fillVtkBlock: position, velocity and acceleration of each particle as they
\* are; the potential goes with the acceleration.
Points(pe) == {<<p, pos[p], vel[p], acc[p]>> : p \in myParticles[pe]}

\* The records of dumpForces: order, position, acceleration and potential.
Records(pe) == {<<p, pos[p], acc[p]>> : p \in myParticles[pe]}

\* Mutant of Written: the frame is written by PEs that have particles.
WrittenIfAny(pe, frame) ==
    IF myParticles[pe] = {} THEN frame
    ELSE [frame EXCEPT !.pieces = @ \cup {pe}, !.points = @ \cup Points(pe)]

\* writeVtkPiece: a file of its own for every PE and step, particles or none.
Written(pe, frame) ==
    [frame EXCEPT !.pieces = @ \cup {pe}, !.points = @ \cup Points(pe)]

\* writeVtkParallelIndex: PE 0 names all the pieces without having heard from
\* the other PEs.
Indexed(frame) == [frame EXCEPT !.index = PE]

\* writeVtkCollection: rewritten with every snapshot.
Listed(n) == listed \cup {n}

\* writeSnapshot.
Snapshot(pe, n) ==
    IF WriteThisStep(n)
    THEN /\ frames' = [frames EXCEPT ![n] =
                          IF pe = Root THEN Indexed(Written(pe, @)) ELSE Written(pe, @)]
         /\ listed' = IF pe = Root THEN Listed(n) ELSE listed
    ELSE UNCHANGED <<frames, listed>>

\* dumpForces.
DumpForces(pe, n) ==
    dumped' = IF n = DumpStep THEN dumped \cup Records(pe) ELSE dumped

\* What of a step has been timed when it ends.
Timing(t, n) ==
    LET begun == Start(t, {"integration"})
        output == IF WriteThisStep(n) \/ n = DumpStep
                  THEN Stop(Start(begun, {"output"}), {"output"}) ELSE begun
    IN  FinishStep(Stop(output, {"integration"}))

\* kickDriftKick, over the PE's particles.
KickDriftKick(pe, n) ==
    LET mine == myParticles[pe]
        closed(p) == vel[p] + ClosingKick(n)
        box == IF reduced.step = n THEN reduced ELSE EmptyBox(n)
    IN  /\ vel' = [p \in Particle |-> IF p \in mine THEN closed(p) + 1 ELSE vel[p]]
        /\ pos' = [p \in Particle |-> IF p \in mine THEN pos[p] + 2 ELSE pos[p]]
        /\ acc' = [p \in Particle |-> IF p \in mine THEN {} ELSE acc[p]]
        /\ reduced' = [box EXCEPT
              !.from = @ \cup {pe},
              !.grown = @ \cup {<<p, pos'[p]>> : p \in mine},
              !.energies = @ \cup {[id |-> p, kinetic |-> closed(p), potential |-> acc[p]] :
                                      p \in mine}]

\* advance: nothing is written and nobody moves when a force is no number.
AdvanceAll(pe) ==
    /\ iteration[pe] \notin haveNaN
    /\ Advance(pe)
    /\ Snapshot(pe, iteration[pe])
    /\ DumpForces(pe, iteration[pe])
    /\ KickDriftKick(pe, iteration[pe])
    /\ Timed(pe, Timing(timers[pe], iteration[pe]))
    /\ UNCHANGED <<haveNaN, universe, reports, exited>>

\* advance on every PE, when there was one: the exit is a reduction of its own.
ExitOnNaN ==
    /\ \E n \in haveNaN : \A pe \in PE : phase[pe] = "finished" /\ iteration[pe] = n
    /\ exited' = TRUE
    /\ UNCHANGED <<vars, pos, vel, acc, haveNaN, reduced, universe, frames, listed,
                   dumped, timers, reports>>

----------------------------------------------------------------------------
(* Main. *)

\* finishReports and niceExit: whichever of the two lands second.
FinishReports(had) ==
    exited' = ("energy" \in had /\ (TimersOn => "timers" \in had))

AllContributed == \A pe \in PE : phase[pe] = "done"

\* Mutant of ReportFinalEnergy: only the timers end the run.
ReportFinalEnergyOnly ==
    /\ AllContributed /\ "energy" \notin reports
    /\ reports' = reports \cup {"energy"}
    /\ exited' = ~TimersOn
    /\ UNCHANGED <<vars, pos, vel, acc, haveNaN, reduced, universe, frames, listed,
                   dumped, timers>>

ReportFinalEnergy ==
    /\ AllContributed /\ "energy" \notin reports
    /\ reports' = reports \cup {"energy"}
    /\ FinishReports(reports')
    /\ UNCHANGED <<vars, pos, vel, acc, haveNaN, reduced, universe, frames, listed,
                   dumped, timers>>

ReportPhaseTimers ==
    /\ TimersOn /\ AllContributed /\ "timers" \notin reports
    /\ reports' = reports \cup {"timers"}
    /\ FinishReports(reports')
    /\ UNCHANGED <<vars, pos, vel, acc, haveNaN, reduced, universe, frames, listed,
                   dumped, timers>>

ProgramStep ==
    \/ Histogram
    \/ \E pe \in PE : DecomposeIn(pe) \/ Send(pe) \/ Finish(pe) \/ AdvanceAll(pe)
    \/ \E m \in particleMsgs : Receive(m)
    \/ ExitOnNaN
    \/ ReportFinalEnergy
    \/ ReportPhaseTimers

\* CkExit ends everything.
ProgramNext == ~exited /\ ProgramStep

ProgramSpec == ProgramInit /\ [][ProgramNext]_allVars

\* Charm++ delivers every message and runs every entry method it delivers:
\* there is no end to the run while one is left.
ProgramFairSpec == ProgramSpec /\ WF_allVars(ProgramNext)

----------------------------------------------------------------------------
(* Properties. *)

ProgramTypeOK ==
    /\ pos \in [Particle -> 0 .. 2 * NumIterations]
    /\ vel \in [Particle -> 0 .. 2 * NumIterations]
    /\ reports \subseteq {"energy", "timers"}
    /\ exited \in BOOLEAN

\* The time of the velocities, in halves of a step, when step n begins: half a
\* step behind the positions' 2 * n, but for step 0, where nothing has moved.
VelocityTime(n) == IF n = 0 THEN 0 ELSE 2 * n - 1

\* A step of the leapfrog, whoever holds the particle when it is taken
\* (kickDriftKick): between steps the velocities are half a step behind the
\* positions, the same for all particles; the energies that are reduced come
\* from velocities and potentials of one instant, each particle's once; and the
\* next tree is built in a box that holds every particle where it is now.
LeapfrogExact ==
    /\ \A pe \in PE : phase[pe] \in {"decompose", "exchange", "tree"} =>
          LET n == iteration[pe]
          IN  /\ \A p \in Particle : /\ pos[p] = 2 * n
                                     /\ vel[p] = VelocityTime(n)
              /\ universe[pe] = {<<p, 2 * n>> : p \in Particle}
    /\ reduced.step >= 0 => \A e \in reduced.energies :
          e.kinetic = 2 * reduced.step /\ e.potential = {2 * reduced.step}
    /\ "energy" \in reports =>
          /\ reduced.step = NumIterations - 1
          /\ {e.id : e \in reduced.energies} = Particle

StepPhases(n) ==
    {"decomposition", "treebuild", "traversal", "integration", "step", "other"}
        \cup (IF WriteThisStep(n) \/ n = DumpStep THEN {"output"} ELSE {})

\* When the run has ended, by the last report or by a force that was no number,
\* the .pvd names exactly the steps that have frames (writeSnapshot, "naming
\* exactly the frames that exist"), and each frame has every piece its index
\* names and all particles, whatever step their PEs were in when it was begun:
\* positions and forces of the frame's instant, and velocities half a step
\* behind but for step 0 ("the stored velocities are the half-step ones ...
\* which is what -output snapshots record").
\* The dump has the positions and forces of the step asked for.  And every PE's
\* table of timers, if Main has had it, has each phase of each step charged to
\* that step (finishStep), whichever of Main's reports came first.
OutputComplete ==
    exited =>
        /\ listed = {n \in Step : frames[n] # NoFrame}
        /\ \A n \in listed :
              /\ frames[n].pieces = PE /\ frames[n].index = PE
              /\ frames[n].points =
                     {<<p, 2 * n, VelocityTime(n), {2 * n}>> : p \in Particle}
        /\ haveNaN = {} =>
              /\ listed = {n \in Step : WriteThisStep(n)}
              /\ DumpStep \in Step =>
                    dumped = {<<p, 2 * DumpStep, {2 * DumpStep}>> : p \in Particle}
              /\ TimersOn => \A pe \in PE :
                    timers[pe].charged = {<<0, "input">>} \cup
                       UNION {{n} \X StepPhases(n) : n \in Step}

\* "positions, velocities, accelerations and potentials all belong to the same
\* instant": in a frame that is listed the velocities are of the time of the
\* positions.  The code keeps it in the frame of step 0 alone.
FramesOfOneInstant ==
    \A n \in listed : \A point \in frames[n].points : point[3] = point[2]

\* The run ends: the exchange never stalls, and Main exits whichever of the two
\* final reductions lands first.
RunEnds == <>exited

============================================================================

---------------------------- MODULE MCCharmInput ----------------------------
(* A small instance of CharmInput, and of CharmDecomposition, for TLC. *)
EXTENDS CharmInput, TLC, SequencesExt

CONSTANTS p0, p1, p2

MCPE == {p0, p1, p2}
MCPeOf == (0 :> p0) @@ (1 :> p1) @@ (2 :> p2)

\* Every sequence of short and long records, with a blank line before any of
\* them, after the last or nowhere, with a header and without.
Line(kind, bytes) == [kind |-> kind, bytes |-> bytes]
RecordLines == [1 .. NumParticles -> {Line("record", 2), Line("record", 5)}]
WithBlank(lines) ==
    {lines} \cup {InsertAt(lines, n, Line("blank", 1)) : n \in 1 .. NumParticles + 1}
Csv(offset, lines) ==
    [format |-> "csv", header |-> IF offset = 0 THEN "none" ELSE "complete",
     dataOffset |-> offset, lines |-> lines]
Binary(declared, records) ==
    [format |-> "binary", declared |-> declared, records |-> records]

MCFiles ==
    {Csv(offset, lines) : offset \in {0, 3}, lines \in UNION {WithBlank(r) : r \in RecordLines}}
      \cup {Csv(0, [r EXCEPT ![2].kind = "malformed"]) : r \in RecordLines}
      \cup {[Csv(3, r) EXCEPT !.header = "missing a column"] : r \in RecordLines}
      \cup {Binary(NumParticles, n) : n \in {NumParticles - 1, NumParticles}}

\* Where the particles of a file may be: in order, in reverse, in one cell.
MCKeys == {[p \in Particle |-> p], [p \in Particle |-> KeySpace - p],
           [p \in Particle |-> (p % 2) * (KeySpace - 1)], [p \in Particle |-> 1]}

\* In later steps two of the PEs hold the particles, to keep the instance
\* small; particles of one cell are alike.
MCInit ==
    \/ LoadInit
    \/ /\ LaterInit
       /\ \A p \in Particle : owner[p] \in {p0, p1}
       /\ \A p, q \in Particle :
             p < q /\ keyOf[p] = keyOf[q] /\ owner[p] = p1 => owner[q] = p1
MCSpec == MCInit /\ [][InputNext]_allVars /\ WF_allVars(InputNext)
============================================================================

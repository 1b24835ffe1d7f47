-------------------------- MODULE MCCharmTraversal --------------------------
(* Small instances of CharmTraversal for TLC. *)
EXTENDS CharmTraversal

CONSTANTS p0, p1, p2, Inputs, MaxPieces

MCPE == {p0, p1, p2}

\* Three close together, and two at one position.
MCInputs == {<<0, 1, 2, 4>>, <<0, 1, 1, 4>>}

\* PEs are alike: nothing but homeOf names one.  So they are named in the order
\* in which they are the home of a TreePiece; and TreePieces are block-mapped,
\* as flushParticles has it.
BlockMapped ==
    \A t \in TreePiece :
       LET before == {homeOf[u] : u \in 0 .. t - 1}
       IN  IF homeOf[t] \in before THEN homeOf[t] = homeOf[t - 1]
           ELSE homeOf[t] = <<p0, p1, p2>>[Cardinality(before) + 1]

MCInit == keyOf \in Inputs /\ Input /\ NumTreePieces <= MaxPieces /\ BlockMapped /\ Init
MCSpec == MCInit /\ [][Next]_vars
============================================================================

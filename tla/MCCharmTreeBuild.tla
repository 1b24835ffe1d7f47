-------------------------- MODULE MCCharmTreeBuild --------------------------
(* Small instances of CharmTreeBuild for TLC. *)
EXTENDS CharmTreeBuild, TLC

CONSTANTS p0, p1, p2

MCPE == {p0, p1, p2}
MCPE2 == {p0, p1}

\* PEs are alike: nothing but homeOf, which is arbitrary, names one.
Symmetry == Permutations(PE)
============================================================================

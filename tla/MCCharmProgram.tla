--------------------------- MODULE MCCharmProgram ---------------------------
(* A small instance of CharmProgram for TLC. *)
EXTENDS CharmProgram, TLC

CONSTANTS p0, p1, p2, t0, t1, t2

\* One TreePiece per PE.  That a PE owns no particles at all, or all of them,
\* comes with the assignments ReceiveHistogram enumerates.
MCPE == {p0, p1, p2}
MCTreePiece == {t0, t1, t2}
MCHomeOf == (t0 :> p0) @@ (t1 :> p1) @@ (t2 :> p2)
============================================================================

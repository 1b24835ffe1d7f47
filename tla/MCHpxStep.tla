----------------------------- MODULE MCHpxStep -----------------------------
(* Small instances of HpxStep for TLC. *)
EXTENDS HpxStep

\* Three bodies in eight cells: spread, in one bucket, sharing a key; they
\* stay, or one crosses over.
MCStarts == {<<0, 3, 6>>, <<1, 2, 4>>, <<2, 3, 3>>, <<5, 6, 7>>}
MCLater == {<<0, 3, 6>>, <<7, 2, 1>>, <<4, 4, 5>>}
MCPaths == {[n \in 0 .. 1 |-> IF n = 0 THEN a ELSE b] : a \in MCStarts, b \in MCLater}

\* Nothing but the first input that cannot be read, one ending per policy, and
\* exact energies and timers only where bodies share a key.
MCInit ==
    /\ Init
    /\ ~readable => path = CHOOSE p \in Paths : TRUE
    /\ policy = "tree" <=> ending = "gather"
    /\ policy = "let" <=> ending = "error"
    /\ timed # {} => readable /\ exact
    /\ exact => path \in {p \in Paths : p[0] = <<2, 3, 3>>}
MCSpec == MCInit /\ [][Next]_vars /\ \A s \in Site : WF_vars(SiteNext(s))
============================================================================

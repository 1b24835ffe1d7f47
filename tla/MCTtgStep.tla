----------------------------- MODULE MCTtgStep -----------------------------
(* Small instances of TtgStep for TLC. *)
EXTENDS TtgStep

Input(x, d) == [i \in Body |-> [x |-> x[i], d |-> d[i]]]

\* Two clusters that pass through each other; all at one place.
MCStarts == {Input(<<0, 2, 12, 16>>, <<1, 4, -4, -1>>),
             Input(<<3, 3, 3, 3>>, <<0, 0, 1, 0>>)}
=============================================================================

---------------------------- MODULE MCJuliaStep ----------------------------
(* Small instances of JuliaStep for TLC. *)
EXTENDS JuliaStep

Input(x, d) == [i \in Body |-> [x |-> x[i], d |-> d[i]]]

\* Spread out, two clusters, and some bodies at one place; at rest, drifting
\* apart and passing each other.
MCStarts == {Input(<<0, 3, 4, 9, 12, 15, 16>>, <<0, 0, 0, 0, 0, 0, 0>>),
             Input(<<0, 1, 2, 3, 14, 15, 16>>, <<-1, 0, 1, 2, 0, 0, -1>>),
             Input(<<5, 5, 0, 16, 6, 5, 7>>, <<0, 0, 0, 0, 1, 0, -3>>)}
=============================================================================

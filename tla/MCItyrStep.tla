----------------------------- MODULE MCItyrStep -----------------------------
(* Small instances of ItyrStep for TLC. *)
EXTENDS ItyrStep

Input(x, d) == [i \in 1 .. NumBodies |-> [x |-> x[i], d |-> d[i]]]

\* Two clusters that pass through each other; all at one place.
MCStarts == {Input(<<16, 0, 2, 12, 3, 15, 8>>, <<-1, 1, 4, -4, 0, -2, 1>>),
             Input(<<3, 3, 3, 3, 3, 3, 3>>, <<0, 0, 1, 0, 0, 2, -1>>)}
MCTopologies == 
    {[nodes |-> 1, ranks |-> 2, cutoff |-> 2], [nodes |-> 2, ranks |-> 2, cutoff |-> 2],
     [nodes |-> 2, ranks |-> 1, cutoff |-> 3]}
=============================================================================

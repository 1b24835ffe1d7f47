------------------------------- MODULE Masses -------------------------------
(* Masses as what they are made of: the number of times each body is counted.  *)
(* Two trees that add up the same mass differently are told apart.             *)
EXTENDS Integers, FiniteSetsExt, Functions

CONSTANT NumBodies

ASSUME NumBodiesAssumption == NumBodies \in Nat \ {0}

Body == 1 .. NumBodies

Nothing == [i \in Body |-> 0]
MassOf(S) == [i \in Body |-> IF i \in S THEN 1 ELSE 0]
Plus(m, n) == [i \in Body |-> m[i] + n[i]]
Minus(m, n) == [i \in Body |-> m[i] - n[i]]

\* The masses of records, nodes or whatever has one.
Total(records) ==
    [i \in Body |-> SumFunctionOnSet([r \in records |-> r.mass[i]], records)]
=============================================================================

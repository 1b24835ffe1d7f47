--------------------------- MODULE Redistribution ---------------------------
(* What the exchange of particles promises, whatever messages carry it: again *)
(* and again a new owner is decided for every particle, and then each PE, by  *)
(* itself and in one step, comes to hold exactly what was decided for it.     *)
(* No further decision is taken before every PE has done so.                  *)
EXTENDS Integers

CONSTANTS PE, Particle

VARIABLES
    held,      \* what each PE stores
    target,    \* the owner last decided for each particle
    settled    \* the PEs that hold what was decided for them

vars == <<held, target, settled>>

Share(assignment, pe) == {p \in Particle : assignment[p] = pe}

Init ==
    /\ \E owner \in [Particle -> PE] : held = [pe \in PE |-> Share(owner, pe)]
    /\ target \in [Particle -> PE]
    /\ settled = PE

\* The decision; PEs with nothing to wait for hold their share at once.
Decide ==
    /\ settled = PE
    /\ target' \in [Particle -> PE]
    /\ settled' \in SUBSET PE
    /\ held' = [pe \in PE |-> IF pe \in settled' THEN Share(target', pe)
                                                 ELSE held[pe]]

Adopt(pe) ==
    /\ pe \in PE \ settled
    /\ held' = [held EXCEPT ![pe] = Share(target, pe)]
    /\ settled' = settled \cup {pe}
    /\ UNCHANGED target

Next == Decide \/ \E pe \in PE : Adopt(pe)

Spec == Init /\ [][Next]_vars
============================================================================

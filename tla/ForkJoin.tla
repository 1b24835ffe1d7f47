------------------------------- MODULE ForkJoin -------------------------------
(* What the scheduler and the futures promise to a program: every thread does *)
(* its steps one after the other, each once; forking makes another thread     *)
(* ready, and a wait is over no sooner than all the threads waited for have   *)
(* finished.                                                                  *)
EXTENDS Integers, Sequences

CONSTANTS
    Thread,
    Root

VARIABLES
    prog,      \* what each thread does: a sequence of forks and waits
    started,   \* the threads that have been forked
    ip,        \* the next step of each
    finished   \* the threads that have set their future

vars == <<prog, started, ip, finished>>

Init ==
    /\ started = {Root}
    /\ ip = [t \in Thread |-> 1]
    /\ finished = {}

Step(t) ==
    /\ t \in started \ finished
    /\ ip[t] <= Len(prog[t])
    /\ LET op == prog[t][ip[t]]
       IN  IF op.kind = "fork"
           THEN /\ op.child \notin started
                /\ started' = started \cup {op.child}
           ELSE /\ \A k \in 1 .. Len(op.futures) : op.futures[k] \in finished
                /\ UNCHANGED started
    /\ ip' = [ip EXCEPT ![t] = @ + 1]
    /\ UNCHANGED <<prog, finished>>

Finish(t) ==
    /\ t \in started \ finished
    /\ ip[t] > Len(prog[t])
    /\ finished' = finished \cup {t}
    /\ UNCHANGED <<prog, started, ip>>

\* Another root: what the last one started is finished.
Again ==
    /\ started \subseteq finished
    /\ Init'
    /\ UNCHANGED prog

Next == Again \/ \E t \in Thread : Step(t) \/ Finish(t)

Spec == Init /\ [][Next]_vars
============================================================================

-------------------------- MODULE MCItyrScheduler ---------------------------
(* Small instances of ItyrScheduler for TLC. *)
EXTENDS ItyrScheduler, TLC

CONSTANTS root, a, b, c

MCThread == {root, a, b, c}

ForkOf(t) == [kind |-> "fork", child |-> t]
WaitOn(list) == [kind |-> "wait", futures |-> list]
Program(ofRoot, ofA, ofB, ofC) ==
    (root :> ofRoot) @@ (a :> ofA) @@ (b :> ofB) @@ (c :> ofC)

MCPrograms ==
    { \* nested: the root and b wait for a, which waits for its own child
      Program(<<ForkOf(a), ForkOf(b), WaitOn(<<a, b>>)>>,
              <<ForkOf(c), WaitOn(<<c>>)>>, <<WaitOn(<<a>>)>>, <<>>),
      \* flat: two wait_alls over the same futures
      Program(<<ForkOf(a), ForkOf(b), ForkOf(c), WaitOn(<<a, b, c>>)>>,
              <<>>, <<>>, <<WaitOn(<<b, a>>)>>),
      \* nobody waits for a, which may outlive the root
      Program(<<ForkOf(a), ForkOf(b), WaitOn(<<b>>)>>,
              <<ForkOf(c), WaitOn(<<c>>)>>, <<>>, <<>>) }

\* Some of the programs wait for all they fork, as the theorems of
\* ItyrSchedulerProofs have it; the last does not, and is only checked here.
ASSUME SomeAreJoined == \E p, q \in MCPrograms : p # q /\ Joined(p) /\ Joined(q)
ASSUME OneIsNot == \E p \in MCPrograms : ~Joined(p)
============================================================================

------------------------------ MODULE WorkDeque ------------------------------
(* What a work-stealing queue promises: a double-ended queue on which each of *)
(* its operations is one step.  Its owner adds at either end and takes the    *)
(* youngest entry, a thief takes the oldest; an entry is taken once.          *)
EXTENDS Integers, Sequences

CONSTANTS Owner, Thief, Entry

VARIABLES
    deque,     \* oldest entry first
    taken      \* the entries each worker has taken

vars == <<deque, taken>>

Init ==
    /\ deque = <<>>
    /\ taken = [w \in {Owner} \cup Thief |-> {}]

Push == \E e \in Entry : deque' = Append(deque, e) /\ UNCHANGED taken

PushBottom == \E e \in Entry : deque' = <<e>> \o deque /\ UNCHANGED taken

Pop ==
    /\ deque # <<>>
    /\ deque' = SubSeq(deque, 1, Len(deque) - 1)
    /\ taken' = [taken EXCEPT ![Owner] = @ \cup {deque[Len(deque)]}]

Steal(w) ==
    /\ deque # <<>>
    /\ deque' = Tail(deque)
    /\ taken' = [taken EXCEPT ![w] = @ \cup {Head(deque)}]

Next == Push \/ PushBottom \/ Pop \/ \E w \in Thief : Steal(w)

Spec == Init /\ [][Next]_vars
============================================================================

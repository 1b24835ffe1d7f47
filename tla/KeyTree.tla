------------------------------ MODULE KeyTree ------------------------------
(* Morton keys and the nodes over them (src/charm/Node.h, and Key of           *)
(* src/ttg-parsec/src/key.h): a node is the range of keys below it, and        *)
(* refining it cuts the range into equal parts.  A level and a translation     *)
(* along each axis say the same as a range's size and its first key.           *)
EXTENDS Integers, FiniteSets

CONSTANTS
    BranchFactor,    \* BRANCH_FACTOR: 2, or 8 for an octree
    Depth            \* (TREE_KEY_BITS-1)/LOG_BRANCH_FACTOR: levels a key has

ASSUME KeyTreeAssumption ==
    /\ BranchFactor \in Nat /\ BranchFactor > 1
    /\ Depth \in Nat \ {0}

\* Keys below a node with so many levels below it: a key less its rank bits.
SizeAt[levels \in 0 .. Depth] ==
    IF levels = 0 THEN 1 ELSE BranchFactor * SizeAt[levels - 1]

KeySpace == SizeAt[Depth]
Key == 0 .. KeySpace - 1

\* A node: size keys from first; size says how deep the node is.
NodeSize == {SizeAt[levels] : levels \in 0 .. Depth}
Bin == {b \in [first : Key, size : NodeSize] : b.first % b.size = 0}
RootBin == [first |-> 0, size |-> KeySpace]

\* Node::refine, findSplitters and initChild.
Child(b, i) ==
    [first |-> b.first + i * (b.size \div BranchFactor),
     size |-> b.size \div BranchFactor]

\* All of them (KeyChildren).
ChildIndex == 0 .. BranchFactor - 1
Children(b) == {Child(b, i) : i \in ChildIndex}

\* Key::parent; nothing asks for the root's.
Parent(b) ==
    [first |-> b.first - (b.first % (b.size * BranchFactor)),
     size |-> b.size * BranchFactor]

\* Which child of its parent b is (Key::childindex).
Rank(b) == (b.first - Parent(b).first) \div b.size

Covers(b, k) == b.first <= k /\ k < b.first + b.size

\* b and the nodes above it, up to the root.
Path(b) == {[first |-> b.first - (b.first % s), size |-> s] : s \in {t \in NodeSize : t >= b.size}}

\* Disjoint bins in key order: the position of one, and the one at a position.
Position(bins, b) == Cardinality({c \in bins : c.first < b.first}) + 1
At(bins, i) == CHOOSE b \in bins : Position(bins, b) = i
============================================================================

-------------------------- MODULE ItyrWsQueueProofs --------------------------
(* The safety of the work-stealing queue for any number of thieves, any       *)
(* capacity and any number of entries.  Nothing the run checks is inductive   *)
(* as it stands: that the two ends of the queue cannot pass each other rests  *)
(* on the lock, on the indices workers have in hand, and on which of the two  *)
(* has been moved without having been compared yet.                           *)
EXTENDS ItyrWsQueue, FiniteSetTheorems, SequenceTheorems, TLAPS

Pushing == {"write", "publish", "lockToMove", "waitToMove", "move", "unlockMoved"}
PushingBottom == {"lockBottom", "waitBottom", "bottom"}
WithBase == {"compare", "retreat", "fetch"}

Types ==
    /\ top \in Int /\ base \in Int /\ t \in Int
    /\ entries \in [Slot -> Entry \cup {NoEntry}]
    /\ lock \in Int
    /\ localEmpty \in BOOLEAN
    /\ pc \in [Worker -> OwnerPc \cup ThiefPc]
    /\ pc[Owner] \in OwnerPc /\ \A w \in Thief : pc[w] \in ThiefPc
    /\ entry \in Entry \cup {NoEntry}
    /\ b \in [Thief -> Int]
    /\ got \in [Worker -> SUBSET Entry]
    /\ pushed \in 0 .. NumEntries
    /\ frames \subseteq 1 .. pushed

\* Who has the lock.  The owner that waits for it counts as well.
LockCount ==
    (IF Holders = {} THEN 0 ELSE 1) + (IF OwnerHolds \/ OwnerWaits THEN 1 ELSE 0)

LockOK ==
    /\ \A v, w \in Holders : v = w
    /\ OwnerHolds => Holders = {}
    /\ pc[Owner] # "full" => lock = LockCount
    /\ pc[Owner] = "full" => lock = 1 \/ lock = LockCount

\* The ends of the deque, and the indices in the hands of workers.
EndsOK ==
    /\ 0 <= Low /\ Low <= High /\ High <= Capacity
    /\ t \in -1 .. Capacity /\ b \in [Thief -> 0 .. Capacity]
    /\ \A w \in Thief : pc[w] \in WithBase => b[w] = base - 1
    /\ pc[Owner] \in Pushing \cup {"look", "restore", "decide"} => t = top
    /\ pc[Owner] \in {"lockPop", "waitPop", "slow"} => t = top - 1
    /\ pc[Owner] \in {"unlockMoved", "write", "publish"} => t < Capacity

\* What is in the deque, and what is about to be.
ContentsOK ==
    /\ \A i \in Low .. High - 1 : entries[i] \in 1 .. pushed
    /\ \A w \in Thief : pc[w] = "fetch" => entries[b[w]] \in 1 .. pushed
    /\ pc[Owner] \in Pushing => entry \in frames
    /\ pc[Owner] \in PushingBottom => entry \in 1 .. pushed /\ entry \notin frames
    /\ pc[Owner] = "publish" => entries[t] = entry

FramesAbove ==
    \A i, j \in Low .. High - 1 :
       i < j /\ entries[i] \in frames => entries[j] \in frames

EmptyOK == localEmpty => Low = High

IndInv == Types /\ LockOK /\ EndsOK /\ ContentsOK /\ FramesAbove /\ EmptyOK

----------------------------------------------------------------------------
(* Stretches of an array as sequences. *)

Window(e, lo, hi) == [i \in 1 .. hi - lo |-> e[lo + i - 1]]

\* The same entries, wherever they lie.
LEMMA WindowMoved ==
    ASSUME NEW e, NEW f, NEW lo \in Int, NEW hi \in Int, NEW d \in Int,
           \A i \in lo .. hi - 1 : f[i + d] = e[i]
    PROVE  Window(f, lo + d, hi + d) = Window(e, lo, hi)
<1>1. (hi + d) - (lo + d) = hi - lo
    OBVIOUS
<1>2. ASSUME NEW i \in 1 .. hi - lo PROVE f[(lo + d) + i - 1] = e[lo + i - 1]
  <2>1. lo + i - 1 \in lo .. hi - 1 /\ (lo + d) + i - 1 = (lo + i - 1) + d
      OBVIOUS
  <2> QED
      BY <2>1
<1> QED
    BY <1>1, <1>2 DEF Window

\* The entries between two indices are a sequence ...
LEMMA WindowInSeq ==
    ASSUME NEW S, NEW e, NEW lo \in Int, NEW hi \in Int, lo <= hi,
           \A i \in lo .. hi - 1 : e[i] \in S
    PROVE  Window(e, lo, hi) \in Seq(S)
<1>1. \A i \in 1 .. hi - lo : e[lo + i - 1] \in S
    OBVIOUS
<1>2. hi - lo \in Nat
    OBVIOUS
<1> QED
    BY <1>1, <1>2 DEF Window

\* ... of that length ...
LEMMA WindowLen ==
    ASSUME NEW e, NEW lo \in Int, NEW hi \in Int, lo <= hi
    PROVE  Len(Window(e, lo, hi)) = hi - lo
<1>1. hi - lo \in Nat
    OBVIOUS
<1> QED
    BY <1>1 DEF Window

\* ... with these elements.
LEMMA WindowAt ==
    ASSUME NEW e, NEW lo \in Int, NEW hi \in Int, NEW i \in 1 .. hi - lo
    PROVE  Window(e, lo, hi)[i] = e[lo + i - 1]
    BY DEF Window

\* No entries between an index and itself.
LEMMA WindowEmpty ==
    ASSUME NEW e, NEW lo \in Int, NEW hi \in Int, lo <= hi
    PROVE  Window(e, lo, hi) = <<>> <=> lo = hi
<1>1. Window(e, lo, hi) \in Seq({e[i] : i \in lo .. hi - 1})
  <2>1. \A i \in lo .. hi - 1 : e[i] \in {e[j] : j \in lo .. hi - 1}
      OBVIOUS
  <2> QED
      BY <2>1, WindowInSeq
<1> QED
    BY <1>1, WindowLen, EmptySeq

\* One more at the top.
LEMMA WindowAppend ==
    ASSUME NEW e, NEW lo \in Int, NEW hi \in Int, lo <= hi
    PROVE  Window(e, lo, hi + 1) = Append(Window(e, lo, hi), e[hi])
<1> DEFINE S == {e[i] : i \in lo .. hi}
           old == Window(e, lo, hi)
           new == Window(e, lo, hi + 1)
<1>1. e[hi] \in S /\ \A i \in lo .. hi : e[i] \in S
    OBVIOUS
<1> HIDE DEF S
<1>2. /\ old \in Seq(S) /\ Len(old) = hi - lo
      /\ \A i \in 1 .. hi - lo : old[i] = e[lo + i - 1]
  <2>1. \A i \in lo .. hi - 1 : e[i] \in S
      BY <1>1
  <2>2. Window(e, lo, hi) \in Seq(S)
      BY <2>1, WindowInSeq
  <2>3. Len(Window(e, lo, hi)) = hi - lo
      BY WindowLen
  <2> QED
      BY <2>2, <2>3, WindowAt
<1>3. /\ new \in Seq(S) /\ Len(new) = hi - lo + 1
      /\ \A i \in 1 .. hi - lo + 1 : new[i] = e[lo + i - 1]
  <2>1. \A i \in lo .. hi + 1 - 1 : e[i] \in S
      BY <1>1
  <2>2. hi + 1 \in Int /\ lo <= hi + 1 /\ hi + 1 - lo = hi - lo + 1
      OBVIOUS
  <2>3. Window(e, lo, hi + 1) \in Seq(S)
      BY <2>1, <2>2, WindowInSeq
  <2>4. Len(Window(e, lo, hi + 1)) = hi - lo + 1
      BY <2>2, WindowLen
  <2>5. \A i \in 1 .. hi + 1 - lo : Window(e, lo, hi + 1)[i] = e[lo + i - 1]
      BY <2>2, WindowAt
  <2> QED
      BY <2>2, <2>3, <2>4, <2>5
<1> HIDE DEF old, new
<1>4. /\ Append(old, e[hi]) \in Seq(S) /\ Len(Append(old, e[hi])) = Len(old) + 1
      /\ \A i \in 1 .. Len(old) : Append(old, e[hi])[i] = old[i]
      /\ Append(old, e[hi])[Len(old) + 1] = e[hi]
    BY <1>1, <1>2, AppendProperties
<1>5. ASSUME NEW i \in 1 .. hi - lo + 1 PROVE new[i] = Append(old, e[hi])[i]
  <2>1. CASE i = hi - lo + 1
    <3>1. lo + i - 1 = hi
        BY <2>1
    <3> QED
        BY <2>1, <3>1, <1>2, <1>3, <1>4
  <2>2. CASE i \in 1 .. hi - lo
      BY <2>2, <1>2, <1>3, <1>4
  <2>3. i = hi - lo + 1 \/ i \in 1 .. hi - lo
      OBVIOUS
  <2> QED
      BY <2>1, <2>2, <2>3
<1>6. new = Append(old, e[hi])
    BY <1>2, <1>3, <1>4, <1>5, SeqEqual
<1> QED
    BY <1>6 DEF old, new

\* One more at the bottom, the others d further up.
LEMMA WindowPrepend ==
    ASSUME NEW e, NEW f, NEW lo \in Int, NEW hi \in Int, lo <= hi,
           NEW d \in Int, NEW lo2 \in Int, NEW hi2 \in Int, lo2 = lo + d - 1, hi2 = hi + d,
           \A i \in lo .. hi - 1 : f[i + d] = e[i]
    PROVE  Window(f, lo2, hi2) = <<f[lo2]>> \o Window(e, lo, hi)
<1> DEFINE S == {e[i] : i \in lo .. hi - 1} \cup {f[lo2]}
           old == Window(e, lo, hi)
           new == Window(f, lo2, hi2)
<1>0. f[lo2] \in S /\ \A i \in lo .. hi - 1 : e[i] \in S /\ f[i + d] = e[i]
    OBVIOUS
<1> HIDE DEF S
<1>1. /\ old \in Seq(S) /\ Len(old) = hi - lo
      /\ \A i \in 1 .. hi - lo : old[i] = e[lo + i - 1]
  <2>1. \A i \in lo .. hi - 1 : e[i] \in S
      BY <1>0
  <2>2. Window(e, lo, hi) \in Seq(S)
      BY <2>1, WindowInSeq
  <2>3. Len(Window(e, lo, hi)) = hi - lo
      BY WindowLen
  <2> QED
      BY <2>2, <2>3, WindowAt
<1>2. ASSUME NEW i \in lo2 .. hi2 - 1 PROVE f[i] \in S
  <2>1. i = lo2 \/ (i - d \in lo .. hi - 1 /\ i = (i - d) + d)
      OBVIOUS
  <2> QED
      BY <2>1, <1>0
<1>3. /\ new \in Seq(S) /\ Len(new) = hi - lo + 1
      /\ \A i \in 1 .. hi - lo + 1 : new[i] = f[lo2 + i - 1]
  <2>1. lo2 <= hi2 /\ hi2 - lo2 = hi - lo + 1
      OBVIOUS
  <2>2. \A i \in lo2 .. hi2 - 1 : f[i] \in S
      BY <1>2
  <2>3. Window(f, lo2, hi2) \in Seq(S)
      BY <2>1, <2>2, WindowInSeq
  <2>4. Len(Window(f, lo2, hi2)) = hi2 - lo2
      BY <2>1, WindowLen
  <2>5. \A i \in 1 .. hi2 - lo2 :
           Window(f, lo2, hi2)[i] = f[lo2 + i - 1]
      BY <2>1, WindowAt
  <2> QED
      BY <2>1, <2>3, <2>4, <2>5
<1>4. /\ <<f[lo2]>> \o old \in Seq(S) /\ Len(<<f[lo2]>> \o old) = hi - lo + 1
      /\ \A i \in 1 .. hi - lo + 1 :
            (<<f[lo2]>> \o old)[i] = IF i <= 1 THEN f[lo2] ELSE old[i - 1]
  <2>1. <<f[lo2]>> \in Seq(S) /\ Len(<<f[lo2]>>) = 1 /\ <<f[lo2]>>[1] = f[lo2]
      BY <1>0
  <2> HIDE DEF old
  <2>2. /\ <<f[lo2]>> \o old \in Seq(S) /\ Len(<<f[lo2]>> \o old) = Len(<<f[lo2]>>) + Len(old)
        /\ \A i \in 1 .. Len(<<f[lo2]>>) + Len(old) :
              (<<f[lo2]>> \o old)[i] = IF i <= Len(<<f[lo2]>>) THEN <<f[lo2]>>[i]
                                     ELSE old[i - Len(<<f[lo2]>>)]
      BY ZenonT(30), <1>1, <2>1, ConcatProperties
  <2>3. ASSUME NEW i \in 1 .. hi - lo + 1
        PROVE  (<<f[lo2]>> \o old)[i] = IF i <= 1 THEN f[lo2] ELSE old[i - 1]
    <3>1. i \in 1 .. Len(<<f[lo2]>>) + Len(old) /\ (i <= 1 => i = 1)
        BY <1>1, <2>1
    <3> QED
        BY <3>1, <2>1, <2>2
  <2> QED
      BY <1>1, <2>1, <2>2, <2>3
<1> HIDE DEF old, new
<1>5. ASSUME NEW i \in 1 .. hi - lo + 1 PROVE new[i] = (<<f[lo2]>> \o old)[i]
  <2>1. CASE i = 1
    <3>1. lo2 + i - 1 = lo2
        BY <2>1
    <3> QED
        BY <2>1, <3>1, <1>3, <1>4
  <2>2. CASE i \in 2 .. hi - lo + 1
    <3>1. /\ i - 1 \in 1 .. hi - lo /\ ~(i <= 1)
          /\ lo + (i - 1) - 1 \in lo .. hi - 1
          /\ lo2 + i - 1 = (lo + (i - 1) - 1) + d
        BY <2>2
    <3>2. new[i] = e[lo + (i - 1) - 1]
        BY <3>1, <1>0, <1>3
    <3>3. old[i - 1] = e[lo + (i - 1) - 1]
        BY <3>1, <1>1
    <3> QED
        BY <3>1, <3>2, <3>3, <1>4
  <2>3. i = 1 \/ i \in 2 .. hi - lo + 1
      OBVIOUS
  <2> QED
      BY <2>1, <2>2, <2>3
<1>6. new = <<f[lo2]>> \o old
  <2>1. Len(new) = Len(<<f[lo2]>> \o old)
      BY <1>3, <1>4
  <2>2. \A i \in 1 .. Len(new) : new[i] = (<<f[lo2]>> \o old)[i]
      BY <1>3, <1>5
  <2> QED
      BY <1>3, <1>4, <2>1, <2>2, SeqEqual
<1> QED
    BY <1>6 DEF old, new

\* One less at the top.
LEMMA WindowPop ==
    ASSUME NEW e, NEW lo \in Int, NEW hi \in Int, lo < hi
    PROVE  /\ Window(e, lo, hi - 1) = SubSeq(Window(e, lo, hi), 1, Len(Window(e, lo, hi)) - 1)
           /\ Window(e, lo, hi)[Len(Window(e, lo, hi))] = e[hi - 1]
           /\ Window(e, lo, hi) # <<>>
<1> DEFINE S == {e[i] : i \in lo .. hi - 1}
<1>0. \A i \in lo .. hi - 1 : e[i] \in S
    OBVIOUS
<1> HIDE DEF S
<1>1. /\ Window(e, lo, hi) \in Seq(S) /\ Len(Window(e, lo, hi)) = hi - lo
      /\ \A i \in 1 .. hi - lo : Window(e, lo, hi)[i] = e[lo + i - 1]
      /\ Window(e, lo, hi) # <<>>
  <2>1. Window(e, lo, hi) \in Seq(S)
      BY <1>0, WindowInSeq
  <2>2. Len(Window(e, lo, hi)) = hi - lo
      BY WindowLen
  <2>3. Window(e, lo, hi) # <<>>
      BY WindowEmpty
  <2> QED
      BY <2>1, <2>2, <2>3, WindowAt
<1>2. Window(e, lo, hi - 1) = SubSeq(Window(e, lo, hi), 1, Len(Window(e, lo, hi)) - 1)
    BY <1>1 DEF Window
<1>3. Window(e, lo, hi)[hi - lo] = e[hi - 1]
    BY <1>1
<1> QED
    BY <1>1, <1>2, <1>3

\* One less at the bottom.
LEMMA WindowSteal ==
    ASSUME NEW e, NEW lo \in Int, NEW hi \in Int, lo < hi
    PROVE  /\ Window(e, lo + 1, hi) = Tail(Window(e, lo, hi))
           /\ Head(Window(e, lo, hi)) = e[lo]
           /\ Window(e, lo, hi) # <<>>
<1> DEFINE S == {e[i] : i \in lo .. hi - 1}
<1>0. \A i \in lo .. hi - 1 : e[i] \in S
    OBVIOUS
<1> HIDE DEF S
<1>1. /\ Window(e, lo, hi) \in Seq(S) /\ Len(Window(e, lo, hi)) = hi - lo
      /\ \A i \in 1 .. hi - lo : Window(e, lo, hi)[i] = e[lo + i - 1]
      /\ Window(e, lo, hi) # <<>>
  <2>1. Window(e, lo, hi) \in Seq(S)
      BY <1>0, WindowInSeq
  <2>2. Len(Window(e, lo, hi)) = hi - lo
      BY WindowLen
  <2>3. Window(e, lo, hi) # <<>>
      BY WindowEmpty
  <2> QED
      BY <2>1, <2>2, <2>3, WindowAt
<1>2. Window(e, lo + 1, hi) = Tail(Window(e, lo, hi))
  <2> DEFINE old == Window(e, lo, hi)
             new == Window(e, lo + 1, hi)
  <2>1. /\ Tail(old) \in Seq(S) /\ Len(Tail(old)) = hi - lo - 1
        /\ \A i \in 1 .. hi - lo - 1 : Tail(old)[i] = old[i + 1]
    <3>1. old \in Seq(S) /\ old # <<>> /\ Len(old) = hi - lo
        BY <1>1
    <3> HIDE DEF old
    <3> QED
        BY <3>1, HeadTailProperties
  <2>2. /\ new \in Seq(S) /\ Len(new) = hi - lo - 1
        /\ \A i \in 1 .. hi - lo - 1 : new[i] = e[(lo + 1) + i - 1]
    <3>1. /\ lo + 1 \in Int /\ lo + 1 <= hi /\ hi - (lo + 1) = hi - lo - 1
          /\ \A i \in lo + 1 .. hi - 1 : e[i] \in S
        BY <1>0
    <3>2. new \in Seq(S)
        BY <3>1, WindowInSeq
    <3>3. Len(new) = hi - (lo + 1)
        BY <3>1, WindowLen
    <3>4. \A i \in 1 .. hi - (lo + 1) : new[i] = e[(lo + 1) + i - 1]
        BY <3>1, WindowAt
    <3> QED
        BY <3>1, <3>2, <3>3, <3>4
  <2>3. ASSUME NEW i \in 1 .. hi - lo - 1 PROVE new[i] = Tail(old)[i]
    <3>1. i + 1 \in 1 .. hi - lo /\ lo + (i + 1) - 1 = (lo + 1) + i - 1
        OBVIOUS
    <3>2. old[i + 1] = e[lo + (i + 1) - 1]
        BY <1>1, <3>1
    <3> HIDE DEF old, new
    <3> QED
        BY <3>1, <3>2, <2>1, <2>2
  <2> HIDE DEF old, new
  <2>4. new = Tail(old)
      BY <2>1, <2>2, <2>3, SeqEqual
  <2> QED
      BY <2>4 DEF old, new
<1>3. Head(Window(e, lo, hi)) = e[lo]
    BY <1>1
<1> QED
    BY <1>1, <1>2, <1>3

USE ConstantsAssumption DEF Entry, NoEntry, Slot, Worker

----------------------------------------------------------------------------
(* Lemmas. *)

\* A step of the owner leaves the thieves where they are.
LEMMA OwnerMoves ==
    ASSUME Types, NEW label, Goto(Owner, label)
    PROVE  /\ pc'[Owner] = label
           /\ \A w \in Thief : pc'[w] = pc[w]
           /\ Holders' = Holders
           /\ Tentative' = Tentative
<1>1. pc'[Owner] = label /\ \A w \in Thief : pc'[w] = pc[w]
    BY DEF Types, Goto
<1>2. Holders' = Holders /\ Tentative' = Tentative
    BY <1>1 DEF Holders, Tentative
<1> QED
    BY <1>1, <1>2

\* A step of a thief leaves the owner and the other thieves where they are.
LEMMA ThiefMoves ==
    ASSUME Types, NEW w \in Thief, NEW label, Goto(w, label)
    PROVE  /\ pc'[w] = label
           /\ pc'[Owner] = pc[Owner]
           /\ \A v \in Thief \ {w} : pc'[v] = pc[v]
    BY DEF Types, Goto

\* Who moves an end of the queue has it to himself.
LEMMA Alone ==
    ASSUME Types, LockOK, NEW w \in Holders
    PROVE  ~OwnerHolds /\ \A v \in Thief \ {w} : pc[v] \in {"idle", "copy"}
    BY DEF Types, LockOK, Holders

\* While the owner has the lock no thief is inside.
LEMMA OwnerAlone ==
    ASSUME Types, LockOK, OwnerHolds
    PROVE  /\ ~Tentative
           /\ \A w \in Thief : pc[w] \in {"idle", "copy"}
    BY DEF Types, LockOK, Tentative, Holders, ThiefPc

\* What has been taken changes only when a thief has compared or the owner has
\* an entry.
LEMMA SameTaken ==
    ASSUME got' = got,
           \A w \in Thief :
              /\ pc'[w] = "fetch" <=> pc[w] = "fetch"
              /\ pc[w] = "fetch" => b'[w] = b[w] /\ entries'[b[w]] = entries[b[w]]
    PROVE  Taken' = Taken
<1>1. \A w \in Worker :
         (IF w \in Thief /\ pc'[w] = "fetch" THEN got'[w] \cup {entries'[b'[w]]} ELSE got'[w])
         = (IF w \in Thief /\ pc[w] = "fetch" THEN got[w] \cup {entries[b[w]]} ELSE got[w])
    OBVIOUS
<1> QED
    BY <1>1 DEF Taken

\* What the deque depends on.
LEMMA SameDeque ==
    ASSUME Low' = Low, High' = High, Low \in Int, High \in Int,
           \A i \in Low .. High - 1 : entries'[i] = entries[i]
    PROVE  Deque' = Deque
<1>1. \A i \in 1 .. High - Low : Low + i - 1 \in Low .. High - 1
    OBVIOUS
<1> QED
    BY <1>1 DEF Deque

\* Nothing that shows has happened.
LEMMA Quiet ==
    ASSUME IndInv, Low' = Low, High' = High, UNCHANGED <<entries, got>>,
           \A w \in Thief : /\ pc'[w] = "fetch" <=> pc[w] = "fetch"
                            /\ pc[w] = "fetch" => b'[w] = b[w]
    PROVE  UNCHANGED <<Deque, Taken>>
<1>1. Low \in Int /\ High \in Int
    BY DEF IndInv, Types, Low, High
<1> QED
    BY <1>1, SameDeque, SameTaken

----------------------------------------------------------------------------
(* Each action keeps IndInv and is an action on the deque, or none.  The      *)
(* owner's:                                                                   *)

\* push: top is read and compared with the capacity.
LEMMA PushBeginKeeps == IndInv /\ PushBegin => IndInv' /\ UNCHANGED <<Deque, Taken>>
<1> SUFFICES ASSUME IndInv, PushBegin PROVE IndInv' /\ UNCHANGED <<Deque, Taken>>
    OBVIOUS
<1>1. PICK label : /\ label \in {"lockToMove", "write"}
                   /\ label = "write" <=> top # Capacity
                   /\ Goto(Owner, label)
    BY DEF PushBegin
<1>2. /\ pc'[Owner] = label
      /\ \A w \in Thief : pc'[w] = pc[w]
      /\ Holders' = Holders
      /\ Tentative' = Tentative
    BY <1>1, OwnerMoves DEF IndInv
<1>3. Low' = Low /\ High' = High /\ top \in 0 .. Capacity
    BY <1>1, <1>2 DEF IndInv, Types, EndsOK, PushBegin, At, Low, High, queue
<1>4. Types'
    BY <1>1, <1>2 DEF IndInv, Types, PushBegin, At, queue, Goto, OwnerPc
<1>5. LockOK'
    BY <1>1, <1>2 DEF IndInv, LockOK, LockCount, OwnerHolds, OwnerWaits, PushBegin, At
<1>6. EndsOK'
    BY <1>1, <1>2, <1>3 DEF IndInv, Types, EndsOK, Pushing, WithBase, PushBegin, queue
<1>7. ContentsOK'
    BY <1>1, <1>2, <1>3 DEF IndInv, Types, EndsOK, ContentsOK, Pushing, PushingBottom, PushBegin, queue
<1>8. FramesAbove'
    BY <1>1, <1>2, <1>3 DEF IndInv, Types, EndsOK, ContentsOK, FramesAbove, PushBegin, queue
<1>9. EmptyOK'
    BY <1>1, <1>2, <1>3 DEF IndInv, EmptyOK, PushBegin, queue
<1>10. UNCHANGED <<Deque, Taken>>
    BY <1>2, <1>3, Quiet DEF PushBegin, queue
<1> QED
    BY <1>4, <1>5, <1>6, <1>7, <1>8, <1>9, <1>10 DEF IndInv

\* The owner takes the lock, or announces itself and waits.
OwnerLocks == PushLock \/ PushBottomLock \/ PopLock

\* The owner gets the lock.
LEMMA OwnerLocksKeeps == IndInv /\ OwnerLocks => IndInv' /\ UNCHANGED <<Deque, Taken>>
<1> SUFFICES ASSUME IndInv, OwnerLocks PROVE IndInv' /\ UNCHANGED <<Deque, Taken>>
    OBVIOUS
<1>1. UNCHANGED <<queue, ownerVars, b, got>>
    BY DEF OwnerLocks, PushLock, PushBottomLock, PopLock
<1>2. PICK ask, waiting, holding :
         /\ <<ask, waiting, holding>> \in {<<"lockToMove", "waitToMove", "move">>,
                                         <<"lockBottom", "waitBottom", "bottom">>,
                                         <<"lockPop", "waitPop", "slow">>}
         /\ \/ At(Owner, ask) /\ PrioLock(waiting, holding)
            \/ At(Owner, waiting) /\ PrioLocked(holding)
    BY DEF OwnerLocks, PushLock, PushBottomLock, PopLock
<1>3. PICK label :
         /\ Goto(Owner, label)
         /\ label \in {waiting, holding}
         /\ \/ /\ pc[Owner] = ask /\ lock' = lock + 1
               /\ label = holding <=> lock = 0
            \/ /\ pc[Owner] = waiting /\ lock' = lock /\ lock = 1
               /\ label = holding
    BY <1>2 DEF PrioLock, PrioLocked, At
<1>4. /\ pc'[Owner] = label
      /\ \A w \in Thief : pc'[w] = pc[w]
      /\ Holders' = Holders
      /\ Tentative' = Tentative
    BY <1>3, OwnerMoves DEF IndInv
<1>5. Low' = Low /\ High' = High
    BY <1>1, <1>2, <1>3, <1>4 DEF Low, High, queue
<1>6. Types'
    BY <1>1, <1>2, <1>3, <1>4 DEF IndInv, Types, queue, ownerVars, Goto, OwnerPc
<1>7. LockOK'
    BY <1>2, <1>3, <1>4 DEF IndInv, Types, LockOK, LockCount, OwnerHolds, OwnerWaits
<1>8. EndsOK'
    BY <1>1, <1>2, <1>3, <1>4, <1>5 DEF IndInv, EndsOK, Pushing, WithBase, queue, ownerVars
<1>9. ContentsOK'
    BY <1>1, <1>2, <1>3, <1>4, <1>5 DEF IndInv, ContentsOK, Pushing, PushingBottom, queue, ownerVars
<1>10. FramesAbove' /\ EmptyOK'
    BY <1>1, <1>5 DEF IndInv, FramesAbove, EmptyOK, queue, ownerVars
<1>11. UNCHANGED <<Deque, Taken>>
    BY <1>1, <1>4, <1>5, Quiet DEF queue
<1> QED
    BY <1>6, <1>7, <1>8, <1>9, <1>10, <1>11 DEF IndInv

\* ... and gives it back.
OwnerUnlocks == PushUnlock \/ OwnerUnlock

\* The owner releases the lock.
LEMMA OwnerUnlocksKeeps == IndInv /\ OwnerUnlocks => IndInv' /\ UNCHANGED <<Deque, Taken>>
<1> SUFFICES ASSUME IndInv, OwnerUnlocks PROVE IndInv' /\ UNCHANGED <<Deque, Taken>>
    OBVIOUS
<1>1. UNCHANGED <<queue, ownerVars, b, got>> /\ lock' = lock - 1
    BY DEF OwnerUnlocks, PushUnlock, OwnerUnlock, Unlock
<1>2. PICK label \in {"write", "idle"} :
         /\ Goto(Owner, label)
         /\ pc[Owner] = IF label = "write" THEN "unlockMoved" ELSE "unlock"
    BY DEF OwnerUnlocks, PushUnlock, OwnerUnlock, At
<1>3. /\ pc'[Owner] = label
      /\ \A w \in Thief : pc'[w] = pc[w]
      /\ Holders' = Holders
      /\ Tentative' = Tentative
    BY <1>2, OwnerMoves DEF IndInv
<1>4. Low' = Low /\ High' = High
    BY <1>1, <1>2, <1>3 DEF Low, High, queue
<1>5. Types'
    BY <1>1, <1>2, <1>3 DEF IndInv, Types, queue, ownerVars, Goto, OwnerPc
<1>6. LockOK'
    BY <1>1, <1>2, <1>3 DEF IndInv, Types, LockOK, LockCount, OwnerHolds, OwnerWaits
<1>7. EndsOK'
    BY <1>1, <1>2, <1>3, <1>4 DEF IndInv, EndsOK, Pushing, WithBase, queue, ownerVars
<1>8. ContentsOK'
    BY <1>1, <1>2, <1>3, <1>4 DEF IndInv, ContentsOK, Pushing, PushingBottom, queue, ownerVars
<1>9. FramesAbove' /\ EmptyOK'
    BY <1>1, <1>4 DEF IndInv, FramesAbove, EmptyOK, queue, ownerVars
<1>10. UNCHANGED <<Deque, Taken>>
    BY <1>1, <1>3, <1>4, Quiet DEF queue
<1> QED
    BY <1>5, <1>6, <1>7, <1>8, <1>9, <1>10 DEF IndInv

\* By how much a full queue is moved down, if at all.
LEMMA Moves ==
    ASSUME base \in Nat
    PROVE  Offset \in Int /\ -base <= Offset /\ Offset <= 0
<1>1. PICK k \in Nat : (base + 1) \div 2 = k /\ k <= base
    OBVIOUS
<1> QED
    BY <1>1 DEF Offset

\* push on a full queue: the entries are moved down, or there is no room.
LEMMA PushMoveKeeps == IndInv /\ PushMove => IndInv' /\ UNCHANGED <<Deque, Taken>>
<1> SUFFICES ASSUME IndInv, PushMove PROVE IndInv' /\ UNCHANGED <<Deque, Taken>>
    OBVIOUS
<1>1. /\ ~Tentative /\ OwnerHolds /\ Low = base /\ High = top
      /\ base \in Nat /\ top \in Nat /\ top <= Capacity
    BY OwnerAlone DEF IndInv, Types, EndsOK, PushMove, At, OwnerHolds, Low, High
<1>2. CASE Offset = 0
  <2>1. Goto(Owner, "full") /\ UNCHANGED <<queue, t, lock, entry, pushed, frames, b, got>>
      BY <1>2, <1>1 DEF PushMove
  <2>2. /\ pc'[Owner] = "full"
        /\ \A w \in Thief : pc'[w] = pc[w]
        /\ Holders' = Holders
        /\ Tentative' = Tentative
      BY <2>1, OwnerMoves DEF IndInv
  <2>3. Low' = Low /\ High' = High
      BY <1>1, <2>1, <2>2 DEF Low, High, queue
  <2>4. Types'
      BY <2>1, <2>2 DEF IndInv, Types, queue, Goto, OwnerPc
  <2>5. LockOK'
      BY <1>1, <2>1, <2>2 DEF IndInv, LockOK, LockCount, OwnerHolds, OwnerWaits
  <2>6. EndsOK'
      BY <2>1, <2>2, <2>3 DEF IndInv, EndsOK, Pushing, WithBase, queue
  <2>7. ContentsOK'
      BY <2>1, <2>2, <2>3 DEF IndInv, ContentsOK, Pushing, PushingBottom, queue
  <2>8. FramesAbove' /\ EmptyOK'
      BY <2>1, <2>3 DEF IndInv, FramesAbove, EmptyOK, queue
  <2>9. UNCHANGED <<Deque, Taken>>
      BY <2>1, <2>2, <2>3, Quiet DEF queue
  <2> QED
      BY <2>4, <2>5, <2>6, <2>7, <2>8, <2>9 DEF IndInv
<1>3. CASE Offset < 0
  <2>1. /\ Goto(Owner, "unlockMoved")
        /\ top' = top + Offset /\ base' = base + Offset /\ t' = t + Offset
        /\ UNCHANGED <<localEmpty, lock, entry, pushed, frames, b, got>>
      BY <1>3, <1>1, Moves DEF PushMove
  <2>2. entries' = [i \in Slot |-> IF i \in base + Offset .. top + Offset - 1
                                   THEN entries[i - Offset] ELSE entries[i]]
      BY <1>3, <1>1, Moves DEF PushMove
  <2>3. /\ pc'[Owner] = "unlockMoved"
        /\ \A w \in Thief : pc'[w] = pc[w]
        /\ Holders' = Holders
        /\ Tentative' = Tentative
      BY <2>1, OwnerMoves DEF IndInv
  <2>4. Low' = base + Offset /\ High' = top + Offset
      BY <1>1, <2>1, <2>3 DEF Low, High
  <2>5. Offset \in Int /\ 0 <= base + Offset
      BY <1>1, Moves
  <2>6. \A i \in Low' .. High' - 1 :
           i - Offset \in Low .. High - 1 /\ entries'[i] = entries[i - Offset]
      BY <1>1, <2>2, <2>4, <2>5, <1>3
  <2>7. Types'
    <3>1. entries' \in [Slot -> Entry \cup {NoEntry}]
      <4>1. \A i \in base + Offset .. top + Offset - 1 : i - Offset \in Slot
          BY <1>1, <2>5
      <4> QED
          BY <2>2, <4>1 DEF IndInv, Types
    <3> QED
        BY <3>1, <2>1, <2>3, <2>5 DEF IndInv, Types, Goto, OwnerPc
  <2>8. LockOK'
      BY <2>1, <2>3 DEF IndInv, LockOK, LockCount, OwnerHolds, OwnerWaits, PushMove, At
  <2>9. EndsOK'
    <3>1. \A w \in Thief : pc[w] \notin WithBase
        BY <1>1, OwnerAlone DEF IndInv, WithBase
    <3> QED
        BY <1>1, <1>3, <2>1, <2>3, <2>4, <2>5, <3>1 DEF IndInv, Types, EndsOK, Pushing, PushMove, At
  <2>10. ContentsOK'
    <3>1. \A w \in Thief : pc'[w] # "fetch"
        BY <1>1, <2>3, OwnerAlone DEF IndInv
    <3> QED
        BY <2>1, <2>3, <2>6, <3>1 DEF IndInv, ContentsOK, Pushing, PushingBottom, PushMove, At
  <2>11. FramesAbove'
    <3> SUFFICES ASSUME NEW i \in Low' .. High' - 1, NEW j \in Low' .. High' - 1,
                        i < j, entries'[i] \in frames
                 PROVE  entries'[j] \in frames
        BY <2>1 DEF FramesAbove
    <3>1. i - Offset < j - Offset
        BY <2>5, <2>4, <1>1
    <3> QED
        BY <2>6, <3>1 DEF IndInv, FramesAbove
  <2>12. EmptyOK'
      BY <1>1, <2>1, <2>4, <2>5 DEF IndInv, EmptyOK
  <2>13. Deque' = Deque
    <3>1. /\ Low \in Int /\ High \in Int /\ Low' = Low + Offset /\ High' = High + Offset
          /\ \A i \in Low .. High - 1 : entries'[i + Offset] = entries[i]
      <4>1. Low \in Int /\ High \in Int /\ Low' = Low + Offset /\ High' = High + Offset
          BY <1>1, <2>4
      <4>2. ASSUME NEW i \in Low .. High - 1 PROVE entries'[i + Offset] = entries[i]
        <5>1. i + Offset \in Low' .. High' - 1 /\ (i + Offset) - Offset = i
            BY <4>1, <2>5
        <5> QED
            BY <5>1, <2>6
      <4> QED
          BY <4>1, <4>2
    <3>2. Window(entries', Low + Offset, High + Offset) = Window(entries, Low, High)
        BY <3>1, <2>5, WindowMoved
    <3> QED
        BY <3>1, <3>2 DEF Deque, Window
  <2>14. Taken' = Taken
    <3>1. \A w \in Thief : pc[w] # "fetch" /\ pc'[w] # "fetch"
        BY <1>1, <2>3, OwnerAlone DEF IndInv
    <3> QED
        BY <2>1, <3>1, SameTaken
  <2> QED
      BY <2>7, <2>8, <2>9, <2>10, <2>11, <2>12, <2>13, <2>14 DEF IndInv
<1> QED
    BY <1>2, <1>3, <1>1 DEF PushMove

\* push: the entry is written where nobody looks yet ...
LEMMA PushWriteKeeps == IndInv /\ PushWrite => IndInv' /\ UNCHANGED <<Deque, Taken>>
<1> SUFFICES ASSUME IndInv, PushWrite PROVE IndInv' /\ UNCHANGED <<Deque, Taken>>
    OBVIOUS
<1>1. /\ pc'[Owner] = "publish" /\ pc[Owner] = "write"
      /\ \A w \in Thief : pc'[w] = pc[w]
      /\ Holders' = Holders
      /\ Tentative' = Tentative
    BY OwnerMoves DEF IndInv, PushWrite, At
<1>2. Low' = Low /\ High' = High /\ High = top /\ t = top /\ t \in Slot
    BY <1>1 DEF IndInv, Types, EndsOK, Pushing, PushWrite, Low, High
<1>3. entries'[t] = entry /\ \A i \in Slot : i # t => entries'[i] = entries[i]
    BY <1>2 DEF IndInv, Types, PushWrite
<1>4. Low \in Nat /\ High \in Nat /\ \A i \in Low .. High - 1 : i \in Slot /\ i # t
    BY <1>2 DEF IndInv, EndsOK, Types, Low
<1>5. \A w \in Thief : pc[w] = "fetch" => b[w] \in Slot /\ b[w] # t
  <2> SUFFICES ASSUME NEW w \in Thief, pc[w] = "fetch" PROVE b[w] \in Slot /\ b[w] # t
      OBVIOUS
  <2>1. ~Tentative
      BY Alone DEF IndInv, Holders, ThiefPc, Tentative
  <2>2. b[w] = base - 1 /\ 0 <= b[w]
      BY DEF IndInv, EndsOK, WithBase
  <2>3. Low = base
      BY <2>1 DEF Low
  <2> QED
      BY <2>2, <2>3, <1>2 DEF IndInv, Types, EndsOK
<1>6. Types'
    BY <1>1, <1>2 DEF IndInv, Types, PushWrite, ownerVars, Goto, OwnerPc
<1>7. LockOK'
    BY <1>1 DEF IndInv, LockOK, LockCount, OwnerHolds, OwnerWaits, PushWrite
<1>8. EndsOK'
    BY <1>1, <1>2 DEF IndInv, EndsOK, Pushing, WithBase, PushWrite, ownerVars
<1>9. ContentsOK'
    BY <1>1, <1>2, <1>3, <1>4, <1>5 DEF IndInv, ContentsOK, Pushing, PushingBottom, PushWrite, ownerVars
<1>10. FramesAbove' /\ EmptyOK'
    BY <1>2, <1>3, <1>4 DEF IndInv, FramesAbove, EmptyOK, PushWrite, ownerVars
<1>11. UNCHANGED <<Deque, Taken>>
    BY <1>1, <1>2, <1>3, <1>4, <1>5, SameDeque, SameTaken DEF PushWrite
<1> QED
    BY <1>6, <1>7, <1>8, <1>9, <1>10, <1>11 DEF IndInv

\* ... and top published.
LEMMA PushPublishKeeps == IndInv /\ PushPublish => IndInv' /\ D!Push
<1> SUFFICES ASSUME IndInv, PushPublish PROVE IndInv' /\ D!Push
    OBVIOUS
<1>1. /\ pc'[Owner] = "idle" /\ pc[Owner] = "publish"
      /\ \A w \in Thief : pc'[w] = pc[w]
      /\ Holders' = Holders
      /\ Tentative' = Tentative
    BY OwnerMoves DEF IndInv, PushPublish, At
<1>2. /\ Low' = Low /\ High' = High + 1 /\ High = top /\ t = top
      /\ Low \in Int /\ top \in Int
    BY <1>1 DEF IndInv, Types, EndsOK, Pushing, PushPublish, Low, High
<1>3. entries[High] = entry /\ entry \in frames /\ frames \subseteq 1 .. pushed
    BY <1>1, <1>2 DEF IndInv, Types, ContentsOK, Pushing
<1>4. Types'
  <2>1. localEmpty' \in BOOLEAN
      BY DEF PushPublish
  <2> QED
      BY <2>1, <1>1, <1>2 DEF IndInv, Types, PushPublish, ownerVars, Goto, OwnerPc
<1>5. LockOK'
    BY <1>1 DEF IndInv, LockOK, LockCount, OwnerHolds, OwnerWaits, PushPublish
<1>6. EndsOK'
    BY <1>1, <1>2 DEF IndInv, EndsOK, Pushing, WithBase, PushPublish, ownerVars
<1>7. ContentsOK'
    BY <1>1, <1>2, <1>3 DEF IndInv, ContentsOK, Pushing, PushingBottom, PushPublish, ownerVars
<1>8. FramesAbove' /\ EmptyOK'
    BY <1>2, <1>3 DEF IndInv, FramesAbove, EmptyOK, PushPublish, ownerVars
<1>9. D!Push
  <2>1. Deque' = Append(Deque, entry)
    <3>1. Low \in Int /\ High \in Int /\ Low <= High
        BY <1>2 DEF IndInv, EndsOK
    <3>2. Window(entries, Low, High + 1) = Append(Window(entries, Low, High), entries[High])
        BY <3>1, WindowAppend
    <3> QED
        BY <1>2, <1>3, <3>2 DEF Deque, Window, PushPublish
  <2>2. Taken' = Taken
      BY <1>1, SameTaken DEF PushPublish, ownerVars
  <2>3. entry \in Entry
      BY <1>3 DEF IndInv, Types
  <2> QED
      BY <2>1, <2>2, <2>3 DEF D!Push
<1> QED
    BY <1>4, <1>5, <1>6, <1>7, <1>8, <1>9 DEF IndInv

\* push_bottom asks for the lock.
LEMMA PushBottomBeginKeeps == IndInv /\ PushBottomBegin => IndInv' /\ UNCHANGED <<Deque, Taken>>
<1> SUFFICES ASSUME IndInv, PushBottomBegin PROVE IndInv' /\ UNCHANGED <<Deque, Taken>>
    OBVIOUS
<1>1. /\ pc'[Owner] = "lockBottom" /\ pc[Owner] = "idle"
      /\ \A w \in Thief : pc'[w] = pc[w]
      /\ Holders' = Holders
      /\ Tentative' = Tentative
    BY OwnerMoves DEF IndInv, PushBottomBegin, At
<1>2. Low' = Low /\ High' = High
    BY <1>1 DEF PushBottomBegin, Low, High, queue
<1>3. Types'
    BY <1>1 DEF IndInv, Types, PushBottomBegin, queue, Goto, OwnerPc
<1>4. LockOK'
    BY <1>1 DEF IndInv, LockOK, LockCount, OwnerHolds, OwnerWaits, PushBottomBegin
<1>5. EndsOK'
    BY <1>1, <1>2 DEF IndInv, EndsOK, Pushing, WithBase, PushBottomBegin, queue
<1>6. ContentsOK'
    BY <1>1, <1>2 DEF IndInv, Types, ContentsOK, Pushing, PushingBottom, PushBottomBegin, queue
<1>7. FramesAbove' /\ EmptyOK'
    BY <1>2 DEF IndInv, FramesAbove, EmptyOK, PushBottomBegin, queue
<1>8. UNCHANGED <<Deque, Taken>>
    BY <1>1, <1>2, Quiet DEF PushBottomBegin, queue
<1> QED
    BY <1>3, <1>4, <1>5, <1>6, <1>7, <1>8 DEF IndInv

\* push_bottom: the entry goes below the oldest.
LEMMA PushBottomKeeps == IndInv /\ PushBottom => IndInv' /\ [D!PushBottom]_<<Deque, Taken>>
<1> SUFFICES ASSUME IndInv, PushBottom PROVE IndInv' /\ [D!PushBottom]_<<Deque, Taken>>
    OBVIOUS
<1>1. /\ ~Tentative /\ OwnerHolds /\ Low = base /\ High = top /\ pc[Owner] = "bottom"
      /\ base \in Nat /\ top \in Nat /\ base <= top /\ top <= Capacity
    BY OwnerAlone DEF IndInv, Types, EndsOK, PushBottom, At, OwnerHolds, Low, High
<1>2. \A w \in Thief : pc[w] \in {"idle", "copy"}
    BY <1>1, OwnerAlone DEF IndInv
<1>3. entry \in 1 .. pushed /\ entry \notin frames /\ UNCHANGED <<ownerVars, b, got>>
    BY <1>1 DEF IndInv, ContentsOK, PushingBottom, PushBottom
<1>4. CASE base = 0 /\ top = Capacity
  <2>1. /\ lock' = lock - 1 /\ Goto(Owner, "full") /\ UNCHANGED queue
      BY <1>1, <1>4 DEF PushBottom, Unlock
  <2>2. /\ pc'[Owner] = "full"
        /\ \A w \in Thief : pc'[w] = pc[w]
        /\ Holders' = Holders
        /\ Tentative' = Tentative
      BY <2>1, OwnerMoves DEF IndInv
  <2>3. Low' = Low /\ High' = High
      BY <1>1, <2>1, <2>2 DEF Low, High, queue
  <2>4. Types'
      BY <1>3, <2>1, <2>2 DEF IndInv, Types, queue, ownerVars, Goto, OwnerPc
  <2>5. LockOK'
      BY <1>1, <2>1, <2>2 DEF IndInv, Types, LockOK, LockCount, OwnerHolds, OwnerWaits
  <2>6. EndsOK'
      BY <1>3, <2>1, <2>2, <2>3 DEF IndInv, EndsOK, Pushing, WithBase, queue, ownerVars
  <2>7. ContentsOK'
      BY <1>3, <2>1, <2>2, <2>3 DEF IndInv, ContentsOK, Pushing, PushingBottom, queue, ownerVars
  <2>8. FramesAbove' /\ EmptyOK'
      BY <1>3, <2>1, <2>3 DEF IndInv, FramesAbove, EmptyOK, queue, ownerVars
  <2>9. UNCHANGED <<Deque, Taken>>
      BY <1>3, <2>1, <2>2, <2>3, Quiet DEF queue
  <2> QED
      BY <2>4, <2>5, <2>6, <2>7, <2>8, <2>9 DEF IndInv
<1>5. CASE base > 0 \/ top < Capacity
  <2> DEFINE up == IF base > 0 THEN 0 ELSE 1
  <2>1. Goto(Owner, "unlock") /\ localEmpty' = FALSE /\ UNCHANGED lock
      BY <1>1, <1>5 DEF PushBottom
  <2>2. /\ pc'[Owner] = "unlock"
        /\ \A w \in Thief : pc'[w] = pc[w]
        /\ Holders' = Holders
        /\ Tentative' = Tentative
      BY <2>1, OwnerMoves DEF IndInv
  <2>3. /\ base' = base - 1 + up /\ top' = top + up
        /\ base' \in Nat /\ top' <= Capacity
      BY <1>1, <1>5 DEF PushBottom
  <2>4. Low' = base' /\ High' = top'
      BY <1>1, <2>2 DEF Low, High
  <2>5. entries' \in [Slot -> Entry \cup {NoEntry}]
      BY <1>1, <1>5 DEF PushBottom, IndInv, Types
  <2>6. entries'[Low'] = entry
      BY <1>1, <1>5, <2>3, <2>4 DEF PushBottom, IndInv, Types
  <2>7. \A i \in Low' .. High' - 1 :
           i # Low' => i - up \in Low .. High - 1 /\ entries'[i] = entries[i - up]
    <3> SUFFICES ASSUME NEW i \in Low' .. High' - 1, i # Low'
                 PROVE  i - up \in Low .. High - 1 /\ entries'[i] = entries[i - up]
        OBVIOUS
    <3>1. i \in Slot /\ i <= top' - 1 /\ i >= base' + 1
        BY <2>3, <2>4, <1>1
    <3>2. CASE base > 0
        BY <3>1, <3>2, <1>1, <2>3 DEF PushBottom, IndInv, Types
    <3>3. CASE base = 0
        BY <3>1, <3>3, <1>1, <1>5, <2>3 DEF PushBottom, IndInv, Types
    <3> QED
        BY <3>2, <3>3, <1>1
  <2>8. Types'
    <3>1. localEmpty' \in BOOLEAN
        BY <2>1
    <3> QED
      BY <3>1, <1>1, <1>3, <2>1, <2>2, <2>3, <2>5 DEF IndInv, Types, ownerVars, Goto, OwnerPc
  <2>9. LockOK'
      BY <1>1, <2>1, <2>2 DEF IndInv, LockOK, LockCount, OwnerHolds, OwnerWaits
  <2>10. EndsOK'
      BY <1>1, <1>2, <1>3, <2>2, <2>3, <2>4 DEF IndInv, EndsOK, Pushing, WithBase, ownerVars
  <2>11. ContentsOK'
      BY <1>1, <1>2, <1>3, <2>2, <2>6, <2>7 DEF IndInv, ContentsOK, Pushing, PushingBottom, ownerVars
  <2>12. FramesAbove'
    <3> SUFFICES ASSUME NEW i \in Low' .. High' - 1, NEW j \in Low' .. High' - 1,
                        i < j, entries'[i] \in frames
                 PROVE  entries'[j] \in frames
        BY <1>3 DEF FramesAbove, ownerVars
    <3>1. i # Low' /\ j # Low' /\ i - up < j - up
        BY <1>1, <1>3, <2>3, <2>4, <2>6
    <3> QED
        BY <2>7, <3>1 DEF IndInv, FramesAbove
  <2>13. EmptyOK'
      BY <2>1 DEF EmptyOK
  <2>14. D!PushBottom
    <3>1. Deque' = <<entry>> \o Deque
      <4>1. /\ Low \in Int /\ High \in Int /\ Low <= High /\ up \in Int
            /\ Low' \in Int /\ High' \in Int
            /\ Low' = Low + up - 1 /\ High' = High + up
          BY <1>1, <2>3, <2>4
      <4>2. ASSUME NEW i \in Low .. High - 1
            PROVE  entries'[i + up] = entries[i]
        <5>1. i + up \in Low' .. High' - 1 /\ i + up # Low' /\ (i + up) - up = i
            BY <4>1
        <5> QED
            BY <5>1, <2>7
      <4> HIDE DEF up
      <4>3. Window(entries', Low', High') = <<entries'[Low']>> \o Window(entries, Low, High)
          BY <4>1, <4>2, WindowPrepend
      <4> QED
          BY <2>6, <4>3 DEF Deque, Window
    <3>2. Taken' = Taken
        BY <1>2, <1>3, <2>2, SameTaken
    <3>3. entry \in Entry
        BY <1>3 DEF IndInv, Types
    <3> QED
        BY <3>1, <3>2, <3>3 DEF D!PushBottom
  <2> QED
      BY <2>8, <2>9, <2>10, <2>11, <2>12, <2>13, <2>14 DEF IndInv
<1> QED
    BY <1>1, <1>4, <1>5

\* pop: top is moved first.
LEMMA PopBeginKeeps == IndInv /\ PopBegin => IndInv' /\ UNCHANGED <<Deque, Taken>>
<1> SUFFICES ASSUME IndInv, PopBegin PROVE IndInv' /\ UNCHANGED <<Deque, Taken>>
    OBVIOUS
<1>1. /\ pc'[Owner] = "look" /\ pc[Owner] = "idle"
      /\ \A w \in Thief : pc'[w] = pc[w]
      /\ Holders' = Holders
      /\ Tentative' = Tentative
    BY OwnerMoves DEF IndInv, PopBegin, At
<1>2. Low' = Low /\ High' = High /\ ~localEmpty' /\ top \in 0 .. Capacity
    BY <1>1 DEF IndInv, Types, EndsOK, PopBegin, Low, High
<1>3. Types'
    BY <1>1 DEF IndInv, Types, PopBegin, Goto, OwnerPc
<1>4. LockOK'
    BY <1>1 DEF IndInv, LockOK, LockCount, OwnerHolds, OwnerWaits, PopBegin
<1>5. EndsOK'
    BY <1>1, <1>2 DEF IndInv, EndsOK, Pushing, WithBase, PopBegin
<1>6. ContentsOK'
    BY <1>1, <1>2 DEF IndInv, ContentsOK, Pushing, PushingBottom, PopBegin
<1>7. FramesAbove' /\ EmptyOK'
    BY <1>2 DEF IndInv, FramesAbove, EmptyOK, PopBegin
<1>8. UNCHANGED <<Deque, Taken>>
    BY <1>1, <1>2, Quiet DEF PopBegin
<1> QED
    BY <1>3, <1>4, <1>5, <1>6, <1>7, <1>8 DEF IndInv

\* The owner has what is on top, and the rest may lie elsewhere.
LEMMA Popped ==
    ASSUME IndInv, Low < High, Take(Owner, entries[High - 1]),
           UNCHANGED <<entries, b>>, \A w \in Thief : pc'[w] = pc[w],
           Deque' = Window(entries, Low, High - 1)
    PROVE  D!Pop
<1>1. Low \in Int /\ High \in Int
    BY DEF IndInv, Types, Low, High
<1>2. /\ Window(entries, Low, High - 1) = SubSeq(Deque, 1, Len(Deque) - 1)
      /\ Deque[Len(Deque)] = entries[High - 1]
      /\ Deque # <<>>
  <2>1. Deque = Window(entries, Low, High)
      BY DEF Deque, Window
  <2> QED
      BY <1>1, <2>1, WindowPop
<1>3. Taken' = [Taken EXCEPT ![Owner] = @ \cup {entries[High - 1]}]
    BY DEF Taken, Take, IndInv, Types
<1> QED
    BY <1>2, <1>3 DEF D!Pop

\* pop: base is read after that.
LEMMA PopLookKeeps == IndInv /\ PopLook => IndInv' /\ [D!Pop]_<<Deque, Taken>>
<1> SUFFICES ASSUME IndInv, PopLook PROVE IndInv' /\ [D!Pop]_<<Deque, Taken>>
    OBVIOUS
<1>1. PICK label \in {"idle", "restore"} :
         /\ Goto(Owner, label)
         /\ label = "idle" <=> base <= t
         /\ label = "idle" => Take(Owner, entries[t])
         /\ label = "restore" => UNCHANGED got
    BY DEF PopLook, InReach
<1>2. /\ pc'[Owner] = label /\ pc[Owner] = "look"
      /\ \A w \in Thief : pc'[w] = pc[w]
      /\ Holders' = Holders
      /\ Tentative' = Tentative
    BY <1>1, OwnerMoves DEF IndInv, PopLook, At
<1>3. /\ t = top /\ High = top + 1 /\ Low' = Low
      /\ High' = IF label = "idle" THEN High - 1 ELSE High
      /\ Low \in Int /\ top \in Int
    BY <1>2 DEF IndInv, Types, EndsOK, PopLook, queue, Low, High
<1>4. label = "idle" => Low < High /\ entries[t] \in 1 .. pushed
    BY <1>1, <1>2, <1>3 DEF IndInv, Types, EndsOK, ContentsOK, Low
<1>5. got' \in [Worker -> SUBSET Entry]
    BY <1>1, <1>4 DEF IndInv, Types, Take
<1>6. Types'
    BY <1>1, <1>2, <1>5 DEF IndInv, Types, PopLook, queue, ownerVars, Goto, OwnerPc
<1>7. LockOK'
    BY <1>1, <1>2 DEF IndInv, LockOK, LockCount, OwnerHolds, OwnerWaits, PopLook
<1>8. EndsOK'
    BY <1>1, <1>2, <1>3, <1>4 DEF IndInv, EndsOK, Pushing, WithBase, PopLook, queue, ownerVars
<1>9. ContentsOK'
    BY <1>1, <1>2, <1>3 DEF IndInv, ContentsOK, Pushing, PushingBottom, PopLook, queue, ownerVars
<1>10. FramesAbove'
    BY <1>3 DEF IndInv, FramesAbove, PopLook, queue, ownerVars
<1>11. EmptyOK'
    BY <1>1, <1>3, <1>4 DEF IndInv, EmptyOK, PopLook, queue
<1>12. ASSUME label = "restore" PROVE UNCHANGED <<Deque, Taken>>
    BY <1>1, <1>2, <1>3, <1>12, Quiet DEF PopLook, queue
<1>13. ASSUME label = "idle" PROVE D!Pop
  <2>1. Deque' = Window(entries, Low, High - 1)
      BY <1>3, <1>13 DEF PopLook, queue, Deque, Window
  <2> QED
      BY <1>1, <1>2, <1>3, <1>4, <1>13, <2>1, Popped DEF PopLook, queue
<1> QED
    BY <1>6, <1>7, <1>8, <1>9, <1>10, <1>11, <1>12, <1>13 DEF IndInv

\* pop: a thief may have been faster, top is put back.
LEMMA PopRestoreKeeps == IndInv /\ PopRestore => IndInv' /\ UNCHANGED <<Deque, Taken>>
<1> SUFFICES ASSUME IndInv, PopRestore PROVE IndInv' /\ UNCHANGED <<Deque, Taken>>
    OBVIOUS
<1>1. /\ pc'[Owner] = "lockPop" /\ pc[Owner] = "restore"
      /\ \A w \in Thief : pc'[w] = pc[w]
      /\ Holders' = Holders
      /\ Tentative' = Tentative
    BY OwnerMoves DEF IndInv, PopRestore, At
<1>2. Low' = Low /\ High' = High
    BY <1>1 DEF IndInv, Types, EndsOK, PopRestore, Low, High
<1>3. Types'
    BY <1>1 DEF IndInv, Types, PopRestore, ownerVars, Goto, OwnerPc
<1>4. LockOK'
    BY <1>1 DEF IndInv, LockOK, LockCount, OwnerHolds, OwnerWaits, PopRestore
<1>5. EndsOK'
    BY <1>1, <1>2 DEF IndInv, Types, EndsOK, Pushing, WithBase, PopRestore, ownerVars
<1>6. ContentsOK'
    BY <1>1, <1>2 DEF IndInv, ContentsOK, Pushing, PushingBottom, PopRestore, ownerVars
<1>7. FramesAbove' /\ EmptyOK'
    BY <1>2 DEF IndInv, FramesAbove, EmptyOK, PopRestore, ownerVars
<1>8. UNCHANGED <<Deque, Taken>>
    BY <1>1, <1>2, Quiet DEF PopRestore
<1> QED
    BY <1>3, <1>4, <1>5, <1>6, <1>7, <1>8 DEF IndInv

\* pop: with the lock held, top is moved again.
LEMMA PopSlowKeeps == IndInv /\ PopSlow => IndInv' /\ UNCHANGED <<Deque, Taken>>
<1> SUFFICES ASSUME IndInv, PopSlow PROVE IndInv' /\ UNCHANGED <<Deque, Taken>>
    OBVIOUS
<1>1. /\ pc'[Owner] = "decide" /\ pc[Owner] = "slow"
      /\ \A w \in Thief : pc'[w] = pc[w]
      /\ Holders' = Holders
      /\ Tentative' = Tentative
    BY OwnerMoves DEF IndInv, PopSlow, At
<1>2. Low' = Low /\ High' = High
    BY <1>1 DEF IndInv, Types, EndsOK, PopSlow, Low, High
<1>3. Types'
    BY <1>1 DEF IndInv, Types, PopSlow, ownerVars, Goto, OwnerPc
<1>4. LockOK'
    BY <1>1 DEF IndInv, LockOK, LockCount, OwnerHolds, OwnerWaits, PopSlow
<1>5. EndsOK'
    BY <1>1, <1>2 DEF IndInv, EndsOK, Pushing, WithBase, PopSlow, ownerVars
<1>6. ContentsOK'
    BY <1>1, <1>2 DEF IndInv, ContentsOK, Pushing, PushingBottom, PopSlow, ownerVars
<1>7. FramesAbove' /\ EmptyOK'
    BY <1>2 DEF IndInv, FramesAbove, EmptyOK, PopSlow, ownerVars
<1>8. UNCHANGED <<Deque, Taken>>
    BY <1>1, <1>2, Quiet DEF PopSlow
<1> QED
    BY <1>3, <1>4, <1>5, <1>6, <1>7, <1>8 DEF IndInv

\* pop: under the lock there is an entry, or none.
LEMMA PopDecideKeeps == IndInv /\ PopDecide => IndInv' /\ [D!Pop]_<<Deque, Taken>>
<1> SUFFICES ASSUME IndInv, PopDecide PROVE IndInv' /\ [D!Pop]_<<Deque, Taken>>
    OBVIOUS
<1>1. /\ pc'[Owner] = "unlock" /\ pc[Owner] = "decide"
      /\ \A w \in Thief : pc'[w] = pc[w]
      /\ Holders' = Holders
      /\ Tentative' = Tentative
    BY OwnerMoves DEF IndInv, PopDecide, At
<1>2. /\ ~Tentative /\ \A w \in Thief : pc[w] \in {"idle", "copy"}
      /\ OwnerHolds
    BY <1>1, OwnerAlone DEF IndInv, OwnerHolds
<1>3. /\ t = top /\ High = top + 1 /\ Low = base /\ Low' = base' /\ High' = top'
      /\ base \in Nat /\ top \in Int /\ base <= top + 1 /\ top < Capacity
    BY <1>1, <1>2 DEF IndInv, Types, EndsOK, Low, High
<1>4. base <= t => entries[t] \in 1 .. pushed
    BY <1>3 DEF IndInv, ContentsOK
<1>5. got' \in [Worker -> SUBSET Entry]
    BY <1>4 DEF IndInv, Types, Take, PopDecide
<1>6. /\ entries' = entries
      /\ \/ base' = base /\ top' = top /\ base < t
         \/ base' = 0 /\ top' = 0 /\ ~(base < t)
    BY <1>3 DEF PopDecide, queue
<1>7. \A i \in base' .. top' - 1 : i \in Low .. High - 1
    BY <1>3, <1>6
<1>8. localEmpty' \in BOOLEAN
    BY DEF IndInv, Types, PopDecide, queue
<1>9. localEmpty' => base' = top'
  <2>1. CASE base < t
    <3>1. localEmpty' = localEmpty
        BY <2>1 DEF PopDecide, queue
    <3>2. ~localEmpty
        BY <2>1, <1>3 DEF IndInv, EmptyOK
    <3> QED
        BY <3>1, <3>2
  <2>2. CASE ~(base < t)
      BY <2>2 DEF PopDecide
  <2> QED
      BY <2>1, <2>2
<1>10. Types'
    BY <1>8, <1>1, <1>5, <1>6 DEF IndInv, Types, PopDecide, queue, ownerVars, Goto, OwnerPc
<1>11. LockOK'
    BY <1>1 DEF IndInv, LockOK, LockCount, OwnerHolds, OwnerWaits, PopDecide
<1>12. EndsOK'
    BY <1>1, <1>2, <1>3, <1>6 DEF IndInv, EndsOK, Pushing, WithBase, PopDecide, ownerVars
<1>13. ContentsOK'
    BY <1>1, <1>2, <1>3, <1>6, <1>7 DEF IndInv, ContentsOK, Pushing, PushingBottom, PopDecide, ownerVars
<1>14. FramesAbove'
    BY <1>3, <1>6, <1>7 DEF IndInv, FramesAbove, PopDecide, ownerVars
<1>15. EmptyOK'
    BY <1>3, <1>9 DEF EmptyOK
<1>16. ASSUME base <= t PROVE D!Pop
  <2>1. Low < High /\ t = High - 1 /\ Take(Owner, entries[High - 1])
      BY <1>3, <1>16 DEF PopDecide
  <2>2. Deque' = Window(entries, Low, High - 1)
    <3>1. CASE base < t
      <4>1. Low' = Low /\ High' = High - 1
          BY <1>3, <3>1 DEF PopDecide, queue
      <4> QED
          BY <1>6, <4>1 DEF Deque, Window
    <3>2. CASE base = t
      <4>1. High' - Low' = 0 /\ High - 1 - Low = 0
          BY <1>3, <3>2 DEF PopDecide
      <4> QED
          BY <4>1 DEF Deque, Window
    <3> QED
        BY <1>3, <1>16, <3>1, <3>2
  <2> QED
      BY <1>1, <1>6, <2>1, <2>2, Popped DEF PopDecide, ownerVars
<1>17. ASSUME ~(base <= t) PROVE UNCHANGED <<Deque, Taken>>
  <2>1. base' = 0 /\ top' = 0 /\ base = top + 1
      BY <1>3, <1>6, <1>17
  <2>2. Deque' = Deque
    <3>1. High - Low = 0 /\ High' - Low' = 0
        BY <1>3, <2>1
    <3> QED
        BY <3>1 DEF Deque
  <2>3. Taken' = Taken
      BY <1>1, <1>6, <1>17, SameTaken DEF PopDecide
  <2> QED
      BY <2>2, <2>3
<1> QED
    BY <1>10, <1>11, <1>12, <1>13, <1>14, <1>15, <1>16, <1>17 DEF IndInv

(* The thieves': *)

\* steal: the thief gets the lock.
LEMMA StealLockKeeps == ASSUME IndInv, NEW w \in Thief, StealLock(w)
    PROVE  IndInv' /\ UNCHANGED <<Deque, Taken>>
<1>1. /\ pc'[w] = "advance" /\ pc[w] = "idle" /\ pc'[Owner] = pc[Owner]
      /\ \A v \in Thief \ {w} : pc'[v] = pc[v]
    BY ThiefMoves DEF IndInv, StealLock, At
<1>2. Holders = {} /\ Holders' = {w} /\ lock = 0 /\ lock' = 1 /\ ~OwnerHolds
    <2>1. lock = 0 /\ lock' = 1
        BY DEF StealLock, TryLock
    <2>2. Holders = {} /\ ~OwnerHolds
        BY <2>1 DEF IndInv, LockOK, LockCount, OwnerHolds
    <2>3. Holders' = {w}
        BY <2>2, <1>1 DEF Holders, ThiefPc
    <2> QED
        BY <2>1, <2>2, <2>3
<1>3. Tentative' = Tentative
    BY <1>1 DEF Tentative
<1>4. Low' = Low /\ High' = High
    BY <1>1, <1>3 DEF StealLock, Low, High, queue
<1>5. Types'
    BY <1>1, <1>2 DEF IndInv, Types, StealLock, queue, ownerVars, Goto, ThiefPc
<1>6. LockOK'
    BY <1>1, <1>2 DEF IndInv, LockOK, LockCount, OwnerHolds, OwnerWaits
<1>7. EndsOK'
    BY <1>1, <1>4 DEF IndInv, EndsOK, Pushing, WithBase, StealLock, queue, ownerVars
<1>8. ContentsOK'
    BY <1>1, <1>4 DEF IndInv, ContentsOK, StealLock, queue, ownerVars
<1>9. FramesAbove' /\ EmptyOK'
    BY <1>4 DEF IndInv, FramesAbove, EmptyOK, StealLock, queue, ownerVars
<1>10. UNCHANGED <<Deque, Taken>>
    BY <1>1, <1>4, Quiet DEF StealLock, queue
<1> QED
    BY <1>5, <1>6, <1>7, <1>8, <1>9, <1>10 DEF IndInv

\* The thief that has the lock is the only one, and the owner has not.
LEMMA ThiefHolds ==
    ASSUME IndInv, NEW w \in Thief, pc[w] \notin {"idle", "copy"},
           NEW label \in ThiefPc, Goto(w, label)
    PROVE  /\ pc'[w] = label
           /\ pc'[Owner] = pc[Owner]
           /\ \A v \in Thief \ {w} : pc'[v] = pc[v] /\ pc[v] \in {"idle", "copy"}
           /\ Holders = {w}
           /\ Holders' = IF label \in {"idle", "copy"} THEN {} ELSE {w}
           /\ ~OwnerHolds
           /\ Tentative <=> pc[w] \in {"compare", "retreat"}
           /\ Tentative' <=> label \in {"compare", "retreat"}
<1>1. w \in Holders
    BY DEF IndInv, Types, Holders
<1>2. ~OwnerHolds /\ \A v \in Thief \ {w} : pc[v] \in {"idle", "copy"}
    BY <1>1, Alone DEF IndInv
<1>3. /\ pc'[w] = label /\ pc'[Owner] = pc[Owner]
      /\ \A v \in Thief \ {w} : pc'[v] = pc[v]
    BY ThiefMoves DEF IndInv
<1>4. Holders = {w}
    BY <1>1, <1>2 DEF Holders
<1>5. Holders' = IF label \in {"idle", "copy"} THEN {} ELSE {w}
    BY <1>2, <1>3 DEF Holders
<1>6. /\ Tentative <=> pc[w] \in {"compare", "retreat"}
      /\ Tentative' <=> label \in {"compare", "retreat"}
    BY <1>2, <1>3 DEF Tentative
<1> QED
    BY <1>2, <1>3, <1>4, <1>5, <1>6

\* steal: base is moved first.
LEMMA StealAdvanceKeeps == ASSUME IndInv, NEW w \in Thief, StealAdvance(w)
    PROVE  IndInv' /\ UNCHANGED <<Deque, Taken>>
<1>1. /\ pc[w] = "advance" /\ pc'[w] = "compare" /\ pc'[Owner] = pc[Owner]
      /\ \A v \in Thief \ {w} : pc'[v] = pc[v] /\ pc[v] \in {"idle", "copy"}
      /\ Holders = {w} /\ Holders' = {w} /\ ~OwnerHolds
      /\ ~Tentative /\ Tentative'
    BY ThiefHolds DEF StealAdvance, At, ThiefPc
<1>2. base \in 0 .. Capacity /\ Low' = Low /\ High' = High
    BY <1>1 DEF IndInv, Types, EndsOK, StealAdvance, Low, High
<1>3. Types'
    BY <1>1 DEF IndInv, Types, StealAdvance, ownerVars, Goto, ThiefPc
<1>4. LockOK'
    BY <1>1 DEF IndInv, LockOK, LockCount, OwnerHolds, OwnerWaits, StealAdvance
<1>5. EndsOK'
    BY <1>1, <1>2 DEF IndInv, Types, EndsOK, Pushing, WithBase, StealAdvance, ownerVars
<1>6. ContentsOK'
    BY <1>1, <1>2 DEF IndInv, ContentsOK, StealAdvance, ownerVars
<1>7. FramesAbove' /\ EmptyOK'
    BY <1>2 DEF IndInv, FramesAbove, EmptyOK, StealAdvance, ownerVars
<1>8. UNCHANGED <<Deque, Taken>>
    BY <1>1, <1>2, Quiet DEF StealAdvance, IndInv, Types
<1> QED
    BY <1>3, <1>4, <1>5, <1>6, <1>7, <1>8 DEF IndInv

\* steal: top is read after that.
LEMMA StealCompareKeeps == ASSUME IndInv, NEW w \in Thief, StealCompare(w)
    PROVE  IndInv' /\ [D!Steal(w)]_<<Deque, Taken>>
<1>1. PICK label \in {"fetch", "retreat"} :
         Goto(w, label) /\ (label = "fetch" <=> b[w] < top)
    BY DEF StealCompare
<1>2. /\ pc[w] = "compare" /\ pc'[w] = label /\ pc'[Owner] = pc[Owner]
      /\ \A v \in Thief \ {w} : pc'[v] = pc[v] /\ pc[v] \in {"idle", "copy"}
      /\ Holders = {w} /\ Holders' = {w} /\ ~OwnerHolds
      /\ Tentative /\ (Tentative' <=> label = "retreat")
    BY <1>1, ThiefHolds DEF StealCompare, At, ThiefPc
<1>3. /\ Low = b[w] /\ b[w] = base - 1 /\ High' = High /\ top <= High
      /\ Low' = IF label = "fetch" THEN Low + 1 ELSE Low
      /\ Low \in Int /\ High \in Int /\ top \in Int
    BY <1>2 DEF IndInv, Types, EndsOK, WithBase, StealCompare, queue, Low, High
<1>4. Types'
    BY <1>1, <1>2 DEF IndInv, Types, StealCompare, queue, ownerVars, Goto, ThiefPc
<1>5. LockOK'
    BY <1>2 DEF IndInv, LockOK, LockCount, OwnerHolds, OwnerWaits, StealCompare
<1>6. UNCHANGED <<top, base, entries, t, entry, pushed, frames, b>>
    BY DEF StealCompare, queue, ownerVars
<1>7. 0 <= Low' /\ Low' <= High' /\ High' <= Capacity
    BY <1>1, <1>3 DEF IndInv, EndsOK
<1>8. EndsOK'
    BY <1>2, <1>6, <1>7 DEF IndInv, EndsOK, Pushing, WithBase
<1>9. ContentsOK'
  <2>1. label = "fetch" => entries[b[w]] \in 1 .. pushed
      BY <1>1, <1>3, <1>7 DEF IndInv, Types, ContentsOK
  <2> QED
      BY <1>2, <1>3, <1>6, <2>1 DEF IndInv, ContentsOK
<1>10. FramesAbove'
    BY <1>3 DEF IndInv, FramesAbove, StealCompare, queue, ownerVars
<1>11. EmptyOK'
  <2>1. localEmpty' = localEmpty
      BY DEF StealCompare, queue
  <2>2. localEmpty => Low = High
      BY DEF IndInv, EmptyOK
  <2> QED
      BY <1>1, <1>3, <2>1, <2>2 DEF EmptyOK
<1>12. ASSUME label = "retreat" PROVE UNCHANGED <<Deque, Taken>>
    BY <1>2, <1>3, <1>6, <1>12, Quiet DEF StealCompare
<1>13. ASSUME label = "fetch" PROVE D!Steal(w)
  <2>1. Low < High /\ Low' = Low + 1 /\ entries[Low] = entries[b[w]]
      BY <1>1, <1>3, <1>13
  <2>2. /\ Window(entries, Low + 1, High) = Tail(Deque)
        /\ Head(Deque) = entries[Low]
        /\ Deque # <<>>
    <3>1. Deque = Window(entries, Low, High)
        BY DEF Deque, Window
    <3> QED
        BY <1>3, <2>1, <3>1, WindowSteal
  <2>3. Deque' = Tail(Deque)
      BY <1>3, <1>6, <2>1, <2>2 DEF Deque, Window
  <2>4. Taken' = [Taken EXCEPT ![w] = @ \cup {entries[b[w]]}]
      BY <1>2, <1>6, <1>13 DEF Taken, StealCompare, IndInv, Types
  <2> QED
      BY <2>1, <2>2, <2>3, <2>4 DEF D!Steal
<1> QED
    BY <1>1, <1>4, <1>5, <1>8, <1>9, <1>10, <1>11, <1>12, <1>13 DEF IndInv

\* steal: nothing there, base is put back.
LEMMA StealRetreatKeeps == ASSUME IndInv, NEW w \in Thief, StealRetreat(w)
    PROVE  IndInv' /\ UNCHANGED <<Deque, Taken>>
<1>1. /\ pc[w] = "retreat" /\ pc'[w] = "unlock" /\ pc'[Owner] = pc[Owner]
      /\ \A v \in Thief \ {w} : pc'[v] = pc[v] /\ pc[v] \in {"idle", "copy"}
      /\ Holders = {w} /\ Holders' = {w} /\ ~OwnerHolds
      /\ Tentative /\ ~Tentative'
    BY ThiefHolds DEF StealRetreat, At, ThiefPc
<1>2. Low' = Low /\ High' = High
    BY <1>1 DEF IndInv, Types, StealRetreat, Low, High
<1>3. Types'
    BY <1>1 DEF IndInv, Types, StealRetreat, ownerVars, Goto, ThiefPc
<1>4. LockOK'
    BY <1>1 DEF IndInv, LockOK, LockCount, OwnerHolds, OwnerWaits, StealRetreat
<1>5. EndsOK'
    BY <1>1, <1>2 DEF IndInv, EndsOK, Pushing, WithBase, StealRetreat, ownerVars
<1>6. ContentsOK'
    BY <1>1, <1>2 DEF IndInv, ContentsOK, StealRetreat, ownerVars
<1>7. FramesAbove' /\ EmptyOK'
    BY <1>2 DEF IndInv, FramesAbove, EmptyOK, StealRetreat, ownerVars
<1>8. UNCHANGED <<Deque, Taken>>
    BY <1>1, <1>2, Quiet DEF StealRetreat
<1> QED
    BY <1>3, <1>4, <1>5, <1>6, <1>7, <1>8 DEF IndInv

\* steal: the entry is read.
LEMMA StealFetchKeeps == ASSUME IndInv, NEW w \in Thief, StealFetch(w)
    PROVE  IndInv' /\ UNCHANGED <<Deque, Taken>>
<1>1. PICK label \in {"unlock", "unlockThenCopy"} : Goto(w, label)
    BY DEF StealFetch
<1>2. /\ pc[w] = "fetch" /\ pc'[w] = label /\ pc'[Owner] = pc[Owner]
      /\ \A v \in Thief \ {w} : pc'[v] = pc[v] /\ pc[v] \in {"idle", "copy"}
      /\ Holders = {w} /\ Holders' = {w} /\ ~OwnerHolds
      /\ ~Tentative /\ ~Tentative'
    BY <1>1, ThiefHolds DEF StealFetch, At, ThiefPc
<1>3. Low' = Low /\ High' = High
    BY <1>2 DEF IndInv, Types, StealFetch, queue, Low, High
<1>4. got' \in [Worker -> SUBSET Entry]
    BY <1>2 DEF IndInv, Types, ContentsOK, StealFetch, Take
<1>5. Types'
    BY <1>1, <1>2, <1>4 DEF IndInv, Types, StealFetch, queue, ownerVars, Goto, ThiefPc
<1>6. LockOK'
    BY <1>2 DEF IndInv, LockOK, LockCount, OwnerHolds, OwnerWaits, StealFetch
<1>7. EndsOK'
    BY <1>2, <1>3 DEF IndInv, EndsOK, Pushing, WithBase, StealFetch, queue, ownerVars
<1>8. ContentsOK'
    BY <1>2, <1>3 DEF IndInv, ContentsOK, StealFetch, queue, ownerVars
<1>9. FramesAbove' /\ EmptyOK'
    BY <1>3 DEF IndInv, FramesAbove, EmptyOK, StealFetch, queue, ownerVars
<1>10. UNCHANGED <<Deque, Taken>>
  <2>1. Deque' = Deque
      BY <1>3, SameDeque DEF StealFetch, queue, IndInv, Types, Low, High
  <2>2. Taken' = Taken
      BY <1>2 DEF Taken, StealFetch, Take, queue, IndInv, Types
  <2> QED
      BY <2>1, <2>2
<1> QED
    BY <1>5, <1>6, <1>7, <1>8, <1>9, <1>10 DEF IndInv

\* steal: the lock is given back.
LEMMA StealUnlockKeeps == ASSUME IndInv, NEW w \in Thief, StealUnlock(w)
    PROVE  IndInv' /\ UNCHANGED <<Deque, Taken>>
<1>1. PICK label \in {"idle", "copy"} : Goto(w, label)
    BY DEF StealUnlock
<1>2. /\ pc[w] \in {"unlock", "unlockThenCopy"} /\ pc'[w] = label /\ pc'[Owner] = pc[Owner]
      /\ \A v \in Thief \ {w} : pc'[v] = pc[v] /\ pc[v] \in {"idle", "copy"}
      /\ Holders = {w} /\ Holders' = {} /\ ~OwnerHolds
      /\ ~Tentative /\ ~Tentative' /\ lock' = lock - 1
    BY <1>1, ThiefHolds DEF StealUnlock, At, ThiefPc, Unlock
<1>3. Low' = Low /\ High' = High
    BY <1>2 DEF IndInv, Types, StealUnlock, queue, Low, High
<1>4. Types'
    BY <1>1, <1>2 DEF IndInv, Types, StealUnlock, queue, ownerVars, Goto, ThiefPc
<1>5. LockOK'
    BY <1>2 DEF IndInv, Types, LockOK, LockCount, OwnerHolds, OwnerWaits
<1>6. EndsOK'
    BY <1>2, <1>3 DEF IndInv, EndsOK, Pushing, WithBase, StealUnlock, queue, ownerVars
<1>7. ContentsOK'
    BY <1>2, <1>3 DEF IndInv, ContentsOK, StealUnlock, queue, ownerVars
<1>8. FramesAbove' /\ EmptyOK'
    BY <1>3 DEF IndInv, FramesAbove, EmptyOK, StealUnlock, queue, ownerVars
<1>9. UNCHANGED <<Deque, Taken>>
    BY <1>2, <1>3, Quiet DEF StealUnlock, queue
<1> QED
    BY <1>4, <1>5, <1>6, <1>7, <1>8, <1>9 DEF IndInv

\* steal: the thief is done.
LEMMA StealCopiedKeeps == ASSUME IndInv, NEW w \in Thief, StealCopied(w)
    PROVE  IndInv' /\ UNCHANGED <<Deque, Taken>>
<1>1. /\ pc[w] = "copy" /\ pc'[w] = "idle" /\ pc'[Owner] = pc[Owner]
      /\ \A v \in Thief \ {w} : pc'[v] = pc[v]
    BY ThiefMoves DEF IndInv, StealCopied, At
<1>2. Holders' = Holders /\ Tentative' = Tentative
    BY <1>1 DEF Holders, Tentative
<1>3. Low' = Low /\ High' = High
    BY <1>1, <1>2 DEF StealCopied, queue, Low, High
<1>4. Types'
    BY <1>1 DEF IndInv, Types, StealCopied, queue, ownerVars, Goto, ThiefPc
<1>5. LockOK'
    BY <1>1, <1>2 DEF IndInv, LockOK, LockCount, OwnerHolds, OwnerWaits, StealCopied
<1>6. EndsOK'
    BY <1>1, <1>3 DEF IndInv, EndsOK, Pushing, WithBase, StealCopied, queue, ownerVars
<1>7. ContentsOK'
    BY <1>1, <1>3 DEF IndInv, ContentsOK, StealCopied, queue, ownerVars
<1>8. FramesAbove' /\ EmptyOK'
    BY <1>3 DEF IndInv, FramesAbove, EmptyOK, StealCopied, queue, ownerVars
<1>9. UNCHANGED <<Deque, Taken>>
    BY <1>1, <1>3, Quiet DEF StealCopied, queue
<1> QED
    BY <1>4, <1>5, <1>6, <1>7, <1>8, <1>9 DEF IndInv

----------------------------------------------------------------------------
(* The invariant, and what follows from it. *)

\* The empty queue.
LEMMA InitIndInv == Init => IndInv
<1> SUFFICES ASSUME Init PROVE IndInv
    OBVIOUS
<1>1. /\ pc[Owner] = "idle" /\ \A w \in Thief : pc[w] = "idle"
      /\ Holders = {} /\ ~Tentative /\ Low = 0 /\ High = 0
    BY DEF Init, Holders, Tentative, Low, High
<1>2. Types
  <2>1. localEmpty \in BOOLEAN
      BY DEF Init
  <2> QED
      BY <2>1 DEF Init, Types, OwnerPc, ThiefPc
<1>3. LockOK
    BY <1>1 DEF Init, LockOK, LockCount, OwnerHolds, OwnerWaits
<1>4. EndsOK /\ ContentsOK /\ FramesAbove /\ EmptyOK
    BY <1>1 DEF Init, EndsOK, ContentsOK, FramesAbove, EmptyOK, Pushing, PushingBottom, WithBase
<1> QED
    BY <1>2, <1>3, <1>4 DEF IndInv

\* Every step keeps the invariant and is a step of the deque or none.
LEMMA NextIndInv == IndInv /\ [Next]_vars => IndInv' /\ [D!Next]_<<Deque, Taken>>
<1> SUFFICES ASSUME IndInv, [Next]_vars PROVE IndInv' /\ [D!Next]_<<Deque, Taken>>
    OBVIOUS
<1>1. CASE OwnerBegin
    BY <1>1, PushBeginKeeps, PushBottomBeginKeeps, PopBeginKeeps DEF OwnerBegin
<1>2. CASE OwnerStep
    BY <1>2, OwnerLocksKeeps, OwnerUnlocksKeeps, PushMoveKeeps, PushWriteKeeps,
       PushPublishKeeps, PushBottomKeeps, PopLookKeeps, PopRestoreKeeps,
       PopSlowKeeps, PopDecideKeeps DEF OwnerStep, OwnerLocks, OwnerUnlocks, D!Next
<1>3. CASE \E w \in Thief : StealLock(w) \/ ThiefStep(w)
    BY <1>3, StealLockKeeps, StealAdvanceKeeps, StealCompareKeeps, StealRetreatKeeps,
       StealFetchKeeps, StealUnlockKeeps, StealCopiedKeeps DEF ThiefStep, D!Next
<1>4. CASE UNCHANGED vars
  <2>1. UNCHANGED <<top, base, entries, localEmpty, t, entry, pushed, frames, lock, pc, b, got>>
      BY <1>4 DEF vars, queue, ownerVars
  <2>2. Holders' = Holders /\ Tentative' = Tentative /\ Low' = Low /\ High' = High
      BY <2>1 DEF Holders, Tentative, Low, High
  <2>3. IndInv'
      BY <2>1, <2>2 DEF IndInv, Types, LockOK, LockCount, OwnerHolds, OwnerWaits,
         EndsOK, ContentsOK, FramesAbove, EmptyOK
  <2>4. UNCHANGED <<Deque, Taken>>
      BY <2>1, <2>2, Quiet
  <2> QED
      BY <2>3, <2>4
<1> QED
    BY <1>1, <1>2, <1>3, <1>4 DEF Next

\* IndInv holds in every state of every run.
THEOREM QueueInvariance == Spec => []IndInv
    BY InitIndInv, NextIndInv, PTL DEF Spec

\* Whatever the interleaving, the queue is a deque with atomic operations (push,
\* push_bottom, pop and steal_nolock of wsqueue.hpp): no entry is lost or taken
\* twice, the owner gets the youngest there is and a thief the oldest.
THEOREM QueueRefinement == Spec => ImplementsDeque
<1>1. Init => D!Init
  <2> SUFFICES ASSUME Init PROVE D!Init
      OBVIOUS
  <2>1. Low = 0 /\ High = 0
      BY DEF Init, Low, High, Tentative
  <2>2. Deque = <<>>
      BY <2>1 DEF Deque
  <2>3. Taken = [w \in Worker |-> {}]
      BY DEF Init, Taken
  <2> QED
      BY <2>2, <2>3 DEF D!Init
<1>2. [D!Next]_<<Deque, Taken>> => [D!Next]_(D!vars)
    BY DEF D!vars
<1> QED
    BY <1>1, <1>2, QueueInvariance, NextIndInv, PTL DEF Spec, ImplementsDeque, D!Spec

\* No index leaves the array and no worker the program.
THEOREM QueueTypeCorrect == Spec => []TypeOK
<1>1. IndInv => TypeOK
  <2> SUFFICES ASSUME IndInv PROVE TypeOK
      OBVIOUS
  <2>1. /\ top = High \/ top = High - 1
        /\ base = Low \/ base = Low + 1
        /\ Low \in 0 .. Capacity /\ High \in 0 .. Capacity
      BY DEF IndInv, Types, EndsOK, Low, High
  <2>2. lock \in 0 .. 2
      BY DEF IndInv, LockOK, LockCount
  <2> QED
      BY <2>1, <2>2 DEF IndInv, Types, EndsOK, TypeOK
<1> QED
    BY <1>1, QueueInvariance, PTL

\* The lock keeps thieves apart, and from the owner while it moves entries or
\* resets the indices (global_lock.hpp).
THEOREM QueueLock == Spec => []LockExclusive
<1>1. IndInv => LockExclusive
  <2> SUFFICES ASSUME IndInv PROVE LockExclusive
      OBVIOUS
  <2>1. Cardinality(Holders) = IF Holders = {} THEN 0 ELSE 1
    <3>1. CASE Holders = {}
        BY <3>1, FS_EmptySet
    <3>2. CASE Holders # {}
      <4>1. PICK w \in Holders : Holders = {w}
          BY <3>2 DEF IndInv, LockOK
      <4> QED
          BY <4>1, FS_Singleton
    <3> QED
        BY <3>1, <3>2
  <2> QED
      BY <2>1 DEF IndInv, LockOK, LockCount, LockExclusive
<1> QED
    BY <1>1, QueueInvariance, PTL

\* What the owner goes by is right: local_empty_ is set only while the deque is
\* empty, and frames of its stack lie above the entries put in at the bottom.
THEOREM QueueOwnerView == Spec => []OwnerView
<1>1. IndInv => OwnerView
  <2> SUFFICES ASSUME IndInv PROVE OwnerView
      OBVIOUS
  <2>1. Low \in Int /\ High \in Int
      BY DEF IndInv, Types, Low, High
  <2>2. EmptyIsEmpty
      BY <2>1 DEF IndInv, EmptyOK, EmptyIsEmpty, Deque
  <2>3. FramesOnTop
    <3> SUFFICES ASSUME NEW i \in 1 .. High - Low, NEW j \in 1 .. High - Low,
                        i < j, entries[Low + i - 1] \in frames
                 PROVE  entries[Low + j - 1] \in frames
        BY DEF FramesOnTop, Deque
    <3>1. /\ Low + i - 1 \in Low .. High - 1 /\ Low + j - 1 \in Low .. High - 1
          /\ Low + i - 1 < Low + j - 1
        BY <2>1
    <3> QED
        BY <3>1 DEF IndInv, FramesAbove
  <2> QED
      BY <2>2, <2>3 DEF OwnerView
<1> QED
    BY <1>1, QueueInvariance, PTL
==============================================================================

----------------------------- MODULE ItyrWsQueue -----------------------------
(* The distributed work-stealing queue of the Itoyori benchmark               *)
(* (src/ItoyoriFBC/include/ityr/ito/wsqueue.hpp), with the lock it uses       *)
(* (common/global_lock.hpp) and the thief that uses it (ito/sched/randws.hpp).*)
(*                                                                            *)
(* One rank owns the queue.  It pushes and pops at the top without the lock   *)
(* as long as it can; other ranks steal at the base, one at a time, holding   *)
(* the lock and reading and writing the queue by MPI RMA.  Owner and thief    *)
(* first move their index and then look at the other's.  Every load, store    *)
(* and RMA operation the other side could see is a step of its own; what the  *)
(* owner does to top, base and the entries while it holds the lock is one.    *)
(* Memory is sequentially consistent: the orders the code asks for with       *)
(* fences, release stores and ordered RMA are taken to hold.                  *)
EXTENDS Integers, FiniteSets, Sequences

CONSTANTS
    Owner,        \* the rank the queue belongs to
    Thief,        \* the ranks that steal from it
    Capacity,     \* n_entries_
    NumEntries    \* bound: how many entries are pushed in a run

ASSUME ConstantsAssumption ==
    /\ Owner \notin Thief
    /\ Capacity \in Nat \ {0}
    /\ NumEntries \in Nat

Entry == 1 .. NumEntries
NoEntry == 0
Slot == 0 .. Capacity - 1

VARIABLES
    top, base,    \* queue_state
    entries,      \* entries_win_ of the owner
    lock,         \* global_lock: 0, 1, or 2 when the owner waits for it
    localEmpty,   \* local_empty_
    pc,           \* what each worker is about to do
    t,            \* the owner's local variable t
    entry,        \* the entry it is pushing
    b,            \* per thief, its local variable b
    got,          \* the entries each worker has come to hold
    frames,       \* the entries that are frames in the owner's stack (push),
                  \* the others being evacuated (push_bottom)
    pushed        \* how many entries have been pushed, or begun to be

queue == <<top, base, entries, localEmpty>>
ownerVars == <<t, entry, pushed, frames>>
vars == <<queue, ownerVars, lock, pc, b, got>>

Worker == {Owner} \cup Thief
OwnerPc ==
    {"idle", "write", "publish",                        \* push
     "lockToMove", "waitToMove", "move", "unlockMoved", \* push, queue full
     "lockBottom", "waitBottom", "bottom", "unlock",    \* push_bottom
     "look", "restore", "lockPop", "waitPop", "slow", "decide",  \* pop
     "full"}                                            \* an exception
ThiefPc == {"idle", "advance", "compare", "retreat", "fetch", "unlock",
            "unlockThenCopy", "copy"}

Goto(w, label) == pc' = [pc EXCEPT ![w] = label]
At(w, label) == pc[w] = label

----------------------------------------------------------------------------
(* global_lock. *)

\* trylock: the compare and swap.
TryLock == lock = 0 /\ lock' = 1

\* priolock: the owner announces itself, and has the lock at once if it was
\* free; or else ...
PrioLock(waiting, holding) ==
    /\ lock' = lock + 1
    /\ Goto(Owner, IF lock = 0 THEN holding ELSE waiting)

\* Mutant of PrioLocked: waits for the lock to be free, which its own
\* announcement prevents.
PrioLockedWhenFree(holding) == TryLock /\ Goto(Owner, holding)

\* ... when its holder has released it.
PrioLocked(holding) == lock = 1 /\ Goto(Owner, holding) /\ UNCHANGED lock

Unlock == lock' = lock - 1

----------------------------------------------------------------------------
(* push. *)

\* What is to be pushed is a frame of the owner's stack.
PushBegin ==
    /\ At(Owner, "idle")
    /\ pushed < NumEntries
    /\ pushed' = pushed + 1
    /\ entry' = pushed + 1
    /\ frames' = frames \cup {pushed + 1}
    /\ t' = top
    /\ Goto(Owner, IF top = Capacity THEN "lockToMove" ELSE "write")
    /\ UNCHANGED <<queue, lock, b, got>>

PushLock ==
    /\ \/ At(Owner, "lockToMove") /\ PrioLock("waitToMove", "move")
       \/ At(Owner, "waitToMove") /\ PrioLocked("move")
    /\ UNCHANGED <<queue, ownerVars, b, got>>

\* Moved by offset, rounded towards zero in the code.
Offset == -((base + 1) \div 2)

\* move_entries; with no room it throws, and push does not release the lock.
PushMove ==
    /\ At(Owner, "move")
    /\ \/ /\ Offset = 0
          /\ Goto(Owner, "full")
          /\ UNCHANGED <<queue, t>>
       \/ /\ Offset < 0
          /\ entries' = [i \in Slot |-> IF i \in base + Offset .. top + Offset - 1
                                        THEN entries[i - Offset] ELSE entries[i]]
          /\ top' = top + Offset
          /\ base' = base + Offset
          /\ t' = t + Offset
          /\ Goto(Owner, "unlockMoved")
          /\ UNCHANGED localEmpty
    /\ UNCHANGED <<lock, entry, pushed, frames, b, got>>

PushUnlock ==
    /\ At(Owner, "unlockMoved")
    /\ Unlock
    /\ Goto(Owner, "write")
    /\ UNCHANGED <<queue, ownerVars, b, got>>

PushWrite ==
    /\ At(Owner, "write")
    /\ entries' = [entries EXCEPT ![t] = entry]
    /\ Goto(Owner, "publish")
    /\ UNCHANGED <<top, base, localEmpty, lock, ownerVars, b, got>>

PushPublish ==
    /\ At(Owner, "publish")
    /\ top' = t + 1
    /\ localEmpty' = FALSE
    /\ Goto(Owner, "idle")
    /\ UNCHANGED <<base, entries, lock, ownerVars, b, got>>

----------------------------------------------------------------------------
(* push_bottom. *)

PushBottomBegin ==
    /\ At(Owner, "idle")
    /\ pushed < NumEntries
    /\ pushed' = pushed + 1
    /\ entry' = pushed + 1
    /\ Goto(Owner, "lockBottom")
    /\ UNCHANGED <<queue, lock, t, frames, b, got>>

PushBottomLock ==
    /\ \/ At(Owner, "lockBottom") /\ PrioLock("waitBottom", "bottom")
       \/ At(Owner, "waitBottom") /\ PrioLocked("bottom")
    /\ UNCHANGED <<queue, ownerVars, b, got>>

\* Mutant of PushBottom: the entry is put on top, as push does.
PushBottomOnTop ==
    /\ At(Owner, "bottom")
    /\ top < Capacity
    /\ entries' = [entries EXCEPT ![top] = entry]
    /\ top' = top + 1
    /\ localEmpty' = FALSE
    /\ Goto(Owner, "unlock")
    /\ UNCHANGED <<base, lock, ownerVars, b, got>>

\* Put below the base; if that is 0 everything moves up by one first.
PushBottom ==
    /\ At(Owner, "bottom")
    /\ \/ /\ base > 0
          /\ entries' = [entries EXCEPT ![base - 1] = entry]
          /\ base' = base - 1
          /\ localEmpty' = FALSE
          /\ Goto(Owner, "unlock")
          /\ UNCHANGED <<top, lock>>
       \/ /\ base = 0 /\ top < Capacity
          /\ entries' = [i \in Slot |-> IF i = 0 THEN entry
                                        ELSE IF i <= top THEN entries[i - 1]
                                        ELSE entries[i]]
          /\ top' = top + 1
          /\ localEmpty' = FALSE
          /\ Goto(Owner, "unlock")
          /\ UNCHANGED <<base, lock>>
       \/ /\ base = 0 /\ top = Capacity
          /\ Unlock
          /\ Goto(Owner, "full")
          /\ UNCHANGED queue
    /\ UNCHANGED <<ownerVars, b, got>>

\* The end of push_bottom, and of pop when it has taken the lock.
OwnerUnlock ==
    /\ At(Owner, "unlock")
    /\ Unlock
    /\ Goto(Owner, "idle")
    /\ UNCHANGED <<queue, ownerVars, b, got>>

----------------------------------------------------------------------------
(* pop. *)

Take(w, e) == got' = [got EXCEPT ![w] = @ \cup {e}]

\* Unless local_empty_ says there is nothing, take one off the top ...
PopBegin ==
    /\ At(Owner, "idle")
    /\ ~localEmpty
    /\ t' = top - 1
    /\ top' = top - 1
    /\ Goto(Owner, "look")
    /\ UNCHANGED <<base, entries, localEmpty, lock, entry, pushed, frames, b, got>>

\* Mutant of InReach: the last entry is taken though a thief has got to it.
InReachPastBase(index, low) == 0 <= index /\ low <= index + 1

\* Is the entry at this index the owner's, with base at low?
InReach(index, low) == low <= index

\* ... and see whether a thief has got as far.
PopLook ==
    /\ At(Owner, "look")
    /\ \/ /\ InReach(t, base)
          /\ Take(Owner, entries[t])
          /\ Goto(Owner, "idle")
       \/ /\ ~InReach(t, base)
          /\ Goto(Owner, "restore")
          /\ UNCHANGED got
    /\ UNCHANGED <<queue, ownerVars, lock, b>>

PopRestore ==
    /\ At(Owner, "restore")
    /\ top' = t + 1
    /\ Goto(Owner, "lockPop")
    /\ UNCHANGED <<base, entries, localEmpty, lock, ownerVars, b, got>>

PopLock ==
    /\ \/ At(Owner, "lockPop") /\ PrioLock("waitPop", "slow")
       \/ At(Owner, "waitPop") /\ PrioLocked("slow")
    /\ UNCHANGED <<queue, ownerVars, b, got>>

PopSlow ==
    /\ At(Owner, "slow")
    /\ top' = t
    /\ Goto(Owner, "decide")
    /\ UNCHANGED <<base, entries, localEmpty, lock, ownerVars, b, got>>

\* Holding the lock; a queue found empty, or emptied, starts again at 0.
PopDecide ==
    /\ At(Owner, "decide")
    /\ IF base <= t THEN Take(Owner, entries[t]) ELSE UNCHANGED got
    /\ IF base < t THEN UNCHANGED queue
       ELSE /\ top' = 0 /\ base' = 0
            /\ localEmpty' = TRUE
            /\ UNCHANGED entries
    /\ Goto(Owner, "unlock")
    /\ UNCHANGED <<ownerVars, lock, b>>

----------------------------------------------------------------------------
(* scheduler_randws::steal.  Its first look, without the lock, at whether the *)
(* queue is empty is a hint: a thief may always go on, or give up.            *)

StealLock(w) ==
    /\ At(w, "idle")
    /\ TryLock
    /\ Goto(w, "advance")
    /\ UNCHANGED <<queue, ownerVars, b, got>>

\* steal_nolock: fetch-and-add on base, ...
StealAdvance(w) ==
    /\ At(w, "advance")
    /\ b' = [b EXCEPT ![w] = base]
    /\ base' = base + 1
    /\ Goto(w, "compare")
    /\ UNCHANGED <<top, entries, localEmpty, lock, ownerVars, got>>

\* ... then get the top, ...
StealCompare(w) ==
    /\ At(w, "compare")
    /\ Goto(w, IF b[w] < top THEN "fetch" ELSE "retreat")
    /\ UNCHANGED <<queue, ownerVars, lock, b, got>>

\* ... and go back, ...
StealRetreat(w) ==
    /\ At(w, "retreat")
    /\ base' = base - 1
    /\ Goto(w, "unlock")
    /\ UNCHANGED <<top, entries, localEmpty, lock, ownerVars, b, got>>

\* ... or get the entry.
StealFetch(w) ==
    /\ At(w, "fetch")
    /\ Take(w, entries[b[w]])
    /\ Goto(w, IF entries[b[w]] \in frames THEN "unlockThenCopy" ELSE "unlock")
    /\ UNCHANGED <<queue, ownerVars, lock, b>>

\* The lock is released before the frame is copied.
StealUnlock(w) ==
    /\ \/ At(w, "unlock") /\ Goto(w, "idle")
       \/ At(w, "unlockThenCopy") /\ Goto(w, "copy")
    /\ Unlock
    /\ UNCHANGED <<queue, ownerVars, b, got>>

\* direct_copy_from: the frame is in the thief's stack now.
StealCopied(w) ==
    /\ At(w, "copy")
    /\ Goto(w, "idle")
    /\ UNCHANGED <<queue, ownerVars, lock, b, got>>

----------------------------------------------------------------------------

Init ==
    /\ top = 0 /\ base = 0
    /\ entries = [i \in Slot |-> NoEntry]
    /\ lock = 0
    /\ localEmpty = FALSE
    /\ pc = [w \in Worker |-> "idle"]
    /\ t = 0
    /\ entry = NoEntry
    /\ b = [w \in Thief |-> 0]
    /\ got = [w \in Worker |-> {}]
    /\ frames = {}
    /\ pushed = 0

OwnerStep ==
    \/ PushLock \/ PushMove \/ PushUnlock \/ PushWrite \/ PushPublish
    \/ PushBottomLock \/ PushBottom \/ OwnerUnlock
    \/ PopLook \/ PopRestore \/ PopLock \/ PopSlow \/ PopDecide

OwnerBegin == PushBegin \/ PushBottomBegin \/ PopBegin

ThiefStep(w) ==
    \/ StealAdvance(w) \/ StealCompare(w) \/ StealRetreat(w)
    \/ StealFetch(w) \/ StealUnlock(w) \/ StealCopied(w)

Next ==
    \/ OwnerBegin \/ OwnerStep
    \/ \E w \in Thief : StealLock(w) \/ ThiefStep(w)

Spec == Init /\ [][Next]_vars

\* A rank that has begun an operation goes on with it: owner and thieves make
\* MPI progress while they spin, so that RMA operations complete.  Nobody has
\* to begin one.
Fairness ==
    /\ WF_vars(OwnerStep)
    /\ \A w \in Thief : WF_vars(ThiefStep(w))

FairSpec == Spec /\ Fairness

----------------------------------------------------------------------------
(* Properties. *)

TypeOK ==
    /\ top \in -1 .. Capacity
    /\ base \in 0 .. Capacity + 1
    /\ entries \in [Slot -> Entry \cup {NoEntry}]
    /\ lock \in 0 .. 2
    /\ localEmpty \in BOOLEAN
    /\ pc[Owner] \in OwnerPc /\ \A w \in Thief : pc[w] \in ThiefPc
    /\ DOMAIN pc = Worker
    /\ t \in -1 .. Capacity
    /\ entry \in Entry \cup {NoEntry}
    /\ b \in [Thief -> 0 .. Capacity]
    /\ got \in [Worker -> SUBSET Entry]
    /\ frames \subseteq Entry
    /\ pushed \in 0 .. NumEntries

OwnerHolds == pc[Owner] \in {"move", "unlockMoved", "bottom", "unlock",
                             "slow", "decide"}
OwnerWaits == pc[Owner] \in {"waitToMove", "waitBottom", "waitPop"}
Holders == {w \in Thief : pc[w] \in ThiefPc \ {"idle", "copy"}}

\* The lock keeps thieves apart, and from the owner while it moves entries or
\* resets the indices; its counter tells who is there.  (After push has thrown
\* for want of room the lock stays held, and nobody has it.)
LockExclusive ==
    /\ Cardinality(Holders) + (IF OwnerHolds THEN 1 ELSE 0) <= 1
    /\ pc[Owner] # "full" =>
          lock = Cardinality(Holders)
                   + (IF OwnerHolds \/ OwnerWaits THEN 1 ELSE 0)

\* The deque the queue stands for.  An end that has been moved but not yet
\* compared with the other is where it was.
Tentative == \E w \in Thief : pc[w] \in {"compare", "retreat"}
Low == IF Tentative THEN base - 1 ELSE base
High == IF pc[Owner] \in {"look", "restore", "decide"} THEN top + 1 ELSE top
Deque == [i \in 1 .. High - Low |-> entries[Low + i - 1]]
Taken == [w \in Worker |-> IF w \in Thief /\ pc[w] = "fetch"
                           THEN got[w] \cup {entries[b[w]]} ELSE got[w]]

D == INSTANCE WorkDeque WITH deque <- Deque, taken <- Taken

\* Every interleaving of pushes, pops and steals, the move of a full queue and
\* the reset of an empty one included, is one on a deque with atomic
\* operations: no entry is lost or taken twice, the owner gets the youngest
\* and a thief the oldest there is.
ImplementsDeque == D!Spec

\* local_empty_ is never set while there is an entry: pop would not even look,
\* and the entry would be left to a thief that may never come.
EmptyIsEmpty == localEmpty => Deque = <<>>

\* Suspended threads go in at the bottom "so they do not corrupt the stack of
\* non-evacuated tasks" (future::set): the owner never gets to one, whose
\* resumption overwrites its stack, while frames of the stack are in the queue.
FramesOnTop ==
    \A i, j \in DOMAIN Deque :
        i < j /\ Deque[i] \in frames => Deque[j] \in frames

\* What the owner of the queue goes by is right.
OwnerView == FramesOnTop /\ EmptyIsEmpty

\* An owner that waits for the lock gets it, however often thieves come back
\* for it (priolock announces itself in the counter, trylock needs it 0).
OwnerServed == OwnerWaits ~> OwnerHolds
========================================

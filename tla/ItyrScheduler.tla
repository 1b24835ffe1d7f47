---------------------------- MODULE ItyrScheduler ----------------------------
(* Threads and futures of the Itoyori benchmark: fork, suspend, evacuate,     *)
(* resume and steal (ito/sched/randws.hpp), set and wait on futures           *)
(* (ito/future.hpp, ito/futurepool.hpp), and the end of a root_exec.          *)
(*                                                                            *)
(* A worker runs one thread, or is in its scheduling loop.  A fork puts the   *)
(* parent's frame into the worker's queue and runs the child; a thread that   *)
(* waits is evacuated from the stack and hung into the list of a future.  The *)
(* list is a stack of nodes in RMA memory, pushed and emptied by compare and  *)
(* swap, and every access to a future that another worker could see is a step *)
(* of its own.  The queue's operations are single steps, as WorkDeque says    *)
(* and ItyrWsQueue implements; it is never full.                              *)
EXTENDS Integers, Sequences, SequencesExt

CONSTANTS
    NumWorkers,
    Thread,
    Root,
    NoThread,
    Programs      \* what the threads of a root_exec may do (see ForkJoin)

ASSUME ConstantsAssumption ==
    /\ NumWorkers \in Nat \ {0}
    /\ IsFiniteSet(Thread)
    /\ Root \in Thread
    /\ NoThread \notin Thread

ForkOp == [kind : {"fork"}, child : Thread]
WaitOp == [kind : {"wait"}, futures : Seq(Thread)]

Forks(p, t, i) == i \in DOMAIN p[t] /\ p[t][i].kind = "fork"

\* A fork makes a thread, and its future, that was not there before.
ASSUME ProgramsAssumption ==
    \A p \in Programs :
        /\ p \in [Thread -> Seq(ForkOp \cup WaitOp)]
        /\ \A t, u \in Thread : \A i \in DOMAIN p[t], j \in DOMAIN p[u] :
              Forks(p, t, i) =>
                  /\ p[t][i].child # Root
                  /\ Forks(p, u, j) /\ p[t][i].child = p[u][j].child => t = u /\ i = j

Worker == 0 .. NumWorkers - 1
Addr == 0 .. Cardinality(Thread) - 1

VARIABLES
    prog,      \* the program under way
    started, ip, addr,  \* per thread: forked, its next step, its frame_base
    done,      \* entry::done of each thread's future
    next,      \* entry::next, the list of the suspended
    popped,    \* the futures whose next is -1
    queue,     \* the worker's wsqueue, oldest entry first
    stack,     \* whose frame is at an address of the worker's stack
    cur,       \* the thread whose code the worker executes
    pc,        \* what the worker is about to do
    ses,       \* the suspended states in the worker's hands
    scan,      \* which of the futures waited for it is looking at
    seen,      \* the list it has read and compares with
    victim,    \* from whose stack it copies
    mailbox    \* exit_request_mailbox_: arrived

threads == <<started, ip, addr>>
futures == <<done, next, popped>>
local == <<cur, pc, ses, scan, seen, victim>>
vars == <<prog, threads, futures, queue, stack, local, mailbox>>

Goto(w, label) == pc' = [pc EXCEPT ![w] = label]
At(w, label) == pc[w] = label

Op(t) == prog[t][ip[t]]
IsOp(t, kind) == ip[t] <= Len(prog[t]) /\ Op(t).kind = kind

\* thread::start has come to its end: the value is to be set.
Ended(t) == ip[t] > Len(prog[t])

\* The futures the suspended thread t waits for (waitall_entries).
Awaited(t) == Op(t).futures

\* Mutant of IsMulti: a wait_all is resumed by the first future that is set.
IsMultiNever(t) == FALSE

\* waitall_handoff is set.
IsMulti(t) == Len(Awaited(t)) > 1

\* Does worker w handle the waiters of a future it has set, or is it about to
\* suspend its own thread?
Setting(w) == done[cur[w]]

----------------------------------------------------------------------------
(* Frames. *)

\* Thread t continues on w: its frame is at a, and it may use all that lies
\* beyond.
Enter(w, t, a) ==
    stack' = [stack EXCEPT ![w] = [b \in Addr |->
                  IF b < a THEN @[b] ELSE IF b = a THEN t ELSE NoThread]]

Run(w, t) ==
    /\ cur' = [cur EXCEPT ![w] = t]
    /\ Goto(w, "run")

\* fork: the parent's frame is pushed, the child runs at once.
Fork(w) ==
    LET t == cur[w]
        new == Op(t).child
    IN  /\ At(w, "run") /\ IsOp(t, "fork")
        /\ queue' = [queue EXCEPT ![w] = Append(@, [thread |-> t, evacuated |-> FALSE])]
        /\ ip' = [ip EXCEPT ![t] = @ + 1]
        /\ started' = started \cup {new}
        /\ addr' = [addr EXCEPT ![new] = addr[t] + 1]
        /\ Enter(w, new, addr[t] + 1)
        /\ Run(w, new)
        /\ UNCHANGED <<prog, futures, ses, scan, seen, victim, mailbox>>

\* Mutant of Youngest: the owner takes what thieves take.
Oldest(q) == 1

\* The end at which the owner pops.
Youngest(q) == Len(q)

\* continue_computation: the youngest entry of the own queue, or the
\* scheduling loop.
ContinueComputation(w) ==
    /\ At(w, "next")
    /\ IF queue[w] = <<>>
       THEN Goto(w, "loop") /\ UNCHANGED <<queue, stack, cur>>
       ELSE LET k == Youngest(queue[w])
                e == queue[w][k]
            IN  /\ queue' = [queue EXCEPT ![w] = RemoveAt(@, k)]
                /\ Enter(w, e.thread, addr[e.thread])
                /\ Run(w, e.thread)
    /\ UNCHANGED <<prog, threads, futures, ses, scan, seen, victim, mailbox>>

\* A thief takes the oldest entry.  An evacuated thread is where every worker
\* can get it, a frame is in the victim's stack.
Steal(w) ==
    \E v \in Worker \ {w} :
        /\ At(w, "loop")
        /\ queue[v] # <<>>
        /\ LET e == Head(queue[v])
           IN  IF e.evacuated
               THEN /\ Enter(w, e.thread, addr[e.thread])
                    /\ Run(w, e.thread)
                    /\ UNCHANGED victim
               ELSE /\ cur' = [cur EXCEPT ![w] = e.thread]
                    /\ victim' = [victim EXCEPT ![w] = v]
                    /\ Goto(w, "copy")
                    /\ UNCHANGED stack
        /\ queue' = [queue EXCEPT ![v] = Tail(@)]
        /\ UNCHANGED <<prog, threads, futures, ses, scan, seen, mailbox>>

\* direct_copy_from is over.
Copied(w) ==
    /\ At(w, "copy")
    /\ Enter(w, cur[w], addr[cur[w]])
    /\ Run(w, cur[w])
    /\ victim' = [victim EXCEPT ![w] = w]
    /\ UNCHANGED <<prog, threads, futures, queue, ses, scan, seen, mailbox>>

----------------------------------------------------------------------------
(* Waiting: wait, get and wait_all. *)

\* is_ready, of each of them.
Ready(t) == \A k \in 1 .. Len(Awaited(t)) : done[Awaited(t)[k]]

\* There is nothing to wait for ...
NoWait(w) ==
    LET t == cur[w]
    IN  /\ At(w, "run") /\ IsOp(t, "wait") /\ Ready(t)
        /\ ip' = [ip EXCEPT ![t] = @ + 1]
        /\ UNCHANGED <<prog, started, addr, futures, queue, stack, local, mailbox>>

\* ... or the thread is evacuated.
Suspend(w) ==
    LET t == cur[w]
    IN  /\ At(w, "run") /\ IsOp(t, "wait") /\ ~Ready(t)
        /\ ses' = [ses EXCEPT ![w] = <<t>>]
        /\ scan' = [scan EXCEPT ![w] = 1]
        /\ Goto(w, "check")
        /\ UNCHANGED <<prog, threads, futures, queue, stack, cur, seen, victim, mailbox>>

\* The state in hand is to be hung into the list of ...
Waiter(w) == Head(ses[w])
Future(w) == Awaited(Waiter(w))[scan[w]]

\* ... the first future that is not done (future_join_suspended,
\* waitall_check_and_push).
Check(w) ==
    /\ At(w, "check") /\ scan[w] <= Len(Awaited(Waiter(w)))
    /\ IF done[Future(w)]
       THEN scan' = [scan EXCEPT ![w] = @ + 1] /\ UNCHANGED pc
       ELSE Goto(w, "link") /\ UNCHANGED scan
    /\ UNCHANGED <<prog, threads, futures, queue, stack, cur, ses, seen, victim, mailbox>>

\* The next waiter of the future that was set, or something else to do.
HandleNext(w) ==
    LET rest == Tail(ses[w])
    IN  /\ ses' = [ses EXCEPT ![w] = rest]
        /\ scan' = [scan EXCEPT ![w] = 1]
        /\ Goto(w, IF rest = <<>> THEN "next" ELSE IF IsMulti(Head(rest)) THEN "check" ELSE "resume")

\* push_suspended_state: too late for this future, look at the others.
TooLate(w) ==
    /\ scan' = [scan EXCEPT ![w] = @ + 1]
    /\ Goto(w, "check")

\* The list is read ...
Link(w) ==
    /\ At(w, "link")
    /\ IF Future(w) \in popped
       THEN TooLate(w) /\ UNCHANGED seen
       ELSE /\ seen' = [seen EXCEPT ![w] = next[Future(w)]]
            /\ Goto(w, "swap")
            /\ UNCHANGED scan
    /\ UNCHANGED <<prog, threads, futures, queue, stack, cur, ses, victim, mailbox>>

\* The compare of the compare and swap.
MayPush(f, list) == f \notin popped /\ next[f] = list

\* ... and the node linked in, if the list still is what was read.
Swap(w) ==
    LET f == Future(w)
    IN  /\ At(w, "swap")
        /\ IF MayPush(f, seen[w])
           THEN /\ next' = [next EXCEPT ![f] = <<Waiter(w)>> \o seen[w]]
                /\ HandleNext(w)
                /\ UNCHANGED seen
           ELSE /\ IF f \in popped
                   THEN TooLate(w) /\ UNCHANGED seen
                   ELSE seen' = [seen EXCEPT ![w] = next[f]] /\ UNCHANGED <<pc, scan>>
                /\ UNCHANGED <<next, ses>>
        /\ UNCHANGED <<prog, threads, done, popped, queue, stack, cur, victim, mailbox>>

\* No future left to wait for: the worker resumes the thread it was about to
\* suspend, or puts the waiter at the bottom of its queue.
AllReady(w) == At(w, "check") /\ scan[w] > Len(Awaited(Waiter(w)))

ResumeSelf(w) ==
    LET t == cur[w]
    IN  /\ AllReady(w) /\ ~Setting(w)
        /\ ip' = [ip EXCEPT ![t] = @ + 1]
        /\ Enter(w, t, addr[t])
        /\ Run(w, t)
        /\ ses' = [ses EXCEPT ![w] = <<>>]
        /\ UNCHANGED <<prog, started, addr, futures, queue, scan, seen, victim, mailbox>>

ResumeWaiter(w) ==
    LET t == Waiter(w)
    IN  /\ Setting(w) /\ (AllReady(w) \/ At(w, "resume"))
        /\ ip' = [ip EXCEPT ![t] = @ + 1]
        /\ queue' = [queue EXCEPT ![w] = <<[thread |-> t, evacuated |-> TRUE]>> \o @]
        /\ HandleNext(w)
        /\ UNCHANGED <<prog, started, addr, futures, stack, cur, seen, victim, mailbox>>

----------------------------------------------------------------------------
(* set: the end of a thread. *)

\* fill: done is published last.
Fill(w) ==
    LET t == cur[w]
    IN  /\ At(w, "run") /\ Ended(t) /\ t # Root
        /\ done' = [done EXCEPT ![t] = TRUE]
        /\ Goto(w, "pop")
        /\ UNCHANGED <<prog, threads, next, popped, queue, stack, cur, ses, scan, seen, victim, mailbox>>

\* pop_suspended_states: the list is read ...
Pop(w) ==
    /\ At(w, "pop")
    /\ seen' = [seen EXCEPT ![w] = next[cur[w]]]
    /\ Goto(w, "close")
    /\ UNCHANGED <<prog, threads, futures, queue, stack, cur, ses, scan, victim, mailbox>>

\* Mutant of MayClose: whoever was hung in since the list was read is lost.
MayCloseAlways(f, list) == TRUE

MayClose(f, list) == next[f] = list

\* ... and swapped for -1; then each waiter is looked after.
Close(w) ==
    LET f == cur[w]
    IN  /\ At(w, "close")
        /\ IF MayClose(f, seen[w])
           THEN /\ popped' = popped \cup {f}
                /\ next' = [next EXCEPT ![f] = <<>>]
                /\ ses' = [ses EXCEPT ![w] = seen[w]]
                /\ scan' = [scan EXCEPT ![w] = 1]
                /\ Goto(w, IF seen[w] = <<>> THEN "next"
                           ELSE IF IsMulti(Head(seen[w])) THEN "check" ELSE "resume")
                /\ UNCHANGED seen
           ELSE /\ seen' = [seen EXCEPT ![w] = next[f]]
                /\ UNCHANGED <<popped, next, ses, scan, pc>>
        /\ UNCHANGED <<prog, threads, done, queue, stack, cur, victim, mailbox>>

----------------------------------------------------------------------------
(* root_exec. *)

\* oneslot_mailbox::put: the ranks in R are asked to leave.
Put(box, R) == [r \in Worker |-> IF r \in R THEN box[r] + 1 ELSE box[r]]

\* The root thread puts its value and asks rank 0 to leave the loop.
RootDies(w) ==
    /\ At(w, "run") /\ cur[w] = Root /\ Ended(Root)
    /\ done' = [done EXCEPT ![Root] = TRUE]
    /\ mailbox' = Put(mailbox, {0})
    /\ Goto(w, "loop")
    /\ UNCHANGED <<prog, threads, next, popped, queue, stack, cur, ses, scan, seen, victim>>

\* No odd number but 1 divides i.
PowerOfTwo(i) == \A d \in 2 .. i : i % d = 0 => d % 2 = 0

\* Mutant of Strides: the number of ranks is not rounded up.
StridesInRange == {i \in 2 .. NumWorkers : PowerOfTwo(i)}

\* The powers of two up to next_pow2(n_ranks).
Strides == {i \in 2 .. 2 * NumWorkers - 1 : PowerOfTwo(i)}

\* Mutant of ExitTargets: every rank sends at every stride.
ExitTargetsAll(w) == {w + i \div 2 : i \in Strides} \cap Worker

\* Whom worker w passes the request on to.
ExitTargets(w) == {w + i \div 2 : i \in {j \in Strides : w % j = 0}} \cap Worker

ShouldExit(w) ==
    /\ At(w, "loop") /\ mailbox[w] > 0
    /\ mailbox' = Put([mailbox EXCEPT ![w] = 0], ExitTargets(w))
    /\ Goto(w, "left")
    /\ UNCHANGED <<prog, threads, futures, queue, stack, cur, ses, scan, seen, victim>>

\* After the barrier rank 0 executes the next root, with new futures.
RootExec ==
    /\ \A w \in Worker : At(w, "left")
    /\ started' = {Root}
    /\ ip' = [t \in Thread |-> 1]
    /\ addr' = [t \in Thread |-> 0]
    /\ done' = [t \in Thread |-> FALSE]
    /\ next' = [t \in Thread |-> <<>>]
    /\ popped' = {}
    /\ cur' = [w \in Worker |-> Root]
    /\ pc' = [w \in Worker |-> IF w = 0 THEN "run" ELSE "loop"]
    /\ stack' = [w \in Worker |-> [a \in Addr |-> IF w = 0 /\ a = 0 THEN Root ELSE NoThread]]
    /\ scan' = [w \in Worker |-> 1]
    /\ seen' = [w \in Worker |-> <<>>]
    /\ UNCHANGED <<prog, queue, ses, victim, mailbox>>

Init ==
    /\ prog \in Programs
    /\ started = {Root}
    /\ ip = [t \in Thread |-> 1]
    /\ addr = [t \in Thread |-> 0]
    /\ done = [t \in Thread |-> FALSE]
    /\ next = [t \in Thread |-> <<>>]
    /\ popped = {}
    /\ queue = [w \in Worker |-> <<>>]
    /\ stack = [w \in Worker |-> [a \in Addr |-> IF w = 0 /\ a = 0 THEN Root ELSE NoThread]]
    /\ cur = [w \in Worker |-> Root]
    /\ pc = [w \in Worker |-> IF w = 0 THEN "run" ELSE "loop"]
    /\ ses = [w \in Worker |-> <<>>]
    /\ scan = [w \in Worker |-> 1]
    /\ seen = [w \in Worker |-> <<>>]
    /\ victim = [w \in Worker |-> w]
    /\ mailbox = [w \in Worker |-> 0]

\* What a worker does of its own accord.
Work(w) ==
    \/ Fork(w) \/ ContinueComputation(w) \/ Copied(w)
    \/ NoWait(w) \/ Suspend(w) \/ Check(w) \/ Link(w) \/ Swap(w) \/ ResumeSelf(w) \/ ResumeWaiter(w)
    \/ Fill(w) \/ Pop(w) \/ Close(w)
    \/ RootDies(w) \/ ShouldExit(w)

Next ==
    \/ \E w \in Worker : Work(w) \/ Steal(w)
    \/ RootExec

Spec == Init /\ [][Next]_vars

\* Every rank's process runs; whether a thief meets a victim is chance.
FairSpec == Spec /\ WF_vars(RootExec) /\ \A w \in Worker : WF_vars(Work(w))
----------------------------------------------------------------------------
(* Properties. *)

Label == {"run", "next", "loop", "copy", "check", "link", "swap", "resume", "pop", "close", "left"}

TypeOK ==
    /\ prog \in Programs
    /\ started \subseteq Thread /\ ip \in [Thread -> Nat] /\ addr \in [Thread -> Addr]
    /\ done \in [Thread -> BOOLEAN] /\ popped \subseteq Thread
    /\ next \in [Thread -> Seq(Thread)]
    /\ queue \in [Worker -> Seq([thread : Thread, evacuated : BOOLEAN])]
    /\ stack \in [Worker -> [Addr -> Thread \cup {NoThread}]]
    /\ cur \in [Worker -> Thread] /\ victim \in [Worker -> Worker]
    /\ pc \in [Worker -> Label]
    /\ ses \in [Worker -> Seq(Thread)] /\ seen \in [Worker -> Seq(Thread)]
    /\ scan \in [Worker -> Nat] /\ mailbox \in [Worker -> Nat]

\* The places a thread can be in: executed (or brought in) by a worker, in its
\* hands as a waiter or about to be one, in its queue, in a future's list.
Executing(t) == {w \in Worker : cur[w] = t /\ pc[w] \in {"run", "copy"}}
Handling(t) == {w \in Worker : t \in Range(ses[w])}

ThreadsOf(q) == [k \in DOMAIN q |-> q[k].thread]
Queuing(t) == {w \in Worker : t \in Range(ThreadsOf(queue[w]))}
Listing(t) == {f \in Thread : t \in Range(next[f])}

Places(t) ==
    ({"worker"} \X Executing(t)) \cup ({"hands"} \X Handling(t))
    \cup ({"queue"} \X Queuing(t)) \cup ({"list"} \X Listing(t))

Live(t) == t \in started /\ ~done[t]

\* A thread that has been forked and has not finished is in exactly one place,
\* and there once: no race between a future's list, its producer's hands and
\* the queues loses a suspended thread or resumes it twice (future.hpp:198,
\* :373).
ThreadsInOnePlace ==
    /\ \A t \in Thread :
          IF Live(t) THEN \E p \in Places(t) : Places(t) = {p} ELSE Places(t) = {}
    /\ \A w \in Worker : IsInjective(ses[w]) /\ IsInjective(ThreadsOf(queue[w]))
    /\ \A f \in Thread : IsInjective(next[f])

\* The frame of every entry that was not evacuated is whole in the stack of the
\* worker in whose queue it is: no thread that is run, brought in or resumed
\* meanwhile writes over it (future.hpp:115).
QueuedFramesIntact ==
    \A w \in Worker : \A k \in 1 .. Len(queue[w]) :
        LET e == queue[w][k]
        IN  ~e.evacuated => stack[w][addr[e.thread]] = e.thread

\* A request to exit never finds the mailbox taken (the ITYR_CHECK in
\* sched/util.hpp:137), and when all ranks have left the loop nothing
\* is left behind that the next root_exec would come upon.
CleanExit ==
    /\ \A w \in Worker : mailbox[w] <= 1
    /\ (\A w \in Worker : At(w, "left")) =>
            /\ \A w \in Worker : mailbox[w] = 0 /\ queue[w] = <<>>
            /\ \A t \in started : done[t]

\* What a program sees is threads that do their steps once and in order, and
\* waits that end when everything waited for is done.
FJ == INSTANCE ForkJoin WITH finished <- {t \in Thread : done[t]}
ImplementsForkJoin == FJ!Spec

\* What a program must be like for its root to be the last to end: threads that
\* contain the root and, with a thread, what it waits for contain all that they
\* fork.  In the application who spawns a thread waits for it
\* (barneshut_ityr.cpp:301-303, :1551-1553).
Joined(p) ==
    \A S \in SUBSET Thread :
        /\ Root \in S
        /\ \A t \in S : \A i \in DOMAIN p[t] :
               p[t][i].kind = "wait" => Range(p[t][i].futures) \subseteq S
        => \A t \in S : \A i \in DOMAIN p[t] : Forks(p, t, i) => p[t][i].child \in S

\* Every root_exec ends on every rank: a thread that waits is not forgotten,
\* and the request to exit reaches everybody.
RootsEnd == []<>(\A w \in Worker : At(w, "left"))

\* steal: "Release the queue lock BEFORE the frame copy" (randws.hpp:149): what
\* a thief copies is the frame it has taken.
CopiesIntact ==
    \A w \in Worker : At(w, "copy") => stack[victim[w]][addr[cur[w]]] = cur[w]
============================================================================

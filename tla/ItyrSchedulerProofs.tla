-------------------------- MODULE ItyrSchedulerProofs --------------------------
(* Proofs about ItyrScheduler, for every number of workers, every finite set  *)
(* of threads and every set of programs in which the root is the last to end: *)
(* no thread is lost or run twice, the frames in the queues are whole, every  *)
(* root_exec ends clean, and what programs see is ForkJoin.                   *)
EXTENDS ItyrScheduler, WellFoundedInduction, FiniteSetTheorems, SequenceTheorems, TLAPS

----------------------------------------------------------------------------
(* Lists without repetitions. *)

\* What is in a sequence, and where.
LEMMA RangeIs ==
    ASSUME NEW S, NEW s \in Seq(S)
    PROVE  /\ DOMAIN s = 1 .. Len(s) /\ Len(s) \in Nat
           /\ Range(s) \subseteq S
           /\ \A x : x \in Range(s) <=> \E k \in 1 .. Len(s) : s[k] = x
           /\ s # <<>> => Head(s) = s[1] /\ Head(s) \in Range(s) /\ Len(s) > 0
           /\ s = <<>> <=> Range(s) = {}
  <1>1. DOMAIN s = 1 .. Len(s) /\ Len(s) \in Nat
    OBVIOUS
  <1>2. \A x : x \in Range(s) <=> \E k \in 1 .. Len(s) : s[k] = x
    BY <1>1 DEF Range
  <1>3. \A k \in 1 .. Len(s) : s[k] \in S
    OBVIOUS
  <1>4. s # <<>> => Head(s) = s[1] /\ Len(s) > 0
    OBVIOUS
  <1>5. s # <<>> => Head(s) \in Range(s)
    BY <1>1, <1>2, <1>4
  <1>6. s = <<>> => Range(s) = {}
    BY <1>2
  <1> QED
    BY <1>1, <1>2, <1>3, <1>4, <1>5, <1>6

\* A list of one.
LEMMA Single ==
    ASSUME NEW S, NEW x \in S
    PROVE  \E s \in Seq(S) : s = <<x>> /\ s # <<>> /\ Head(s) = x /\ Range(s) = {x} /\ IsInjective(s)
  <1>1. PICK s \in Seq(S) : s = <<x>> /\ s # <<>> /\ Head(s) = x /\ Len(s) = 1 /\ s[1] = x
    <2>1. <<x>> \in Seq(S) /\ <<x>> # <<>> /\ Head(<<x>>) = x /\ Len(<<x>>) = 1 /\ <<x>>[1] = x
      OBVIOUS
    <2> QED
      BY <2>1
  <1>2. DOMAIN s = 1 .. 1 /\ \A k \in 1 .. 1 : k = 1
    BY <1>1
  <1>3. \A y : y \in Range(s) <=> y = x
    <2>1. \A y : y \in Range(s) <=> \E k \in 1 .. 1 : s[k] = y
      BY <1>2 DEF Range
    <2>2. 1 \in 1 .. 1
      OBVIOUS
    <2> QED
      BY <1>1, <1>2, <2>1, <2>2
  <1>4. Range(s) = {x}
    BY <1>3
  <1>5. IsInjective(s)
    BY <1>2 DEF IsInjective
  <1> QED
    BY <1>1, <1>4, <1>5

\* A list loses its first element.
LEMMA TailOnce ==
    ASSUME NEW S, NEW s \in Seq(S), s # <<>>, IsInjective(s)
    PROVE  /\ Tail(s) \in Seq(S) /\ IsInjective(Tail(s))
           /\ Range(Tail(s)) = Range(s) \ {Head(s)}
  <1> DEFINE r == Tail(s)
  <1>1. r \in Seq(S) /\ Len(r) = Len(s) - 1 /\ \A k \in 1 .. Len(r) : r[k] = s[k + 1]
    OBVIOUS
  <1>2. \A i, j \in 1 .. Len(s) : s[i] = s[j] => i = j
    BY DEF IsInjective
  <1>3. Head(s) = s[1] /\ Len(s) \in Nat /\ Len(s) > 0
    BY RangeIs
  <1>4. IsInjective(r)
    <2> SUFFICES ASSUME NEW i \in 1 .. Len(r), NEW j \in 1 .. Len(r), r[i] = r[j]
                 PROVE  i = j
      BY <1>1 DEF IsInjective
    <2>1. i + 1 \in 1 .. Len(s) /\ j + 1 \in 1 .. Len(s) /\ s[i + 1] = s[j + 1]
      BY <1>1, <1>3
    <2> QED
      BY <1>2, <2>1
  <1>5. Range(r) = Range(s) \ {Head(s)}
    <2>1. ASSUME NEW x \in Range(r) PROVE x \in Range(s) /\ x # Head(s)
      <3>1. PICK k \in 1 .. Len(r) : r[k] = x
        BY <1>1, RangeIs
      <3>2. k + 1 \in 1 .. Len(s) /\ s[k + 1] = x /\ k + 1 # 1
        BY <1>1, <1>3, <3>1
      <3>3. x \in Range(s)
        BY <3>2, RangeIs
      <3>4. 1 \in 1 .. Len(s)
        BY <1>3
      <3> QED
        BY <1>2, <1>3, <3>2, <3>3, <3>4
    <2>2. ASSUME NEW x \in Range(s), x # Head(s) PROVE x \in Range(r)
      <3>1. PICK k \in 1 .. Len(s) : s[k] = x
        BY RangeIs
      <3>2. k # 1
        BY <1>3, <2>2, <3>1
      <3>3. k - 1 \in 1 .. Len(r) /\ r[k - 1] = x
        BY <1>1, <1>3, <3>1, <3>2
      <3>4. \E i \in 1 .. Len(r) : r[i] = x
        BY <3>3
      <3> QED
        BY <1>1, <3>4, RangeIs
    <2> QED
      BY <2>1, <2>2
  <1> QED
    BY <1>1, <1>4, <1>5

\* A list gets a new element in front ...
LEMMA PushedOnce ==
    ASSUME NEW S, NEW s \in Seq(S), NEW x \in S, IsInjective(s), x \notin Range(s)
    PROVE  /\ <<x>> \o s \in Seq(S) /\ IsInjective(<<x>> \o s)
           /\ Range(<<x>> \o s) = Range(s) \cup {x}
  <1> DEFINE r == <<x>> \o s
  <1>1. r \in Seq(S) /\ Len(r) = Len(s) + 1 /\ r[1] = x
    OBVIOUS
  <1>2. \A k \in 1 .. Len(s) : r[k + 1] = s[k]
    OBVIOUS
  <1>3. Len(s) \in Nat
    OBVIOUS
  <1>4. \A k \in 1 .. Len(r) : k = 1 \/ (k - 1 \in 1 .. Len(s) /\ r[k] = s[k - 1])
    <2> SUFFICES ASSUME NEW k \in 1 .. Len(r), k # 1
                 PROVE  k - 1 \in 1 .. Len(s) /\ r[k] = s[k - 1]
      OBVIOUS
    <2>1. k - 1 \in 1 .. Len(s) /\ (k - 1) + 1 = k
      BY <1>1, <1>3
    <2> QED
      BY <1>2, <2>1
  <1> HIDE DEF r
  <1>5. \A k \in 1 .. Len(s) : s[k] \in Range(s)
    BY RangeIs
  <1>6. IsInjective(r)
    <2> SUFFICES ASSUME NEW i \in 1 .. Len(r), NEW j \in 1 .. Len(r), r[i] = r[j]
                 PROVE  i = j
      BY <1>1 DEF IsInjective
    <2>1. \A k \in 1 .. Len(r) : k # 1 => r[k] # x
      BY <1>4, <1>5
    <2>2. CASE i = 1 \/ j = 1
      BY <1>1, <2>1, <2>2
    <2>3. CASE i # 1 /\ j # 1
      <3>1. s[i - 1] = s[j - 1] /\ i - 1 \in 1 .. Len(s) /\ j - 1 \in 1 .. Len(s)
        BY <1>4, <2>3
      <3>2. i - 1 = j - 1
        BY <3>1 DEF IsInjective
      <3> QED
        BY <3>2
    <2> QED
      BY <2>2, <2>3
  <1>7. Range(r) = Range(s) \cup {x}
    <2>1. ASSUME NEW y \in Range(r) PROVE y \in Range(s) \cup {x}
      <3>1. PICK k \in 1 .. Len(r) : r[k] = y
        BY <1>1, RangeIs
      <3> QED
        BY <1>1, <1>4, <1>5, <3>1
    <2>2. x \in Range(r)
      <3>1. 1 \in 1 .. Len(r)
        BY <1>1, <1>3
      <3> QED
        BY <1>1, <3>1, RangeIs
    <2>3. ASSUME NEW y \in Range(s) PROVE y \in Range(r)
      <3>1. PICK k \in 1 .. Len(s) : s[k] = y
        BY RangeIs
      <3>2. k + 1 \in 1 .. Len(r) /\ r[k + 1] = y
        BY <1>1, <1>2, <1>3, <3>1
      <3> QED
        BY <1>1, <3>2, RangeIs
    <2> QED
      BY <2>1, <2>2, <2>3
  <1> QED
    BY <1>1, <1>6, <1>7 DEF r

\* ... or behind.
LEMMA AppendedOnce ==
    ASSUME NEW S, NEW s \in Seq(S), NEW x \in S, IsInjective(s), x \notin Range(s)
    PROVE  /\ Append(s, x) \in Seq(S) /\ IsInjective(Append(s, x))
           /\ Range(Append(s, x)) = Range(s) \cup {x}
  <1> DEFINE r == Append(s, x)
  <1>1. r \in Seq(S) /\ Len(r) = Len(s) + 1 /\ r[Len(r)] = x
    OBVIOUS
  <1>2. \A k \in 1 .. Len(s) : r[k] = s[k]
    OBVIOUS
  <1>3. Len(s) \in Nat
    OBVIOUS
  <1> HIDE DEF r
  <1>4. \A k \in 1 .. Len(r) : k = Len(r) \/ (k \in 1 .. Len(s) /\ r[k] = s[k])
    BY <1>1, <1>2, <1>3
  <1>5. \A k \in 1 .. Len(s) : s[k] \in Range(s)
    BY RangeIs
  <1>6. IsInjective(r)
    <2> SUFFICES ASSUME NEW i \in 1 .. Len(r), NEW j \in 1 .. Len(r), r[i] = r[j]
                 PROVE  i = j
      BY <1>1 DEF IsInjective
    <2>1. \A k \in 1 .. Len(r) : k # Len(r) => r[k] # x
      BY <1>4, <1>5
    <2>2. CASE i = Len(r) \/ j = Len(r)
      BY <1>1, <2>1, <2>2
    <2>3. CASE i # Len(r) /\ j # Len(r)
      BY <1>4, <2>3 DEF IsInjective
    <2> QED
      BY <2>2, <2>3
  <1>7. Range(r) = Range(s) \cup {x}
    <2>1. ASSUME NEW y \in Range(r) PROVE y \in Range(s) \cup {x}
      <3>1. PICK k \in 1 .. Len(r) : r[k] = y
        BY <1>1, RangeIs
      <3> QED
        BY <1>1, <1>4, <1>5, <3>1
    <2>2. x \in Range(r)
      <3>1. Len(r) \in 1 .. Len(r)
        BY <1>1, <1>3
      <3> QED
        BY <1>1, <3>1, RangeIs
    <2>3. ASSUME NEW y \in Range(s) PROVE y \in Range(r)
      <3>1. PICK k \in 1 .. Len(s) : s[k] = y
        BY RangeIs
      <3>2. k \in 1 .. Len(r) /\ r[k] = y
        BY <1>1, <1>2, <1>3, <3>1
      <3> QED
        BY <1>1, <3>2, RangeIs
    <2> QED
      BY <2>1, <2>2, <2>3
  <1> QED
    BY <1>1, <1>6, <1>7 DEF r

\* What is left of a list without its last element, which s[Len(s)] is.
LEMMA FrontOnce ==
    ASSUME NEW S, NEW s \in Seq(S), s # <<>>, IsInjective(s),
           NEW r \in Seq(S), Len(r) = Len(s) - 1, \A k \in 1 .. Len(r) : r[k] = s[k]
    PROVE  /\ IsInjective(r) /\ s[Len(s)] \in Range(s)
           /\ Range(r) = Range(s) \ {s[Len(s)]}
  <1>1. Len(s) \in Nat /\ Len(s) > 0
    BY RangeIs
  <1>2. Len(s) \in 1 .. Len(s) /\ \A k \in 1 .. Len(r) : k \in 1 .. Len(s) /\ k # Len(s)
    BY <1>1
  <1>3. \A i, j \in 1 .. Len(s) : s[i] = s[j] => i = j
    BY DEF IsInjective
  <1>4. IsInjective(r)
    <2> SUFFICES ASSUME NEW i \in 1 .. Len(r), NEW j \in 1 .. Len(r), r[i] = r[j]
                 PROVE  i = j
      BY DEF IsInjective
    <2>1. i \in 1 .. Len(s) /\ j \in 1 .. Len(s) /\ s[i] = s[j]
      BY <1>2
    <2> QED
      BY <1>3, <2>1
  <1>5. s[Len(s)] \in Range(s)
    BY <1>2, RangeIs
  <1>6. ASSUME NEW x \in Range(r) PROVE x \in Range(s) /\ x # s[Len(s)]
    <2>1. PICK k \in 1 .. Len(r) : r[k] = x
      BY RangeIs
    <2>2. k \in 1 .. Len(s) /\ s[k] = x /\ k # Len(s)
      BY <1>2, <2>1
    <2>3. x \in Range(s)
      BY <2>2, RangeIs
    <2> QED
      BY <1>2, <1>3, <2>2, <2>3
  <1>7. ASSUME NEW x \in Range(s), x # s[Len(s)] PROVE x \in Range(r)
    <2>1. PICK k \in 1 .. Len(s) : s[k] = x
      BY RangeIs
    <2>2. k \in 1 .. Len(r) /\ r[k] = x
      BY <1>1, <1>7, <2>1
    <2>3. \E i \in 1 .. Len(r) : r[i] = x
      BY <2>2
    <2> QED
      BY <2>3, RangeIs
  <1> QED
    BY <1>4, <1>5, <1>6, <1>7

----------------------------------------------------------------------------
(* Queues. *)

Entry == [thread : Thread, evacuated : BOOLEAN]

\* The threads of a queue, one for each entry.
LEMMA ThreadsOfQueue ==
    ASSUME NEW q \in Seq(Entry)
    PROVE  /\ ThreadsOf(q) \in Seq(Thread) /\ Len(ThreadsOf(q)) = Len(q)
           /\ \A k \in 1 .. Len(q) : ThreadsOf(q)[k] = q[k].thread /\ q[k] \in Entry
           /\ ThreadsOf(q) = <<>> <=> q = <<>>
  <1>1. Len(q) \in Nat /\ DOMAIN q = 1 .. Len(q) /\ \A k \in 1 .. Len(q) : q[k] \in Entry
    OBVIOUS
  <1>2. ThreadsOf(q) = [k \in 1 .. Len(q) |-> q[k].thread]
    BY <1>1 DEF ThreadsOf
  <1>3. \A k \in 1 .. Len(q) : q[k].thread \in Thread
    BY <1>1 DEF Entry
  <1>4. [k \in 1 .. Len(q) |-> q[k].thread] \in Seq(Thread)
    BY <1>1, <1>3
  <1>5. Len([k \in 1 .. Len(q) |-> q[k].thread]) = Len(q)
    BY <1>1
  <1>6. ThreadsOf(q) \in Seq(Thread) /\ Len(ThreadsOf(q)) = Len(q)
    BY <1>2, <1>4, <1>5
  <1>7. \A k \in 1 .. Len(q) : ThreadsOf(q)[k] = q[k].thread
    BY <1>2
  <1>8. \A a, b \in Seq(Thread) \cup Seq(Entry) : Len(a) = 0 => a = <<>>
    OBVIOUS
  <1>9. ThreadsOf(q) = <<>> <=> q = <<>>
    BY <1>6, <1>8
  <1> QED
    BY <1>1, <1>6, <1>7, <1>9

\* Lists of threads are compared element by element.
LEMMA SameThreads ==
    ASSUME NEW a \in Seq(Thread), NEW b \in Seq(Thread), Len(a) = Len(b),
           \A k \in 1 .. Len(a) : a[k] = b[k]
    PROVE  a = b
  OBVIOUS

\* Fork adds an entry behind ...
LEMMA ThreadsOfAppend ==
    ASSUME NEW q \in Seq(Entry), NEW e \in Entry
    PROVE  /\ Append(q, e) \in Seq(Entry) /\ Len(Append(q, e)) = Len(q) + 1
           /\ Append(q, e)[Len(q) + 1] = e
           /\ \A k \in 1 .. Len(q) : Append(q, e)[k] = q[k]
           /\ ThreadsOf(Append(q, e)) = Append(ThreadsOf(q), e.thread)
  <1> DEFINE p == Append(q, e)
             l == ThreadsOf(p)
             s == ThreadsOf(q)
             r == Append(s, e.thread)
  <1>1. /\ p \in Seq(Entry) /\ e.thread \in Thread /\ Len(p) = Len(q) + 1 /\ Len(q) \in Nat
        /\ p[Len(q) + 1] = e /\ \A k \in 1 .. Len(q) : p[k] = q[k]
    BY DEF Entry
  <1>2. s \in Seq(Thread) /\ Len(s) = Len(q) /\ \A k \in 1 .. Len(q) : s[k] = q[k].thread
    BY ThreadsOfQueue
  <1> HIDE DEF p
  <1>3. l \in Seq(Thread) /\ Len(l) = Len(p) /\ \A k \in 1 .. Len(p) : l[k] = p[k].thread
    BY <1>1, ThreadsOfQueue
  <1> HIDE DEF s, l
  <1>4. r \in Seq(Thread) /\ Len(r) = Len(q) + 1
    BY <1>1, <1>2
  <1>5. ASSUME NEW k \in 1 .. Len(l) PROVE l[k] = r[k]
    <2>1. CASE k = Len(q) + 1
      <3>1. r[k] = e.thread
        BY <2>1, <1>2
      <3> QED
        BY <1>1, <1>3, <2>1, <3>1
    <2>2. CASE k \in 1 .. Len(q)
      <3>1. r[k] = s[k]
        BY <2>2, <1>2
      <3> QED
        BY <1>1, <1>2, <1>3, <2>2, <3>1
    <2>3. k = Len(q) + 1 \/ k \in 1 .. Len(q)
      <3>1. Len(l) = Len(q) + 1
        BY <1>1, <1>3
      <3> QED
        BY <1>1, <3>1
    <2> QED
      BY <2>1, <2>2, <2>3
  <1>6. l = r
    BY <1>1, <1>3, <1>4, <1>5, SameThreads
  <1> QED
    BY <1>1, <1>6 DEF p, l, s

\* ... a resumed waiter one in front ...
LEMMA ThreadsOfPush ==
    ASSUME NEW q \in Seq(Entry), NEW e \in Entry
    PROVE  /\ <<e>> \o q \in Seq(Entry) /\ Len(<<e>> \o q) = Len(q) + 1
           /\ (<<e>> \o q)[1] = e
           /\ \A k \in 1 .. Len(<<e>> \o q) :
                 k # 1 => (<<e>> \o q)[k] = q[k - 1] /\ k - 1 \in 1 .. Len(q)
           /\ ThreadsOf(<<e>> \o q) = <<e.thread>> \o ThreadsOf(q)
  <1>1. <<e>> \o q \in Seq(Entry) /\ e.thread \in Thread /\ Len(<<e>> \o q) = Len(q) + 1 /\ Len(q) \in Nat
    BY DEF Entry
  <1>2. (<<e>> \o q)[1] = e
    OBVIOUS
  <1>3. \A k \in 1 .. Len(q) : (<<e>> \o q)[k + 1] = q[k]
    OBVIOUS
  <1>4. \A k \in 1 .. Len(<<e>> \o q) :
            k # 1 => (<<e>> \o q)[k] = q[k - 1] /\ k - 1 \in 1 .. Len(q)
    <2> SUFFICES ASSUME NEW k \in 1 .. Len(<<e>> \o q), k # 1
                 PROVE  (<<e>> \o q)[k] = q[k - 1] /\ k - 1 \in 1 .. Len(q)
      OBVIOUS
    <2>1. k - 1 \in 1 .. Len(q) /\ (k - 1) + 1 = k
      BY <1>1
    <2> QED
      BY <1>3, <2>1
  <1> DEFINE l == ThreadsOf(<<e>> \o q)
             r == <<e.thread>> \o ThreadsOf(q)
  <1>5. l \in Seq(Thread) /\ Len(l) = Len(q) + 1 /\ r \in Seq(Thread) /\ Len(r) = Len(q) + 1
    <2>1. ThreadsOf(q) \in Seq(Thread) /\ Len(ThreadsOf(q)) = Len(q)
      BY ThreadsOfQueue
    <2>2. l \in Seq(Thread) /\ Len(l) = Len(<<e>> \o q)
      BY <1>1, ThreadsOfQueue
    <2> QED
      BY <1>1, <2>1, <2>2
  <1>6. ASSUME NEW k \in 1 .. Len(q) + 1 PROVE l[k] = r[k]
    <2>1. l[k] = (<<e>> \o q)[k].thread
      BY <1>1, ThreadsOfQueue
    <2>2. CASE k = 1
      BY <1>2, <2>1, <2>2, <1>1, ThreadsOfQueue
    <2>3. CASE k # 1
      <3>1. k - 1 \in 1 .. Len(q) /\ l[k] = q[k - 1].thread
        BY <1>1, <1>4, <2>1, <2>3
      <3>2. ThreadsOf(q)[k - 1] = q[k - 1].thread
        BY <3>1, ThreadsOfQueue
      <3>3. r[k] = ThreadsOf(q)[k - 1]
        <4>1. ThreadsOf(q) \in Seq(Thread) /\ Len(ThreadsOf(q)) = Len(q)
          BY ThreadsOfQueue
        <4> QED
          BY <1>1, <2>3, <4>1
      <3> QED
        BY <3>1, <3>2, <3>3
    <2> QED
      BY <2>2, <2>3
  <1> HIDE DEF l, r
  <1>7. l = r
    BY <1>5, <1>6, SameThreads
  <1> QED
    BY <1>1, <1>2, <1>4, <1>7 DEF l, r

\* ... and a thief takes the first.
LEMMA ThreadsOfTail ==
    ASSUME NEW q \in Seq(Entry), q # <<>>
    PROVE  /\ Tail(q) \in Seq(Entry) /\ Len(Tail(q)) = Len(q) - 1
           /\ \A k \in 1 .. Len(Tail(q)) : Tail(q)[k] = q[k + 1] /\ k + 1 \in 1 .. Len(q)
           /\ ThreadsOf(Tail(q)) = Tail(ThreadsOf(q))
           /\ Head(ThreadsOf(q)) = Head(q).thread /\ Head(q) = q[1] /\ Head(q) \in Entry
           /\ 1 \in 1 .. Len(q)
  <1>1. /\ Tail(q) \in Seq(Entry) /\ Len(Tail(q)) = Len(q) - 1 /\ Head(q) = q[1]
        /\ Len(q) \in Nat /\ Len(q) > 0 /\ q[1] \in Entry
    OBVIOUS
  <1>2. \A k \in 1 .. Len(Tail(q)) : Tail(q)[k] = q[k + 1] /\ k + 1 \in 1 .. Len(q)
    BY <1>1
  <1>3. ThreadsOf(q) \in Seq(Thread) /\ Len(ThreadsOf(q)) = Len(q) /\ ThreadsOf(q) # <<>>
    BY ThreadsOfQueue
  <1> DEFINE l == ThreadsOf(Tail(q))
             r == Tail(ThreadsOf(q))
  <1>4. l \in Seq(Thread) /\ Len(l) = Len(q) - 1
    BY <1>1, ThreadsOfQueue
  <1>5. r \in Seq(Thread) /\ Len(r) = Len(q) - 1
    BY <1>3
  <1>6. ASSUME NEW k \in 1 .. Len(q) - 1 PROVE l[k] = r[k]
    <2>1. l[k] = Tail(q)[k].thread
      BY <1>1, ThreadsOfQueue
    <2>2. r[k] = ThreadsOf(q)[k + 1]
      BY <1>3, <1>5
    <2>3. k + 1 \in 1 .. Len(q)
      BY <1>1
    <2>4. ThreadsOf(q)[k + 1] = q[k + 1].thread
      BY <2>3, ThreadsOfQueue
    <2> QED
      BY <1>1, <1>2, <2>1, <2>2, <2>4
  <1>7. l = r
    BY <1>4, <1>5, <1>6
  <1>8. Head(ThreadsOf(q)) = q[1].thread
    BY <1>1, <1>3, ThreadsOfQueue
  <1> QED
    BY <1>1, <1>2, <1>7, <1>8

\* The owner pops the youngest entry.
LEMMA QueueWithoutLast ==
    ASSUME NEW q \in Seq(Entry), q # <<>>
    PROVE  LET r == RemoveAt(q, Youngest(q))
           IN  /\ Youngest(q) = Len(q) /\ Len(q) \in 1 .. Len(q) /\ q[Len(q)] \in Entry
               /\ r \in Seq(Entry) /\ Len(r) = Len(q) - 1
               /\ \A k \in 1 .. Len(r) : r[k] = q[k] /\ k \in 1 .. Len(q) /\ k < Len(q)
  <1> DEFINE n == Len(q)
  <1>1. n \in Nat /\ n > 0 /\ q[n] \in Entry
    OBVIOUS
  <1>2. SubSeq(q, 1, n - 1) \in Seq(Entry) /\ Len(SubSeq(q, 1, n - 1)) = n - 1
        /\ \A k \in 1 .. n - 1 : SubSeq(q, 1, n - 1)[k] = q[k]
    <2>1. n - 1 \in Int /\ \A i \in 1 .. n - 1 : q[i] \in Entry
      BY <1>1
    <2>2. /\ SubSeq(q, 1, n - 1) \in Seq(Entry)
          /\ Len(SubSeq(q, 1, n - 1)) = IF 1 <= n - 1 THEN (n - 1) - 1 + 1 ELSE 0
          /\ \A i \in 1 .. (n - 1) - 1 + 1 : SubSeq(q, 1, n - 1)[i] = q[1 + i - 1]
      BY <2>1, SubSeqProperties
    <2>3. \A i \in 1 .. n - 1 : i \in 1 .. (n - 1) - 1 + 1 /\ 1 + i - 1 = i
      BY <1>1
    <2>4. \A m \in Nat : m > 0 => m - 1 = IF 1 <= m - 1 THEN (m - 1) - 1 + 1 ELSE 0
      OBVIOUS
    <2>5. \A i \in 1 .. n - 1 : SubSeq(q, 1, n - 1)[i] = q[i]
      BY <2>2, <2>3
    <2> QED
      BY <1>1, <2>2, <2>4, <2>5
  <1>3. SubSeq(q, n + 1, Len(q)) = <<>>
    BY <1>1
  <1>4. RemoveAt(q, Youngest(q)) = SubSeq(q, 1, n - 1)
    BY <1>1, <1>2, <1>3 DEF RemoveAt, Youngest
  <1> QED
    BY <1>1, <1>2, <1>4 DEF Youngest

----------------------------------------------------------------------------
(* The tree along which the request to exit is passed on. *)

\* Every set of natural numbers has a least element.
LEMMA LeastNatural ==
    ASSUME NEW T \in SUBSET Nat, T # {}
    PROVE  \E m \in T : \A k \in T : m <= k
  <1>1. \A k, m \in Nat : k < m => <<k, m>> \in OpToRel(<, Nat)
    BY DEF OpToRel
  <1>2. PICK R : IsWellFoundedOn(R, Nat) /\ \A k, m \in Nat : k < m => <<k, m>> \in R
    BY <1>1, NatLessThanWellFounded, Zenon
  <1>3. PICK m \in T : \A k \in T : ~ (<<k, m>> \in R)
    <2>1. IsWellFoundedOn(R, Nat)
      BY <1>2
    <2> QED
      BY <2>1, WFMin
  <1>4. \A k \in T : ~(k < m) /\ k \in Nat /\ m \in Nat
    BY <1>2, <1>3
  <1> QED
    BY <1>3, <1>4

\* What % says, as a multiple.
LEMMA Divides ==
    ASSUME NEW i \in Nat, NEW d \in Nat \ {0}
    PROVE  i % d = 0 <=> \E x \in Nat : i = d * x
  <1>1. ASSUME i % d = 0 PROVE \E x \in Nat : i = d * x
    <2>1. i = d * (i \div d) /\ i \div d \in Int
      BY <1>1
    <2>2. i \div d \in Nat
      BY <2>1
    <2> QED
      BY <2>1, <2>2
  <1>2. ASSUME NEW x \in Nat, i = d * x PROVE i % d = 0
    BY <1>2
  <1> QED
    BY <1>1, <1>2

\* What divides half of an even number divides it.
LEMMA HalfDivides ==
    ASSUME NEW i \in Nat, i % 2 = 0
    PROVE  /\ i \div 2 \in Nat /\ i = 2 * (i \div 2)
           /\ \A d \in Nat \ {0} : (i \div 2) % d = 0 => i % d = 0
  <1>1. i \div 2 \in Nat /\ i = 2 * (i \div 2)
    OBVIOUS
  <1>2. PICK h \in Nat : h = i \div 2
    BY <1>1
  <1>3. ASSUME NEW d \in Nat \ {0}, h % d = 0 PROVE i % d = 0
    <2>1. PICK x \in Nat : h = d * x
      BY <1>3, Divides
    <2>2. i = d * (2 * x) /\ 2 * x \in Nat
      BY <1>1, <1>2, <2>1
    <2> QED
      BY <2>2, Divides
  <1> QED
    BY <1>1, <1>2, <1>3

\* A power of two is even, and half of it is one, or is 1.
LEMMA HalfOfPower ==
    ASSUME NEW i \in Nat, 2 <= i, PowerOfTwo(i)
    PROVE  /\ i % 2 = 0 /\ i \div 2 \in Nat /\ i = 2 * (i \div 2) /\ i \div 2 # 0
           /\ PowerOfTwo(i \div 2)
  <1>1. i % i = 0
    <2>1. i = i * 1
      OBVIOUS
    <2> QED
      BY <2>1, Divides
  <1>2. i % 2 = 0
    BY <1>1 DEF PowerOfTwo
  <1>3. i \div 2 \in Nat /\ i = 2 * (i \div 2)
    BY <1>2, HalfDivides
  <1>4. PICK h \in Nat : h = i \div 2
    BY <1>3
  <1>5. ASSUME NEW d \in 2 .. h, h % d = 0 PROVE d % 2 = 0
    <2>1. d \in 2 .. i /\ d \in Nat \ {0}
      BY <1>3, <1>4
    <2>2. i % d = 0
      BY <1>2, <1>4, <1>5, <2>1, HalfDivides
    <2> QED
      BY <2>1, <2>2 DEF PowerOfTwo
  <1>6. PowerOfTwo(h)
    BY <1>5 DEF PowerOfTwo
  <1> QED
    BY <1>2, <1>3, <1>4, <1>6

\* Of two powers of two the smaller one divides half of the greater one.
LEMMA SmallerDivides ==
    ASSUME NEW i \in Nat, NEW j \in Nat, 2 <= i, i < j, PowerOfTwo(i), PowerOfTwo(j)
    PROVE  (j \div 2) % i = 0
  <1> DEFINE Bad == {m \in Nat : 2 <= m /\ PowerOfTwo(m) /\
                        \E n \in Nat : m < n /\ PowerOfTwo(n) /\ (n \div 2) % m # 0}
  <1>1. SUFFICES Bad = {}
    BY <1>1
  <1>2. SUFFICES ASSUME Bad # {} PROVE FALSE
    OBVIOUS
  <1>3. PICK m \in Bad : \A k \in Bad : m <= k
    <2>1. Bad \in SUBSET Nat
      OBVIOUS
    <2> HIDE DEF Bad
    <2> QED
      BY <1>2, <2>1, LeastNatural
  <1>4. m \in Nat /\ 2 <= m /\ PowerOfTwo(m)
    OBVIOUS
  <1>5. PICK n \in Nat : m < n /\ PowerOfTwo(n) /\ (n \div 2) % m # 0
    OBVIOUS
  <1>6. PICK a \in Nat : a = m \div 2 /\ m = 2 * a /\ a # 0 /\ PowerOfTwo(a)
    BY <1>4, HalfOfPower
  <1>7. PICK b \in Nat : b = n \div 2 /\ n = 2 * b /\ b # 0 /\ PowerOfTwo(b)
    BY <1>4, <1>5, HalfOfPower
  <1>8. a < b /\ a < m /\ 2 <= b
    BY <1>4, <1>5, <1>6, <1>7
  <1>9. b % 2 = 0 /\ b \div 2 \in Nat /\ b = 2 * (b \div 2)
    BY <1>7, <1>8, HalfOfPower
  <1>10. CASE a = 1
    BY <1>5, <1>6, <1>7, <1>9, <1>10
  <1>11. CASE a # 1
    <2>1. a \notin Bad
      BY <1>3, <1>6, <1>8
    <2>2. 2 <= a
      BY <1>6, <1>11
    <2>3. (b \div 2) % a = 0
      BY <1>6, <1>7, <1>8, <2>1, <2>2
    <2>4. PICK x \in Nat : b \div 2 = a * x
      BY <1>6, <1>9, <2>3, Divides
    <2>5. b = m * x
      BY <1>6, <1>9, <2>4
    <2>6. b % m = 0
      BY <1>4, <2>5, Divides
    <2> QED
      BY <1>5, <1>7, <2>6
  <1> QED
    BY <1>10, <1>11

\* Whom a worker passes the request on to is another worker and not rank 0, and
\* nobody else passes it on to the same.
LEMMA OneSender ==
    ASSUME NEW v \in Worker, NEW w \in Worker, NEW r \in ExitTargets(v), r \in ExitTargets(w)
    PROVE  v = w
  <1>1. v \in Nat /\ w \in Nat
    BY ConstantsAssumption DEF Worker
  <1>2. PICK i \in Strides : v % i = 0 /\ r = v + i \div 2
    BY DEF ExitTargets
  <1>3. PICK j \in Strides : w % j = 0 /\ r = w + j \div 2
    BY DEF ExitTargets
  <1>4. \A k \in Strides : k \in Nat /\ 2 <= k /\ PowerOfTwo(k)
    BY ConstantsAssumption DEF Strides
  <1>5. ASSUME NEW a \in Nat, NEW b \in Nat, NEW k \in Strides, NEW l \in Strides,
               a % k = 0, b % l = 0, a + k \div 2 = b + l \div 2, k < l
        PROVE  FALSE
    <2>1. /\ k \in Nat /\ l \in Nat /\ 2 <= k /\ 2 <= l /\ PowerOfTwo(k) /\ PowerOfTwo(l)
          /\ k \in Nat \ {0} /\ l \in Nat \ {0}
      BY <1>4
    <2>2. PICK g \in Nat : g = k \div 2 /\ k = 2 * g /\ g # 0
      BY <2>1, HalfOfPower
    <2>3. PICK h \in Nat : h = l \div 2 /\ l = 2 * h /\ h # 0
      BY <2>1, HalfOfPower
    <2>4. h % k = 0
      BY <1>5, <2>1, <2>3, SmallerDivides
    <2>5. PICK x \in Nat : a = k * x
      BY <1>5, <2>1, Divides
    <2>6. PICK y \in Nat : b = l * y
      BY <1>5, <2>1, Divides
    <2>7. PICK z \in Nat : h = k * z
      BY <2>1, <2>4, Divides
    <2>8. b + h = k * (2 * z * y + z)
      BY <2>1, <2>3, <2>6, <2>7
    <2>9. a + g = k * x + g
      BY <2>5
    <2>10. PICK q \in Int : q = 2 * z * y + z - x
      OBVIOUS
    <2>11. k * x + g = k * (2 * z * y + z)
      BY <1>5, <2>2, <2>3, <2>8, <2>9
    <2>13. k * q = k * (2 * z * y + z) - k * x
      BY <2>1, <2>10
    <2>14. g = k * q
      BY <2>1, <2>11, <2>13
    <2>12. 0 < g /\ g < k
      BY <2>2
    <2> QED
      BY <2>1, <2>10, <2>14, <2>12
  <1>6. ~(i < j) /\ ~(j < i)
    BY <1>1, <1>2, <1>3, <1>5
  <1>7. i = j
    BY <1>4, <1>6
  <1>8. i \div 2 \in Nat
    BY <1>4, HalfOfPower
  <1> QED
    BY <1>1, <1>2, <1>3, <1>7, <1>8

\* Requests to exit go to other ranks, never to rank 0.
LEMMA TargetsOfExit ==
    ASSUME NEW w \in Worker
    PROVE  ExitTargets(w) \subseteq Worker /\ 0 \notin ExitTargets(w) /\ w \notin ExitTargets(w)
  <1>1. w \in Nat
    BY ConstantsAssumption DEF Worker
  <1>2. ASSUME NEW k \in Strides PROVE w + k \div 2 # 0 /\ w + k \div 2 # w
    <2>1. k \in Nat /\ 2 <= k /\ PowerOfTwo(k)
      BY ConstantsAssumption DEF Strides
    <2>2. k \div 2 \in Nat /\ k \div 2 # 0
      BY <2>1, HalfOfPower
    <2> QED
      BY <1>1, <2>2
  <1> QED
    BY <1>2 DEF ExitTargets

----------------------------------------------------------------------------
(* The invariant. *)

\* How far each thread is in its program: what it has forked has been started,
\* what it has waited for is done, and frames of a child lie above its parent's.
ProgressOK ==
    /\ Root \in started /\ addr[Root] = 0
    /\ \A t \in Thread : ip[t] \in 1 .. Len(prog[t]) + 1
    /\ \A t \in Thread \ started : ip[t] = 1 /\ ~done[t]
    /\ \A t \in Thread : done[t] => Ended(t)
    /\ \A t \in Thread : \A i \in DOMAIN prog[t] :
          i < ip[t] => IF Forks(prog, t, i) THEN prog[t][i].child \in started
                       ELSE \A k \in DOMAIN prog[t][i].futures : done[prog[t][i].futures[k]]
    /\ \A t \in started \ {Root} : \E s \in started : \E i \in DOMAIN prog[s] :
          i < ip[s] /\ Forks(prog, s, i) /\ prog[s][i].child = t /\ addr[t] = addr[s] + 1

\* No frame lies higher than there are threads below it.
DepthOK == \A t \in started : \A a \in 0 .. addr[t] : \E s \in started : addr[s] = a

\* What a worker has in its hands: its own thread, or the waiters of the future
\* it has set; and how far it has looked at what the first of them waits for.
HandsOf(w) ==
    /\ pc[w] \in {"check", "link", "swap", "resume"} <=> ses[w] # <<>>
    /\ ses[w] # <<>> /\ ~Setting(w) => ses[w] = <<cur[w]>>
    /\ pc[w] \in {"pop", "close"} => done[cur[w]]
    /\ pc[w] = "resume" => Setting(w) /\ ~IsMulti(Waiter(w))
    /\ pc[w] \in {"link", "swap"} => scan[w] <= Len(Awaited(Waiter(w)))
    /\ pc[w] \in {"check", "link", "swap"} =>
          /\ scan[w] \in 1 .. Len(Awaited(Waiter(w))) + 1
          /\ \A k \in 1 .. scan[w] - 1 : done[Awaited(Waiter(w))[k]]

HandsOK == \A w \in Worker : HandsOf(w)

\* Who is in a future's list, or in the hands of who has set it, waits for it.
WaitersOK ==
    /\ \A f \in Thread : \A t \in Range(next[f]) : IsOp(t, "wait") /\ f \in Range(Awaited(t))
    /\ \A w \in Worker : \A t \in Range(ses[w]) :
          IsOp(t, "wait") /\ (Setting(w) => cur[w] \in Range(Awaited(t)))

PoppedOK == \A f \in popped : done[f] /\ next[f] = <<>>

\* Frames that were not evacuated lie in a queue's owner's stack one above the
\* other, above all that were, and below the frame of the thread it executes.
InFrame(w) == pc[w] = "run" \/ (ses[w] # <<>> /\ ~Setting(w))

FramesOf(w) ==
    /\ \A k, l \in DOMAIN queue[w] : k < l /\ ~queue[w][k].evacuated =>
          /\ ~queue[w][l].evacuated
          /\ addr[queue[w][k].thread] < addr[queue[w][l].thread]
    /\ \A k \in DOMAIN queue[w] : ~queue[w][k].evacuated =>
          /\ pc[w] \notin {"loop", "copy", "left"}
          /\ InFrame(w) => addr[queue[w][k].thread] < addr[cur[w]]
          /\ stack[w][addr[queue[w][k].thread]] = queue[w][k].thread
    /\ InFrame(w) => stack[w][addr[cur[w]]] = cur[w]

FramesOK == \A w \in Worker : FramesOf(w)

\* Nobody has been asked to leave before the root is done, nor before the
\* worker has left that is to ask.
ExitOK ==
    \A w \in Worker :
        /\ mailbox[w] <= 1
        /\ mailbox[w] = 1 => pc[w] # "left"
        /\ mailbox[w] = 1 \/ pc[w] = "left" =>
              IF w = 0 THEN done[Root]
              ELSE \E v \in Worker : w \in ExitTargets(v) /\ pc[v] = "left"

IndInv ==
    /\ TypeOK /\ ProgressOK /\ DepthOK /\ ThreadsInOnePlace /\ HandsOK /\ WaitersOK
    /\ PoppedOK /\ FramesOK /\ ExitOK

AllJoined == \A p \in Programs : Joined(p)
----------------------------------------------------------------------------
(* Consequences of the invariant. *)

\* Operations are what Programs says.
LEMMA Ops ==
    ASSUME TypeOK, NEW t \in Thread
    PROVE  /\ Len(prog[t]) \in Nat /\ DOMAIN prog[t] = 1 .. Len(prog[t])
           /\ \A i \in DOMAIN prog[t] :
                 /\ Forks(prog, t, i) <=> prog[t][i].kind = "fork"
                 /\ prog[t][i].kind \in {"fork", "wait"}
                 /\ prog[t][i].kind = "fork" => prog[t][i].child \in Thread
                 /\ prog[t][i].kind = "wait" => prog[t][i].futures \in Seq(Thread)
  <1>1. prog[t] \in Seq(ForkOp \cup WaitOp)
    BY ProgramsAssumption DEF TypeOK
  <1>2. ASSUME NEW i \in DOMAIN prog[t]
        PROVE  /\ prog[t][i].kind \in {"fork", "wait"}
               /\ prog[t][i].kind = "fork" => prog[t][i].child \in Thread
               /\ prog[t][i].kind = "wait" => prog[t][i].futures \in Seq(Thread)
    <2>1. prog[t][i] \in ForkOp \cup WaitOp
      BY <1>1
    <2>2. CASE prog[t][i] \in ForkOp
      BY <2>2 DEF ForkOp
    <2>3. CASE prog[t][i] \in WaitOp
      BY <2>3 DEF WaitOp
    <2> QED
      BY <2>1, <2>2, <2>3
  <1> QED
    BY <1>1, <1>2 DEF Forks

\* A thread that waits is at a wait of its program ...
LEMMA Waiting ==
    ASSUME TypeOK, ProgressOK, NEW t \in Thread, IsOp(t, "wait")
    PROVE  /\ ip[t] \in DOMAIN prog[t] /\ ~Forks(prog, t, ip[t])
           /\ Awaited(t) = prog[t][ip[t]].futures /\ Awaited(t) \in Seq(Thread)
           /\ Len(Awaited(t)) \in Nat /\ DOMAIN Awaited(t) = 1 .. Len(Awaited(t))
  <1>1. ip[t] \in DOMAIN prog[t]
    BY Ops DEF ProgressOK, IsOp
  <1>2. prog[t][ip[t]].kind = "wait"
    BY DEF IsOp, Op
  <1> QED
    BY <1>1, <1>2, Ops DEF Awaited, Op

\* ... and one that forks at a fork, whose child is new (spawn makes it).
LEMMA Forking ==
    ASSUME TypeOK, ProgressOK, NEW t \in started, IsOp(t, "fork")
    PROVE  /\ ip[t] \in DOMAIN prog[t] /\ Forks(prog, t, ip[t])
           /\ Op(t).child = prog[t][ip[t]].child /\ Op(t).child \in Thread
           /\ Op(t).child \notin started
  <1>1. t \in Thread
    BY DEF TypeOK
  <1>2. ip[t] \in DOMAIN prog[t]
    BY <1>1, Ops DEF ProgressOK, IsOp
  <1>3. prog[t][ip[t]].kind = "fork"
    BY DEF IsOp, Op
  <1>4. Forks(prog, t, ip[t]) /\ prog[t][ip[t]].child \in Thread
    BY <1>1, <1>2, <1>3, Ops
  <1>5. ASSUME prog[t][ip[t]].child \in started PROVE FALSE
    <2> DEFINE new == prog[t][ip[t]].child
    <2>0. prog \in Programs
      BY DEF TypeOK
    <2>1. new # Root
      BY <1>1, <1>2, <1>4, <2>0, ProgramsAssumption
    <2>2. PICK s \in started : \E i \in DOMAIN prog[s] :
              i < ip[s] /\ Forks(prog, s, i) /\ prog[s][i].child = new
      BY <1>5, <2>1 DEF ProgressOK
    <2>3. PICK i \in DOMAIN prog[s] : i < ip[s] /\ Forks(prog, s, i) /\ prog[s][i].child = new
      BY <2>2
    <2>4. s \in Thread
      BY DEF TypeOK
    <2>5. t = s /\ ip[t] = i
      BY <1>1, <1>2, <1>4, <2>0, <2>3, <2>4, ProgramsAssumption
    <2>6. ip[t] \in Nat
      BY <1>1, <1>2, Ops
    <2> QED
      BY <2>3, <2>5, <2>6
  <1> QED
    BY <1>2, <1>4, <1>5 DEF Op

\* A thread is live where it is, and nowhere else.
LEMMA OneSpot ==
    ASSUME ThreadsInOnePlace, NEW t \in Thread
    PROVE  /\ \A w \in Executing(t) : Live(t) /\ Executing(t) = {w} /\ Handling(t) = {} /\ Queuing(t) = {} /\ Listing(t) = {}
           /\ \A w \in Handling(t) : Live(t) /\ Executing(t) = {} /\ Handling(t) = {w} /\ Queuing(t) = {} /\ Listing(t) = {}
           /\ \A w \in Queuing(t) : Live(t) /\ Executing(t) = {} /\ Handling(t) = {} /\ Queuing(t) = {w} /\ Listing(t) = {}
           /\ \A w \in Listing(t) : Live(t) /\ Executing(t) = {} /\ Handling(t) = {} /\ Queuing(t) = {} /\ Listing(t) = {w}
           /\ ~Live(t) => Executing(t) = {} /\ Handling(t) = {} /\ Queuing(t) = {} /\ Listing(t) = {}
  <1>1. IF Live(t) THEN \E p \in Places(t) : Places(t) = {p} ELSE Places(t) = {}
    BY DEF ThreadsInOnePlace
  <1> DEFINE Are(x) == /\ \A w : w \in Executing(t) => <<"worker", w>> \in x
                       /\ \A w : w \in Handling(t) => <<"hands", w>> \in x
                       /\ \A w : w \in Queuing(t) => <<"queue", w>> \in x
                       /\ \A w : w \in Listing(t) => <<"list", w>> \in x
  <1>2. Are(Places(t))
    BY DEF Places
  <1>3. CASE Live(t)
    <2>1. PICK p : Places(t) = {p}
      BY <1>1, <1>3
    <2>2. Are({p})
      BY <1>2, <2>1
    <2>3. /\ \A w : w \in Executing(t) => <<"worker", w>> = p
          /\ \A w : w \in Handling(t) => <<"hands", w>> = p
          /\ \A w : w \in Queuing(t) => <<"queue", w>> = p
          /\ \A w : w \in Listing(t) => <<"list", w>> = p
      BY <2>2
    <2> QED
      BY <1>3, <2>3
  <1>4. CASE ~Live(t)
    <2>1. Are({})
      BY <1>1, <1>2, <1>4
    <2> QED
      BY <1>4, <2>1
  <1> QED
    BY <1>3, <1>4

\* The same of each place.
LEMMA Executed ==
    ASSUME TypeOK, ThreadsInOnePlace, NEW w \in Worker, pc[w] \in {"run", "copy"}
    PROVE  /\ cur[w] \in Thread /\ Live(cur[w]) /\ cur[w] \in started
           /\ Executing(cur[w]) = {w} /\ Handling(cur[w]) = {} /\ Queuing(cur[w]) = {} /\ Listing(cur[w]) = {}
  <1>1. cur[w] \in Thread /\ w \in Executing(cur[w])
    BY DEF TypeOK, Executing
  <1> QED
    BY <1>1, OneSpot DEF Live

\* A suspended thread in a worker's hands is nowhere else (future<T>::set).
LEMMA InHands ==
    ASSUME TypeOK, ThreadsInOnePlace, NEW w \in Worker, NEW t \in Range(ses[w])
    PROVE  /\ t \in Thread /\ Live(t)
           /\ Executing(t) = {} /\ Handling(t) = {w} /\ Queuing(t) = {} /\ Listing(t) = {}
  <1>1. ses[w] \in Seq(Thread)
    BY DEF TypeOK
  <1>2. t \in Thread /\ w \in Handling(t)
    BY <1>1, RangeIs DEF Handling
  <1> QED
    BY <1>2, OneSpot

\* A thread in a queue is nowhere else (wsqueue).
LEMMA InQueue ==
    ASSUME TypeOK, ThreadsInOnePlace, NEW w \in Worker, NEW k \in DOMAIN queue[w]
    PROVE  LET t == queue[w][k].thread
           IN  /\ t \in Thread /\ Live(t) /\ t \in Range(ThreadsOf(queue[w]))
               /\ Executing(t) = {} /\ Handling(t) = {} /\ Queuing(t) = {w} /\ Listing(t) = {}
  <1>1. queue[w] \in Seq(Entry)
    BY DEF TypeOK, Entry
  <1> DEFINE t == queue[w][k].thread
             l == ThreadsOf(queue[w])
  <1>2. k \in 1 .. Len(l) /\ l \in Seq(Thread) /\ l[k] = t /\ t \in Thread
    <2>1. k \in 1 .. Len(queue[w]) /\ queue[w][k] \in Entry
      BY <1>1
    <2>2. /\ l \in Seq(Thread) /\ Len(l) = Len(queue[w])
          /\ \A i \in 1 .. Len(queue[w]) : l[i] = queue[w][i].thread
      BY <1>1, ThreadsOfQueue
    <2>3. t \in Thread
      BY <2>1 DEF Entry
    <2> QED
      BY <2>1, <2>2, <2>3
  <1>3. t \in Range(l)
    BY <1>2, RangeIs
  <1>4. w \in Queuing(t)
    BY <1>3 DEF Queuing
  <1> QED
    BY <1>2, <1>3, <1>4, OneSpot

\* A thread in a future's list is nowhere else (future<T>::next).
LEMMA InList ==
    ASSUME TypeOK, ThreadsInOnePlace, NEW f \in Thread, NEW t \in Range(next[f])
    PROVE  /\ t \in Thread /\ Live(t)
           /\ Executing(t) = {} /\ Handling(t) = {} /\ Queuing(t) = {} /\ Listing(t) = {f}
  <1>1. next[f] \in Seq(Thread)
    BY DEF TypeOK
  <1>2. t \in Thread /\ f \in Listing(t)
    BY <1>1, RangeIs DEF Listing
  <1> QED
    BY <1>2, OneSpot

\* What is to be known of where threads are after a step.
Stays(s) ==
    /\ Live(s)' <=> Live(s)
    /\ Executing(s)' = Executing(s) /\ Handling(s)' = Handling(s)
    /\ Queuing(s)' = Queuing(s) /\ Listing(s)' = Listing(s)

Comes(s) ==
    \/ /\ Live(s)'
       /\ \/ \E w : Executing(s)' = {w} /\ Handling(s)' = {} /\ Queuing(s)' = {} /\ Listing(s)' = {}
          \/ \E w : Executing(s)' = {} /\ Handling(s)' = {w} /\ Queuing(s)' = {} /\ Listing(s)' = {}
          \/ \E w : Executing(s)' = {} /\ Handling(s)' = {} /\ Queuing(s)' = {w} /\ Listing(s)' = {}
          \/ \E w : Executing(s)' = {} /\ Handling(s)' = {} /\ Queuing(s)' = {} /\ Listing(s)' = {w}
    \/ /\ ~Live(s)'
       /\ Executing(s)' = {} /\ Handling(s)' = {} /\ Queuing(s)' = {} /\ Listing(s)' = {}

\* When each thread stays where it was or comes to a single place, all are in one place again.
LEMMA OnePlaceNext ==
    ASSUME ThreadsInOnePlace,
           \A s \in Thread : Stays(s) \/ Comes(s),
           \A w \in Worker : IsInjective(ses'[w]) /\ IsInjective(ThreadsOf(queue'[w])),
           \A f \in Thread : IsInjective(next'[f])
    PROVE  ThreadsInOnePlace'
  <1>1. ASSUME NEW s \in Thread
        PROVE  (IF Live(s) THEN \E p \in Places(s) : Places(s) = {p} ELSE Places(s) = {})'
    <2>1. CASE Stays(s)
      <3>1. Places(s)' = Places(s) /\ (Live(s)' <=> Live(s))
        BY <2>1 DEF Stays, Places
      <3> QED
        BY <3>1 DEF ThreadsInOnePlace
    <2>2. CASE Comes(s)
      <3>1. Places(s)' = ({"worker"} \X Executing(s)') \cup ({"hands"} \X Handling(s)')
                         \cup ({"queue"} \X Queuing(s)') \cup ({"list"} \X Listing(s)')
        BY DEF Places
      <3>2. CASE ~Live(s)'
        <4>1. Places(s)' = {}
          BY <2>2, <3>1, <3>2 DEF Comes
        <4> QED
          BY <3>2, <4>1
      <3>3. CASE Live(s)'
        <4>1. \E p : Places(s)' = {p}
          <5>5. CASE \E w : Executing(s)' = {w} /\ Handling(s)' = {} /\ Queuing(s)' = {} /\ Listing(s)' = {}
            <6>1. PICK w : Executing(s)' = {w} /\ Handling(s)' = {} /\ Queuing(s)' = {} /\ Listing(s)' = {}
              BY <5>5
            <6>2. \A p : p \in Places(s)' <=> p = <<"worker", w>>
              BY <3>1, <6>1
            <6>3. Places(s)' = {<<"worker", w>>}
              BY <6>2
            <6> QED
              BY <6>3
          <5>6. CASE \E w : Executing(s)' = {} /\ Handling(s)' = {w} /\ Queuing(s)' = {} /\ Listing(s)' = {}
            <6>1. PICK w : Executing(s)' = {} /\ Handling(s)' = {w} /\ Queuing(s)' = {} /\ Listing(s)' = {}
              BY <5>6
            <6>2. \A p : p \in Places(s)' <=> p = <<"hands", w>>
              BY <3>1, <6>1
            <6>3. Places(s)' = {<<"hands", w>>}
              BY <6>2
            <6> QED
              BY <6>3
          <5>7. CASE \E w : Executing(s)' = {} /\ Handling(s)' = {} /\ Queuing(s)' = {w} /\ Listing(s)' = {}
            <6>1. PICK w : Executing(s)' = {} /\ Handling(s)' = {} /\ Queuing(s)' = {w} /\ Listing(s)' = {}
              BY <5>7
            <6>2. \A p : p \in Places(s)' <=> p = <<"queue", w>>
              BY <3>1, <6>1
            <6>3. Places(s)' = {<<"queue", w>>}
              BY <6>2
            <6> QED
              BY <6>3
          <5>8. CASE \E w : Executing(s)' = {} /\ Handling(s)' = {} /\ Queuing(s)' = {} /\ Listing(s)' = {w}
            <6>1. PICK w : Executing(s)' = {} /\ Handling(s)' = {} /\ Queuing(s)' = {} /\ Listing(s)' = {w}
              BY <5>8
            <6>2. \A p : p \in Places(s)' <=> p = <<"list", w>>
              BY <3>1, <6>1
            <6>3. Places(s)' = {<<"list", w>>}
              BY <6>2
            <6> QED
              BY <6>3
          <5> QED
            BY <2>2, <3>3, <5>5, <5>6, <5>7, <5>8 DEF Comes
        <4> QED
          BY <3>3, <4>1
      <3> QED
        BY <3>2, <3>3
    <2> QED
      BY <1>1, <2>1, <2>2
  <1> QED
    BY <1>1 DEF ThreadsInOnePlace

\* The same of the first of those in a worker's hands.
LEMMA InHand ==
    ASSUME TypeOK, ThreadsInOnePlace, NEW w \in Worker, ses[w] # <<>>
    PROVE  /\ Waiter(w) \in Thread /\ Waiter(w) \in Range(ses[w]) /\ Live(Waiter(w))
           /\ Executing(Waiter(w)) = {} /\ Handling(Waiter(w)) = {w}
           /\ Queuing(Waiter(w)) = {} /\ Listing(Waiter(w)) = {}
  <1>1. ses[w] \in Seq(Thread)
    BY DEF TypeOK
  <1>2. Waiter(w) \in Range(ses[w])
    BY <1>1, RangeIs DEF Waiter
  <1> QED
    BY <1>2, InHands

\* Whose frame a worker stands on.
LEMMA InFrameLive ==
    ASSUME TypeOK, ThreadsInOnePlace, HandsOK, NEW w \in Worker, InFrame(w)
    PROVE  cur[w] \in Thread /\ Live(cur[w]) /\ cur[w] \in started
  <1>1. CASE pc[w] = "run"
    BY <1>1, Executed
  <1>2. CASE ses[w] # <<>> /\ ~Setting(w)
    <2>1. ses[w] = <<cur[w]>>
      BY <1>2 DEF HandsOK, HandsOf
    <2>2. Waiter(w) = cur[w]
      BY <2>1 DEF Waiter
    <2> QED
      BY <1>2, <2>2, InHand DEF Live
  <1> QED
    BY <1>1, <1>2 DEF InFrame

\* A worker on which nothing has changed but what others have finished.
Unmoved(v) == cur'[v] = cur[v] /\ pc'[v] = pc[v] /\ ses'[v] = ses[v] /\ scan'[v] = scan[v]

\* A worker's hands stay good while others finish threads and move on.
LEMMA HandsSame ==
    ASSUME TypeOK, ProgressOK, ThreadsInOnePlace, HandsOK, WaitersOK, NEW v \in Worker, Unmoved(v), prog' = prog,
           \A u \in Range(ses[v]) : ip'[u] = ip[u],
           \A f \in Thread : done[f] => done'[f],
           \A f \in Thread : f \in Range(ses[v]) => ~done'[f]
    PROVE  HandsOf(v)'
  <1>1. CASE ses[v] = <<>>
    BY <1>1 DEF HandsOK, HandsOf, Unmoved, TypeOK
  <1>2. CASE ses[v] # <<>>
    <2>1. PICK u \in Thread : u = Waiter(v) /\ u \in Range(ses[v])
      BY <1>2, InHand
    <2>2. Waiter(v)' = u
      BY <2>1 DEF Waiter, Unmoved
    <2>3. IsOp(u, "wait")
      BY <2>1 DEF WaitersOK
    <2>4. Awaited(u)' = Awaited(u)
      BY <2>1 DEF Awaited, Op
    <2>5. Awaited(u) \in Seq(Thread) /\ Len(Awaited(u)) \in Nat
      BY <2>1, <2>3, Waiting
    <2>6. Setting(v)' <=> Setting(v)
      <3>1. CASE Setting(v)
        BY <3>1 DEF Setting, TypeOK, Unmoved
      <3>2. CASE ~Setting(v)
        <4>1. ses[v] = <<cur[v]>>
          BY <1>2, <3>2 DEF HandsOK, HandsOf
        <4>2. cur[v] = u
          BY <2>1, <4>1 DEF Waiter
        <4> QED
          BY <2>1, <3>2, <4>2 DEF Setting, Unmoved
      <3> QED
        BY <3>1, <3>2
    <2>7. IsMulti(u)' <=> IsMulti(u)
      BY <2>4 DEF IsMulti
    <2>8. \A k \in 1 .. Len(Awaited(u)) : done[Awaited(u)[k]] => done'[Awaited(u)[k]]
      BY <2>5
    <2>9. scan[v] \in 1 .. Len(Awaited(u)) + 1 /\ (\A k \in 1 .. scan[v] - 1 : done[Awaited(u)[k]])
          => \A k \in 1 .. scan[v] - 1 : done'[Awaited(u)[k]]
      BY <2>5, <2>8
    <2>10. HandsOf(v)
      BY DEF HandsOK
    <2>11. /\ pc'[v] \in {"check", "link", "swap", "resume"} <=> ses'[v] # <<>>
           /\ ses'[v] # <<>> /\ ~Setting(v)' => ses'[v] = <<cur'[v]>>
      BY <2>6, <2>10 DEF HandsOf, Unmoved
    <2>12. pc'[v] \in {"pop", "close"} => done'[cur'[v]]
      BY <1>2, <2>10 DEF HandsOf, Unmoved
    <2>13. pc'[v] = "resume" => Setting(v)' /\ ~IsMulti(Waiter(v))'
      BY <2>1, <2>2, <2>6, <2>7, <2>10 DEF HandsOf, Unmoved
    <2>14. pc'[v] \in {"link", "swap"} => scan'[v] <= Len(Awaited(Waiter(v)))'
      BY <2>1, <2>2, <2>4, <2>10 DEF HandsOf, Unmoved
    <2>15. pc'[v] \in {"check", "link", "swap"} =>
              /\ scan'[v] \in 1 .. Len(Awaited(Waiter(v)))' + 1
              /\ \A k \in 1 .. scan'[v] - 1 : done'[Awaited(Waiter(v))'[k]]
      BY <2>1, <2>2, <2>4, <2>9, <2>10 DEF HandsOf, Unmoved
    <2> QED
      BY <2>11, <2>12, <2>13, <2>14, <2>15 DEF HandsOf
  <1> QED
    BY <1>1, <1>2

\* Hands with nothing in them.
LEMMA HandsEmpty ==
    ASSUME NEW v \in Worker, ses'[v] = <<>>, pc'[v] \in {"run", "next", "loop", "copy", "left"}
    PROVE  HandsOf(v)'
  BY DEF HandsOf

\* Lists and hands in which nobody is new.
LEMMA WaitersSame ==
    ASSUME TypeOK, ThreadsInOnePlace, WaitersOK, prog' = prog,
           \A f \in Thread : Range(next'[f]) \subseteq Range(next[f]),
           \A v \in Worker : Range(ses'[v]) = {} \/ (cur'[v] = cur[v] /\ Range(ses'[v]) \subseteq Range(ses[v])),
           \A f \in Thread : \A u \in Range(next'[f]) : ip'[u] = ip[u],
           \A v \in Worker : \A u \in Range(ses'[v]) : ip'[u] = ip[u] /\ (done'[cur[v]] => done[cur[v]])
    PROVE  WaitersOK'
  <1>1. ASSUME NEW u, ip'[u] = ip[u] PROVE (IsOp(u, "wait")' <=> IsOp(u, "wait")) /\ Awaited(u)' = Awaited(u)
    BY <1>1 DEF IsOp, Awaited, Op
  <1>2. ASSUME NEW f \in Thread, NEW u \in Range(next'[f])
        PROVE  IsOp(u, "wait")' /\ f \in Range(Awaited(u)')
    <2>1. u \in Range(next[f]) /\ ip'[u] = ip[u]
      BY <1>2
    <2> QED
      BY <1>1, <2>1 DEF WaitersOK
  <1>3. ASSUME NEW v \in Worker, NEW u \in Range(ses'[v])
        PROVE  IsOp(u, "wait")' /\ (Setting(v)' => cur'[v] \in Range(Awaited(u)'))
    <2>1. u \in Range(ses[v]) /\ ip'[u] = ip[u] /\ cur'[v] = cur[v] /\ (done'[cur[v]] => done[cur[v]])
      BY <1>3
    <2>2. Setting(v)' => Setting(v)
      BY <2>1 DEF Setting
    <2> QED
      BY <1>1, <2>1, <2>2 DEF WaitersOK
  <1> QED
    BY <1>2, <1>3 DEF WaitersOK

\* A worker whose queue and stack have not changed.
LEMMA FramesSame ==
    ASSUME TypeOK, ThreadsInOnePlace, HandsOK, FramesOK, NEW v \in Worker,
           queue'[v] = queue[v], stack'[v] = stack[v], cur'[v] = cur[v],
           pc'[v] \in {"loop", "copy", "left"} => pc[v] \in {"loop", "copy", "left"},
           InFrame(v)' => InFrame(v), \A s \in started : addr'[s] = addr[s]
    PROVE  FramesOf(v)'
  <1>1. \A k \in DOMAIN queue[v] : addr'[queue[v][k].thread] = addr[queue[v][k].thread]
    BY InQueue DEF Live
  <1>2. InFrame(v)' => InFrame(v) /\ addr'[cur[v]] = addr[cur[v]]
    BY InFrameLive
  <1>3. FramesOf(v)
    BY DEF FramesOK
  <1> QED
    BY <1>1, <1>2, <1>3 DEF FramesOf

\* Steps that ask nobody to leave.
LEMMA ExitSame ==
    ASSUME TypeOK, ExitOK, mailbox' = mailbox, done[Root] => done'[Root],
           \A v \in Worker : pc'[v] = "left" <=> pc[v] = "left"
    PROVE  ExitOK'
  <1>1. \A w \in Worker : ExitTargets(w)' = ExitTargets(w)
    BY DEF ExitTargets
  <1> QED
    BY <1>1 DEF ExitOK

\* Steps that move no thread.
LEMMA PlacesSame ==
    ASSUME TypeOK, ThreadsInOnePlace, started' = started, done' = done, next' = next, queue' = queue, ses' = ses,
           \A v \in Worker : /\ cur'[v] = cur[v]
                             /\ pc'[v] \in {"run", "copy"} <=> pc[v] \in {"run", "copy"}
    PROVE  ThreadsInOnePlace'
  <1>1. \A s \in Thread : Executing(s)' = Executing(s)
    BY DEF Executing
  <1>2. \A s \in Thread : Handling(s)' = Handling(s) /\ Queuing(s)' = Queuing(s) /\ Listing(s)' = Listing(s)
    BY DEF Handling, Queuing, Listing
  <1>3. \A s \in Thread : Live(s)' <=> Live(s)
    BY DEF Live
  <1>4. \A s \in Thread : Stays(s)
    BY <1>1, <1>2, <1>3 DEF Stays
  <1> QED
    BY <1>4, OnePlaceNext DEF ThreadsInOnePlace

\* Only that a thread is done is new.
LEMMA ProgressDone ==
    ASSUME TypeOK, ProgressOK, DepthOK, prog' = prog, started' = started, ip' = ip, addr' = addr,
           \A t \in Thread : done[t] => done'[t],
           \A t \in Thread : done'[t] => done[t] \/ (Ended(t) /\ t \in started)
    PROVE  ProgressOK' /\ DepthOK'
  <1>1. \A t \in Thread : \A i \in DOMAIN prog[t] : ~Forks(prog, t, i) => prog[t][i].futures \in Seq(Thread)
    BY Ops
  <1>2. \A t \in Thread : \A i \in DOMAIN prog[t] : ~Forks(prog, t, i) =>
            \A k \in DOMAIN prog[t][i].futures : prog[t][i].futures[k] \in Thread
    BY <1>1
  <1>3. \A t \in Thread : \A i \in DOMAIN prog[t] :
          i < ip[t] => IF Forks(prog, t, i) THEN prog[t][i].child \in started
                       ELSE \A k \in DOMAIN prog[t][i].futures : done'[prog[t][i].futures[k]]
    BY <1>2 DEF ProgressOK
  <1>4. \A t \in Thread : Ended(t)' <=> Ended(t)
    BY DEF Ended
  <1>5. \A t \in Thread : done'[t] => Ended(t)
    BY DEF ProgressOK
  <1>6. \A t \in Thread \ started : ip[t] = 1 /\ ~done'[t]
    BY DEF ProgressOK
  <1>7. ProgressOK'
    BY <1>3, <1>4, <1>5, <1>6 DEF ProgressOK
  <1> QED
    BY <1>7 DEF DepthOK

\* A thread has come over what it waited for.
LEMMA ProgressStep ==
    ASSUME TypeOK, ProgressOK, DepthOK, NEW t \in started, IsOp(t, "wait"),
           \A k \in 1 .. Len(Awaited(t)) : done[Awaited(t)[k]],
           prog' = prog, started' = started, addr' = addr, done' = done, ~done[t],
           ip' = [ip EXCEPT ![t] = @ + 1]
    PROVE  ProgressOK' /\ DepthOK' /\ ip' \in [Thread -> Nat] /\ \A s \in Thread : s # t => ip'[s] = ip[s]
  <1>1. t \in Thread
    BY DEF TypeOK
  <1>2. PICK n \in Nat : n = ip[t] /\ ip'[t] = n + 1 /\ n \in 1 .. Len(prog[t])
    BY <1>1, Ops DEF TypeOK, ProgressOK, IsOp
  <1>3. \A s \in Thread : s # t => ip'[s] = ip[s]
    BY DEF TypeOK
  <1>4. /\ n \in DOMAIN prog[t] /\ ~Forks(prog, t, n)
        /\ \A k \in DOMAIN prog[t][n].futures : done[prog[t][n].futures[k]]
    BY <1>1, <1>2, Waiting
  <1>5. Len(prog[t]) \in Nat
    BY <1>1, Ops
  <1>6. \A s \in Thread : ip'[s] \in 1 .. Len(prog[s]) + 1
    BY <1>2, <1>3, <1>5 DEF ProgressOK
  <1>7. \A s \in Thread \ started : ip'[s] = 1 /\ ~done[s]
    BY <1>3 DEF ProgressOK
  <1>8. \A s \in Thread : done[s] => ip'[s] > Len(prog[s])
    BY <1>3 DEF ProgressOK, Ended
  <1>9. \A s \in Thread : \A i \in DOMAIN prog[s] : i < ip'[s] => i < ip[s] \/ (s = t /\ i = n)
    <2> SUFFICES ASSUME NEW s \in Thread, NEW i \in DOMAIN prog[s], i < ip'[s]
                 PROVE  i < ip[s] \/ (s = t /\ i = n)
      OBVIOUS
    <2>1. i \in Nat
      BY Ops
    <2> QED
      BY <1>2, <1>3, <2>1
  <1>10. \A s \in Thread : \A i \in DOMAIN prog[s] : i < ip[s] => i < ip'[s]
    <2> SUFFICES ASSUME NEW s \in Thread, NEW i \in DOMAIN prog[s], i < ip[s]
                 PROVE  i < ip'[s]
      OBVIOUS
    <2>1. i \in Nat
      BY Ops
    <2> QED
      BY <1>2, <1>3, <2>1
  <1>11. \A s \in Thread : \A i \in DOMAIN prog[s] :
            i < ip'[s] => IF Forks(prog, s, i) THEN prog[s][i].child \in started
                          ELSE \A k \in DOMAIN prog[s][i].futures : done[prog[s][i].futures[k]]
    BY <1>4, <1>9 DEF ProgressOK
  <1>12. \A u \in started \ {Root} : \E s \in started : \E i \in DOMAIN prog[s] :
             i < ip'[s] /\ Forks(prog, s, i) /\ prog[s][i].child = u /\ addr[u] = addr[s] + 1
    BY <1>10 DEF ProgressOK, TypeOK
  <1>13. ProgressOK'
    BY <1>6, <1>7, <1>8, <1>11, <1>12 DEF ProgressOK, Ended, Forks
  <1>14. ip' \in [Thread -> Nat]
    BY <1>2 DEF TypeOK
  <1> QED
    BY <1>3, <1>13, <1>14 DEF DepthOK

\* A worker's hands stay good while no thread moves on ...
LEMMA HandsQuiet ==
    ASSUME TypeOK, ProgressOK, ThreadsInOnePlace, HandsOK, WaitersOK, NEW v \in Worker, Unmoved(v),
           prog' = prog, ip' = ip, done' = done
    PROVE  HandsOf(v)'
  <1>1. \A u \in Range(ses[v]) : u \in Thread /\ ~done[u]
    BY InHands DEF Live
  <1> QED
    BY <1>1, HandsSame

\* ... and so do lists.
LEMMA WaitersQuiet ==
    ASSUME TypeOK, ThreadsInOnePlace, WaitersOK, prog' = prog, ip' = ip, done' = done,
           \A f \in Thread : Range(next'[f]) \subseteq Range(next[f]),
           \A v \in Worker : Range(ses'[v]) = {} \/ (cur'[v] = cur[v] /\ Range(ses'[v]) \subseteq Range(ses[v]))
    PROVE  WaitersOK'
  BY WaitersSame

\* A step of one thread does not touch those that wait.
LEMMA WaitersStay ==
    ASSUME TypeOK, ThreadsInOnePlace, NEW t \in Thread, Executing(t) # {},
           \A s \in Thread : s # t => ip'[s] = ip[s]
    PROVE  /\ \A f \in Thread : \A u \in Range(next[f]) : u # t /\ ip'[u] = ip[u]
           /\ \A v \in Worker : \A u \in Range(ses[v]) : u # t /\ ip'[u] = ip[u]
  <1>1. ASSUME NEW f \in Thread, NEW u \in Range(next[f]) PROVE u # t /\ ip'[u] = ip[u]
    <2>1. u \in Thread /\ Executing(u) = {}
      BY <1>1, InList
    <2> QED
      BY <2>1
  <1>2. ASSUME NEW v \in Worker, NEW u \in Range(ses[v]) PROVE u # t /\ ip'[u] = ip[u]
    <2>1. u \in Thread /\ Executing(u) = {}
      BY <1>2, InHands
    <2> QED
      BY <2>1
  <1> QED
    BY <1>1, <1>2
----------------------------------------------------------------------------
\* A frame below which all heights are taken is not higher than there are threads.
LEMMA DepthBound ==
    ASSUME NEW g \in [Thread -> Nat], NEW n \in Nat, \A a \in 0 .. n : \E s \in Thread : g[s] = a
    PROVE  n \in Addr
  <1> DEFINE f == [a \in 0 .. n |-> CHOOSE s \in Thread : g[s] = a]
  <1>1. \A a \in 0 .. n : f[a] \in Thread /\ g[f[a]] = a
    OBVIOUS
  <1>2. f \in [0 .. n -> Thread]
    BY <1>1
  <1>3. IsFiniteSet(0 .. n) /\ Cardinality(0 .. n) = n + 1
    BY FS_Interval
  <1>4. IsFiniteSet(Thread) /\ Cardinality(Thread) \in Nat
    BY ConstantsAssumption, FS_CardinalityType
  <1>5. ASSUME Cardinality(Thread) < Cardinality(0 .. n) PROVE FALSE
    <2> HIDE DEF f
    <2>1. \E x, y \in 0 .. n : x # y /\ f[x] = f[y]
      BY <1>2, <1>3, <1>4, <1>5, FS_PigeonHole
    <2> QED
      BY <1>1, <2>1
  <1> QED
    BY <1>3, <1>4, <1>5 DEF Addr

\* Entering a frame leaves those below it alone.
LEMMA EnterKeeps ==
    ASSUME TypeOK, NEW w \in Worker, NEW t \in Thread, NEW a \in Addr, Enter(w, t, a)
    PROVE  /\ stack' \in [Worker -> [Addr -> Thread \cup {NoThread}]]
           /\ stack'[w][a] = t
           /\ \A v \in Worker : \A b \in Addr : v # w \/ b < a => stack'[v][b] = stack[v][b]
  <1>1. Addr \subseteq Int
    BY ConstantsAssumption, FS_CardinalityType DEF Addr
  <1> DEFINE f == [b \in Addr |-> IF b < a THEN stack[w][b] ELSE IF b = a THEN t ELSE NoThread]
  <1>2. stack[w] \in [Addr -> Thread \cup {NoThread}]
    BY DEF TypeOK
  <1>3. f \in [Addr -> Thread \cup {NoThread}] /\ f[a] = t /\ \A b \in Addr : b < a => f[b] = stack[w][b]
    BY <1>1, <1>2
  <1>4. stack' = [stack EXCEPT ![w] = f]
    BY DEF Enter
  <1> HIDE DEF f
  <1> QED
    BY <1>3, <1>4 DEF TypeOK

\* fork: the parent is queued with its frame, the child runs above it.
LEMMA ForkKeeps ==
    ASSUME IndInv, NEW w \in Worker, Fork(w)
    PROVE  IndInv' /\ FJ!Next
  <1>0. /\ TypeOK /\ ProgressOK /\ DepthOK /\ ThreadsInOnePlace /\ HandsOK /\ WaitersOK
        /\ PoppedOK /\ FramesOK /\ ExitOK
    BY DEF IndInv
  <1>1. PICK t \in Thread : t = cur[w]
    BY <1>0 DEF TypeOK
  <1>2. pc[w] = "run" /\ IsOp(t, "fork")
    BY <1>1 DEF Fork, At
  <1>3. /\ Live(t) /\ t \in started
        /\ Executing(t) = {w} /\ Handling(t) = {} /\ Queuing(t) = {} /\ Listing(t) = {}
    BY <1>0, <1>1, <1>2, Executed
  <1>4. PICK new \in Thread : /\ new = Op(t).child /\ new \notin started /\ new # t
                              /\ ip[t] \in DOMAIN prog[t] /\ Forks(prog, t, ip[t])
                              /\ new = prog[t][ip[t]].child
    BY <1>0, <1>2, <1>3, Forking
  <1>5. PICK e \in Entry : e = [thread |-> t, evacuated |-> FALSE]
    BY DEF Entry
  <1>6. /\ queue' = [queue EXCEPT ![w] = Append(@, e)]
        /\ ip' = [ip EXCEPT ![t] = @ + 1]
        /\ started' = started \cup {new}
        /\ addr' = [addr EXCEPT ![new] = addr[t] + 1]
        /\ Enter(w, new, addr[t] + 1)
        /\ cur' = [cur EXCEPT ![w] = new] /\ pc' = [pc EXCEPT ![w] = "run"]
        /\ UNCHANGED <<prog, done, next, popped, ses, scan, seen, victim, mailbox>>
    BY <1>1, <1>4, <1>5 DEF Fork, Run, Goto, futures
  <1>7. PICK q \in Seq(Entry) : q = queue[w]
    BY <1>0 DEF TypeOK, Entry
  <1>8. PICK a \in Nat : a = addr[t] /\ a + 1 \in Nat
    BY <1>0 DEF TypeOK, Addr
  <1>9. DepthOK'
    <2>1. SUFFICES ASSUME NEW u \in started', NEW b \in 0 .. addr'[u]
                   PROVE  \E s \in started' : addr'[s] = b
      BY DEF DepthOK
    <2>2. \A s \in started : addr'[s] = addr[s]
      BY <1>0, <1>4, <1>6 DEF TypeOK
    <2>3. addr'[new] = a + 1
      BY <1>0, <1>6, <1>8 DEF TypeOK
    <2>4. CASE u # new
      BY <1>0, <1>6, <2>2, <2>4 DEF DepthOK
    <2>5. CASE u = new /\ b = a + 1
      BY <1>6, <2>3, <2>5
    <2>6. CASE u = new /\ b # a + 1
      <3>1. b \in 0 .. addr[t]
        BY <1>8, <2>3, <2>6
      <3> QED
        BY <1>0, <1>3, <1>6, <2>2, <3>1 DEF DepthOK
    <2> QED
      BY <2>4, <2>5, <2>6
  <1>10. a + 1 \in Addr
    <2>1. addr' \in [Thread -> Nat]
      BY <1>0, <1>4, <1>6, <1>8 DEF TypeOK, Addr
    <2>2. addr'[new] = a + 1 /\ new \in started' /\ started' \subseteq Thread
      BY <1>0, <1>4, <1>6, <1>8 DEF TypeOK
    <2>3. \A b \in 0 .. a + 1 : \E s \in Thread : addr'[s] = b
      BY <1>9, <2>2 DEF DepthOK
    <2> QED
      BY <1>8, <2>1, <2>3, DepthBound
  <1>11. /\ stack' \in [Worker -> [Addr -> Thread \cup {NoThread}]]
         /\ stack'[w][a + 1] = new
         /\ \A v \in Worker : \A b \in Addr : v # w \/ b < a + 1 => stack'[v][b] = stack[v][b]
    BY <1>0, <1>6, <1>8, <1>10, EnterKeeps
  <1>12. /\ Append(q, e) \in Seq(Entry) /\ Len(Append(q, e)) = Len(q) + 1
         /\ Append(q, e)[Len(q) + 1] = e
         /\ \A k \in 1 .. Len(q) : Append(q, e)[k] = q[k]
         /\ ThreadsOf(Append(q, e)) = Append(ThreadsOf(q), t)
    BY <1>5, ThreadsOfAppend
  <1>13. TypeOK'
    <2>1. queue' \in [Worker -> Seq(Entry)]
      BY <1>0, <1>6, <1>7, <1>12 DEF TypeOK, Entry
    <2>2. started' \subseteq Thread
      BY <1>0, <1>4, <1>6 DEF TypeOK
    <2>6. ip' \in [Thread -> Nat]
      BY <1>0, <1>6 DEF TypeOK
    <2>4. addr' = [addr EXCEPT ![new] = a + 1]
      BY <1>6, <1>8
    <2>5. addr' \in [Thread -> Addr]
      BY <1>0, <1>10, <2>4 DEF TypeOK
    <2>3. cur' \in [Worker -> Thread] /\ pc' \in [Worker -> Label]
      BY <1>0, <1>4, <1>6 DEF TypeOK, Label
    <2> QED
      BY <1>0, <1>6, <1>11, <2>1, <2>2, <2>3, <2>5, <2>6 DEF TypeOK, Entry
  <1>14. ProgressOK'
    <2>1. \A s \in Thread : s # t => ip'[s] = ip[s]
      BY <1>0, <1>6 DEF TypeOK
    <2>2. PICK n \in Nat : n = ip[t] /\ ip'[t] = n + 1 /\ n \in 1 .. Len(prog[t])
      BY <1>0, <1>4, <1>6, Ops DEF TypeOK
    <2>3. Len(prog[t]) \in Nat
      BY <1>0, Ops
    <2>4. \A s \in Thread : ip'[s] \in 1 .. Len(prog[s]) + 1
      BY <1>0, <2>1, <2>2, <2>3 DEF ProgressOK
    <2>5. \A s \in Thread \ started' : ip'[s] = 1 /\ ~done[s]
      BY <1>0, <1>3, <1>6, <2>1 DEF ProgressOK
    <2>6. \A s \in Thread : done[s] => ip'[s] > Len(prog[s])
      BY <1>0, <1>3, <2>1 DEF ProgressOK, Ended, Live
    <2>7. \A s \in Thread : \A i \in DOMAIN prog[s] :
            i < ip'[s] => IF Forks(prog, s, i) THEN prog[s][i].child \in started'
                          ELSE \A k \in DOMAIN prog[s][i].futures : done[prog[s][i].futures[k]]
      <3> SUFFICES ASSUME NEW s \in Thread, NEW i \in DOMAIN prog[s], i < ip'[s]
                   PROVE  IF Forks(prog, s, i) THEN prog[s][i].child \in started'
                          ELSE \A k \in DOMAIN prog[s][i].futures : done[prog[s][i].futures[k]]
        OBVIOUS
      <3>1. CASE s = t /\ i = ip[t]
        BY <1>4, <1>6, <3>1
      <3>2. CASE ~(s = t /\ i = ip[t])
        <4>1. i < ip[s]
          <5>1. i \in Nat
            BY <1>0, Ops
          <5> QED
            BY <2>1, <2>2, <3>2, <5>1
        <4> QED
          BY <1>0, <1>6, <4>1 DEF ProgressOK
      <3> QED
        BY <3>1, <3>2
    <2>8. \A u \in started' \ {Root} : \E s \in started' : \E i \in DOMAIN prog[s] :
             i < ip'[s] /\ Forks(prog, s, i) /\ prog[s][i].child = u /\ addr'[u] = addr'[s] + 1
      <3> SUFFICES ASSUME NEW u \in started' \ {Root}
                   PROVE  \E s \in started' : \E i \in DOMAIN prog[s] :
                            i < ip'[s] /\ Forks(prog, s, i) /\ prog[s][i].child = u /\ addr'[u] = addr'[s] + 1
        OBVIOUS
      <3>1. \A s \in started : addr'[s] = addr[s]
        BY <1>0, <1>4, <1>6 DEF TypeOK
      <3>2. CASE u = new
        <4>1. addr'[new] = a + 1 /\ addr'[t] = a
          BY <1>0, <1>3, <1>6, <1>8, <3>1 DEF TypeOK
        <4>2. addr'[u] = addr'[t] + 1
          BY <3>2, <4>1
        <4>3. t \in started' /\ ip[t] < ip'[t]
          BY <1>3, <1>6, <2>2
        <4> QED
          BY <1>4, <3>2, <4>2, <4>3
      <3>3. CASE u # new
        <4>1. u \in started \ {Root}
          BY <1>6, <3>3
        <4>2. PICK s \in started : \E i \in DOMAIN prog[s] :
                i < ip[s] /\ Forks(prog, s, i) /\ prog[s][i].child = u /\ addr[u] = addr[s] + 1
          BY <1>0, <4>1 DEF ProgressOK
        <4>3. PICK i \in DOMAIN prog[s] : i < ip[s] /\ Forks(prog, s, i) /\ prog[s][i].child = u /\ addr[u] = addr[s] + 1
          BY <4>2
        <4>4. s \in Thread
          BY <1>0 DEF TypeOK
        <4>5. i < ip'[s]
          <5>1. i \in Nat
            BY <1>0, <4>4, Ops
          <5> QED
            BY <2>1, <2>2, <4>3, <4>4, <5>1
        <4> QED
          BY <1>6, <3>1, <4>1, <4>3, <4>5
      <3> QED
        BY <3>2, <3>3
    <2>9. Root \in started' /\ addr'[Root] = 0
      BY <1>0, <1>4, <1>6 DEF ProgressOK, TypeOK
    <2> QED
      BY <1>6, <2>4, <2>5, <2>6, <2>7, <2>8, <2>9 DEF ProgressOK, Ended, Forks
  <1>15. ThreadsInOnePlace'
    <2>0. ThreadsOf(q) \in Seq(Thread) /\ IsInjective(ThreadsOf(q)) /\ t \notin Range(ThreadsOf(q))
      BY <1>0, <1>3, <1>7, ThreadsOfQueue DEF ThreadsInOnePlace, Queuing
    <2>1. /\ IsInjective(ThreadsOf(queue'[w]))
          /\ Range(ThreadsOf(queue'[w])) = Range(ThreadsOf(queue[w])) \cup {t}
      <3>1. queue'[w] = Append(q, e)
        BY <1>0, <1>6, <1>7 DEF TypeOK
      <3>2. PICK l \in Seq(Thread) : l = ThreadsOf(q)
        BY <2>0
      <3>3. IsInjective(Append(l, t)) /\ Range(Append(l, t)) = Range(l) \cup {t}
        BY <2>0, <3>2, AppendedOnce
      <3> QED
        BY <1>7, <1>12, <3>1, <3>2, <3>3
    <2>2. \A v \in Worker : v # w => queue'[v] = queue[v] /\ cur'[v] = cur[v] /\ pc'[v] = pc[v]
      BY <1>0, <1>6 DEF TypeOK
    <2>3. cur'[w] = new /\ pc'[w] = "run"
      BY <1>0, <1>6 DEF TypeOK
    <2>4. \A s \in Thread : Handling(s)' = Handling(s) /\ Listing(s)' = Listing(s)
      BY <1>6 DEF Handling, Listing
    <2>5. \A s \in Thread : s # t => Queuing(s)' = Queuing(s)
      BY <2>1, <2>2 DEF Queuing
    <2>6. Queuing(t)' = {w}
      BY <1>3, <2>1, <2>2 DEF Queuing
    <2>7. \A s \in Thread : s # t /\ s # new => Executing(s)' = Executing(s)
      BY <1>1, <2>2, <2>3 DEF Executing
    <2>8. Executing(t)' = {}
      BY <1>3, <1>4, <2>2, <2>3 DEF Executing
    <2>9. ~Live(new)
      BY <1>4 DEF Live
    <2>10. Executing(new) = {} /\ Handling(new) = {} /\ Queuing(new) = {} /\ Listing(new) = {}
      BY <1>0, <2>9, OneSpot
    <2>11. Executing(new)' = {w}
      BY <2>2, <2>3, <2>10 DEF Executing
    <2>12. \A s \in Thread : s # new => (Live(s)' <=> Live(s))
      BY <1>6 DEF Live
    <2>13. Live(new)'
      BY <1>0, <1>4, <1>6 DEF Live, ProgressOK
    <2>14. \A s \in Thread : Stays(s) \/ Comes(s)
      <3> SUFFICES ASSUME NEW s \in Thread PROVE Stays(s) \/ Comes(s)
        OBVIOUS
      <3>1. CASE s = t
        BY <1>3, <1>4, <2>4, <2>6, <2>8, <2>12, <3>1 DEF Comes
      <3>2. CASE s = new
        BY <1>4, <2>4, <2>5, <2>10, <2>11, <2>13, <3>2 DEF Comes
      <3>3. CASE s # t /\ s # new
        BY <2>4, <2>5, <2>7, <2>12, <3>3 DEF Stays
      <3> QED
        BY <3>1, <3>2, <3>3
    <2> QED
      BY <1>0, <1>6, <2>1, <2>2, <2>14, OnePlaceNext DEF ThreadsInOnePlace
  <1>16. HandsOK'
    <2>1. HandsOf(w)'
      <3>1. ses'[w] = <<>>
        BY <1>0, <1>2, <1>6 DEF HandsOK, HandsOf
      <3>2. pc'[w] = "run"
        BY <1>0, <1>6 DEF TypeOK
      <3> QED
        BY <3>1, <3>2, HandsEmpty
    <2>2. ASSUME NEW v \in Worker, v # w PROVE HandsOf(v)'
      <3>1. Unmoved(v)
        BY <1>0, <1>6, <2>2 DEF TypeOK, Unmoved
      <3>2. \A u \in Range(ses[v]) : u \in Thread /\ Live(u) /\ Handling(u) = {v}
        BY <1>0, InHands
      <3>3. \A u \in Range(ses[v]) : ip'[u] = ip[u]
        BY <1>0, <1>3, <1>6, <3>2 DEF TypeOK
      <3>4. \A f \in Thread : f \in Range(ses[v]) => ~done'[f]
        BY <1>6, <3>2 DEF Live
      <3> QED
        BY <1>0, <1>6, <3>1, <3>3, <3>4, HandsSame
    <2> QED
      BY <2>1, <2>2 DEF HandsOK
  <1>17. WaitersOK'
    <2>1. \A f \in Thread : \A u \in Range(next[f]) : ip'[u] = ip[u]
      <3> SUFFICES ASSUME NEW f \in Thread, NEW u \in Range(next[f]) PROVE ip'[u] = ip[u]
        OBVIOUS
      <3>1. u \in Thread /\ Listing(u) = {f}
        BY <1>0, InList
      <3> QED
        BY <1>0, <1>3, <1>6, <3>1 DEF TypeOK
    <2>2. \A v \in Worker : \A u \in Range(ses[v]) : ip'[u] = ip[u] /\ v # w
      <3> SUFFICES ASSUME NEW v \in Worker, NEW u \in Range(ses[v]) PROVE ip'[u] = ip[u] /\ v # w
        OBVIOUS
      <3>1. u \in Thread /\ Handling(u) = {v}
        BY <1>0, InHands
      <3>2. Range(ses[w]) = {}
        BY <1>0, <1>2 DEF HandsOK, HandsOf, Range
      <3>3. v # w
        BY <3>2
      <3> QED
        BY <1>0, <1>3, <1>6, <3>1, <3>3 DEF TypeOK
    <2>3. \A v \in Worker : v # w => cur'[v] = cur[v]
      BY <1>0, <1>6 DEF TypeOK
    <2>4. Range(ses'[w]) = {}
      <3>1. ses'[w] = <<>>
        BY <1>0, <1>2, <1>6 DEF HandsOK, HandsOf
      <3> QED
        BY <3>1 DEF Range
    <2>5. \A v \in Worker : Range(ses'[v]) = {} \/ (cur'[v] = cur[v] /\ Range(ses'[v]) \subseteq Range(ses[v]))
      BY <1>6, <2>3, <2>4
    <2>6. \A f \in Thread : Range(next'[f]) \subseteq Range(next[f])
      BY <1>6
    <2>7. \A f \in Thread : \A u \in Range(next'[f]) : ip'[u] = ip[u]
      BY <1>6, <2>1
    <2>8. \A v \in Worker : \A u \in Range(ses'[v]) : ip'[u] = ip[u] /\ (done'[cur[v]] => done[cur[v]])
      BY <1>6, <2>2
    <2> QED
      BY <1>0, <1>6, <2>5, <2>6, <2>7, <2>8, WaitersSame
  <1>18. PoppedOK'
    BY <1>0, <1>6 DEF PoppedOK
  <1>19. FramesOK'
    <2>1. \A s \in started : addr'[s] = addr[s]
      BY <1>0, <1>4, <1>6 DEF TypeOK
    <2>2. ASSUME NEW v \in Worker, v # w PROVE FramesOf(v)'
      <3>1. queue'[v] = queue[v] /\ cur'[v] = cur[v] /\ pc'[v] = pc[v]
        BY <1>0, <1>6, <2>2 DEF TypeOK
      <3>2. stack'[v] = stack[v]
        BY <1>0, <1>6, <2>2 DEF TypeOK, Enter
      <3>3. InFrame(v)' => InFrame(v)
        BY <1>6, <3>1 DEF InFrame, Setting
      <3> QED
        BY <1>0, <2>1, <3>1, <3>2, <3>3, FramesSame
    <2>3. FramesOf(w)'
      <3>1. queue'[w] = Append(q, e) /\ cur'[w] = new /\ pc'[w] = "run"
        BY <1>0, <1>6, <1>7 DEF TypeOK
      <3>2. addr'[new] = a + 1 /\ addr'[t] = a
        BY <1>0, <1>3, <1>6, <1>8, <2>1 DEF TypeOK
      <3>3. PICK p \in Seq(Entry) : p = Append(q, e) /\ DOMAIN p = 1 .. Len(q) + 1 /\ Len(q) \in Nat
        <4>1. PICK p \in Seq(Entry) : p = Append(q, e)
          BY <1>12
        <4>2. Len(p) = Len(q) + 1 /\ DOMAIN p = 1 .. Len(p) /\ Len(q) \in Nat
          BY <1>12, <4>1
        <4> QED
          BY <4>1, <4>2
      <3>4. \A k \in 1 .. Len(q) : p[k] = q[k]
        BY <1>12, <3>3
      <3>5. p[Len(q) + 1].thread = t /\ p[Len(q) + 1].evacuated = FALSE
        BY <1>5, <1>12, <3>3
      <3>6. DOMAIN q = 1 .. Len(q)
        OBVIOUS
      <3>7. \A k \in 1 .. Len(q) : /\ q[k].thread \in Thread /\ addr'[q[k].thread] = addr[q[k].thread]
                                   /\ addr[q[k].thread] \in Addr
        BY <1>0, <1>7, <2>1, <3>6, InQueue DEF Live, TypeOK
      <3>8. FramesOf(w) /\ InFrame(w)
        BY <1>0, <1>2 DEF FramesOK, InFrame
      <3>9. \A k, l \in 1 .. Len(q) : k < l /\ ~q[k].evacuated => ~q[l].evacuated /\ addr'[q[k].thread] < addr'[q[l].thread]
        BY <1>7, <3>6, <3>7, <3>8 DEF FramesOf
      <3>10. \A k \in 1 .. Len(q) : ~q[k].evacuated => addr[q[k].thread] < a /\ stack[w][addr[q[k].thread]] = q[k].thread
        BY <1>1, <1>7, <1>8, <3>6, <3>8 DEF FramesOf
      <3>11. stack[w][a] = t
        BY <1>1, <1>8, <3>8 DEF FramesOf
      <3>12. Addr \subseteq Int /\ a \in Addr
        BY <1>0, <1>8, ConstantsAssumption, FS_CardinalityType DEF Addr, TypeOK
      <3>13. \A k \in 1 .. Len(q) : ~q[k].evacuated =>
                addr'[q[k].thread] < a /\ stack'[w][addr'[q[k].thread]] = q[k].thread
        <4> SUFFICES ASSUME NEW k \in 1 .. Len(q), ~q[k].evacuated
                     PROVE  addr'[q[k].thread] < a /\ stack'[w][addr'[q[k].thread]] = q[k].thread
          OBVIOUS
        <4>1. PICK b \in Addr : b = addr[q[k].thread] /\ addr'[q[k].thread] = b
          BY <3>7
        <4>2. b < a /\ stack[w][b] = q[k].thread
          BY <3>10, <4>1
        <4>3. b < a + 1
          BY <3>12, <4>2
        <4> QED
          BY <1>11, <4>1, <4>2, <4>3
      <3>14. stack'[w][a] = t /\ a < a + 1
        BY <1>11, <3>11, <3>12
      <3>15. \A k \in DOMAIN p : ~p[k].evacuated =>
                addr'[p[k].thread] < a + 1 /\ stack'[w][addr'[p[k].thread]] = p[k].thread
        <4> SUFFICES ASSUME NEW k \in DOMAIN p, ~p[k].evacuated
                     PROVE  addr'[p[k].thread] < a + 1 /\ stack'[w][addr'[p[k].thread]] = p[k].thread
          OBVIOUS
        <4>1. CASE k = Len(q) + 1
          BY <3>2, <3>5, <3>14, <4>1
        <4>2. CASE k # Len(q) + 1
          <5>1. k \in 1 .. Len(q) /\ p[k] = q[k]
            BY <3>3, <3>4, <4>2
          <5>2. PICK b \in Addr : b = addr'[q[k].thread]
            BY <3>7, <5>1
          <5>3. b < a /\ stack'[w][b] = q[k].thread
            BY <3>13, <5>1, <5>2
          <5>4. b < a + 1
            BY <1>8, <3>12, <5>3
          <5> QED
            BY <5>1, <5>2, <5>3, <5>4
        <4> QED
          BY <4>1, <4>2
      <3>16. \A k, l \in DOMAIN p : k < l /\ ~p[k].evacuated => ~p[l].evacuated /\ addr'[p[k].thread] < addr'[p[l].thread]
        <4> SUFFICES ASSUME NEW k \in DOMAIN p, NEW l \in DOMAIN p, k < l, ~p[k].evacuated
                     PROVE  ~p[l].evacuated /\ addr'[p[k].thread] < addr'[p[l].thread]
          OBVIOUS
        <4>1. k \in 1 .. Len(q) /\ p[k] = q[k]
          BY <3>3, <3>4
        <4>2. CASE l = Len(q) + 1
          BY <3>2, <3>5, <3>13, <4>1, <4>2
        <4>3. CASE l # Len(q) + 1
          <5>1. l \in 1 .. Len(q) /\ p[l] = q[l]
            BY <3>3, <3>4, <4>3
          <5> QED
            BY <3>9, <4>1, <5>1
        <4> QED
          BY <4>2, <4>3
      <3> QED
        BY <1>11, <3>1, <3>2, <3>3, <3>15, <3>16 DEF FramesOf
    <2> QED
      BY <2>2, <2>3 DEF FramesOK
  <1>20. ExitOK'
    <2>1. \A v \in Worker : pc'[v] = "left" <=> pc[v] = "left"
      BY <1>0, <1>2, <1>6 DEF TypeOK
    <2> QED
      BY <1>0, <1>6, <2>1, ExitSame
  <1>21. FJ!Next
    <2>1. t \in started \ {s \in Thread : done[s]}
      BY <1>3 DEF Live
    <2>2. ip[t] <= Len(prog[t]) /\ prog[t][ip[t]].kind = "fork"
      BY <1>2 DEF IsOp, Op
    <2>3. FJ!Step(t)
      BY <1>4, <1>6, <2>1, <2>2 DEF FJ!Step
    <2> QED
      BY <2>3 DEF FJ!Next
  <1> QED
    BY <1>9, <1>13, <1>14, <1>15, <1>16, <1>17, <1>18, <1>19, <1>20, <1>21 DEF IndInv
----------------------------------------------------------------------------
\* steal: the frame has come over, the thread runs at the thief.
LEMMA CopiedKeeps ==
    ASSUME IndInv, NEW w \in Worker, Copied(w)
    PROVE  IndInv' /\ UNCHANGED FJ!vars
  <1>0. /\ TypeOK /\ ProgressOK /\ DepthOK /\ ThreadsInOnePlace /\ HandsOK /\ WaitersOK
        /\ PoppedOK /\ FramesOK /\ ExitOK
    BY DEF IndInv
  <1>1. PICK t \in Thread : t = cur[w] /\ addr[t] \in Addr
    BY <1>0 DEF TypeOK
  <1>2. pc[w] = "copy"
    BY DEF Copied, At
  <1>3. /\ Enter(w, t, addr[t]) /\ cur' = [cur EXCEPT ![w] = t] /\ pc' = [pc EXCEPT ![w] = "run"]
        /\ victim' = [victim EXCEPT ![w] = w]
        /\ UNCHANGED <<prog, started, ip, addr, done, next, popped, queue, ses, scan, seen, mailbox>>
    BY <1>1 DEF Copied, Run, Goto, threads, futures
  <1>4. /\ stack' \in [Worker -> [Addr -> Thread \cup {NoThread}]]
        /\ stack'[w][addr[t]] = t
    BY <1>0, <1>1, <1>3, EnterKeeps
  <1>5. cur' = cur /\ pc'[w] = "run" /\ \A v \in Worker : v # w => pc'[v] = pc[v]
    BY <1>0, <1>1, <1>3 DEF TypeOK
  <1>6. TypeOK'
    <2>1. pc' \in [Worker -> Label]
      BY <1>0, <1>3 DEF TypeOK, Label
    <2>2. victim' \in [Worker -> Worker]
      BY <1>0, <1>3 DEF TypeOK
    <2>3. cur' \in [Worker -> Thread]
      BY <1>0, <1>5 DEF TypeOK
    <2> QED
      BY <1>0, <1>3, <1>4, <2>1, <2>2, <2>3 DEF TypeOK
  <1>7. ProgressOK' /\ DepthOK'
    BY <1>0, <1>3, ProgressDone
  <1>8. ThreadsInOnePlace'
    BY <1>0, <1>2, <1>3, <1>5, PlacesSame
  <1>9. HandsOK'
    <2>1. HandsOf(w)'
      <3>1. ses'[w] = <<>>
        BY <1>0, <1>2, <1>3 DEF HandsOK, HandsOf
      <3> QED
        BY <1>5, <3>1, HandsEmpty
    <2>2. ASSUME NEW v \in Worker, v # w PROVE HandsOf(v)'
      <3>1. Unmoved(v)
        BY <1>3, <1>5, <2>2 DEF Unmoved
      <3> QED
        BY <1>0, <1>3, <3>1, HandsQuiet
    <2> QED
      BY <2>1, <2>2 DEF HandsOK
  <1>10. WaitersOK'
    BY <1>0, <1>3, <1>5, WaitersQuiet
  <1>11. PoppedOK'
    BY <1>0, <1>3 DEF PoppedOK
  <1>12. FramesOK'
    <2>1. ASSUME NEW v \in Worker, v # w PROVE FramesOf(v)'
      <3>1. stack'[v] = stack[v]
        BY <1>0, <1>3, <2>1 DEF TypeOK, Enter
      <3>2. InFrame(v)' => InFrame(v)
        BY <1>3, <1>5, <2>1 DEF InFrame, Setting
      <3> QED
        BY <1>0, <1>3, <1>5, <2>1, <3>1, <3>2, FramesSame
    <2>2. FramesOf(w)'
      <3>1. \A k \in DOMAIN queue[w] : queue[w][k].evacuated
        BY <1>0, <1>2 DEF FramesOK, FramesOf
      <3> QED
        BY <1>1, <1>3, <1>4, <1>5, <3>1 DEF FramesOf
    <2> QED
      BY <2>1, <2>2 DEF FramesOK
  <1>13. ExitOK'
    BY <1>0, <1>2, <1>3, <1>5, ExitSame
  <1>14. UNCHANGED FJ!vars
    BY <1>3 DEF FJ!vars
  <1> QED
    BY <1>6, <1>7, <1>8, <1>9, <1>10, <1>11, <1>12, <1>13, <1>14 DEF IndInv

\* get and wait_all with nothing to wait for.
LEMMA NoWaitKeeps ==
    ASSUME IndInv, NEW w \in Worker, NoWait(w)
    PROVE  IndInv' /\ FJ!Next
  <1>0. /\ TypeOK /\ ProgressOK /\ DepthOK /\ ThreadsInOnePlace /\ HandsOK /\ WaitersOK
        /\ PoppedOK /\ FramesOK /\ ExitOK
    BY DEF IndInv
  <1>1. PICK t \in Thread : t = cur[w]
    BY <1>0 DEF TypeOK
  <1>2. pc[w] = "run" /\ IsOp(t, "wait") /\ Ready(t)
    BY <1>1 DEF NoWait, At
  <1>3. /\ ip' = [ip EXCEPT ![t] = @ + 1]
        /\ UNCHANGED <<prog, started, addr, done, next, popped, queue, stack,
                       cur, pc, ses, scan, seen, victim, mailbox>>
    BY <1>1 DEF NoWait, futures, local
  <1>4. Live(t) /\ t \in started /\ Executing(t) = {w} /\ ~done[t]
    BY <1>0, <1>1, <1>2, Executed DEF Live
  <1>5. \A k \in 1 .. Len(Awaited(t)) : done[Awaited(t)[k]]
    BY <1>2 DEF Ready
  <1>6. ProgressOK' /\ DepthOK' /\ ip' \in [Thread -> Nat] /\ \A s \in Thread : s # t => ip'[s] = ip[s]
    BY <1>0, <1>2, <1>3, <1>4, <1>5, ProgressStep
  <1>7. TypeOK'
    BY <1>0, <1>3, <1>6 DEF TypeOK
  <1>8. ThreadsInOnePlace'
    BY <1>0, <1>3, PlacesSame
  <1>9. /\ \A f \in Thread : \A u \in Range(next[f]) : u # t /\ ip'[u] = ip[u]
        /\ \A v \in Worker : \A u \in Range(ses[v]) : u # t /\ ip'[u] = ip[u]
    BY <1>0, <1>4, <1>6, WaitersStay
  <1>10. HandsOK'
    <2>1. ASSUME NEW v \in Worker PROVE HandsOf(v)'
      <3>1. Unmoved(v)
        BY <1>3 DEF Unmoved
      <3>2. \A f \in Thread : f \in Range(ses[v]) => ~done'[f]
        BY <1>0, <1>3, InHands DEF Live
      <3> QED
        BY <1>0, <1>3, <1>9, <3>1, <3>2, HandsSame
    <2> QED
      BY <2>1 DEF HandsOK
  <1>11. WaitersOK'
    <2>1. \A f \in Thread : Range(next'[f]) \subseteq Range(next[f])
      BY <1>3
    <2>2. \A v \in Worker : Range(ses'[v]) = {} \/ (cur'[v] = cur[v] /\ Range(ses'[v]) \subseteq Range(ses[v]))
      BY <1>3
    <2>3. \A f \in Thread : \A u \in Range(next'[f]) : ip'[u] = ip[u]
      BY <1>3, <1>9
    <2>4. \A v \in Worker : \A u \in Range(ses'[v]) : ip'[u] = ip[u] /\ (done'[cur[v]] => done[cur[v]])
      BY <1>3, <1>9
    <2> QED
      BY <1>0, <1>3, <2>1, <2>2, <2>3, <2>4, WaitersSame
  <1>12. PoppedOK'
    BY <1>0, <1>3 DEF PoppedOK
  <1>13. FramesOK'
    <2>1. ASSUME NEW v \in Worker PROVE FramesOf(v)'
      <3>1. InFrame(v)' => InFrame(v)
        BY <1>3 DEF InFrame, Setting
      <3> QED
        BY <1>0, <1>3, <3>1, FramesSame
    <2> QED
      BY <2>1 DEF FramesOK
  <1>14. ExitOK'
    BY <1>0, <1>3, ExitSame
  <1>15. FJ!Next
    <2>1. /\ ip[t] \in DOMAIN prog[t] /\ ip[t] <= Len(prog[t]) /\ prog[t][ip[t]].kind = "wait"
          /\ Awaited(t) = prog[t][ip[t]].futures /\ Awaited(t) \in Seq(Thread)
      BY <1>0, <1>2, Waiting DEF IsOp, Op
    <2>2. \A k \in 1 .. Len(prog[t][ip[t]].futures) : prog[t][ip[t]].futures[k] \in {s \in Thread : done[s]}
      BY <1>5, <2>1
    <2>3. FJ!Step(t)
      BY <1>3, <1>4, <2>1, <2>2 DEF FJ!Step
    <2> QED
      BY <2>3 DEF FJ!Next
  <1> QED
    BY <1>6, <1>7, <1>8, <1>10, <1>11, <1>12, <1>13, <1>14, <1>15 DEF IndInv

\* Steps that only change how far a worker is with what it has in its hands.
LEMMA QuietKeeps ==
    ASSUME IndInv, NEW w \in Worker, HandsOf(w)',
           pc[w] \in {"check", "link", "swap", "pop", "close"},
           pc' \in [Worker -> Label], pc'[w] \in {"check", "link", "swap", "pop", "close"},
           scan' \in [Worker -> Nat], seen' \in [Worker -> Seq(Thread)],
           \A v \in Worker : v # w => pc'[v] = pc[v] /\ scan'[v] = scan[v],
           UNCHANGED <<prog, started, ip, addr, done, next, popped, queue, stack, cur, ses, victim, mailbox>>
    PROVE  IndInv' /\ UNCHANGED FJ!vars
  <1>0. /\ TypeOK /\ ProgressOK /\ DepthOK /\ ThreadsInOnePlace /\ HandsOK /\ WaitersOK
        /\ PoppedOK /\ FramesOK /\ ExitOK
    BY DEF IndInv
  <1>2. TypeOK'
    BY <1>0 DEF TypeOK
  <1>3. ProgressOK' /\ DepthOK'
    BY <1>0, ProgressDone
  <1>4. ThreadsInOnePlace'
    BY <1>0, PlacesSame
  <1>5. HandsOK'
    <2>1. ASSUME NEW v \in Worker, v # w PROVE HandsOf(v)'
      <3>1. Unmoved(v)
        BY <2>1 DEF Unmoved
      <3> QED
        BY <1>0, <3>1, HandsQuiet
    <2> QED
      BY <2>1 DEF HandsOK
  <1>6. WaitersOK'
    BY <1>0, WaitersQuiet
  <1>7. PoppedOK'
    BY <1>0 DEF PoppedOK
  <1>8. FramesOK'
    <2>1. ASSUME NEW v \in Worker PROVE FramesOf(v)'
      <3>1. InFrame(v)' => InFrame(v)
        BY DEF InFrame, Setting
      <3>2. CASE v # w
        BY <1>0, <3>1, <3>2, FramesSame
      <3>3. CASE v = w
        BY <1>0, <3>1, <3>3 DEF FramesOK, FramesOf
      <3> QED
        BY <3>2, <3>3
    <2> QED
      BY <2>1 DEF FramesOK
  <1>9. ExitOK'
    BY <1>0, ExitSame
  <1>10. UNCHANGED FJ!vars
    BY DEF FJ!vars
  <1> QED
    BY <1>2, <1>3, <1>4, <1>5, <1>6, <1>7, <1>8, <1>9, <1>10 DEF IndInv

\* waitall_check_and_push: one future more is done, or one is found that is not.
LEMMA CheckKeeps ==
    ASSUME IndInv, NEW w \in Worker, Check(w)
    PROVE  IndInv' /\ UNCHANGED FJ!vars
  <1>0. TypeOK /\ ProgressOK /\ ThreadsInOnePlace /\ HandsOK /\ WaitersOK
    BY DEF IndInv
  <1>1. pc[w] = "check" /\ ses[w] # <<>> /\ scan[w] <= Len(Awaited(Waiter(w)))
    BY <1>0 DEF Check, At, HandsOK, HandsOf
  <1>2. PICK u \in Thread : u = Waiter(w) /\ IsOp(u, "wait")
    BY <1>0, <1>1, InHand DEF WaitersOK
  <1>3. Awaited(u) \in Seq(Thread) /\ Len(Awaited(u)) \in Nat
    BY <1>0, <1>2, Waiting
  <1>4. UNCHANGED <<prog, started, ip, addr, done, next, popped, queue, stack, cur, ses, seen, victim, mailbox>>
    BY DEF Check, threads, futures
  <1>5. Waiter(w)' = u /\ Awaited(u)' = Awaited(u) /\ (Setting(w)' <=> Setting(w))
    BY <1>2, <1>4 DEF Waiter, Awaited, Op, Setting
  <1>6. PICK n \in Nat : n = scan[w] /\ n \in 1 .. Len(Awaited(u))
    BY <1>0, <1>1, <1>2, <1>3 DEF HandsOK, HandsOf, TypeOK
  <1>7. /\ HandsOf(w) /\ \A k \in 1 .. n - 1 : done[Awaited(u)[k]]
    BY <1>0, <1>1, <1>2, <1>6 DEF HandsOK, HandsOf
  <1>8. CASE done[Future(w)]
    <2>1. scan' = [scan EXCEPT ![w] = n + 1] /\ pc' = pc
      BY <1>6, <1>8 DEF Check
    <2>2. scan' \in [Worker -> Nat] /\ scan'[w] = n + 1 /\ \A v \in Worker : v # w => scan'[v] = scan[v]
      BY <1>0, <2>1 DEF TypeOK
    <2>3. done[Awaited(u)[n]]
      BY <1>2, <1>6, <1>8 DEF Future
    <2>4. \A k \in 1 .. (n + 1) - 1 : done[Awaited(u)[k]]
      BY <1>6, <1>7, <2>3
    <2>5. n + 1 \in 1 .. Len(Awaited(u)) + 1
      BY <1>3, <1>6
    <2>6. HandsOf(w)'
      BY <1>1, <1>2, <1>4, <1>5, <1>7, <2>1, <2>2, <2>4, <2>5 DEF HandsOf
    <2> QED
      <3>1. pc' \in [Worker -> Label] /\ pc'[w] = "check" /\ seen' \in [Worker -> Seq(Thread)]
        BY <1>0, <1>1, <1>4, <2>1 DEF TypeOK
      <3> QED
        BY <1>1, <1>4, <2>1, <2>2, <2>6, <3>1, QuietKeeps
  <1>9. CASE ~done[Future(w)]
    <2>1. pc' = [pc EXCEPT ![w] = "link"] /\ scan' = scan
      BY <1>9 DEF Check, Goto
    <2>2. pc'[w] = "link" /\ \A v \in Worker : v # w => pc'[v] = pc[v]
      BY <1>0, <2>1 DEF TypeOK
    <2>3. HandsOf(w)'
      BY <1>1, <1>2, <1>4, <1>5, <1>6, <1>7, <2>1, <2>2 DEF HandsOf
    <2> QED
      <3>1. pc' \in [Worker -> Label] /\ scan' \in [Worker -> Nat] /\ seen' \in [Worker -> Seq(Thread)]
        BY <1>0, <1>4, <2>1 DEF TypeOK, Label
      <3> QED
        BY <1>1, <1>4, <2>1, <2>2, <2>3, <3>1, QuietKeeps
  <1> QED
    BY <1>8, <1>9

\* What is known of a worker with a state in its hands.
LEMMA HandFacts ==
    ASSUME TypeOK, ProgressOK, ThreadsInOnePlace, HandsOK, WaitersOK, NEW w \in Worker, ses[w] # <<>>
    PROVE  LET u == Waiter(w)
           IN  /\ u \in Thread /\ Live(u) /\ IsOp(u, "wait") /\ u \in Range(ses[w])
               /\ Awaited(u) \in Seq(Thread) /\ Len(Awaited(u)) \in Nat
               /\ pc[w] \in {"link", "swap"} =>
                     /\ scan[w] \in 1 .. Len(Awaited(u)) /\ Future(w) = Awaited(u)[scan[w]]
                     /\ Future(w) \in Thread /\ Future(w) \in Range(Awaited(u))
                     /\ \A k \in 1 .. scan[w] - 1 : done[Awaited(u)[k]]
  <1>1. PICK u \in Thread : u = Waiter(w) /\ Live(u) /\ IsOp(u, "wait") /\ u \in Range(ses[w])
    BY InHand DEF WaitersOK
  <1>2. Awaited(u) \in Seq(Thread) /\ Len(Awaited(u)) \in Nat
    BY <1>1, Waiting
  <1>3. ASSUME pc[w] \in {"link", "swap"}
        PROVE  /\ scan[w] \in 1 .. Len(Awaited(u)) /\ Future(w) = Awaited(u)[scan[w]]
               /\ Future(w) \in Thread /\ Future(w) \in Range(Awaited(u))
               /\ \A k \in 1 .. scan[w] - 1 : done[Awaited(u)[k]]
    <2>1. HandsOf(w)
      BY DEF HandsOK
    <2>2. scan[w] \in 1 .. Len(Awaited(u)) /\ \A k \in 1 .. scan[w] - 1 : done[Awaited(u)[k]]
      BY <1>1, <1>2, <1>3, <2>1 DEF HandsOf, TypeOK
    <2>3. Future(w) = Awaited(u)[scan[w]]
      BY <1>1 DEF Future
    <2>4. Future(w) \in Range(Awaited(u))
      BY <1>2, <2>2, <2>3, RangeIs
    <2> QED
      BY <1>2, <2>2, <2>3, <2>4
  <1> QED
    BY <1>1, <1>2, <1>3

\* push_suspended_state has found the future already closed.
LEMMA TooLateKeeps ==
    ASSUME IndInv, NEW w \in Worker, pc[w] \in {"link", "swap"}, Future(w) \in popped, TooLate(w),
           UNCHANGED <<prog, started, ip, addr, done, next, popped, queue, stack, cur, ses, seen, victim, mailbox>>
    PROVE  IndInv' /\ UNCHANGED FJ!vars
  <1>0. TypeOK /\ ProgressOK /\ ThreadsInOnePlace /\ HandsOK /\ WaitersOK /\ PoppedOK
    BY DEF IndInv
  <1>1. HandsOf(w) /\ ses[w] # <<>>
    BY <1>0 DEF HandsOK, HandsOf
  <1>2. PICK u \in Thread : /\ u = Waiter(w) /\ Awaited(u) \in Seq(Thread) /\ Len(Awaited(u)) \in Nat
                            /\ scan[w] \in 1 .. Len(Awaited(u)) /\ Future(w) = Awaited(u)[scan[w]]
                            /\ \A k \in 1 .. scan[w] - 1 : done[Awaited(u)[k]]
    BY <1>0, <1>1, HandFacts
  <1>3. PICK n \in Nat : n = scan[w] /\ n \in 1 .. Len(Awaited(u))
    BY <1>2
  <1>4. Waiter(w)' = u /\ Awaited(u)' = Awaited(u) /\ (Setting(w)' <=> Setting(w))
    BY <1>2 DEF Waiter, Awaited, Op, Setting
  <1>5. scan' = [scan EXCEPT ![w] = n + 1] /\ pc' = [pc EXCEPT ![w] = "check"]
    BY <1>3 DEF TooLate, Goto
  <1>6. /\ scan' \in [Worker -> Nat] /\ scan'[w] = n + 1
        /\ pc' \in [Worker -> Label] /\ pc'[w] = "check" /\ seen' \in [Worker -> Seq(Thread)]
        /\ \A v \in Worker : v # w => pc'[v] = pc[v] /\ scan'[v] = scan[v]
    BY <1>0, <1>5 DEF TypeOK, Label
  <1>7. done[Awaited(u)[n]]
    BY <1>0, <1>2, <1>3 DEF PoppedOK
  <1>8. \A k \in 1 .. (n + 1) - 1 : done[Awaited(u)[k]]
    BY <1>2, <1>3, <1>7
  <1>9. n + 1 \in 1 .. Len(Awaited(u)) + 1
    BY <1>2, <1>3
  <1>10. HandsOf(w)'
    BY <1>1, <1>2, <1>4, <1>6, <1>8, <1>9 DEF HandsOf
  <1> QED
    BY <1>6, <1>10, QuietKeeps

\* push_suspended_state: the list is read.
LEMMA LinkKeeps ==
    ASSUME IndInv, NEW w \in Worker, Link(w)
    PROVE  IndInv' /\ UNCHANGED FJ!vars
  <1>0. TypeOK /\ ProgressOK /\ ThreadsInOnePlace /\ HandsOK /\ WaitersOK
    BY DEF IndInv
  <1>1. pc[w] = "link" /\ HandsOf(w) /\ ses[w] # <<>>
    BY <1>0 DEF Link, At, HandsOK, HandsOf
  <1>2. UNCHANGED <<prog, started, ip, addr, done, next, popped, queue, stack, cur, ses, victim, mailbox>>
    BY DEF Link, threads, futures
  <1>3. CASE Future(w) \in popped
    <2>1. TooLate(w) /\ seen' = seen
      BY <1>3 DEF Link
    <2> QED
      BY <1>1, <1>2, <1>3, <2>1, TooLateKeeps
  <1>4. CASE Future(w) \notin popped
    <2>1. seen' = [seen EXCEPT ![w] = next[Future(w)]] /\ pc' = [pc EXCEPT ![w] = "swap"] /\ scan' = scan
      BY <1>4 DEF Link, Goto
    <2>2. PICK u \in Thread : u = Waiter(w) /\ Future(w) \in Thread
      BY <1>0, <1>1, HandFacts
    <2>3. /\ pc' \in [Worker -> Label] /\ pc'[w] = "swap" /\ scan' \in [Worker -> Nat]
          /\ \A v \in Worker : v # w => pc'[v] = pc[v] /\ scan'[v] = scan[v]
      BY <1>0, <2>1 DEF TypeOK, Label
    <2>4. seen' \in [Worker -> Seq(Thread)]
      BY <1>0, <2>1, <2>2 DEF TypeOK
    <2>5. Waiter(w)' = u /\ Awaited(u)' = Awaited(u) /\ (Setting(w)' <=> Setting(w))
      BY <1>2, <2>2 DEF Waiter, Awaited, Op, Setting
    <2>6. HandsOf(w)'
      BY <1>1, <1>2, <2>1, <2>2, <2>3, <2>5 DEF HandsOf
    <2> QED
      BY <1>1, <1>2, <2>3, <2>4, <2>6, QuietKeeps
  <1> QED
    BY <1>3, <1>4

\* pop_suspended_states: the list is read.
LEMMA PopKeeps ==
    ASSUME IndInv, NEW w \in Worker, Pop(w)
    PROVE  IndInv' /\ UNCHANGED FJ!vars
  <1>0. TypeOK /\ HandsOK
    BY DEF IndInv
  <1>1. pc[w] = "pop" /\ HandsOf(w)
    BY <1>0 DEF Pop, At, HandsOK
  <1>2. UNCHANGED <<prog, started, ip, addr, done, next, popped, queue, stack, cur, ses, scan, victim, mailbox>>
    BY DEF Pop, threads, futures
  <1>3. seen' = [seen EXCEPT ![w] = next[cur[w]]] /\ pc' = [pc EXCEPT ![w] = "close"]
    BY DEF Pop, Goto
  <1>4. /\ pc' \in [Worker -> Label] /\ pc'[w] = "close" /\ scan' \in [Worker -> Nat]
        /\ \A v \in Worker : v # w => pc'[v] = pc[v] /\ scan'[v] = scan[v]
    BY <1>0, <1>2, <1>3 DEF TypeOK, Label
  <1>5. seen' \in [Worker -> Seq(Thread)]
    BY <1>0, <1>3 DEF TypeOK
  <1>6. HandsOf(w)'
    BY <1>1, <1>2, <1>4 DEF HandsOf, Setting
  <1> QED
    BY <1>1, <1>2, <1>4, <1>5, <1>6, QuietKeeps
----------------------------------------------------------------------------
\* wait_all: the thread is in the hands of its own worker.
LEMMA SuspendKeeps ==
    ASSUME IndInv, NEW w \in Worker, Suspend(w)
    PROVE  IndInv' /\ UNCHANGED FJ!vars
  <1>0. /\ TypeOK /\ ProgressOK /\ DepthOK /\ ThreadsInOnePlace /\ HandsOK /\ WaitersOK
        /\ PoppedOK /\ FramesOK /\ ExitOK
    BY DEF IndInv
  <1>1. PICK t \in Thread : t = cur[w]
    BY <1>0 DEF TypeOK
  <1>2. pc[w] = "run" /\ IsOp(t, "wait")
    BY <1>1 DEF Suspend, At
  <1>3. /\ ses' = [ses EXCEPT ![w] = <<t>>] /\ scan' = [scan EXCEPT ![w] = 1]
        /\ pc' = [pc EXCEPT ![w] = "check"]
        /\ UNCHANGED <<prog, started, ip, addr, done, next, popped, queue, stack, cur, seen, victim, mailbox>>
    BY <1>1 DEF Suspend, Goto, threads, futures
  <1>4. /\ Live(t) /\ t \in started /\ ~done[t]
        /\ Executing(t) = {w} /\ Handling(t) = {} /\ Queuing(t) = {} /\ Listing(t) = {}
    BY <1>0, <1>1, <1>2, Executed DEF Live
  <1>5. PICK l \in Seq(Thread) : /\ l = <<t>> /\ l # <<>> /\ Head(l) = t /\ Range(l) = {t} /\ IsInjective(l)
    BY Single
  <1>6. /\ ses'[w] = l /\ scan'[w] = 1 /\ pc'[w] = "check"
        /\ \A v \in Worker : v # w => ses'[v] = ses[v] /\ scan'[v] = scan[v] /\ pc'[v] = pc[v]
    BY <1>0, <1>3, <1>5 DEF TypeOK
  <1>7. TypeOK'
    <2>1. ses' \in [Worker -> Seq(Thread)]
      BY <1>0, <1>3, <1>5 DEF TypeOK
    <2>2. pc' \in [Worker -> Label] /\ scan' \in [Worker -> Nat]
      BY <1>0, <1>3 DEF TypeOK, Label
    <2> QED
      BY <1>0, <1>3, <2>1, <2>2 DEF TypeOK
  <1>8. ProgressOK' /\ DepthOK'
    BY <1>0, <1>3, ProgressDone
  <1>9. ThreadsInOnePlace'
    <2>1. \A s \in Thread : s # t => Executing(s)' = Executing(s)
      BY <1>1, <1>3, <1>6 DEF Executing
    <2>2. Executing(t)' = {}
      BY <1>3, <1>4, <1>6 DEF Executing
    <2>3. ses[w] = <<>> /\ Range(ses[w]) = {}
      BY <1>0, <1>2 DEF HandsOK, HandsOf, Range
    <2>4. \A s \in Thread : s # t => Handling(s)' = Handling(s)
      BY <1>5, <1>6, <2>3 DEF Handling
    <2>5. Handling(t)' = {w}
      BY <1>4, <1>5, <1>6 DEF Handling
    <2>6. \A s \in Thread : Queuing(s)' = Queuing(s) /\ Listing(s)' = Listing(s) /\ (Live(s)' <=> Live(s))
      BY <1>3 DEF Queuing, Listing, Live
    <2>7. \A s \in Thread : Stays(s) \/ Comes(s)
      <3> SUFFICES ASSUME NEW s \in Thread PROVE Stays(s) \/ Comes(s)
        OBVIOUS
      <3>1. CASE s = t
        BY <1>4, <2>2, <2>5, <2>6, <3>1 DEF Comes
      <3>2. CASE s # t
        BY <2>1, <2>4, <2>6, <3>2 DEF Stays
      <3> QED
        BY <3>1, <3>2
    <2> QED
      BY <1>0, <1>3, <1>5, <1>6, <2>7, OnePlaceNext DEF ThreadsInOnePlace
  <1>10. HandsOK'
    <2>1. HandsOf(w)'
      <3>1. Waiter(w)' = t /\ Awaited(t)' = Awaited(t) /\ ~Setting(w)' /\ cur'[w] = t
        BY <1>1, <1>3, <1>4, <1>5, <1>6 DEF Waiter, Awaited, Op, Setting
      <3>2. Len(Awaited(t)) \in Nat
        BY <1>0, <1>2, Waiting
      <3>3. 1 \in 1 .. Len(Awaited(t)) + 1 /\ \A k \in 1 .. 1 - 1 : FALSE
        BY <3>2
      <3> QED
        BY <1>5, <1>6, <3>1, <3>3 DEF HandsOf
    <2>2. ASSUME NEW v \in Worker, v # w PROVE HandsOf(v)'
      <3>1. Unmoved(v)
        BY <1>3, <1>6, <2>2 DEF Unmoved
      <3> QED
        BY <1>0, <1>3, <3>1, HandsQuiet
    <2> QED
      BY <2>1, <2>2 DEF HandsOK
  <1>11. WaitersOK'
    <2>1. \A u : (IsOp(u, "wait")' <=> IsOp(u, "wait")) /\ Awaited(u)' = Awaited(u)
      BY <1>3 DEF IsOp, Awaited, Op
    <2>2. ~Setting(w)' /\ \A v \in Worker : Setting(v)' <=> Setting(v)
      BY <1>1, <1>3, <1>4 DEF Setting
    <2> QED
      BY <1>0, <1>2, <1>3, <1>5, <1>6, <2>1, <2>2 DEF WaitersOK
  <1>12. PoppedOK'
    BY <1>0, <1>3 DEF PoppedOK
  <1>13. FramesOK'
    <2>1. ASSUME NEW v \in Worker PROVE FramesOf(v)'
      <3>1. InFrame(v)' => InFrame(v)
        BY <1>2, <1>3, <1>6 DEF InFrame, Setting
      <3> QED
        BY <1>0, <1>3, <1>6, <3>1, FramesSame
    <2> QED
      BY <2>1 DEF FramesOK
  <1>14. ExitOK'
    BY <1>0, <1>2, <1>3, <1>6, ExitSame
  <1> QED
    BY <1>3, <1>7, <1>8, <1>9, <1>10, <1>11, <1>12, <1>13, <1>14 DEF IndInv, FJ!vars

\* A thread ends.
LEMMA EndKeeps ==
    ASSUME TypeOK, ProgressOK, DepthOK, ThreadsInOnePlace, HandsOK, WaitersOK, PoppedOK, FramesOK,
           NEW w \in Worker, NEW t \in Thread, t = cur[w], pc[w] = "run", Ended(t),
           done' = [done EXCEPT ![t] = TRUE],
           pc' \in [Worker -> Label], pc'[w] \in {"pop", "loop"}, \A v \in Worker : v # w => pc'[v] = pc[v],
           mailbox' \in [Worker -> Nat],
           UNCHANGED <<prog, started, ip, addr, next, popped, queue, stack, cur, ses, scan, seen, victim>>
    PROVE  /\ TypeOK' /\ ProgressOK' /\ DepthOK' /\ ThreadsInOnePlace' /\ WaitersOK' /\ PoppedOK' /\ FJ!Next
           /\ done'[t] /\ ses'[w] = <<>>
           /\ \A f \in Thread : done[f] => done'[f]
           /\ \A v \in Worker : v # w => HandsOf(v)' /\ FramesOf(v)'
  <1>1. /\ Live(t) /\ t \in started /\ ~done[t]
        /\ Executing(t) = {w} /\ Handling(t) = {} /\ Queuing(t) = {} /\ Listing(t) = {}
    BY Executed DEF Live
  <1>2. done'[t] /\ (\A f \in Thread : f # t => done'[f] = done[f]) /\ done' \in [Thread -> BOOLEAN]
    BY DEF TypeOK
  <1>3. ses'[w] = <<>> /\ ses[w] = <<>>
    BY DEF HandsOK, HandsOf
  <1>4. TypeOK'
    BY <1>2 DEF TypeOK
  <1>5. ProgressOK' /\ DepthOK'
    BY <1>1, <1>2, ProgressDone
  <1>6. ThreadsInOnePlace'
    <2>1. \A s \in Thread : s # t => Executing(s)' = Executing(s)
      BY DEF Executing
    <2>2. Executing(t)' = {}
      BY <1>1 DEF Executing
    <2>3. \A s \in Thread : Handling(s)' = Handling(s) /\ Queuing(s)' = Queuing(s) /\ Listing(s)' = Listing(s)
      BY DEF Handling, Queuing, Listing
    <2>4. \A s \in Thread : s # t => (Live(s)' <=> Live(s))
      BY <1>2 DEF Live
    <2>5. ~Live(t)'
      BY <1>2 DEF Live
    <2>6. \A s \in Thread : Stays(s) \/ Comes(s)
      <3> SUFFICES ASSUME NEW s \in Thread PROVE Stays(s) \/ Comes(s)
        OBVIOUS
      <3>1. CASE s = t
        BY <1>1, <2>2, <2>3, <2>5, <3>1 DEF Comes
      <3>2. CASE s # t
        BY <2>1, <2>3, <2>4, <3>2 DEF Stays
      <3> QED
        BY <3>1, <3>2
    <2> QED
      BY <2>6, OnePlaceNext DEF ThreadsInOnePlace
  <1>7. \A v \in Worker : Range(ses[v]) # {} => cur[v] # t
    <2> SUFFICES ASSUME NEW v \in Worker, Range(ses[v]) # {}, cur[v] = t PROVE FALSE
      OBVIOUS
    <2>1. ses[v] # <<>>
      BY DEF Range
    <2>2. ses[v] = <<t>>
      BY <1>1, <2>1 DEF HandsOK, HandsOf, Setting
    <2>3. Waiter(v) = t
      BY <2>2 DEF Waiter
    <2> QED
      BY <1>1, <2>1, <2>3, InHand
  <1>8. WaitersOK'
    <2>1. \A v \in Worker : \A u \in Range(ses[v]) : ip'[u] = ip[u] /\ (done'[cur[v]] => done[cur[v]])
      BY <1>2, <1>7 DEF TypeOK
    <2> QED
      BY <2>1, WaitersSame
  <1>9. PoppedOK'
    BY <1>2 DEF PoppedOK, TypeOK
  <1>10. FJ!Next
    <2>1. ip[t] > Len(prog[t])
      BY DEF Ended
    <2>2. {s \in Thread : done'[s]} = {s \in Thread : done[s]} \cup {t}
      BY <1>2
    <2>3. FJ!Finish(t)
      BY <1>1, <2>1, <2>2 DEF FJ!Finish
    <2> QED
      BY <2>3 DEF FJ!Next
  <1>11. ASSUME NEW v \in Worker, v # w PROVE HandsOf(v)' /\ FramesOf(v)'
    <2>1. Unmoved(v)
      BY <1>11 DEF Unmoved
    <2>2. \A u \in Range(ses[v]) : u \in Thread /\ ~done[u] /\ Executing(u) = {}
      BY InHands DEF Live
    <2>3. \A f \in Thread : f \in Range(ses[v]) => ~done'[f]
      BY <1>1, <1>2, <2>2
    <2>4. HandsOf(v)'
      BY <1>2, <2>1, <2>3, HandsSame
    <2>5. InFrame(v)' => InFrame(v)
      BY <1>2, <1>11 DEF InFrame, Setting, TypeOK
    <2>6. FramesOf(v)'
      BY <1>11, <2>5, FramesSame
    <2> QED
      BY <2>4, <2>6
  <1> QED
    BY <1>2, <1>3, <1>4, <1>5, <1>6, <1>8, <1>9, <1>10, <1>11

\* fill: the future of a thread that is not the root is done.
LEMMA FillKeeps ==
    ASSUME IndInv, NEW w \in Worker, Fill(w)
    PROVE  IndInv' /\ FJ!Next
  <1>0. /\ TypeOK /\ ProgressOK /\ DepthOK /\ ThreadsInOnePlace /\ HandsOK /\ WaitersOK
        /\ PoppedOK /\ FramesOK /\ ExitOK
    BY DEF IndInv
  <1>1. PICK t \in Thread : t = cur[w] /\ pc[w] = "run" /\ Ended(t) /\ t # Root
    BY <1>0 DEF TypeOK, Fill, At
  <1>2. /\ done' = [done EXCEPT ![t] = TRUE] /\ pc' = [pc EXCEPT ![w] = "pop"]
        /\ UNCHANGED <<prog, started, ip, addr, next, popped, queue, stack, cur, ses, scan, seen, victim, mailbox>>
    BY <1>1 DEF Fill, Goto, threads
  <1>3. /\ pc' \in [Worker -> Label] /\ pc'[w] = "pop" /\ (\A v \in Worker : v # w => pc'[v] = pc[v])
        /\ mailbox' \in [Worker -> Nat]
    BY <1>0, <1>2 DEF TypeOK, Label
  <1>4. /\ TypeOK' /\ ProgressOK' /\ DepthOK' /\ ThreadsInOnePlace' /\ WaitersOK' /\ PoppedOK' /\ FJ!Next
        /\ done'[t] /\ ses'[w] = <<>>
        /\ \A f \in Thread : done[f] => done'[f]
        /\ \A v \in Worker : v # w => HandsOf(v)' /\ FramesOf(v)'
    BY <1>0, <1>1, <1>2, <1>3, EndKeeps
  <1>5. HandsOf(w)'
    BY <1>1, <1>2, <1>3, <1>4 DEF HandsOf
  <1>6. FramesOf(w)'
    <2>1. ~InFrame(w)'
      BY <1>3, <1>4 DEF InFrame
    <2> QED
      BY <1>0, <1>2, <1>3, <2>1, FramesSame
  <1>7. ExitOK'
    BY <1>0, <1>1, <1>2, <1>3, <1>4, ConstantsAssumption, ExitSame
  <1> QED
    BY <1>4, <1>5, <1>6, <1>7 DEF IndInv, HandsOK, FramesOK

\* on_root_die: the root is done, and rank 0 asked to leave.
LEMMA RootDiesKeeps ==
    ASSUME IndInv, NEW w \in Worker, RootDies(w)
    PROVE  IndInv' /\ FJ!Next
  <1>0. /\ TypeOK /\ ProgressOK /\ DepthOK /\ ThreadsInOnePlace /\ HandsOK /\ WaitersOK
        /\ PoppedOK /\ FramesOK /\ ExitOK
    BY DEF IndInv
  <1>1. PICK t \in Thread : t = cur[w] /\ pc[w] = "run" /\ Ended(t) /\ t = Root
    BY <1>0 DEF TypeOK, RootDies, At
  <1>2. /\ done' = [done EXCEPT ![t] = TRUE] /\ pc' = [pc EXCEPT ![w] = "loop"]
        /\ mailbox' = Put(mailbox, {0})
        /\ UNCHANGED <<prog, started, ip, addr, next, popped, queue, stack, cur, ses, scan, seen, victim>>
    BY <1>1 DEF RootDies, Goto, threads
  <1>3. /\ pc' \in [Worker -> Label] /\ pc'[w] = "loop" /\ (\A v \in Worker : v # w => pc'[v] = pc[v])
    BY <1>0, <1>2 DEF TypeOK, Label
  <1>4. /\ mailbox' \in [Worker -> Nat] /\ 0 \in Worker /\ mailbox'[0] = mailbox[0] + 1
        /\ \A v \in Worker : v # 0 => mailbox'[v] = mailbox[v]
    <2>1. 0 \in Worker
      BY ConstantsAssumption DEF Worker
    <2>2. mailbox' = [r \in Worker |-> IF r \in {0} THEN mailbox[r] + 1 ELSE mailbox[r]]
      BY <1>2 DEF Put
    <2>3. mailbox \in [Worker -> Nat]
      BY <1>0 DEF TypeOK
    <2> QED
      BY <2>1, <2>2, <2>3
  <1>5. /\ TypeOK' /\ ProgressOK' /\ DepthOK' /\ ThreadsInOnePlace' /\ WaitersOK' /\ PoppedOK' /\ FJ!Next
        /\ done'[t] /\ ses'[w] = <<>>
        /\ \A f \in Thread : done[f] => done'[f]
        /\ \A v \in Worker : v # w => HandsOf(v)' /\ FramesOf(v)'
    BY <1>0, <1>1, <1>2, <1>3, <1>4, EndKeeps
  <1>6. HandsOf(w)'
    BY <1>3, <1>5, HandsEmpty
  <1>7. FramesOf(w)'
    <2>1. \A k \in DOMAIN queue[w] : addr[queue[w][k].thread] \in Nat /\ addr[cur[w]] = 0
      <3>1. Addr \subseteq Nat
        BY DEF Addr
      <3>2. \A k \in DOMAIN queue[w] : addr[queue[w][k].thread] \in Addr
        BY <1>0, InQueue DEF TypeOK
      <3> QED
        BY <1>0, <1>1, <3>1, <3>2 DEF ProgressOK
    <2>2. FramesOf(w) /\ InFrame(w)
      BY <1>0, <1>1 DEF FramesOK, InFrame
    <2>3. \A k \in DOMAIN queue[w] : queue[w][k].evacuated
      BY <2>1, <2>2 DEF FramesOf
    <2>4. ~InFrame(w)'
      BY <1>3, <1>5 DEF InFrame
    <2> QED
      BY <1>2, <2>3, <2>4 DEF FramesOf
  <1>8. ExitOK'
    <2>1. ~done[Root]
      BY <1>0, <1>1, Executed DEF Live
    <2>2. \A v \in Worker : pc'[v] = "left" <=> pc[v] = "left"
      BY <1>1, <1>3
    <2>3. mailbox[0] = 0 /\ pc[0] # "left"
      <3>1. mailbox[0] <= 1 /\ mailbox[0] # 1 /\ pc[0] # "left"
        BY <1>0, <1>4, <2>1 DEF ExitOK
      <3>2. mailbox[0] \in Nat
        BY <1>0, <1>4 DEF TypeOK
      <3> QED
        BY <3>1, <3>2
    <2>4. \A v \in Worker : ExitTargets(v)' = ExitTargets(v)
      BY DEF ExitTargets
    <2> QED
      BY <1>0, <1>1, <1>4, <1>5, <2>2, <2>3, <2>4 DEF ExitOK
  <1> QED
    BY <1>5, <1>6, <1>7, <1>8 DEF IndInv, HandsOK, FramesOK
----------------------------------------------------------------------------
\* A worker has looked at everything the state in its hands waits for.
LEMMA NothingLeft ==
    ASSUME TypeOK, ProgressOK, ThreadsInOnePlace, HandsOK, WaitersOK, NEW w \in Worker,
           ses[w] # <<>>, pc[w] = "check", scan[w] > Len(Awaited(Waiter(w)))
    PROVE  \A k \in 1 .. Len(Awaited(Waiter(w))) : done[Awaited(Waiter(w))[k]]
  <1>1. HandsOf(w)
    BY DEF HandsOK
  <1>2. Len(Awaited(Waiter(w))) \in Nat
    BY HandFacts
  <1>3. scan[w] \in Nat
    BY DEF TypeOK
  <1> QED
    BY <1>1, <1>2, <1>3 DEF HandsOf

\* A step over a wait, seen by the program.
LEMMA WaitStep ==
    ASSUME TypeOK, ProgressOK, NEW t \in Thread, Live(t), IsOp(t, "wait"),
           \A k \in 1 .. Len(Awaited(t)) : done[Awaited(t)[k]],
           ip' = [ip EXCEPT ![t] = @ + 1], UNCHANGED <<prog, started, done>>
    PROVE  FJ!Next
  <1>1. /\ ip[t] \in DOMAIN prog[t] /\ ip[t] <= Len(prog[t]) /\ prog[t][ip[t]].kind = "wait"
        /\ Awaited(t) = prog[t][ip[t]].futures /\ Awaited(t) \in Seq(Thread)
    BY Waiting DEF IsOp, Op
  <1>2. \A k \in 1 .. Len(prog[t][ip[t]].futures) : prog[t][ip[t]].futures[k] \in {s \in Thread : done[s]}
    BY <1>1
  <1>3. t \in started \ {s \in Thread : done[s]}
    BY DEF Live
  <1>4. FJ!Step(t)
    BY <1>1, <1>2, <1>3 DEF FJ!Step
  <1> QED
    BY <1>4 DEF FJ!Next

\* The thread goes on that was about to be suspended.
LEMMA ResumeSelfKeeps ==
    ASSUME IndInv, NEW w \in Worker, ResumeSelf(w)
    PROVE  IndInv' /\ FJ!Next
  <1>0. /\ TypeOK /\ ProgressOK /\ DepthOK /\ ThreadsInOnePlace /\ HandsOK /\ WaitersOK
        /\ PoppedOK /\ FramesOK /\ ExitOK
    BY DEF IndInv
  <1>1. PICK t \in Thread : t = cur[w] /\ addr[t] \in Addr
    BY <1>0 DEF TypeOK
  <1>2. pc[w] = "check" /\ ~Setting(w) /\ scan[w] > Len(Awaited(Waiter(w)))
    BY DEF ResumeSelf, AllReady, At
  <1>3. ses[w] # <<>> /\ ses[w] = <<t>> /\ Waiter(w) = t
    BY <1>0, <1>1, <1>2 DEF HandsOK, HandsOf, Waiter
  <1>4. /\ ip' = [ip EXCEPT ![t] = @ + 1] /\ Enter(w, t, addr[t])
        /\ cur' = [cur EXCEPT ![w] = t] /\ pc' = [pc EXCEPT ![w] = "run"]
        /\ ses' = [ses EXCEPT ![w] = <<>>]
        /\ UNCHANGED <<prog, started, addr, done, next, popped, queue, scan, seen, victim, mailbox>>
    BY <1>1 DEF ResumeSelf, Run, Goto, futures
  <1>5. /\ Live(t) /\ t \in started /\ ~done[t] /\ IsOp(t, "wait")
        /\ Executing(t) = {} /\ Handling(t) = {w} /\ Queuing(t) = {} /\ Listing(t) = {}
    <2>1. Live(t) /\ Executing(t) = {} /\ Handling(t) = {w} /\ Queuing(t) = {} /\ Listing(t) = {}
      BY <1>0, <1>3, InHand
    <2>2. IsOp(t, "wait")
      BY <1>0, <1>3, HandFacts
    <2> QED
      BY <2>1, <2>2 DEF Live
  <1>6. \A k \in 1 .. Len(Awaited(t)) : done[Awaited(t)[k]]
    BY <1>0, <1>2, <1>3, NothingLeft
  <1>7. ProgressOK' /\ DepthOK' /\ ip' \in [Thread -> Nat] /\ \A s \in Thread : s # t => ip'[s] = ip[s]
    BY <1>0, <1>4, <1>5, <1>6, ProgressStep
  <1>8. /\ cur' = cur /\ pc'[w] = "run" /\ ses'[w] = <<>>
        /\ \A v \in Worker : v # w => pc'[v] = pc[v] /\ ses'[v] = ses[v]
    BY <1>0, <1>1, <1>4 DEF TypeOK
  <1>9. /\ stack' \in [Worker -> [Addr -> Thread \cup {NoThread}]] /\ stack'[w][addr[t]] = t
        /\ \A v \in Worker : \A b \in Addr : v # w \/ b < addr[t] => stack'[v][b] = stack[v][b]
    BY <1>0, <1>1, <1>4, EnterKeeps
  <1>10. TypeOK'
    <2>1. pc' \in [Worker -> Label] /\ ses' \in [Worker -> Seq(Thread)]
      BY <1>0, <1>4 DEF TypeOK, Label
    <2>2. cur' \in [Worker -> Thread]
      BY <1>0, <1>8 DEF TypeOK
    <2> QED
      BY <1>0, <1>4, <1>7, <1>9, <2>1, <2>2 DEF TypeOK
  <1>11. Range(ses'[w]) = {} /\ Range(ses[w]) = {t} /\ IsInjective(ses'[w])
    <2>1. Range(ses'[w]) = {}
      BY <1>8 DEF Range
    <2>2. PICK l \in Seq(Thread) : l = <<t>> /\ Range(l) = {t}
      BY Single
    <2>3. IsInjective(ses'[w])
      BY <1>8 DEF IsInjective
    <2> QED
      BY <1>3, <2>1, <2>2, <2>3
  <1>12. ThreadsInOnePlace'
    <2>1. \A s \in Thread : s # t => Executing(s)' = Executing(s)
      BY <1>1, <1>8 DEF Executing
    <2>2. Executing(t)' = {w}
      BY <1>1, <1>5, <1>8 DEF Executing
    <2>3. \A s \in Thread : s # t => Handling(s)' = Handling(s)
      BY <1>8, <1>11 DEF Handling
    <2>4. Handling(t)' = {}
      BY <1>5, <1>8, <1>11 DEF Handling
    <2>5. \A s \in Thread : Queuing(s)' = Queuing(s) /\ Listing(s)' = Listing(s) /\ (Live(s)' <=> Live(s))
      BY <1>4 DEF Queuing, Listing, Live
    <2>6. \A s \in Thread : Stays(s) \/ Comes(s)
      <3> SUFFICES ASSUME NEW s \in Thread PROVE Stays(s) \/ Comes(s)
        OBVIOUS
      <3>1. CASE s = t
        BY <1>5, <2>2, <2>4, <2>5, <3>1 DEF Comes
      <3>2. CASE s # t
        BY <2>1, <2>3, <2>5, <3>2 DEF Stays
      <3> QED
        BY <3>1, <3>2
    <2> QED
      BY <1>0, <1>4, <1>8, <1>11, <2>6, OnePlaceNext DEF ThreadsInOnePlace
  <1>13. /\ \A f \in Thread : \A u \in Range(next[f]) : ip'[u] = ip[u]
         /\ \A v \in Worker : v # w => \A u \in Range(ses[v]) : ip'[u] = ip[u]
    <2>1. ASSUME NEW f \in Thread, NEW u \in Range(next[f]) PROVE ip'[u] = ip[u]
      <3>1. u \in Thread /\ Handling(u) = {}
        BY <1>0, <2>1, InList
      <3> QED
        BY <1>5, <1>7, <3>1
    <2>2. ASSUME NEW v \in Worker, v # w, NEW u \in Range(ses[v]) PROVE ip'[u] = ip[u]
      <3>1. u \in Thread /\ Handling(u) = {v}
        BY <1>0, <2>2, InHands
      <3> QED
        BY <1>5, <1>7, <2>2, <3>1
    <2> QED
      BY <2>1, <2>2
  <1>14. HandsOK'
    <2>1. HandsOf(w)'
      BY <1>8, HandsEmpty
    <2>2. ASSUME NEW v \in Worker, v # w PROVE HandsOf(v)'
      <3>1. Unmoved(v)
        BY <1>4, <1>8, <2>2 DEF Unmoved
      <3>2. \A f \in Thread : f \in Range(ses[v]) => ~done'[f]
        BY <1>0, <1>4, InHands DEF Live
      <3> QED
        BY <1>0, <1>4, <1>13, <2>2, <3>1, <3>2, HandsSame
    <2> QED
      BY <2>1, <2>2 DEF HandsOK
  <1>15. WaitersOK'
    <2>1. \A f \in Thread : Range(next'[f]) \subseteq Range(next[f])
      BY <1>4
    <2>2. \A v \in Worker : Range(ses'[v]) = {} \/ (cur'[v] = cur[v] /\ Range(ses'[v]) \subseteq Range(ses[v]))
      BY <1>8, <1>11
    <2>3. \A f \in Thread : \A u \in Range(next'[f]) : ip'[u] = ip[u]
      BY <1>4, <1>13
    <2>4. \A v \in Worker : \A u \in Range(ses'[v]) : ip'[u] = ip[u] /\ (done'[cur[v]] => done[cur[v]])
      BY <1>4, <1>8, <1>11, <1>13
    <2> QED
      BY <1>0, <1>4, <2>1, <2>2, <2>3, <2>4, WaitersSame
  <1>16. PoppedOK'
    BY <1>0, <1>4 DEF PoppedOK
  <1>17. FramesOK'
    <2>1. ASSUME NEW v \in Worker, v # w PROVE FramesOf(v)'
      <3>1. stack'[v] = stack[v]
        BY <1>0, <1>4, <2>1 DEF TypeOK, Enter
      <3>2. InFrame(v)' => InFrame(v)
        BY <1>4, <1>8, <2>1 DEF InFrame, Setting
      <3> QED
        BY <1>0, <1>4, <1>8, <2>1, <3>1, <3>2, FramesSame
    <2>2. FramesOf(w)'
      <3>1. FramesOf(w) /\ InFrame(w)
        BY <1>0, <1>2, <1>3 DEF FramesOK, InFrame
      <3>2. \A k \in DOMAIN queue[w] : addr[queue[w][k].thread] \in Addr
        BY <1>0, InQueue DEF TypeOK
      <3>3. \A k \in DOMAIN queue[w] : ~queue[w][k].evacuated =>
                addr[queue[w][k].thread] < addr[t] /\ stack'[w][addr[queue[w][k].thread]] = queue[w][k].thread
        BY <1>1, <1>9, <3>1, <3>2 DEF FramesOf
      <3> QED
        BY <1>1, <1>4, <1>8, <1>9, <3>1, <3>3 DEF FramesOf
    <2> QED
      BY <2>1, <2>2 DEF FramesOK
  <1>18. ExitOK'
    BY <1>0, <1>2, <1>4, <1>8, ExitSame
  <1>19. FJ!Next
    BY <1>0, <1>4, <1>5, <1>6, WaitStep
  <1> QED
    BY <1>7, <1>10, <1>12, <1>14, <1>15, <1>16, <1>17, <1>18, <1>19 DEF IndInv
----------------------------------------------------------------------------
\* The worker turns to the next of the states in its hands.
LEMMA NextInHand ==
    ASSUME TypeOK, ProgressOK, ThreadsInOnePlace, HandsOK, WaitersOK, NEW w \in Worker, ses[w] # <<>>,
           NEW u, u = Waiter(w), HandleNext(w), prog' = prog, cur' = cur, done' = done,
           \A s \in Thread : s # u => ip'[s] = ip[s]
    PROVE  /\ HandsOK'
           /\ ses' \in [Worker -> Seq(Thread)] /\ scan' \in [Worker -> Nat] /\ pc' \in [Worker -> Label]
           /\ IsInjective(ses'[w]) /\ Range(ses'[w]) = Range(ses[w]) \ {u}
           /\ \A v \in Worker : v # w => ses'[v] = ses[v] /\ pc'[v] = pc[v]
           /\ pc[w] \in {"check", "link", "swap", "resume"} /\ pc'[w] \in {"next", "check", "resume"}
           /\ ~InFrame(w)' /\ \A v \in Worker : InFrame(v)' => InFrame(v)
           /\ \A s \in Thread : Executing(s)' = Executing(s)
           /\ \A s \in Thread : s # u => Handling(s)' = Handling(s)
           /\ Handling(u)' = {}
  <1>1. PICK l \in Seq(Thread) : l = ses[w] /\ l # <<>> /\ IsInjective(l) /\ Head(l) = Waiter(w)
    BY DEF TypeOK, ThreadsInOnePlace, Waiter
  <1>2. PICK r \in Seq(Thread) : r = Tail(ses[w]) /\ IsInjective(r) /\ Range(r) = Range(ses[w]) \ {u}
    BY <1>1, TailOnce
  <1>3. PICK p \in Label : p = (IF r = <<>> THEN "next" ELSE IF IsMulti(Head(r)) THEN "check" ELSE "resume")
    BY DEF Label
  <1>4. ses' = [ses EXCEPT ![w] = r] /\ scan' = [scan EXCEPT ![w] = 1] /\ pc' = [pc EXCEPT ![w] = p]
    BY <1>2, <1>3 DEF HandleNext, Goto
  <1>5. /\ ses' \in [Worker -> Seq(Thread)] /\ scan' \in [Worker -> Nat] /\ pc' \in [Worker -> Label]
        /\ ses'[w] = r /\ scan'[w] = 1 /\ pc'[w] = p
        /\ \A v \in Worker : v # w => ses'[v] = ses[v] /\ scan'[v] = scan[v] /\ pc'[v] = pc[v]
    BY <1>4 DEF TypeOK
  <1>6. HandsOf(w) /\ pc[w] \in {"check", "link", "swap", "resume"}
    BY DEF HandsOK, HandsOf
  <1>7. Setting(w)' <=> Setting(w)
    BY DEF Setting
  <1>8. r # <<>> => Setting(w)
    <2> SUFFICES ASSUME ~Setting(w) PROVE r = <<>>
      OBVIOUS
    <2>1. ses[w] = <<cur[w]>> /\ cur[w] \in Thread
      BY <1>6 DEF HandsOf, TypeOK
    <2>2. Range(ses[w]) = {cur[w]} /\ Waiter(w) = cur[w]
      <3>1. PICK s \in Seq(Thread) : s = <<cur[w]>> /\ Head(s) = cur[w] /\ Range(s) = {cur[w]}
        BY <2>1, Single
      <3> QED
        BY <2>1, <3>1 DEF Waiter
    <2>3. Range(r) = {}
      BY <1>2, <2>2
    <2> QED
      BY <2>3, RangeIs
  <1>9. HandsOf(w)'
    <2>1. CASE r = <<>>
      BY <1>3, <1>5, <2>1, HandsEmpty
    <2>2. CASE r # <<>>
      <3>1. PICK t \in Thread : t = Head(r) /\ t \in Range(ses[w]) /\ t # u
        <4>1. Head(r) \in Range(r) /\ Range(r) \subseteq Thread
          BY <2>2, RangeIs
        <4> QED
          BY <1>2, <4>1
      <3>2. IsOp(t, "wait")
        BY <3>1 DEF WaitersOK
      <3>3. Len(Awaited(t)) \in Nat
        BY <3>2, Waiting
      <3>4. Waiter(w)' = t /\ Awaited(t)' = Awaited(t)
        BY <1>5, <3>1 DEF Waiter, Awaited, Op
      <3>5. IsMulti(t)' <=> IsMulti(t)
        BY <3>4 DEF IsMulti
      <3>6. 1 \in 1 .. Len(Awaited(t)) + 1 /\ \A k \in 1 .. 1 - 1 : FALSE
        BY <3>3
      <3>7. p = IF IsMulti(t) THEN "check" ELSE "resume"
        BY <1>3, <2>2, <3>1
      <3>8. Setting(w)'
        BY <1>7, <1>8, <2>2
      <3>9. pc'[w] = "resume" => ~IsMulti(Waiter(w))'
        BY <1>5, <3>4, <3>5, <3>7
      <3> QED
        BY <1>5, <2>2, <3>4, <3>6, <3>7, <3>8, <3>9 DEF HandsOf
    <2> QED
      BY <2>1, <2>2
  <1>10. ASSUME NEW v \in Worker, v # w PROVE HandsOf(v)'
    <2>1. Unmoved(v)
      BY <1>5, <1>10 DEF Unmoved
    <2>2. \A t \in Range(ses[v]) : t \in Thread /\ ~done[t] /\ t # u
      <3> SUFFICES ASSUME NEW t \in Range(ses[v]) PROVE t \in Thread /\ ~done[t] /\ t # u
        OBVIOUS
      <3>1. t \in Thread /\ Live(t) /\ Handling(t) = {v}
        BY InHands
      <3>2. Handling(u) = {w}
        BY InHand
      <3> QED
        BY <1>10, <3>1, <3>2 DEF Live
    <2> QED
      BY <2>1, <2>2, HandsSame
  <1>11. HandsOK'
    BY <1>9, <1>10 DEF HandsOK
  <1>12. ~InFrame(w)'
    BY <1>3, <1>5, <1>7, <1>8 DEF InFrame
  <1>13. \A v \in Worker : InFrame(v)' => InFrame(v)
    BY <1>5, <1>12 DEF InFrame, Setting
  <1>14. \A s \in Thread : Executing(s)' = Executing(s)
    BY <1>3, <1>5, <1>6 DEF Executing
  <1>15. \A s \in Thread : s # u => Handling(s)' = Handling(s)
    BY <1>2, <1>5 DEF Handling
  <1>16. Handling(u)' = {}
    <2>1. Handling(u) = {w}
      BY InHand
    <2>2. \A v \in Worker : u \notin Range(ses'[v])
      BY <1>2, <1>5, <2>1 DEF Handling
    <2> QED
      BY <2>2 DEF Handling
  <1>17. pc'[w] \in {"next", "check", "resume"}
    BY <1>3, <1>5
  <1> QED
    BY <1>2, <1>5, <1>6, <1>11, <1>12, <1>13, <1>14, <1>15, <1>16, <1>17

\* The state in hand is hung into the list of a future.
LEMMA SwapKeeps ==
    ASSUME IndInv, NEW w \in Worker, Swap(w)
    PROVE  IndInv' /\ UNCHANGED FJ!vars
  <1>0. /\ TypeOK /\ ProgressOK /\ DepthOK /\ ThreadsInOnePlace /\ HandsOK /\ WaitersOK
        /\ PoppedOK /\ FramesOK /\ ExitOK
    BY DEF IndInv
  <1>1. pc[w] = "swap" /\ HandsOf(w) /\ ses[w] # <<>>
    BY <1>0 DEF Swap, At, HandsOK, HandsOf
  <1>2. UNCHANGED <<prog, started, ip, addr, done, popped, queue, stack, cur, victim, mailbox>>
    BY DEF Swap, threads
  <1>3. PICK u \in Thread : u = Waiter(w) /\ Live(u) /\ IsOp(u, "wait") /\ u \in Range(ses[w])
    BY <1>0, <1>1, HandFacts
  <1>4. PICK f \in Thread : f = Future(w) /\ f \in Range(Awaited(u))
    BY <1>0, <1>1, <1>3, HandFacts
  <1>5. CASE MayPush(f, seen[w])
    <2>1. PICK l \in Seq(Thread) : l = next[f] /\ l = seen[w] /\ f \notin popped /\ IsInjective(l)
      BY <1>0, <1>5 DEF MayPush, TypeOK, ThreadsInOnePlace
    <2>2. /\ next' = [next EXCEPT ![f] = <<u>> \o l] /\ HandleNext(w) /\ seen' = seen
      BY <1>3, <1>4, <1>5, <2>1 DEF Swap
    <2>3. /\ HandsOK'
          /\ ses' \in [Worker -> Seq(Thread)] /\ scan' \in [Worker -> Nat] /\ pc' \in [Worker -> Label]
          /\ IsInjective(ses'[w]) /\ Range(ses'[w]) = Range(ses[w]) \ {u}
          /\ \A v \in Worker : v # w => ses'[v] = ses[v] /\ pc'[v] = pc[v]
          /\ pc'[w] \in {"next", "check", "resume"}
          /\ \A v \in Worker : InFrame(v)' => InFrame(v)
          /\ \A s \in Thread : Executing(s)' = Executing(s)
          /\ \A s \in Thread : s # u => Handling(s)' = Handling(s)
          /\ Handling(u)' = {}
      BY <1>0, <1>1, <1>2, <1>3, <2>2, NextInHand
    <2>4. Executing(u) = {} /\ Queuing(u) = {} /\ Listing(u) = {}
      BY <1>0, <1>1, <1>3, InHand
    <2>5. u \notin Range(l)
      BY <2>1, <2>4 DEF Listing
    <2>6. PICK m \in Seq(Thread) : m = <<u>> \o l /\ IsInjective(m) /\ Range(m) = Range(l) \cup {u}
      <3>1. /\ <<u>> \o l \in Seq(Thread) /\ IsInjective(<<u>> \o l)
            /\ Range(<<u>> \o l) = Range(l) \cup {u}
        BY <2>1, <2>5, PushedOnce
      <3> QED
        BY <3>1
    <2>7. /\ next' \in [Thread -> Seq(Thread)] /\ next'[f] = m
          /\ \A g \in Thread : g # f => next'[g] = next[g]
      BY <1>0, <2>2, <2>6 DEF TypeOK
    <2>8. TypeOK'
      BY <1>0, <1>2, <2>2, <2>3, <2>7 DEF TypeOK
    <2>9. ProgressOK' /\ DepthOK'
      BY <1>0, <1>2, ProgressDone
    <2>10. ThreadsInOnePlace'
      <3>1. \A s \in Thread : s # u => Listing(s)' = Listing(s)
        BY <2>1, <2>6, <2>7 DEF Listing
      <3>2. Listing(u)' = {f}
        BY <2>4, <2>6, <2>7 DEF Listing
      <3>3. \A s \in Thread : Queuing(s)' = Queuing(s) /\ (Live(s)' <=> Live(s))
        BY <1>2 DEF Queuing, Live
      <3>4. \A s \in Thread : Stays(s) \/ Comes(s)
        <4> SUFFICES ASSUME NEW s \in Thread PROVE Stays(s) \/ Comes(s)
          OBVIOUS
        <4>1. CASE s = u
          BY <1>3, <2>3, <2>4, <3>2, <3>3, <4>1 DEF Comes
        <4>2. CASE s # u
          BY <2>3, <3>1, <3>3, <4>2 DEF Stays
        <4> QED
          BY <4>1, <4>2
      <3>5. \A v \in Worker : IsInjective(ses'[v]) /\ IsInjective(ThreadsOf(queue'[v]))
        BY <1>0, <1>2, <2>3 DEF ThreadsInOnePlace
      <3>6. \A g \in Thread : IsInjective(next'[g])
        BY <1>0, <2>6, <2>7 DEF ThreadsInOnePlace
      <3> QED
        BY <1>0, <3>4, <3>5, <3>6, OnePlaceNext
    <2>11. WaitersOK'
      <3>1. \A s : (IsOp(s, "wait")' <=> IsOp(s, "wait")) /\ Awaited(s)' = Awaited(s)
        BY <1>2 DEF IsOp, Awaited, Op
      <3>2. \A v \in Worker : (Setting(v)' <=> Setting(v)) /\ Range(ses'[v]) \subseteq Range(ses[v])
        BY <1>2, <2>3 DEF Setting
      <3>3. ASSUME NEW g \in Thread, NEW s \in Range(next'[g])
            PROVE  IsOp(s, "wait") /\ g \in Range(Awaited(s))
        <4>1. s \in Range(next[g]) \/ (g = f /\ s = u)
          BY <2>1, <2>6, <2>7, <3>3
        <4> QED
          BY <1>0, <1>3, <1>4, <4>1 DEF WaitersOK
      <3>4. ASSUME NEW v \in Worker, NEW s \in Range(ses'[v])
            PROVE  IsOp(s, "wait") /\ (Setting(v) => cur[v] \in Range(Awaited(s)))
        BY <1>0, <3>2, <3>4 DEF WaitersOK
      <3> QED
        BY <1>2, <3>1, <3>2, <3>3, <3>4 DEF WaitersOK
    <2>12. PoppedOK'
      BY <1>0, <1>2, <2>1, <2>7 DEF PoppedOK, TypeOK
    <2>13. FramesOK'
      <3>1. ASSUME NEW v \in Worker PROVE FramesOf(v)'
        <4>1. pc'[v] \in {"loop", "copy", "left"} => pc[v] \in {"loop", "copy", "left"}
          BY <2>3
        <4> QED
          BY <1>0, <1>2, <2>3, <4>1, FramesSame
      <3> QED
        BY <3>1 DEF FramesOK
    <2>14. ExitOK'
      <3>1. \A v \in Worker : pc'[v] = "left" <=> pc[v] = "left"
        BY <1>1, <2>3
      <3> QED
        BY <1>0, <1>2, <3>1, ExitSame
    <2> QED
      BY <1>2, <2>3, <2>8, <2>9, <2>10, <2>11, <2>12, <2>13, <2>14 DEF IndInv, FJ!vars
  <1>6. CASE ~MayPush(f, seen[w]) /\ f \in popped
    <2>1. TooLate(w) /\ UNCHANGED <<next, ses, seen>>
      BY <1>4, <1>6 DEF Swap
    <2> QED
      BY <1>1, <1>2, <1>4, <1>6, <2>1, TooLateKeeps
  <1>7. CASE ~MayPush(f, seen[w]) /\ f \notin popped
    <2>1. seen' = [seen EXCEPT ![w] = next[f]] /\ UNCHANGED <<next, ses, pc, scan>>
      BY <1>4, <1>7 DEF Swap
    <2>2. seen' \in [Worker -> Seq(Thread)]
      BY <1>0, <2>1 DEF TypeOK
    <2>3. HandsOf(w)'
      <3>1. Unmoved(w)
        BY <1>2, <2>1 DEF Unmoved
      <3> QED
        BY <1>0, <1>2, <3>1, HandsQuiet
    <2>4. pc' \in [Worker -> Label] /\ scan' \in [Worker -> Nat]
      BY <1>0, <2>1 DEF TypeOK
    <2> QED
      BY <1>1, <1>2, <2>1, <2>2, <2>3, <2>4, QuietKeeps
  <1> QED
    BY <1>5, <1>6, <1>7

\* A waiter is put into the queue.
LEMMA ResumeWaiterKeeps ==
    ASSUME IndInv, NEW w \in Worker, ResumeWaiter(w)
    PROVE  IndInv' /\ FJ!Next
  <1>0. /\ TypeOK /\ ProgressOK /\ DepthOK /\ ThreadsInOnePlace /\ HandsOK /\ WaitersOK
        /\ PoppedOK /\ FramesOK /\ ExitOK
    BY DEF IndInv
  <1>1. pc[w] \in {"check", "resume"} /\ Setting(w) /\ HandsOf(w) /\ ses[w] # <<>>
    BY <1>0 DEF ResumeWaiter, AllReady, At, HandsOK, HandsOf
  <1>2. PICK u \in Thread : u = Waiter(w) /\ Live(u) /\ IsOp(u, "wait") /\ u \in Range(ses[w])
    BY <1>0, <1>1, HandFacts
  <1>3. PICK e \in Entry : e = [thread |-> u, evacuated |-> TRUE]
    BY DEF Entry
  <1>4. /\ ip' = [ip EXCEPT ![u] = @ + 1] /\ HandleNext(w)
        /\ queue' = [queue EXCEPT ![w] = <<e>> \o @]
        /\ UNCHANGED <<prog, started, addr, done, next, popped, stack, cur, seen, victim, mailbox>>
    BY <1>2, <1>3 DEF ResumeWaiter, futures
  <1>5. u \in started /\ ~done[u] /\ Executing(u) = {} /\ Handling(u) = {w} /\ Queuing(u) = {} /\ Listing(u) = {}
    BY <1>0, <1>1, <1>2, InHand DEF Live
  <1>6. \A k \in 1 .. Len(Awaited(u)) : done[Awaited(u)[k]]
    <2>1. CASE AllReady(w)
      BY <1>0, <1>1, <1>2, <2>1, NothingLeft DEF AllReady, At
    <2>2. CASE pc[w] = "resume"
      <3>1. ~IsMulti(u) /\ cur[w] \in Range(Awaited(u))
        BY <1>0, <1>1, <1>2, <2>2 DEF HandsOf, WaitersOK
      <3>2. Awaited(u) \in Seq(Thread) /\ Len(Awaited(u)) \in Nat
        BY <1>0, <1>2, Waiting
      <3>3. PICK k \in 1 .. Len(Awaited(u)) : Awaited(u)[k] = cur[w]
        BY <3>1, <3>2, RangeIs
      <3>4. \A i \in 1 .. Len(Awaited(u)) : i = k
        BY <3>1, <3>2 DEF IsMulti
      <3> QED
        BY <1>1, <3>3, <3>4 DEF Setting
    <2> QED
      BY <2>1, <2>2 DEF ResumeWaiter, At
  <1>7. ProgressOK' /\ DepthOK' /\ ip' \in [Thread -> Nat] /\ \A s \in Thread : s # u => ip'[s] = ip[s]
    BY <1>0, <1>2, <1>4, <1>5, <1>6, ProgressStep
  <1>8. /\ HandsOK'
        /\ ses' \in [Worker -> Seq(Thread)] /\ scan' \in [Worker -> Nat] /\ pc' \in [Worker -> Label]
        /\ IsInjective(ses'[w]) /\ Range(ses'[w]) = Range(ses[w]) \ {u}
        /\ \A v \in Worker : v # w => ses'[v] = ses[v] /\ pc'[v] = pc[v]
        /\ pc'[w] \in {"next", "check", "resume"}
        /\ ~InFrame(w)' /\ \A v \in Worker : InFrame(v)' => InFrame(v)
        /\ \A s \in Thread : Executing(s)' = Executing(s)
        /\ \A s \in Thread : s # u => Handling(s)' = Handling(s)
        /\ Handling(u)' = {}
    BY <1>0, <1>1, <1>2, <1>4, <1>7, NextInHand
  <1>9. PICK q \in Seq(Entry) : q = queue[w]
    BY <1>0 DEF TypeOK, Entry
  <1>10. PICK p \in Seq(Entry) :
            /\ p = <<e>> \o q /\ Len(p) = Len(q) + 1 /\ p[1] = e
            /\ \A k \in 1 .. Len(p) : k # 1 => p[k] = q[k - 1] /\ k - 1 \in 1 .. Len(q)
            /\ ThreadsOf(p) = <<u>> \o ThreadsOf(q)
    BY <1>3, ThreadsOfPush
  <1>11. queue'[w] = p /\ \A v \in Worker : v # w => queue'[v] = queue[v]
    BY <1>0, <1>4, <1>9, <1>10 DEF TypeOK
  <1>12. IsInjective(ThreadsOf(p)) /\ Range(ThreadsOf(p)) = Range(ThreadsOf(queue[w])) \cup {u}
    <2>1. PICK l \in Seq(Thread) : l = ThreadsOf(q) /\ IsInjective(l) /\ u \notin Range(l)
      BY <1>0, <1>5, <1>9, ThreadsOfQueue DEF ThreadsInOnePlace, Queuing
    <2>2. IsInjective(<<u>> \o l) /\ Range(<<u>> \o l) = Range(l) \cup {u}
      BY <2>1, PushedOnce
    <2> QED
      BY <1>9, <1>10, <2>1, <2>2
  <1>13. TypeOK'
    <2>1. queue' \in [Worker -> Seq(Entry)]
      BY <1>0, <1>4, <1>9, <1>10 DEF TypeOK, Entry
    <2> QED
      BY <1>0, <1>4, <1>7, <1>8, <2>1 DEF TypeOK, Entry
  <1>14. ThreadsInOnePlace'
    <2>1. \A s \in Thread : s # u => Queuing(s)' = Queuing(s)
      BY <1>11, <1>12 DEF Queuing
    <2>2. Queuing(u)' = {w}
      BY <1>5, <1>11, <1>12 DEF Queuing
    <2>3. \A s \in Thread : Listing(s)' = Listing(s) /\ (Live(s)' <=> Live(s))
      BY <1>4 DEF Listing, Live
    <2>4. \A s \in Thread : Stays(s) \/ Comes(s)
      <3> SUFFICES ASSUME NEW s \in Thread PROVE Stays(s) \/ Comes(s)
        OBVIOUS
      <3>1. CASE s = u
        BY <1>2, <1>5, <1>8, <2>2, <2>3, <3>1 DEF Comes
      <3>2. CASE s # u
        BY <1>8, <2>1, <2>3, <3>2 DEF Stays
      <3> QED
        BY <3>1, <3>2
    <2>5. \A v \in Worker : IsInjective(ses'[v]) /\ IsInjective(ThreadsOf(queue'[v]))
      BY <1>0, <1>8, <1>11, <1>12 DEF ThreadsInOnePlace
    <2> QED
      BY <1>0, <1>4, <2>4, <2>5, OnePlaceNext DEF ThreadsInOnePlace
  <1>15. WaitersOK'
    <2>1. \A f \in Thread : \A s \in Range(next'[f]) : ip'[s] = ip[s]
      <3> SUFFICES ASSUME NEW f \in Thread, NEW s \in Range(next[f]) PROVE ip'[s] = ip[s]
        BY <1>4
      <3>1. s \in Thread /\ Handling(s) = {}
        BY <1>0, InList
      <3> QED
        BY <1>5, <1>7, <3>1
    <2>2. \A v \in Worker : \A s \in Range(ses'[v]) : s \in Range(ses[v]) /\ ip'[s] = ip[s]
      <3> SUFFICES ASSUME NEW v \in Worker, NEW s \in Range(ses'[v])
                   PROVE  s \in Range(ses[v]) /\ ip'[s] = ip[s]
        OBVIOUS
      <3>1. s \in Range(ses[v]) /\ (v = w => s # u)
        BY <1>8
      <3>2. s \in Thread /\ Handling(s) = {v}
        BY <1>0, <3>1, InHands
      <3> QED
        BY <1>5, <1>7, <3>1, <3>2
    <2>3. \A f \in Thread : Range(next'[f]) \subseteq Range(next[f])
      BY <1>4
    <2>4. \A v \in Worker : Range(ses'[v]) = {} \/ (cur'[v] = cur[v] /\ Range(ses'[v]) \subseteq Range(ses[v]))
      BY <1>4, <2>2
    <2>5. \A v \in Worker : \A s \in Range(ses'[v]) : ip'[s] = ip[s] /\ (done'[cur[v]] => done[cur[v]])
      BY <1>4, <2>2
    <2> QED
      BY <1>0, <1>4, <2>1, <2>3, <2>4, <2>5, WaitersSame
  <1>16. PoppedOK'
    BY <1>0, <1>4 DEF PoppedOK
  <1>17. FramesOK'
    <2>1. ASSUME NEW v \in Worker, v # w PROVE FramesOf(v)'
      BY <1>0, <1>4, <1>8, <1>11, <2>1, FramesSame
    <2>2. FramesOf(w)'
      <3>1. FramesOf(w) /\ DOMAIN q = 1 .. Len(q) /\ DOMAIN p = 1 .. Len(p) /\ Len(q) \in Nat
        BY <1>0 DEF FramesOK
      <3>2. ASSUME NEW k \in 1 .. Len(p), NEW l \in 1 .. Len(p), k < l, ~p[k].evacuated
            PROVE  ~p[l].evacuated /\ addr[p[k].thread] < addr[p[l].thread]
        <4>1. k # 1 /\ l # 1
          BY <1>3, <1>10, <3>2
        <4>2. /\ p[k] = q[k - 1] /\ p[l] = q[l - 1] /\ k - 1 \in DOMAIN q /\ l - 1 \in DOMAIN q
              /\ k - 1 < l - 1
          BY <1>10, <3>1, <3>2, <4>1
        <4> QED
          BY <1>9, <3>1, <3>2, <4>2 DEF FramesOf
      <3>3. ASSUME NEW k \in 1 .. Len(p), ~p[k].evacuated
            PROVE  stack[w][addr[p[k].thread]] = p[k].thread
        <4>1. k # 1
          BY <1>3, <1>10, <3>3
        <4>2. p[k] = q[k - 1] /\ k - 1 \in DOMAIN q
          BY <1>10, <3>1, <4>1
        <4> QED
          BY <1>9, <3>1, <3>3, <4>2 DEF FramesOf
      <3> QED
        BY ZenonT(40), <1>4, <1>8, <1>11, <3>1, <3>2, <3>3 DEF FramesOf
    <2> QED
      BY <2>1, <2>2 DEF FramesOK
  <1>18. ExitOK'
    <2>1. \A v \in Worker : pc'[v] = "left" <=> pc[v] = "left"
      BY <1>1, <1>8
    <2> QED
      BY <1>0, <1>4, <2>1, ExitSame
  <1>19. FJ!Next
    BY <1>0, <1>2, <1>4, <1>6, WaitStep
  <1> QED
    BY <1>7, <1>8, <1>13, <1>14, <1>15, <1>16, <1>17, <1>18, <1>19 DEF IndInv

\* A future's list is closed, and its waiters are in the hands of who set it.
LEMMA CloseKeeps ==
    ASSUME IndInv, NEW w \in Worker, Close(w)
    PROVE  IndInv' /\ UNCHANGED FJ!vars
  <1>0. /\ TypeOK /\ ProgressOK /\ DepthOK /\ ThreadsInOnePlace /\ HandsOK /\ WaitersOK
        /\ PoppedOK /\ FramesOK /\ ExitOK
    BY DEF IndInv
  <1>1. PICK f \in Thread : f = cur[w] /\ done[f] /\ pc[w] = "close" /\ ses[w] = <<>>
    BY <1>0 DEF Close, At, TypeOK, HandsOK, HandsOf
  <1>2. UNCHANGED <<prog, started, ip, addr, done, queue, stack, cur, victim, mailbox>>
    BY DEF Close, threads
  <1>3. CASE next[f] = seen[w]
    <2>1. PICK l \in Seq(Thread) : l = next[f] /\ l = seen[w] /\ IsInjective(l)
      BY <1>0, <1>3 DEF TypeOK, ThreadsInOnePlace
    <2>2. PICK p \in Label : p = IF l = <<>> THEN "next" ELSE IF IsMulti(Head(l)) THEN "check" ELSE "resume"
      BY DEF Label
    <2>3. /\ popped' = popped \cup {f} /\ next' = [next EXCEPT ![f] = <<>>]
          /\ ses' = [ses EXCEPT ![w] = l] /\ scan' = [scan EXCEPT ![w] = 1]
          /\ pc' = [pc EXCEPT ![w] = p] /\ seen' = seen
      BY <1>1, <1>3, <2>1, <2>2 DEF Close, MayClose, Goto
    <2>4. /\ ses'[w] = l /\ pc'[w] = p /\ scan'[w] = 1
          /\ \A v \in Worker : v # w => ses'[v] = ses[v] /\ scan'[v] = scan[v] /\ pc'[v] = pc[v]
          /\ next'[f] = <<>> /\ \A g \in Thread : g # f => next'[g] = next[g]
      BY <1>0, <2>3 DEF TypeOK
    <2>5. TypeOK'
      <3>1. ses' \in [Worker -> Seq(Thread)] /\ scan' \in [Worker -> Nat] /\ pc' \in [Worker -> Label]
        BY <1>0, <2>3 DEF TypeOK
      <3>2. next' \in [Thread -> Seq(Thread)] /\ popped' \subseteq Thread
        BY <1>0, <2>3 DEF TypeOK
      <3> QED
        BY <1>0, <1>2, <2>3, <3>1, <3>2 DEF TypeOK
    <2>6. ProgressOK' /\ DepthOK'
      BY <1>0, <1>2, ProgressDone
    <2>7. Range(ses[w]) = {} /\ Range(next'[f]) = {} /\ IsInjective(next'[f])
      BY <1>1, <2>4 DEF Range, IsInjective
    <2>8. ThreadsInOnePlace'
      <3>1. \A s \in Thread : /\ Executing(s)' = Executing(s) /\ Queuing(s)' = Queuing(s)
                              /\ (Live(s)' <=> Live(s))
        BY <1>1, <1>2, <2>2, <2>4 DEF Executing, Queuing, Live
      <3>2. \A s \in Thread : s \notin Range(l) => Handling(s)' = Handling(s) /\ Listing(s)' = Listing(s)
        BY <2>1, <2>4, <2>7 DEF Handling, Listing
      <3>3. ASSUME NEW s \in Range(l) PROVE s \in Thread /\ Comes(s)
        <4>1. s \in Thread /\ Live(s) /\ Executing(s) = {} /\ Handling(s) = {} /\ Queuing(s) = {} /\ Listing(s) = {f}
          BY <1>0, <2>1, InList
        <4>2. Handling(s)' = {w}
          BY <2>4, <4>1 DEF Handling
        <4>3. Listing(s)' = {}
          BY <2>4, <2>7, <4>1 DEF Listing
        <4> QED
          BY <3>1, <4>1, <4>2, <4>3 DEF Comes
      <3>4. \A s \in Thread : Stays(s) \/ Comes(s)
        BY <3>1, <3>2, <3>3 DEF Stays
      <3>5. \A v \in Worker : IsInjective(ses'[v]) /\ IsInjective(ThreadsOf(queue'[v]))
        BY <1>0, <1>2, <2>1, <2>4 DEF ThreadsInOnePlace
      <3>6. \A g \in Thread : IsInjective(next'[g])
        BY <1>0, <2>4, <2>7 DEF ThreadsInOnePlace
      <3> QED
        BY <1>0, <3>4, <3>5, <3>6, OnePlaceNext
    <2>9. Setting(w)' /\ Setting(w)
      BY <1>1, <1>2 DEF Setting
    <2>10. HandsOK'
      <3>1. HandsOf(w)'
        <4>1. CASE l = <<>>
          BY <2>2, <2>4, <4>1, HandsEmpty
        <4>2. CASE l # <<>>
          <5>1. PICK u \in Thread : u = Head(l) /\ u \in Range(next[f])
            BY <2>1, <4>2, RangeIs
          <5>2. IsOp(u, "wait")
            BY <1>0, <5>1 DEF WaitersOK
          <5>3. Len(Awaited(u)) \in Nat
            BY <1>0, <5>2, Waiting
          <5>4. Waiter(w)' = u /\ Awaited(u)' = Awaited(u)
            BY <1>2, <2>4, <5>1 DEF Waiter, Awaited, Op
          <5>5. IsMulti(u)' <=> IsMulti(u)
            BY <5>4 DEF IsMulti
          <5>6. 1 \in 1 .. Len(Awaited(u)) + 1 /\ \A k \in 1 .. 1 - 1 : FALSE
            BY <5>3
          <5>7. p = IF IsMulti(u) THEN "check" ELSE "resume"
            BY <2>2, <4>2, <5>1
          <5>8. pc'[w] = "resume" => ~IsMulti(Waiter(w))'
            BY <2>4, <5>4, <5>5, <5>7
          <5> QED
            BY <2>4, <2>9, <4>2, <5>4, <5>6, <5>7, <5>8 DEF HandsOf
        <4> QED
          BY <4>1, <4>2
      <3>2. ASSUME NEW v \in Worker, v # w PROVE HandsOf(v)'
        <4>1. Unmoved(v)
          BY <1>2, <2>4, <3>2 DEF Unmoved
        <4> QED
          BY <1>0, <1>2, <4>1, HandsQuiet
      <3> QED
        BY <3>1, <3>2 DEF HandsOK
    <2>11. WaitersOK'
      <3>1. \A s : (IsOp(s, "wait")' <=> IsOp(s, "wait")) /\ Awaited(s)' = Awaited(s)
        BY <1>2 DEF IsOp, Awaited, Op
      <3>2. \A v \in Worker : Setting(v)' <=> Setting(v)
        BY <1>2 DEF Setting
      <3>3. ASSUME NEW g \in Thread, NEW s \in Range(next'[g])
            PROVE  IsOp(s, "wait") /\ g \in Range(Awaited(s))
        <4>1. s \in Range(next[g])
          BY <2>4, <2>7, <3>3
        <4> QED
          BY <1>0, <4>1 DEF WaitersOK
      <3>4. ASSUME NEW v \in Worker, NEW s \in Range(ses'[v])
            PROVE  IsOp(s, "wait") /\ (Setting(v) => cur[v] \in Range(Awaited(s)))
        <4>1. CASE v = w
          <5>1. s \in Range(next[f])
            BY <2>1, <2>4, <3>4, <4>1
          <5> QED
            BY <1>0, <1>1, <4>1, <5>1 DEF WaitersOK
        <4>2. CASE v # w
          BY <1>0, <2>4, <3>4, <4>2 DEF WaitersOK
        <4> QED
          BY <4>1, <4>2
      <3> QED
        BY <1>2, <3>1, <3>2, <3>3, <3>4 DEF WaitersOK
    <2>12. PoppedOK'
      BY <1>0, <1>1, <1>2, <2>3, <2>4 DEF PoppedOK, TypeOK
    <2>13. FramesOK'
      <3>1. ASSUME NEW v \in Worker PROVE FramesOf(v)'
        <4>1. InFrame(v)' => InFrame(v)
          BY <1>2, <2>2, <2>4, <2>9 DEF InFrame, Setting
        <4>2. pc'[v] \in {"loop", "copy", "left"} => pc[v] \in {"loop", "copy", "left"}
          BY <2>2, <2>4
        <4> QED
          BY <1>0, <1>2, <4>1, <4>2, FramesSame
      <3> QED
        BY <3>1 DEF FramesOK
    <2>14. ExitOK'
      <3>1. \A v \in Worker : pc'[v] = "left" <=> pc[v] = "left"
        BY <1>1, <2>2, <2>4
      <3> QED
        BY <1>0, <1>2, <3>1, ExitSame
    <2> QED
      BY <1>2, <2>5, <2>6, <2>8, <2>10, <2>11, <2>12, <2>13, <2>14 DEF IndInv, FJ!vars
  <1>4. CASE next[f] # seen[w]
    <2>1. seen' = [seen EXCEPT ![w] = next[f]] /\ UNCHANGED <<popped, next, ses, scan, pc>>
      BY <1>1, <1>4 DEF Close, MayClose
    <2>2. seen' \in [Worker -> Seq(Thread)]
      BY <1>0, <2>1 DEF TypeOK
    <2>3. HandsOf(w)'
      <3>1. Unmoved(w)
        BY <1>2, <2>1 DEF Unmoved
      <3> QED
        BY <1>0, <1>2, <3>1, HandsQuiet
    <2>4. pc' \in [Worker -> Label] /\ scan' \in [Worker -> Nat]
      BY <1>0, <2>1 DEF TypeOK
    <2> QED
      BY <1>1, <1>2, <2>1, <2>2, <2>3, <2>4, QuietKeeps
  <1> QED
    BY <1>3, <1>4
----------------------------------------------------------------------------
\* Worker w takes a thread from the queue of v: what does not depend on frames.
LEMMA TakeKeeps ==
    ASSUME IndInv, NEW v \in Worker, NEW w \in Worker, pc[w] \in {"next", "loop"},
           NEW t \in Thread, t \in Range(ThreadsOf(queue[v])),
           queue' \in [Worker -> Seq(Entry)], \A u \in Worker : u # v => queue'[u] = queue[u],
           IsInjective(ThreadsOf(queue'[v])),
           \A s : s \in Range(ThreadsOf(queue'[v])) <=> s \in Range(ThreadsOf(queue[v])) /\ s # t,
           cur' \in [Worker -> Thread], cur'[w] = t, \A u \in Worker : u # w => cur'[u] = cur[u],
           pc' \in [Worker -> Label], pc'[w] \in {"run", "copy"}, \A u \in Worker : u # w => pc'[u] = pc[u],
           stack' \in [Worker -> [Addr -> Thread \cup {NoThread}]], victim' \in [Worker -> Worker],
           UNCHANGED <<prog, started, ip, addr, done, next, popped, ses, scan, seen, mailbox>>
    PROVE  /\ TypeOK' /\ ProgressOK' /\ DepthOK' /\ ThreadsInOnePlace' /\ HandsOK' /\ WaitersOK'
           /\ PoppedOK' /\ ExitOK' /\ UNCHANGED FJ!vars
           /\ ses'[w] = <<>>
  <1>0. /\ TypeOK /\ ProgressOK /\ DepthOK /\ ThreadsInOnePlace /\ HandsOK /\ WaitersOK
        /\ PoppedOK /\ FramesOK /\ ExitOK
    BY DEF IndInv
  <1>1. Live(t) /\ Executing(t) = {} /\ Handling(t) = {} /\ Queuing(t) = {v} /\ Listing(t) = {}
    <2>1. v \in Queuing(t)
      BY DEF Queuing
    <2> QED
      BY <1>0, <2>1, OneSpot
  <1>2. ses'[w] = <<>> /\ ses[w] = <<>>
    BY <1>0 DEF HandsOK, HandsOf
  <1>4. TypeOK'
    BY <1>0 DEF TypeOK, Entry
  <1>5. ProgressOK' /\ DepthOK'
    BY <1>0, ProgressDone
  <1>6. ThreadsInOnePlace'
    <2>1. \A s \in Thread : s # t => Executing(s)' = Executing(s)
      BY DEF Executing
    <2>2. Executing(t)' = {w}
      BY <1>1 DEF Executing
    <2>3. \A s \in Thread : s # t => Queuing(s)' = Queuing(s)
      BY DEF Queuing
    <2>4. Queuing(t)' = {}
      BY <1>1 DEF Queuing
    <2>5. \A s \in Thread : Handling(s)' = Handling(s) /\ Listing(s)' = Listing(s) /\ (Live(s)' <=> Live(s))
      BY DEF Handling, Listing, Live
    <2>6. \A s \in Thread : Stays(s) \/ Comes(s)
      <3> SUFFICES ASSUME NEW s \in Thread PROVE Stays(s) \/ Comes(s)
        OBVIOUS
      <3>1. CASE s = t
        BY <1>1, <2>2, <2>4, <2>5, <3>1 DEF Comes
      <3>2. CASE s # t
        BY <2>1, <2>3, <2>5, <3>2 DEF Stays
      <3> QED
        BY <3>1, <3>2
    <2>7. \A u \in Worker : IsInjective(ses'[u]) /\ IsInjective(ThreadsOf(queue'[u]))
      BY <1>0 DEF ThreadsInOnePlace
    <2> QED
      BY <1>0, <2>6, <2>7, OnePlaceNext DEF ThreadsInOnePlace
  <1>7. HandsOK'
    <2>1. HandsOf(w)'
      BY <1>2, HandsEmpty
    <2>2. ASSUME NEW u \in Worker, u # w PROVE HandsOf(u)'
      <3>1. Unmoved(u)
        BY <2>2 DEF Unmoved
      <3> QED
        BY <1>0, <3>1, HandsQuiet
    <2> QED
      BY <2>1, <2>2 DEF HandsOK
  <1>8. WaitersOK'
    <2>1. Range(ses'[w]) = {}
      BY <1>2 DEF Range
    <2>2. \A u \in Worker : Range(ses'[u]) = {} \/ (cur'[u] = cur[u] /\ Range(ses'[u]) \subseteq Range(ses[u]))
      BY <2>1
    <2> QED
      BY <1>0, <2>2, WaitersQuiet
  <1>9. PoppedOK'
    BY <1>0 DEF PoppedOK
  <1>10. ExitOK'
    <2>1. \A u \in Worker : pc'[u] = "left" <=> pc[u] = "left"
      OBVIOUS
    <2> QED
      BY <1>0, <2>1, ExitSame
  <1> QED
    BY <1>1, <1>2, <1>4, <1>5, <1>6, <1>7, <1>8, <1>9, <1>10 DEF FJ!vars

\* The owner goes on with the youngest entry of its queue.
LEMMA ContinueComputationKeeps ==
    ASSUME IndInv, NEW w \in Worker, ContinueComputation(w)
    PROVE  IndInv' /\ UNCHANGED FJ!vars
  <1>0. /\ TypeOK /\ ProgressOK /\ DepthOK /\ ThreadsInOnePlace /\ HandsOK /\ WaitersOK
        /\ PoppedOK /\ FramesOK /\ ExitOK
    BY DEF IndInv
  <1>1. pc[w] = "next" /\ ses[w] = <<>>
    BY <1>0 DEF ContinueComputation, At, HandsOK, HandsOf
  <1>2. UNCHANGED <<prog, started, ip, addr, done, next, popped, ses, scan, seen, victim, mailbox>>
    BY DEF ContinueComputation, threads, futures
  <1>3. CASE queue[w] = <<>>
    <2>1. pc' = [pc EXCEPT ![w] = "loop"] /\ UNCHANGED <<queue, stack, cur>>
      BY <1>3 DEF ContinueComputation, Goto
    <2>2. pc' \in [Worker -> Label] /\ pc'[w] = "loop" /\ \A v \in Worker : v # w => pc'[v] = pc[v]
      BY <1>0, <2>1 DEF TypeOK, Label
    <2>3. TypeOK'
      BY <1>0, <1>2, <2>1, <2>2 DEF TypeOK
    <2>4. ProgressOK' /\ DepthOK'
      BY <1>0, <1>2, ProgressDone
    <2>5. ThreadsInOnePlace'
      BY <1>0, <1>1, <1>2, <2>1, <2>2, PlacesSame
    <2>6. HandsOK'
      <3>1. HandsOf(w)'
        BY <1>1, <1>2, <2>2, HandsEmpty
      <3>2. ASSUME NEW v \in Worker, v # w PROVE HandsOf(v)'
        <4>1. Unmoved(v)
          BY <1>2, <2>1, <2>2, <3>2 DEF Unmoved
        <4> QED
          BY <1>0, <1>2, <4>1, HandsQuiet
      <3> QED
        BY <3>1, <3>2 DEF HandsOK
    <2>7. WaitersOK'
      BY <1>0, <1>2, <2>1, WaitersQuiet
    <2>8. PoppedOK'
      BY <1>0, <1>2 DEF PoppedOK
    <2>9. FramesOK'
      <3>1. ASSUME NEW v \in Worker, v # w PROVE FramesOf(v)'
        <4>1. InFrame(v)' => InFrame(v)
          BY <1>2, <2>1, <2>2, <3>1 DEF InFrame, Setting
        <4> QED
          BY <1>0, <1>2, <2>1, <2>2, <3>1, <4>1, FramesSame
      <3>2. FramesOf(w)'
        <4>1. ~InFrame(w)'
          BY <1>1, <1>2, <2>2 DEF InFrame
        <4>2. DOMAIN queue'[w] = {}
          BY <1>3, <2>1
        <4> QED
          BY <4>1, <4>2 DEF FramesOf
      <3> QED
        BY <3>1, <3>2 DEF FramesOK
    <2>10. ExitOK'
      <3>1. \A v \in Worker : pc'[v] = "left" <=> pc[v] = "left"
        BY <1>1, <2>2
      <3> QED
        BY <1>0, <1>2, <3>1, ExitSame
    <2> QED
      BY <1>2, <2>3, <2>4, <2>5, <2>6, <2>7, <2>8, <2>9, <2>10 DEF IndInv, FJ!vars
  <1>4. CASE queue[w] # <<>>
    <2>1. PICK q \in Seq(Entry) : q = queue[w] /\ q # <<>>
      BY <1>0, <1>4 DEF TypeOK, Entry
    <2>2. PICK n \in 1 .. Len(q) : n = Len(q) /\ n = Youngest(q) /\ q[n] \in Entry
      BY <2>1, QueueWithoutLast
    <2>3. PICK r \in Seq(Entry) :
             /\ r = RemoveAt(q, n) /\ Len(r) = Len(q) - 1
             /\ \A k \in 1 .. Len(r) : r[k] = q[k] /\ k \in 1 .. Len(q) /\ k < Len(q)
      BY <2>1, <2>2, QueueWithoutLast
    <2>4. PICK t \in Thread : t = q[n].thread
      BY <2>2 DEF Entry
    <2>5. /\ queue' = [queue EXCEPT ![w] = r] /\ Enter(w, t, addr[t])
          /\ cur' = [cur EXCEPT ![w] = t] /\ pc' = [pc EXCEPT ![w] = "run"]
      BY <1>4, <2>1, <2>2, <2>3, <2>4 DEF ContinueComputation, Run, Goto
    <2>6. IsInjective(ThreadsOf(r)) /\ Range(ThreadsOf(r)) = Range(ThreadsOf(queue[w])) \ {t}
      <3>1. PICK s \in Seq(Thread) : /\ s = ThreadsOf(q) /\ Len(s) = Len(q) /\ s # <<>> /\ IsInjective(s)
                                     /\ \A k \in 1 .. Len(q) : s[k] = q[k].thread
        BY <1>0, <2>1, ThreadsOfQueue DEF ThreadsInOnePlace
      <3>2. PICK m \in Seq(Thread) : /\ m = ThreadsOf(r) /\ Len(m) = Len(r)
                                     /\ \A k \in 1 .. Len(r) : m[k] = r[k].thread
        BY ThreadsOfQueue
      <3>3. \A k \in 1 .. Len(m) : m[k] = s[k]
        BY ZenonT(40), <2>3, <3>1, <3>2
      <3>4. Len(m) = Len(s) - 1
        BY <2>3, <3>1, <3>2
      <3>5. IsInjective(m) /\ Range(m) = Range(s) \ {s[Len(s)]}
        BY <3>1, <3>3, <3>4, FrontOnce
      <3>6. s[Len(s)] = t
        BY <2>2, <2>4, <3>1
      <3> QED
        BY <2>1, <3>1, <3>2, <3>5, <3>6
    <2>7. addr[t] \in Addr
      BY <1>0 DEF TypeOK
    <2>8. /\ stack' \in [Worker -> [Addr -> Thread \cup {NoThread}]] /\ stack'[w][addr[t]] = t
          /\ \A v \in Worker : \A b \in Addr : v # w \/ b < addr[t] => stack'[v][b] = stack[v][b]
      BY <1>0, <2>5, <2>7, EnterKeeps
    <2>9. t \in Range(ThreadsOf(queue[w]))
      BY <1>0, <2>1, <2>4, InQueue
    <2>10. /\ TypeOK' /\ ProgressOK' /\ DepthOK' /\ ThreadsInOnePlace' /\ HandsOK' /\ WaitersOK'
           /\ PoppedOK' /\ ExitOK' /\ UNCHANGED FJ!vars
           /\ ses'[w] = <<>> /\ queue'[w] = r /\ cur'[w] = t /\ pc'[w] = "run"
           /\ \A u \in Worker : u # w => queue'[u] = queue[u]
           /\ \A u \in Worker : u # w => cur'[u] = cur[u] /\ pc'[u] = pc[u]
      <3>1. /\ queue' \in [Worker -> Seq(Entry)] /\ queue'[w] = r
            /\ \A u \in Worker : u # w => queue'[u] = queue[u]
        BY <1>0, <2>5 DEF TypeOK, Entry
      <3>2. /\ cur' \in [Worker -> Thread] /\ cur'[w] = t /\ \A u \in Worker : u # w => cur'[u] = cur[u]
        BY <1>0, <2>5 DEF TypeOK
      <3>3. /\ pc' \in [Worker -> Label] /\ pc'[w] = "run" /\ \A u \in Worker : u # w => pc'[u] = pc[u]
        BY <1>0, <2>5 DEF TypeOK, Label
      <3>4. victim' \in [Worker -> Worker] /\ pc[w] \in {"next", "loop"}
        BY <1>0, <1>1, <1>2 DEF TypeOK
      <3>5. /\ IsInjective(ThreadsOf(queue'[w]))
            /\ \A s : s \in Range(ThreadsOf(queue'[w])) <=> s \in Range(ThreadsOf(queue[w])) /\ s # t
        BY <2>6, <3>1
      <3>6. /\ TypeOK' /\ ProgressOK' /\ DepthOK' /\ ThreadsInOnePlace' /\ HandsOK' /\ WaitersOK'
            /\ PoppedOK' /\ ExitOK' /\ UNCHANGED FJ!vars /\ ses'[w] = <<>>
        BY <1>2, <2>8, <2>9, <3>1, <3>2, <3>3, <3>4, <3>5, TakeKeeps
      <3> QED
        BY <3>1, <3>2, <3>3, <3>6
    <2>11. FramesOK'
      <3>1. ASSUME NEW v \in Worker, v # w PROVE FramesOf(v)'
        <4>1. stack'[v] = stack[v]
          BY <1>0, <2>5, <3>1 DEF TypeOK, Enter
        <4>2. InFrame(v)' => InFrame(v)
          BY <1>2, <2>10, <3>1 DEF InFrame, Setting
        <4> QED
          BY <1>0, <1>2, <2>10, <3>1, <4>1, <4>2, FramesSame
      <3>2. FramesOf(w)'
        <4>1. FramesOf(w) /\ DOMAIN q = 1 .. Len(q) /\ DOMAIN r = 1 .. Len(r)
          BY <1>0 DEF FramesOK
        <4>2. ASSUME NEW k \in 1 .. Len(r), ~r[k].evacuated
              PROVE  /\ addr[r[k].thread] < addr[t] /\ stack'[w][addr[r[k].thread]] = r[k].thread
                     /\ \A l \in 1 .. Len(r) : k < l => ~r[l].evacuated /\ addr[r[k].thread] < addr[r[l].thread]
          <5>1. k \in DOMAIN q /\ r[k] = q[k] /\ n \in DOMAIN q /\ k < n
            BY <2>2, <2>3, <4>1
          <5>2. addr[q[k].thread] < addr[t] /\ stack[w][addr[q[k].thread]] = q[k].thread
            BY <2>1, <2>4, <4>1, <4>2, <5>1 DEF FramesOf
          <5>3. addr[q[k].thread] \in Addr
            BY <1>0, <2>1, <5>1, InQueue DEF TypeOK
          <5>4. \A l \in 1 .. Len(r) : k < l => ~r[l].evacuated /\ addr[r[k].thread] < addr[r[l].thread]
            BY <2>1, <2>3, <4>1, <4>2, <5>1 DEF FramesOf
          <5> QED
            BY <2>8, <5>1, <5>2, <5>3, <5>4
        <4> QED
          BY <1>2, <2>8, <2>10, <4>1, <4>2 DEF FramesOf
      <3> QED
        BY <3>1, <3>2 DEF FramesOK
    <2> QED
      BY <2>10, <2>11 DEF IndInv
  <1> QED
    BY <1>3, <1>4

\* A thief takes the oldest entry of another's queue.
LEMMA StealKeeps ==
    ASSUME IndInv, NEW w \in Worker, Steal(w)
    PROVE  IndInv' /\ UNCHANGED FJ!vars
  <1>0. /\ TypeOK /\ ProgressOK /\ DepthOK /\ ThreadsInOnePlace /\ HandsOK /\ WaitersOK
        /\ PoppedOK /\ FramesOK /\ ExitOK
    BY DEF IndInv
  <1>1. PICK v \in Worker \ {w} :
           /\ pc[w] = "loop" /\ queue[v] # <<>>
           /\ LET e == Head(queue[v])
              IN  IF e.evacuated
                  THEN Enter(w, e.thread, addr[e.thread]) /\ Run(w, e.thread) /\ UNCHANGED victim
                  ELSE /\ cur' = [cur EXCEPT ![w] = e.thread] /\ victim' = [victim EXCEPT ![w] = v]
                       /\ Goto(w, "copy") /\ UNCHANGED stack
           /\ queue' = [queue EXCEPT ![v] = Tail(@)]
           /\ UNCHANGED <<prog, threads, futures, ses, scan, seen, mailbox>>
    BY DEF Steal, At
  <1>2. UNCHANGED <<prog, started, ip, addr, done, next, popped, ses, scan, seen, mailbox>>
    BY <1>1 DEF threads, futures
  <1>3. PICK q \in Seq(Entry) : q = queue[v] /\ q # <<>>
    BY <1>0, <1>1 DEF TypeOK, Entry
  <1>4. PICK r \in Seq(Entry) :
           /\ r = Tail(q) /\ Len(r) = Len(q) - 1 /\ ThreadsOf(r) = Tail(ThreadsOf(q))
           /\ \A k \in 1 .. Len(r) : r[k] = q[k + 1] /\ k + 1 \in 1 .. Len(q)
    BY <1>3, ThreadsOfTail
  <1>5. PICK e \in Entry : e = Head(q) /\ e = q[1] /\ 1 \in 1 .. Len(q) /\ Head(ThreadsOf(q)) = e.thread
    BY <1>3, ThreadsOfTail
  <1>6. PICK t \in Thread : t = e.thread /\ addr[t] \in Addr
    BY <1>0 DEF Entry, TypeOK
  <1>7. queue' = [queue EXCEPT ![v] = r] /\ cur' = [cur EXCEPT ![w] = t]
    BY <1>0, <1>1, <1>3, <1>4, <1>5, <1>6 DEF Run, TypeOK
  <1>8. IsInjective(ThreadsOf(r)) /\ Range(ThreadsOf(r)) = Range(ThreadsOf(queue[v])) \ {t}
    <2>1. PICK s \in Seq(Thread) : s = ThreadsOf(q) /\ s # <<>> /\ IsInjective(s)
      BY <1>0, <1>3, ThreadsOfQueue DEF ThreadsInOnePlace
    <2>2. IsInjective(Tail(s)) /\ Range(Tail(s)) = Range(s) \ {Head(s)}
      BY <2>1, TailOnce
    <2> QED
      BY <1>3, <1>4, <1>5, <1>6, <2>1, <2>2
  <1>9. t \in Range(ThreadsOf(queue[v]))
    <2>1. 1 \in DOMAIN queue[v] /\ t = queue[v][1].thread
      BY <1>3, <1>5, <1>6
    <2> QED
      BY <1>0, <2>1, InQueue
  <1>10. PICK p \in {"run", "copy"} :
            /\ pc' = [pc EXCEPT ![w] = p]
            /\ IF p = "run" THEN Enter(w, t, addr[t]) /\ victim' = victim
               ELSE stack' = stack /\ victim' = [victim EXCEPT ![w] = v]
    <2>1. CASE e.evacuated
      BY <1>1, <1>3, <1>5, <1>6, <2>1 DEF Run, Goto
    <2>2. CASE ~e.evacuated
      BY <1>1, <1>3, <1>5, <1>6, <2>2 DEF Goto
    <2> QED
      BY <2>1, <2>2
  <1>11. /\ stack' \in [Worker -> [Addr -> Thread \cup {NoThread}]]
         /\ p = "run" => stack'[w][addr[t]] = t
         /\ \A u \in Worker : u # w => stack'[u] = stack[u]
    <2>1. CASE p = "run"
      <3>1. Enter(w, t, addr[t])
        BY <1>10, <2>1
      <3>2. \A u \in Worker : u # w => stack'[u] = stack[u]
        BY <1>0, <3>1 DEF TypeOK, Enter
      <3> QED
        BY <1>0, <1>6, <3>1, <3>2, EnterKeeps
    <2>2. CASE p # "run"
      BY <1>0, <1>10, <2>2 DEF TypeOK
    <2> QED
      BY <2>1, <2>2
  <1>12. victim' \in [Worker -> Worker]
    BY <1>0, <1>10 DEF TypeOK
  <1>13. /\ TypeOK' /\ ProgressOK' /\ DepthOK' /\ ThreadsInOnePlace' /\ HandsOK' /\ WaitersOK'
         /\ PoppedOK' /\ ExitOK' /\ UNCHANGED FJ!vars
         /\ ses'[w] = <<>> /\ queue'[v] = r /\ cur'[w] = t /\ pc'[w] = p
         /\ \A u \in Worker : u # v => queue'[u] = queue[u]
         /\ \A u \in Worker : u # w => cur'[u] = cur[u] /\ pc'[u] = pc[u]
    <2>1. /\ queue' \in [Worker -> Seq(Entry)] /\ queue'[v] = r
          /\ \A u \in Worker : u # v => queue'[u] = queue[u]
      BY <1>0, <1>7 DEF TypeOK, Entry
    <2>2. /\ cur' \in [Worker -> Thread] /\ cur'[w] = t /\ \A u \in Worker : u # w => cur'[u] = cur[u]
      BY <1>0, <1>7 DEF TypeOK
    <2>3. /\ pc' \in [Worker -> Label] /\ pc'[w] = p /\ \A u \in Worker : u # w => pc'[u] = pc[u]
      BY <1>0, <1>10 DEF TypeOK, Label
    <2>4. /\ IsInjective(ThreadsOf(queue'[v]))
          /\ \A s : s \in Range(ThreadsOf(queue'[v])) <=> s \in Range(ThreadsOf(queue[v])) /\ s # t
      BY <1>8, <2>1
    <2>5. pc[w] \in {"next", "loop"}
      BY <1>1
    <2>6. /\ TypeOK' /\ ProgressOK' /\ DepthOK' /\ ThreadsInOnePlace' /\ HandsOK' /\ WaitersOK'
          /\ PoppedOK' /\ ExitOK' /\ UNCHANGED FJ!vars /\ ses'[w] = <<>>
      BY ZenonT(40), <1>2, <1>9, <1>11, <1>12, <2>1, <2>2, <2>3, <2>4, <2>5, TakeKeeps
    <2> QED
      BY <2>1, <2>2, <2>3, <2>6
  <1>14. \A u \in Worker : u # w => (InFrame(u)' <=> InFrame(u))
    BY <1>2, <1>13 DEF InFrame, Setting
  <1>15. FramesOK'
    <2>1. ASSUME NEW u \in Worker, u # w, u # v PROVE FramesOf(u)'
      BY <1>0, <1>2, <1>11, <1>13, <1>14, <2>1, FramesSame
    <2>2. FramesOf(v)'
      <3>1. FramesOf(v) /\ DOMAIN q = 1 .. Len(q) /\ DOMAIN r = 1 .. Len(r)
        BY <1>0 DEF FramesOK
      <3>2. ASSUME NEW k \in 1 .. Len(r), ~r[k].evacuated
            PROVE  /\ pc[v] \notin {"loop", "copy", "left"}
                   /\ InFrame(v) => addr[r[k].thread] < addr[cur[v]]
                   /\ stack[v][addr[r[k].thread]] = r[k].thread
                   /\ \A l \in 1 .. Len(r) : k < l => ~r[l].evacuated /\ addr[r[k].thread] < addr[r[l].thread]
        <4>1. k + 1 \in DOMAIN q /\ r[k] = q[k + 1]
          BY <1>4, <3>1
        <4>2. \A l \in 1 .. Len(r) : k < l => l + 1 \in DOMAIN q /\ r[l] = q[l + 1] /\ k + 1 < l + 1
          BY <1>4, <3>1
        <4> QED
          BY ZenonT(40), <1>3, <3>1, <3>2, <4>1, <4>2 DEF FramesOf
      <3>3. InFrame(v)' => stack[v][addr[cur[v]]] = cur[v]
        BY <1>1, <1>14, <3>1 DEF FramesOf
      <3> QED
        BY SMTT(30), <1>1, <1>2, <1>11, <1>13, <1>14, <3>1, <3>2, <3>3 DEF FramesOf
    <2>3. FramesOf(w)'
      <3>1. \A k \in DOMAIN queue[w] : queue[w][k].evacuated
        BY <1>0, <1>1 DEF FramesOK, FramesOf
      <3>2. InFrame(w)' => p = "run"
        BY <1>13 DEF InFrame
      <3>3. queue'[w] = queue[w]
        BY <1>1, <1>13
      <3> QED
        BY <1>2, <1>11, <1>13, <3>1, <3>2, <3>3 DEF FramesOf
    <2> QED
      BY <2>1, <2>2, <2>3 DEF FramesOK
  <1> QED
    BY <1>13, <1>15 DEF IndInv

\* A worker leaves the loop and asks others to.
LEMMA ShouldExitKeeps ==
    ASSUME IndInv, NEW w \in Worker, ShouldExit(w)
    PROVE  IndInv' /\ UNCHANGED FJ!vars
  <1>0. /\ TypeOK /\ ProgressOK /\ DepthOK /\ ThreadsInOnePlace /\ HandsOK /\ WaitersOK
        /\ PoppedOK /\ FramesOK /\ ExitOK
    BY DEF IndInv
  <1>1. pc[w] = "loop" /\ mailbox[w] > 0 /\ ses[w] = <<>>
    BY <1>0 DEF ShouldExit, At, HandsOK, HandsOf
  <1>2. /\ pc' = [pc EXCEPT ![w] = "left"] /\ mailbox' = Put([mailbox EXCEPT ![w] = 0], ExitTargets(w))
        /\ UNCHANGED <<prog, started, ip, addr, done, next, popped, queue, stack, cur, ses, scan, seen, victim>>
    BY DEF ShouldExit, Goto, threads, futures
  <1>3. pc' \in [Worker -> Label] /\ pc'[w] = "left" /\ \A v \in Worker : v # w => pc'[v] = pc[v]
    BY <1>0, <1>2 DEF TypeOK, Label
  <1>4. PICK R : R = ExitTargets(w) /\ R \subseteq Worker /\ 0 \notin R /\ w \notin R
    BY TargetsOfExit
  <1>5. mailbox \in [Worker -> Nat] /\ \A r \in Worker : mailbox[r] \in {0, 1}
    <2>1. mailbox \in [Worker -> Nat] /\ \A r \in Worker : mailbox[r] <= 1
      BY <1>0 DEF TypeOK, ExitOK
    <2> QED
      BY <2>1
  <1>6. /\ mailbox' \in [Worker -> Nat] /\ mailbox'[w] = 0
        /\ \A r \in Worker : r \in R => mailbox'[r] = mailbox[r] + 1
        /\ \A r \in Worker : r # w /\ r \notin R => mailbox'[r] = mailbox[r]
    <2>1. PICK box \in [Worker -> Nat] : /\ box = [mailbox EXCEPT ![w] = 0]
                                         /\ box[w] = 0 /\ \A r \in Worker : r # w => box[r] = mailbox[r]
      <3>1. [mailbox EXCEPT ![w] = 0] \in [Worker -> Nat]
        BY <1>5
      <3> QED
        BY <1>5, <3>1
    <2>2. mailbox' = [r \in Worker |-> IF r \in R THEN box[r] + 1 ELSE box[r]]
      BY <1>2, <1>4, <2>1 DEF Put
    <2> QED
      BY <1>4, <2>1, <2>2
  <1>7. TypeOK'
    BY <1>0, <1>2, <1>3, <1>6 DEF TypeOK
  <1>8. ProgressOK' /\ DepthOK'
    BY <1>0, <1>2, ProgressDone
  <1>9. ThreadsInOnePlace'
    BY <1>0, <1>1, <1>2, <1>3, PlacesSame
  <1>10. HandsOK'
    <2>1. HandsOf(w)'
      BY <1>1, <1>2, <1>3, HandsEmpty
    <2>2. ASSUME NEW v \in Worker, v # w PROVE HandsOf(v)'
      <3>1. Unmoved(v)
        BY <1>2, <1>3, <2>2 DEF Unmoved
      <3> QED
        BY <1>0, <1>2, <3>1, HandsQuiet
    <2> QED
      BY <2>1, <2>2 DEF HandsOK
  <1>11. WaitersOK'
    BY <1>0, <1>2, WaitersQuiet
  <1>12. PoppedOK'
    BY <1>0, <1>2 DEF PoppedOK
  <1>13. FramesOK'
    <2>1. ASSUME NEW v \in Worker PROVE FramesOf(v)'
      <3>1. InFrame(v)' => InFrame(v)
        BY <1>2, <1>3 DEF InFrame, Setting
      <3>2. pc'[v] \in {"loop", "copy", "left"} => pc[v] \in {"loop", "copy", "left"}
        BY <1>1, <1>3
      <3> QED
        BY <1>0, <1>2, <3>1, <3>2, FramesSame
    <2> QED
      BY <2>1 DEF FramesOK
  <1>14. ExitOK'
    <2>1. \A v \in Worker : ExitTargets(v)' = ExitTargets(v)
      BY DEF ExitTargets
    <2>2. \A v \in Worker : pc[v] = "left" => pc'[v] = "left"
      BY <1>3
    <2>3. ASSUME NEW r \in Worker
          PROVE  /\ mailbox'[r] <= 1
                 /\ mailbox'[r] = 1 => pc'[r] # "left"
                 /\ mailbox'[r] = 1 \/ pc'[r] = "left" =>
                       IF r = 0 THEN done[Root]
                       ELSE \E v \in Worker : r \in ExitTargets(v) /\ pc'[v] = "left"
      <3>1. /\ mailbox[r] = 1 => pc[r] # "left"
            /\ mailbox[r] = 1 \/ pc[r] = "left" =>
                  IF r = 0 THEN done[Root] ELSE \E v \in Worker : r \in ExitTargets(v) /\ pc[v] = "left"
        BY <1>0 DEF ExitOK
      <3>2. CASE r = w
        <4>1. mailbox[w] = 1
          BY <1>1, <1>5
        <4> QED
          BY <1>6, <2>2, <3>1, <3>2, <4>1
      <3>3. CASE r \in R
        <4>1. r # 0 /\ r # w
          BY <1>4, <3>3
        <4>2. mailbox[r] # 1 /\ pc[r] # "left"
          <5> SUFFICES ASSUME mailbox[r] = 1 \/ pc[r] = "left" PROVE FALSE
            OBVIOUS
          <5>1. PICK v \in Worker : r \in ExitTargets(v) /\ pc[v] = "left"
            BY <3>1, <4>1
          <5>2. v = w
            BY <1>4, <3>3, <5>1, OneSender
          <5> QED
            BY <1>1, <5>1, <5>2
        <4>3. mailbox'[r] = 1 /\ pc'[r] # "left"
          BY <1>3, <1>5, <1>6, <3>3, <4>1, <4>2
        <4> QED
          BY <1>3, <1>4, <3>3, <4>1, <4>3
      <3>4. CASE r # w /\ r \notin R
        BY <1>3, <1>5, <1>6, <2>2, <3>1, <3>4
      <3> QED
        BY <3>2, <3>3, <3>4
    <2> QED
      BY <1>2, <2>1, <2>3 DEF ExitOK
  <1> QED
    BY <1>2, <1>7, <1>8, <1>9, <1>10, <1>11, <1>12, <1>13, <1>14 DEF IndInv, FJ!vars
----------------------------------------------------------------------------
(* The beginning and the end of a root_exec. *)

\* How a root_exec begins.
Fresh ==
    /\ prog \in Programs
    /\ started = {Root}
    /\ ip = [t \in Thread |-> 1]
    /\ addr = [t \in Thread |-> 0]
    /\ done = [t \in Thread |-> FALSE]
    /\ next = [t \in Thread |-> <<>>]
    /\ popped = {}
    /\ queue = [w \in Worker |-> <<>>]
    /\ stack = [w \in Worker |-> [a \in Addr |-> IF w = 0 /\ a = 0 THEN Root ELSE NoThread]]
    /\ cur = [w \in Worker |-> Root]
    /\ pc = [w \in Worker |-> IF w = 0 THEN "run" ELSE "loop"]
    /\ ses = [w \in Worker |-> <<>>]
    /\ scan = [w \in Worker |-> 1]
    /\ seen = [w \in Worker |-> <<>>]
    /\ victim \in [Worker -> Worker]
    /\ mailbox = [w \in Worker |-> 0]

\* A root_exec begins in the invariant.
LEMMA FreshIsGood == Fresh => IndInv
  <1> SUFFICES ASSUME Fresh PROVE IndInv
    OBVIOUS
  <1>1. 0 \in Worker /\ Root \in Thread /\ 0 \in Addr
    <2>1. Cardinality(Thread) \in Nat /\ Cardinality(Thread) # 0
      BY ConstantsAssumption, FS_CardinalityType, FS_EmptySet
    <2> QED
      BY <2>1, ConstantsAssumption DEF Worker, Addr
  <1>2. \A s : s \notin Range(<<>>)
    BY DEF Range
  <1>3. IsInjective(<<>>) /\ ThreadsOf(<<>>) = <<>>
    BY DEF IsInjective, ThreadsOf
  <1>4. TypeOK
    <2>1. next \in [Thread -> Seq(Thread)] /\ ses \in [Worker -> Seq(Thread)] /\ seen \in [Worker -> Seq(Thread)]
      BY DEF Fresh
    <2>2. queue \in [Worker -> Seq(Entry)]
      BY DEF Fresh
    <2>3. stack \in [Worker -> [Addr -> Thread \cup {NoThread}]]
      BY <1>1 DEF Fresh
    <2>4. pc \in [Worker -> Label] /\ cur \in [Worker -> Thread] /\ victim \in [Worker -> Worker]
      BY <1>1 DEF Fresh, Label
    <2>5. started \subseteq Thread /\ popped \subseteq Thread /\ done \in [Thread -> BOOLEAN]
      BY <1>1 DEF Fresh
    <2>6. ip \in [Thread -> Nat] /\ addr \in [Thread -> Addr] /\ scan \in [Worker -> Nat] /\ mailbox \in [Worker -> Nat]
      BY <1>1 DEF Fresh
    <2> QED
      BY <2>1, <2>2, <2>3, <2>4, <2>5, <2>6 DEF TypeOK, Fresh, Entry
  <1>5. ProgressOK
    <2>1. \A t \in Thread : ip[t] = 1 /\ ~done[t] /\ ip[t] \in 1 .. Len(prog[t]) + 1
      <3>1. \A t \in Thread : Len(prog[t]) \in Nat
        BY <1>4, Ops
      <3> QED
        BY <3>1 DEF Fresh
    <2>2. \A t \in Thread : \A i \in DOMAIN prog[t] : ~(i < ip[t])
      <3> SUFFICES ASSUME NEW t \in Thread, NEW i \in DOMAIN prog[t] PROVE ~(i < 1)
        BY <2>1
      <3>1. i \in 1 .. Len(prog[t]) /\ Len(prog[t]) \in Nat
        BY <1>4, Ops
      <3> QED
        BY <3>1
    <2> QED
      BY <1>1, <2>1, <2>2 DEF ProgressOK, Fresh
  <1>6. DepthOK
    <2> SUFFICES ASSUME NEW t \in started, NEW a \in 0 .. addr[t] PROVE addr[t] = a
      BY DEF DepthOK
    <2>1. addr[t] = 0
      BY <1>1 DEF Fresh
    <2> QED
      BY <2>1
  <1>7. ThreadsInOnePlace
    <2>1. \A s \in Thread : Handling(s) = {} /\ Queuing(s) = {} /\ Listing(s) = {}
      BY <1>2, <1>3 DEF Handling, Queuing, Listing, Fresh
    <2>2. \A s \in Thread : s # Root => Executing(s) = {} /\ ~Live(s)
      BY DEF Executing, Live, Fresh
    <2>3. Executing(Root) = {0} /\ Live(Root)
      BY <1>1 DEF Executing, Live, Fresh
    <2>4. ASSUME NEW s \in Thread
          PROVE  IF Live(s) THEN \E p \in Places(s) : Places(s) = {p} ELSE Places(s) = {}
      <3>1. CASE s = Root
        <4>1. \A p : p \in Places(s) <=> p = <<"worker", 0>>
          BY <2>1, <2>3, <3>1 DEF Places
        <4>2. Places(s) = {<<"worker", 0>>}
          BY <4>1
        <4> QED
          BY <2>3, <3>1, <4>2
      <3>2. CASE s # Root
        <4>1. Places(s) = {}
          BY <2>1, <2>2, <3>2 DEF Places
        <4> QED
          BY <2>2, <3>2, <4>1
      <3> QED
        BY <3>1, <3>2
    <2>5. \A w \in Worker : IsInjective(ses[w]) /\ IsInjective(ThreadsOf(queue[w]))
      BY <1>3 DEF Fresh
    <2>6. \A f \in Thread : IsInjective(next[f])
      BY <1>3 DEF Fresh
    <2> QED
      BY <2>4, <2>5, <2>6 DEF ThreadsInOnePlace
  <1>8. HandsOK
    BY DEF HandsOK, HandsOf, Fresh
  <1>9. WaitersOK
    BY <1>2 DEF WaitersOK, Fresh
  <1>10. PoppedOK
    BY DEF PoppedOK, Fresh
  <1>11. FramesOK
    <2> SUFFICES ASSUME NEW w \in Worker PROVE FramesOf(w)
      BY DEF FramesOK
    <2>1. DOMAIN queue[w] = {}
      BY DEF Fresh
    <2>2. InFrame(w) => stack[w][addr[cur[w]]] = cur[w]
      BY <1>1 DEF InFrame, Fresh
    <2> QED
      BY <2>1, <2>2 DEF FramesOf
  <1>12. ExitOK
    BY DEF ExitOK, Fresh
  <1> QED
    BY <1>4, <1>5, <1>6, <1>7, <1>8, <1>9, <1>10, <1>11, <1>12 DEF IndInv

\* When every rank has left, the root is done, and so is all that it forked.
LEMMA LeavesClean ==
    ASSUME AllJoined, IndInv
    PROVE  CleanExit
  <1>0. TypeOK /\ ProgressOK /\ ThreadsInOnePlace /\ HandsOK /\ ExitOK
    BY DEF IndInv
  <1>1. \A w \in Worker : mailbox[w] \in Nat /\ mailbox[w] <= 1
    BY <1>0 DEF TypeOK, ExitOK
  <1>2. ASSUME \A w \in Worker : pc[w] = "left"
        PROVE  /\ \A w \in Worker : mailbox[w] = 0 /\ queue[w] = <<>>
               /\ \A t \in started : done[t]
    <2>1. done[Root] /\ Root \in Thread /\ prog \in Programs
      <3>1. 0 \in Worker
        BY ConstantsAssumption DEF Worker
      <3> QED
        BY <1>0, <1>2, <3>1, ConstantsAssumption DEF ExitOK, TypeOK
    <2>2. PICK D \in SUBSET Thread : D = {t \in Thread : done[t]}
      OBVIOUS
    <2>3. ASSUME NEW t \in D, NEW i \in DOMAIN prog[t] PROVE i < ip[t] /\ t \in Thread
      <3>1. t \in Thread /\ done[t]
        BY <2>2
      <3>2. i \in 1 .. Len(prog[t]) /\ Len(prog[t]) \in Nat
        BY <1>0, <3>1, Ops
      <3>3. ip[t] > Len(prog[t]) /\ ip[t] \in Nat
        BY <1>0, <3>1 DEF ProgressOK, Ended, TypeOK
      <3> QED
        BY <3>1, <3>2, <3>3
    <2>4. ASSUME NEW t \in D, NEW i \in DOMAIN prog[t], prog[t][i].kind = "wait"
          PROVE  Range(prog[t][i].futures) \subseteq D
      <3>1. i < ip[t] /\ t \in Thread
        BY <2>3
      <3>2. prog[t][i].futures \in Seq(Thread) /\ ~Forks(prog, t, i)
        BY <1>0, <2>4, <3>1, Ops
      <3>3. \A k \in DOMAIN prog[t][i].futures : done[prog[t][i].futures[k]]
        BY <1>0, <3>1, <3>2 DEF ProgressOK
      <3>4. \A k \in DOMAIN prog[t][i].futures : prog[t][i].futures[k] \in Thread
        BY <3>2
      <3> QED
        BY <2>2, <3>3, <3>4 DEF Range
    <2>5. \A t \in D : \A i \in DOMAIN prog[t] : Forks(prog, t, i) => prog[t][i].child \in D
      <3>1. Joined(prog) /\ Root \in D
        BY <2>1, <2>2 DEF AllJoined
      <3> QED
        BY <2>4, <3>1 DEF Joined
    <2>6. ASSUME NEW u \in started, ~done[u] PROVE FALSE
      <3>1. PICK T \in SUBSET Nat : T = {addr[t] : t \in {s \in started : ~done[s]}}
        <4>1. \A t \in started : addr[t] \in Nat
          BY <1>0 DEF TypeOK, Addr
        <4> QED
          BY <4>1
      <3>2. PICK m \in T : \A k \in T : m <= k
        <4>1. T # {}
          BY <2>6, <3>1
        <4> QED
          BY <4>1, LeastNatural
      <3>3. PICK t \in started : ~done[t] /\ addr[t] = m
        BY <3>1
      <3>4. t # Root
        BY <2>1, <3>3
      <3>5. PICK s \in started : \E i \in DOMAIN prog[s] :
                i < ip[s] /\ Forks(prog, s, i) /\ prog[s][i].child = t /\ addr[t] = addr[s] + 1
        BY <1>0, <3>3, <3>4 DEF ProgressOK
      <3>6. s \in Thread /\ addr[s] \in Nat
        BY <1>0 DEF TypeOK, Addr
      <3>7. done[s]
        <4> SUFFICES ASSUME ~done[s] PROVE FALSE
          OBVIOUS
        <4>1. addr[s] \in T
          BY <3>1
        <4> QED
          BY <3>2, <3>3, <3>5, <3>6, <4>1
      <3>8. t \in D
        BY <2>2, <2>5, <3>5, <3>6, <3>7
      <3> QED
        BY <2>2, <3>3, <3>8
    <2>7. ASSUME NEW w \in Worker PROVE mailbox[w] = 0 /\ queue[w] = <<>>
      <3>1. mailbox[w] = 0
        BY <1>0, <1>1, <1>2 DEF ExitOK
      <3>2. queue[w] = <<>>
        <4> SUFFICES ASSUME queue[w] # <<>> PROVE FALSE
          OBVIOUS
        <4>1. queue[w] \in Seq(Entry)
          BY <1>0 DEF TypeOK, Entry
        <4>2. 1 \in DOMAIN queue[w]
          BY <4>1
        <4>3. Live(queue[w][1].thread)
          BY <1>0, <4>2, InQueue
        <4> QED
          BY <2>6, <4>3 DEF Live
      <3> QED
        BY <3>1, <3>2
    <2> QED
      BY <2>6, <2>7
  <1> QED
    BY <1>1, <1>2 DEF CleanExit, At

\* The next root_exec begins as the first, since the last has ended clean.
LEMMA RootExecFresh ==
    ASSUME AllJoined, IndInv, RootExec
    PROVE  Fresh' /\ FJ!Next
  <1>0. TypeOK /\ HandsOK /\ CleanExit
    BY LeavesClean DEF IndInv
  <1>1. \A w \in Worker : pc[w] = "left"
    BY DEF RootExec, At
  <1>2. /\ \A w \in Worker : mailbox[w] = 0 /\ queue[w] = <<>> /\ ses[w] = <<>>
        /\ \A t \in started : done[t]
    BY <1>0, <1>1 DEF CleanExit, At, HandsOK, HandsOf
  <1>3. /\ mailbox = [w \in Worker |-> 0] /\ queue = [w \in Worker |-> <<>>]
        /\ ses = [w \in Worker |-> <<>>]
    BY <1>0, <1>2 DEF TypeOK
  <1>4. Fresh'
    BY <1>0, <1>3 DEF RootExec, Fresh, TypeOK
  <1>5. FJ!Again
    <2>1. started \subseteq {t \in Thread : done[t]}
      BY <1>0, <1>2 DEF TypeOK
    <2>2. {t \in Thread : done'[t]} = {}
      BY DEF RootExec
    <2>3. started' = {Root} /\ ip' = [t \in Thread |-> 1] /\ prog' = prog
      BY DEF RootExec
    <2> QED
      BY <2>1, <2>2, <2>3 DEF FJ!Again, FJ!Init
  <1> QED
    BY <1>4, <1>5 DEF FJ!Next

----------------------------------------------------------------------------
(* The theorems. *)

\* The first root_exec.
LEMMA InitIsGood == Init => IndInv /\ FJ!Init
  <1> SUFFICES ASSUME Init PROVE IndInv /\ FJ!Init
    OBVIOUS
  <1>1. Fresh
    BY DEF Init, Fresh
  <1>2. IndInv
    BY <1>1, FreshIsGood
  <1>3. {t \in Thread : done[t]} = {}
    BY DEF Init
  <1> QED
    BY <1>2, <1>3 DEF Init, FJ!Init

\* Every step keeps the invariant, or begins a root_exec, and is a step of the program or none.
LEMMA StepIsGood ==
    ASSUME AllJoined, IndInv, [Next]_vars
    PROVE  (IndInv' \/ Fresh') /\ [FJ!Next]_FJ!vars
  <1>1. ASSUME NEW w \in Worker, Work(w) \/ Steal(w)
        PROVE  IndInv' /\ [FJ!Next]_FJ!vars
    <2>1. CASE Fork(w)
      BY <2>1, ForkKeeps
    <2>2. CASE ContinueComputation(w)
      BY <2>2, ContinueComputationKeeps
    <2>3. CASE Copied(w)
      BY <2>3, CopiedKeeps
    <2>4. CASE NoWait(w)
      BY <2>4, NoWaitKeeps
    <2>5. CASE Suspend(w)
      BY <2>5, SuspendKeeps
    <2>6. CASE Check(w)
      BY <2>6, CheckKeeps
    <2>7. CASE Link(w)
      BY <2>7, LinkKeeps
    <2>8. CASE Swap(w)
      BY <2>8, SwapKeeps
    <2>9. CASE ResumeSelf(w)
      BY <2>9, ResumeSelfKeeps
    <2>10. CASE ResumeWaiter(w)
      BY <2>10, ResumeWaiterKeeps
    <2>11. CASE Fill(w)
      BY <2>11, FillKeeps
    <2>12. CASE Pop(w)
      BY <2>12, PopKeeps
    <2>13. CASE Close(w)
      BY <2>13, CloseKeeps
    <2>14. CASE RootDies(w)
      BY <2>14, RootDiesKeeps
    <2>15. CASE ShouldExit(w)
      BY <2>15, ShouldExitKeeps
    <2>16. CASE Steal(w)
      BY <2>16, StealKeeps
    <2> QED
      BY <1>1, <2>1, <2>2, <2>3, <2>4, <2>5, <2>6, <2>7, <2>8, <2>9, <2>10, <2>11, <2>12,
         <2>13, <2>14, <2>15, <2>16 DEF Work
  <1>2. CASE RootExec
    BY <1>2, RootExecFresh
  <1>3. CASE UNCHANGED vars
    <2>1. UNCHANGED <<prog, started, ip, addr, done, next, popped, queue, stack, cur, pc, ses, scan, seen,
                      victim, mailbox>>
      BY <1>3 DEF vars, threads, futures, local
    <2>2. IndInv'
      <3>1. /\ TypeOK /\ ProgressOK /\ DepthOK /\ ThreadsInOnePlace /\ HandsOK /\ WaitersOK
            /\ PoppedOK /\ FramesOK /\ ExitOK
        BY DEF IndInv
      <3>2. TypeOK' /\ PoppedOK'
        BY <2>1, <3>1 DEF TypeOK, PoppedOK
      <3>3. ProgressOK' /\ DepthOK'
        BY <2>1, <3>1, ProgressDone
      <3>4. ThreadsInOnePlace'
        BY <2>1, <3>1, PlacesSame
      <3>5. HandsOK'
        <4>1. \A v \in Worker : Unmoved(v)
          BY <2>1 DEF Unmoved
        <4>2. \A v \in Worker : HandsOf(v)'
          BY <2>1, <3>1, <4>1, HandsQuiet
        <4> QED
          BY <4>2 DEF HandsOK
      <3>6. WaitersOK'
        BY <2>1, <3>1, WaitersQuiet
      <3>7. FramesOK'
        <4>1. \A v \in Worker : InFrame(v)' => InFrame(v)
          BY <2>1 DEF InFrame, Setting
        <4>2. \A v \in Worker : FramesOf(v)'
          BY <2>1, <3>1, <4>1, FramesSame
        <4> QED
          BY <4>2 DEF FramesOK
      <3>8. ExitOK'
        BY <2>1, <3>1, ExitSame
      <3> QED
        BY <3>2, <3>3, <3>4, <3>5, <3>6, <3>7, <3>8 DEF IndInv
    <2> QED
      BY <2>1, <2>2 DEF FJ!vars
  <1> QED
    BY <1>1, <1>2, <1>3 DEF Next

\* With programs whose threads wait for all that they fork the invariant holds.
THEOREM Invariant == AllJoined => (Spec => []IndInv)
  <1> SUFFICES ASSUME AllJoined PROVE Spec => []IndInv
    OBVIOUS
  <1>1. Init => IndInv
    BY InitIsGood
  <1>2. IndInv /\ [Next]_vars => IndInv'
    <2>1. IndInv /\ [Next]_vars => IndInv' \/ Fresh'
      BY StepIsGood
    <2>2. Fresh' => IndInv'
      BY FreshIsGood, PTL
    <2> QED
      BY <2>1, <2>2
  <1> QED
    BY <1>1, <1>2, PTL DEF Spec

\* A thread that has been forked and has not finished is in exactly one place, and
\* there once, whatever races between lists, hands and queues (future.hpp:198, :373).
THEOREM OnePlace == AllJoined => (Spec => []ThreadsInOnePlace)
  <1>1. IndInv => ThreadsInOnePlace
    BY DEF IndInv
  <1> QED
    BY <1>1, Invariant, PTL

\* No thread that runs, is brought in or resumed writes over a frame that waits in a
\* queue to be gone on with (future.hpp:115).
THEOREM FramesIntact == AllJoined => (Spec => []QueuedFramesIntact)
  <1>1. IndInv => QueuedFramesIntact
    <2> SUFFICES ASSUME IndInv, NEW w \in Worker, NEW k \in 1 .. Len(queue[w]), ~queue[w][k].evacuated
                 PROVE  stack[w][addr[queue[w][k].thread]] = queue[w][k].thread
      BY DEF QueuedFramesIntact
    <2>1. queue[w] \in Seq(Entry)
      BY DEF IndInv, TypeOK, Entry
    <2>2. k \in DOMAIN queue[w]
      BY <2>1
    <2> QED
      BY <2>2 DEF IndInv, FramesOK, FramesOf
  <1> QED
    BY <1>1, Invariant, PTL

\* No request to exit finds the mailbox taken (sched/util.hpp:137), and when all ranks
\* have left, queues and mailboxes are empty and every thread is done.
THEOREM ExitsClean == AllJoined => (Spec => []CleanExit)
  <1> SUFFICES ASSUME AllJoined PROVE Spec => []CleanExit
    OBVIOUS
  <1>1. IndInv => CleanExit
    BY LeavesClean
  <1> QED
    BY <1>1, Invariant, PTL

\* What a program sees of fork, get, wait and wait_all is ForkJoin: steps in order, each
\* once, and no wait that ends before everything waited for is done.
THEOREM Implements == AllJoined => (Spec => ImplementsForkJoin)
  <1> SUFFICES ASSUME AllJoined PROVE Spec => FJ!Spec
    BY DEF ImplementsForkJoin
  <1>1. Init => FJ!Init
    BY InitIsGood
  <1>2. IndInv /\ [Next]_vars => [FJ!Next]_FJ!vars
    BY StepIsGood
  <1> QED
    BY <1>1, <1>2, Invariant, PTL DEF Spec, FJ!Spec
==============================================================================

--------------------------- MODULE HpxStepProofs ---------------------------
(* What is proved of the main loop of the HPX benchmark: that the localities,  *)
(* which meet in nothing but collectives, keep every body, and agree on who is *)
(* to have it, whatever the number of localities, bodies, buckets and steps.   *)
EXTENDS HpxStep, KeyTreeProofs

----------------------------------------------------------------------------
(* The inductive invariant. *)

\* The collectives that what is proved depends on.
Paced == {"bbox", "hist", "migrate"}

Before == {"start", "bcast", "scatter"}
Late == {"exchange", "walk", "kicked", "potential", "energy", "output", "timers"}
After == {"gather", "error", "done"}
Place == Before \cup {"bbox", "hist", "migrate", "rebbox"} \cup Late \cup After

CommsOK ==
    /\ calls \in [Site -> [Comm -> Nat]]
    /\ begun \in [Site -> Nat]
    /\ DOMAIN posted = Comm
    /\ \A c \in Comm : DOMAIN posted[c] = Site
    /\ \A c \in Comm, s \in Site : Generation(c, s) = calls[s][c]

TypeOK ==
    /\ CommsOK
    /\ pc \in [Site -> Place]
    /\ step \in [Site -> 0 .. Steps - 1]
    /\ local \in [Site -> Seq(Body)]
    /\ keyOf \in [Body -> Key]
    /\ path \in Paths
    /\ ending \in Endings
    /\ DOMAIN domains = Site /\ DOMAIN splitters = Site

\* The migrations of the steps before step n.
Migrations(n) == Cardinality({m \in 0 .. n - 1 : Rebalances(m)})

Outside(s) == /\ pc[s] \in Before \cup {"done"} /\ step[s] = 0
              /\ \A c \in Paced : calls[s][c] = 0

\* The calls a site has made are those of its place in the program.
Inside(s) ==
    LET n == step[s]
        migrates == IF Rebalances(n) THEN 1 ELSE 0
    IN  /\ pc[s] \notin Before
        /\ pc[s] \in {"migrate", "rebbox"} => Rebalances(n)
        /\ calls[s]["hist"] = n + (IF pc[s] = "bbox" THEN 0 ELSE 1)
        /\ calls[s]["bbox"] = n + 1 + Migrations(n)
              + (IF pc[s] \in {"bbox", "hist", "migrate"} THEN 0 ELSE migrates)
        /\ calls[s]["migrate"] = Migrations(n)
              + (IF pc[s] \in {"bbox", "hist"} THEN 0 ELSE migrates)

\* A collective that has returned at one site has been called by all.
Met(s, q) ==
    /\ calls[q]["hist"] >= calls[s]["hist"] - (IF pc[s] = "hist" THEN 1 ELSE 0)
    /\ calls[q]["bbox"] >= calls[s]["bbox"] - (IF pc[s] \in {"bbox", "rebbox"} THEN 1 ELSE 0)
    /\ calls[q]["migrate"] >= Fetched(s)

\* A site that has started a timer has seen its collective complete.
Waited(s) ==
    /\ pc[s] \in Before \cup {"bbox", "migrate"} /\ begun[s] > 0 => pc[s] = "scatter"
    /\ pc[s] = "scatter" /\ begun[s] > 0 => calls[Root]["scatter"] = 1
    /\ pc[s] = "hist" /\ begun[s] > 0 =>
          \A q \in Site : calls[q]["hist"] >= calls[s]["hist"]
    /\ pc[s] = "rebbox" /\ begun[s] > 0 =>
          \A q \in Site : calls[q]["bbox"] >= calls[s]["bbox"]

\* The root sends every site its slice, once.
Scattered ==
    /\ \A s \in Site : /\ pc[s] \in {"start", "bcast"} => calls[s]["scatter"] = 0
                       /\ pc[s] = "scatter" => calls[s]["scatter"] = 1
    /\ calls[Root]["scatter"] <= 1
    /\ calls[Root]["scatter"] = 1 => Contribution("scatter", Root) = [r \in Site |-> Slice(r)]

Buckets == 0 .. NumBuckets - 1

\* What a site has contributed counts its bodies, and has bodies for everybody.
Reduced(s) ==
    /\ calls[s]["hist"] > 0 => Contribution("hist", s) \in [Buckets -> Nat]
    /\ calls[s]["migrate"] > 0 => \A r \in Site : Contribution("migrate", s)[r] \in Seq(Body)
    /\ pc[s] = "hist" => Contribution("hist", s) = Histogram(Bodies(s))

\* Where the domains have a body.
HomeDomains == Domains(GlobalHistogram, Splitters(GlobalHistogram))

DomainsOf(s) ==
    pc[s] \in HasDomains =>
       splitters[s] = Splitters(GlobalHistogram) /\ domains[s] = HomeDomains

\* The bodies a site has, before and after they are scattered.
Part(s) == IF calls[s]["bbox"] = 0 THEN Range(Slice(s)) ELSE Bodies(s)

Holders(i) == {s \in Site : pc[s] # "migrate" /\ i \in Part(s)}

\* From whom to whom a body is on its way.
Flights(i) ==
    {e \in Site \X Site : /\ Generation("migrate", e[1]) = Fetched(e[2]) + 1
                          /\ i \in Range(Contribution("migrate", e[1])[e[2]])}

\* A body is with one site or on one way.
Kept(i) ==
    \/ \E s \in Site : Holders(i) = {s} /\ Flights(i) = {}
    \/ \E e \in Site \X Site : Flights(i) = {e} /\ Holders(i) = {}

\* A body is where the domains have it, or on the way there.
InPlace(i) ==
    /\ \A s \in Site : /\ Rebalances(step[s]) /\ pc[s] \in HasDomains \ {"migrate"}
                       /\ i \in Bodies(s)
                       => Bucket(keyOf[i]) \in HomeDomains[s]
    /\ \A e \in Flights(i) : Bucket(keyOf[i]) \in HomeDomains[e[2]]

\* The counts are those of the places, and of places the others can be at.
Lockstep ==
    /\ TypeOK
    /\ \A s \in Site : Outside(s) \/ Inside(s)
    /\ \A s, q \in Site : Met(s, q)

\* What is counted, agreed on and kept.
Matter ==
    /\ \A s \in Site : Reduced(s)
    /\ \A s \in Site : DomainsOf(s)
    /\ \A i \in Body : Kept(i)
    /\ \A i \in Body : InPlace(i)

HpxInv ==
    /\ Lockstep
    /\ \A s \in Site : Waited(s)
    /\ Scattered
    /\ Matter

----------------------------------------------------------------------------
(* Buckets. *)

\* The sizes of two levels, and of the two on top of each other.
LEMMA SizesMultiply ==
    ASSUME NEW l \in 0 .. Depth
    PROVE  SizeAt[l] * SizeAt[Depth - l] = KeySpace
<1> DEFINE Bad == {d \in Nat : d <= Depth /\ SizeAt[d] * SizeAt[Depth - d] # KeySpace}
<1>1. Bad = {}
  <2> SUFFICES ASSUME Bad # {} PROVE FALSE
      OBVIOUS
  <2>1. Bad \in SUBSET Nat
      OBVIOUS
  <2>2. PICK d \in Bad : \A e \in Bad : d <= e
    <3> HIDE DEF Bad
    <3> QED
        BY <2>1, Least
  <2>3. d # 0
      BY Sizes, KeySpaceType, KeyTreeAssumption DEF KeySpace
  <2>4. /\ d - 1 \in 0 .. Depth /\ ~(d <= d - 1) /\ d \in 1 .. Depth
        /\ Depth - (d - 1) \in 1 .. Depth /\ (Depth - (d - 1)) - 1 = Depth - d
        /\ Depth - d \in 0 .. Depth
      BY <2>3, KeyTreeAssumption
  <2>5. SizeAt[d - 1] * SizeAt[Depth - (d - 1)] = KeySpace
      BY <2>2, <2>4
  <2> DEFINE a == SizeAt[d - 1]
             c == SizeAt[Depth - d]
  <2>6. /\ SizeAt[d] = BranchFactor * a /\ SizeAt[Depth - (d - 1)] = BranchFactor * c
        /\ a \in Nat /\ c \in Nat
      BY <2>4, Sizes
  <2>7. \A x, y \in Nat : (BranchFactor * x) * y = x * (BranchFactor * y)
      BY KeyTreeAssumption
  <2>8. SizeAt[d] * c = KeySpace
    <3> HIDE DEF a, c
    <3>1. (BranchFactor * a) * c = a * (BranchFactor * c)
        BY <2>6, <2>7
    <3>2. a * (BranchFactor * c) = KeySpace
        BY <2>5, <2>6 DEF a
    <3> QED
        BY <2>6, <3>1, <3>2
  <2> QED
      BY <2>2, <2>8
<1> QED
    BY <1>1, KeyTreeAssumption

LEMMA BucketsType ==
    /\ BucketSize \in Nat \ {0} /\ NumBuckets \in Nat \ {0}
    /\ NumBuckets * BucketSize = KeySpace
<1>1. BucketDepth \in 0 .. Depth /\ Depth - BucketDepth \in 0 .. Depth
    BY HpxTreeAssumption, KeyTreeAssumption
<1> QED
    BY <1>1, Sizes, SizesMultiply DEF BucketSize, NumBuckets

LEMMA BucketOfKey ==
    ASSUME NEW k \in Key
    PROVE  Bucket(k) \in Buckets
<1> DEFINE n == NumBuckets
           z == BucketSize
<1>1. n \in Nat \ {0} /\ z \in Nat \ {0} /\ n * z = KeySpace /\ k \in Nat /\ k < n * z
    BY BucketsType, KeySpaceType DEF Key
<1> HIDE DEF n, z
<1> DEFINE q == k \div z
<1>2. q \in Nat /\ z * q <= k
    BY <1>1
<1> HIDE DEF q
<1>3. q < n
  <2>1. q >= n => z * q >= z * n
      BY <1>1, <1>2
  <2> QED
      BY <1>1, <1>2, <2>1
<1> QED
    BY <1>1, <1>2, <1>3 DEF n, z, q, Bucket, Buckets

----------------------------------------------------------------------------
(* The migrations so far. *)

LEMMA MigrationsGrow ==
    /\ Migrations(0) = 0
    /\ \A n \in Nat : /\ Migrations(n) \in Nat
                      /\ Migrations(n + 1) = Migrations(n) + (IF Rebalances(n) THEN 1 ELSE 0)
<1>1. Migrations(0) = 0
  <2>1. {m \in 0 .. 0 - 1 : Rebalances(m)} = {}
      OBVIOUS
  <2> QED
      BY <2>1, FS_EmptySet DEF Migrations
<1>2. ASSUME NEW n \in Nat
      PROVE  /\ Migrations(n) \in Nat
             /\ Migrations(n + 1) = Migrations(n) + (IF Rebalances(n) THEN 1 ELSE 0)
  <2> DEFINE S(k) == {m \in 0 .. k - 1 : Rebalances(m)}
  <2>1. IsFiniteSet(S(n)) /\ Cardinality(S(n)) \in Nat
    <3>1. IsFiniteSet(0 .. n - 1) /\ S(n) \subseteq 0 .. n - 1
        BY FS_Interval
    <3> QED
        BY <3>1, FS_Subset, FS_CardinalityType
  <2>2. S(n + 1) = IF Rebalances(n) THEN S(n) \cup {n} ELSE S(n)
      OBVIOUS
  <2>3. n \notin S(n)
      OBVIOUS
  <2>4. Migrations(n) = Cardinality(S(n)) /\ Migrations(n + 1) = Cardinality(S(n + 1))
      BY DEF Migrations
  <2> HIDE DEF S
  <2>5. Cardinality(S(n) \cup {n}) = Cardinality(S(n)) + 1
      BY <2>1, <2>3, FS_AddElement
  <2> QED
      BY <2>1, <2>2, <2>4, <2>5
<1> QED
    BY <1>1, <1>2

----------------------------------------------------------------------------
(* Arrays. *)

\* What a recursion over 0 .. N defines.
Solutions(X, x, N, G) ==
    {f \in [0 .. N -> X] : f[0] = x /\ \A n \in 1 .. N : f[n] = G[n][f[n - 1]]}

\* A recursion over 0 .. N has a solution, in which every step is as it says.
LEMMA Recursion ==
    ASSUME NEW X, NEW x \in X, NEW N \in Nat, NEW G \in [1 .. N -> [X -> X]]
    PROVE  Solutions(X, x, N, G) # {}
<1> DEFINE Solved(m) == \E f \in [0 .. m -> X] : f[0] = x /\ \A n \in 1 .. m : f[n] = G[n][f[n - 1]]
           Bad == {m \in Nat : m <= N /\ ~Solved(m)}
<1>1. Bad = {}
  <2> SUFFICES ASSUME Bad # {} PROVE FALSE
      OBVIOUS
  <2>1. Bad \in SUBSET Nat
      OBVIOUS
  <2>2. PICK m \in Bad : \A k \in Bad : m <= k
    <3> HIDE DEF Bad
    <3> QED
        BY <2>1, Least
  <2>3. m # 0
    <3> DEFINE f == [n \in 0 .. 0 |-> x]
    <3>1. f \in [0 .. 0 -> X] /\ f[0] = x /\ \A n \in 1 .. 0 : f[n] = G[n][f[n - 1]]
        OBVIOUS
    <3>2. Solved(0)
      <4> HIDE DEF f
      <4> QED
          BY <3>1
    <3> QED
        BY <3>2
  <2>4. m - 1 \in Nat /\ m - 1 <= N /\ ~(m <= m - 1) /\ m \in 1 .. N
      BY <2>3
  <2>5. Solved(m - 1)
      BY <2>2, <2>4
  <2>6. PICK f \in [0 .. m - 1 -> X] :
           f[0] = x /\ \A n \in 1 .. m - 1 : f[n] = G[n][f[n - 1]]
      BY <2>5
  <2> DEFINE g == [n \in 0 .. m |-> IF n = m THEN G[m][f[m - 1]] ELSE f[n]]
  <2>7. g \in [0 .. m -> X]
    <3>1. m - 1 \in 0 .. m - 1 /\ f[m - 1] \in X /\ G[m] \in [X -> X]
        BY <2>4, <2>6
    <3>2. G[m][f[m - 1]] \in X
        BY <2>4, <3>1
    <3>3. \A n \in 0 .. m : n # m => n \in 0 .. m - 1 /\ f[n] \in X
        BY <2>4, <2>6
    <3> QED
        BY <3>2, <3>3
  <2>8. g[0] = x
      BY <2>4, <2>6
  <2>9. ASSUME NEW n \in 1 .. m PROVE g[n] = G[n][g[n - 1]]
    <3>1. n - 1 \in 0 .. m /\ n - 1 # m /\ g[n - 1] = f[n - 1]
        BY <2>4
    <3>2. CASE n = m
        BY <3>1, <3>2
    <3>3. CASE n # m
        BY <2>4, <2>6, <3>1, <3>3
    <3> QED
        BY <3>2, <3>3
  <2>10. Solved(m)
    <3> HIDE DEF g
    <3> QED
        BY <2>7, <2>8, <2>9
  <2> QED
      BY <2>10
<1>2. Solved(N)
  <2> HIDE DEF Solved
  <2> QED
      BY <1>1
<1> QED
    BY <1>2 DEF Solutions

\* Flattening (FlattenSeq).
Flattening(seqs, g) == [i \in 1 .. Len(seqs) |-> IF i = 1 THEN seqs[i] ELSE g[i - 1] \o seqs[i]]

LEMMA FlatIsRecursive ==
    ASSUME NEW seqs, Len(seqs) # 0
    PROVE  FlattenSeq(seqs) = (CHOOSE g : g = Flattening(seqs, g))[Len(seqs)]
BY DEF FlattenSeq, Flattening

\* Arrays one after the other have the elements of all.
LEMMA FlatHasAll ==
    ASSUME NEW T, NEW n \in Nat \ {0}, NEW seqs \in [1 .. n -> Seq(T)]
    PROVE  /\ FlattenSeq(seqs) \in Seq(T)
           /\ Range(FlattenSeq(seqs)) = UNION {Range(seqs[i]) : i \in 1 .. n}
<1> DEFINE Arrays == Seq(T)
           extended == [i \in 1 .. n |-> [q \in Arrays |-> IF i = 1 THEN seqs[i] ELSE q \o seqs[i]]]
           flat == CHOOSE g : g = Flattening(seqs, g)
<1>1. Len(seqs) = n
    OBVIOUS
<1>2. \E f \in [0 .. n -> Arrays] : f[0] = <<>> /\ \A i \in 1 .. n : f[i] = extended[i][f[i - 1]]
  <2>1. <<>> \in Arrays /\ n \in Nat
      OBVIOUS
  <2>2. \A i \in 1 .. n : seqs[i] \in Arrays
      OBVIOUS
  <2>3. \A q, r \in Arrays : q \o r \in Arrays
      OBVIOUS
  <2>4. extended \in [1 .. n -> [Arrays -> Arrays]]
    <3> HIDE DEF Arrays
    <3> QED
        BY <2>2, <2>3
  <2> DEFINE none == <<>>
  <2>5. none \in Arrays
      BY <2>1
  <2> HIDE DEF Arrays, extended, none
  <2>6. Solutions(Arrays, none, n, extended) # {}
      BY <2>4, <2>5, Recursion
  <2> QED
      BY <2>6 DEF none, Solutions
<1>3. PICK f \in [0 .. n -> Arrays] : f[0] = <<>> /\ \A i \in 1 .. n : f[i] = extended[i][f[i - 1]]
    BY <1>2
<1>4. \A i \in 1 .. n : /\ i - 1 \in 0 .. n /\ f[i - 1] \in Arrays
                        /\ f[i] = IF i = 1 THEN seqs[i] ELSE f[i - 1] \o seqs[i]
  <2> SUFFICES ASSUME NEW i \in 1 .. n
               PROVE  /\ i - 1 \in 0 .. n /\ f[i - 1] \in Arrays
                      /\ f[i] = IF i = 1 THEN seqs[i] ELSE f[i - 1] \o seqs[i]
      OBVIOUS
  <2>1. i - 1 \in 0 .. n /\ f[i - 1] \in Arrays
    <3> HIDE DEF Arrays
    <3> QED
        OBVIOUS
  <2> HIDE DEF Arrays
  <2>2. extended[i][f[i - 1]] = IF i = 1 THEN seqs[i] ELSE f[i - 1] \o seqs[i]
      BY <2>1
  <2> QED
      BY <1>3, <2>1, <2>2
<1> HIDE DEF Arrays, extended
<1> DEFINE h == [i \in 1 .. n |-> f[i]]
<1>5. h = Flattening(seqs, h)
  <2>1. \A i \in 1 .. n : i # 1 => i - 1 \in 1 .. n /\ h[i - 1] = f[i - 1]
      OBVIOUS
  <2> QED
      BY <1>1, <1>4, <2>1 DEF Flattening
<1>6. flat = Flattening(seqs, flat)
  <2> HIDE DEF h
  <2> QED
      BY <1>5
<1>7. \A i \in 1 .. n : flat[i] = IF i = 1 THEN seqs[i] ELSE flat[i - 1] \o seqs[i]
  <2> HIDE DEF flat
  <2> QED
      BY <1>1, <1>6 DEF Flattening
<1>8. FlattenSeq(seqs) = flat[n]
    BY <1>1, FlatIsRecursive
<1> HIDE DEF flat
<1> DEFINE All(i) == UNION {Range(seqs[j]) : j \in 1 .. i}
           Fine(i) == flat[i] \in Arrays /\ Range(flat[i]) = All(i)
           Bad == {i \in Nat : i \in 1 .. n /\ ~Fine(i)}
<1>9. Bad = {}
  <2> SUFFICES ASSUME Bad # {} PROVE FALSE
      OBVIOUS
  <2>1. Bad \in SUBSET Nat
      OBVIOUS
  <2>2. PICK i \in Bad : \A k \in Bad : i <= k
    <3> HIDE DEF Bad
    <3> QED
        BY <2>1, Least
  <2>3. i # 1
    <3>1. 1 \in 1 .. n
        OBVIOUS
    <3>2. flat[1] = seqs[1] /\ seqs[1] \in Arrays
        BY <1>7, <3>1 DEF Arrays
    <3>3. All(1) = Range(seqs[1])
        OBVIOUS
    <3>4. Fine(1)
      <4> HIDE DEF All
      <4> QED
          BY <3>2, <3>3
    <3> QED
        BY <3>4
  <2>4. i - 1 \in 1 .. n /\ ~(i <= i - 1)
      BY <2>3
  <2>5. Fine(i - 1)
    <3> HIDE DEF Fine
    <3> QED
        BY <2>2, <2>4
  <2>6. seqs[i] \in Arrays /\ flat[i] = flat[i - 1] \o seqs[i]
      BY <1>7, <2>3 DEF Arrays
  <2>7. \A q, r \in Arrays : q \o r \in Arrays /\ Range(q \o r) = Range(q) \cup Range(r)
    <3> SUFFICES ASSUME NEW q \in Seq(T), NEW r \in Seq(T)
                 PROVE  q \o r \in Seq(T) /\ Range(q \o r) = Range(q) \cup Range(r)
        BY DEF Arrays
    <3>1. q \o r \in Seq(T) /\ DOMAIN (q \o r) = 1 .. Len(q) + Len(r)
        OBVIOUS
    <3>2. \A j \in DOMAIN q : j \in DOMAIN (q \o r) /\ (q \o r)[j] = q[j]
        OBVIOUS
    <3>3. \A j \in DOMAIN r : Len(q) + j \in DOMAIN (q \o r) /\ (q \o r)[Len(q) + j] = r[j]
        OBVIOUS
    <3>4. \A j \in DOMAIN (q \o r) :
             \/ j \in DOMAIN q /\ (q \o r)[j] = q[j]
             \/ j - Len(q) \in DOMAIN r /\ (q \o r)[j] = r[j - Len(q)]
        OBVIOUS
    <3> DEFINE qr == q \o r
    <3> HIDE DEF qr
    <3>5. Range(qr) \subseteq Range(q) \cup Range(r)
        BY <3>4 DEF Range, qr
    <3>6. Range(q) \subseteq Range(qr)
        BY <3>2 DEF Range, qr
    <3>7. Range(r) \subseteq Range(qr)
        BY <3>3 DEF Range, qr
    <3> QED
        BY <3>1, <3>5, <3>6, <3>7 DEF qr
  <2>8. All(i) = All(i - 1) \cup Range(seqs[i])
    <3>1. 1 .. i = (1 .. i - 1) \cup {i}
        BY <2>4
    <3> QED
        BY <3>1
  <2> HIDE DEF All
  <2>9. flat[i] \in Arrays /\ Range(flat[i]) = All(i)
      BY <2>5, <2>6, <2>7, <2>8
  <2> QED
      BY <2>9
<1>10. Fine(n)
  <2> HIDE DEF Fine
  <2> QED
      BY <1>9
<1> HIDE DEF All
<1> QED
    BY <1>8, <1>10 DEF Arrays, All

\* An array of the elements at some places, in a total order of these.
Orders(places, ahead) ==
    /\ ahead \in [places -> SUBSET places]
    /\ \A n \in places : n \notin ahead[n]
    /\ \A m, n \in places : m # n => m \in ahead[n] \/ n \in ahead[m]
    /\ \A l, m, n \in places : l \in ahead[m] /\ m \in ahead[n] => l \in ahead[n]

LEMMA PlacedHasAll ==
    ASSUME NEW T, NEW bodies \in Seq(T), NEW places \in SUBSET DOMAIN bodies, NEW ahead,
           Orders(places, ahead)
    PROVE  /\ Placed(bodies, places, ahead) \in Seq(T)
           /\ Range(Placed(bodies, places, ahead)) = {bodies[n] : n \in places}
<1>0. /\ IsFiniteSet(places)
      /\ \A n \in places : bodies[n] \in T
  <2>1. DOMAIN bodies = 1 .. Len(bodies) /\ Len(bodies) \in Nat
      OBVIOUS
  <2>2. IsFiniteSet(DOMAIN bodies)
      BY <2>1, FS_Interval
  <2> QED
      BY <2>1, <2>2, FS_Subset
<1> DEFINE c == Cardinality(places)
           f == [n \in places |-> Cardinality(ahead[n])]
<1>1. c \in Nat
    BY <1>0, FS_CardinalityType
<1>2. \A n \in places : /\ IsFiniteSet(ahead[n]) /\ Cardinality(ahead[n]) \in Nat
                        /\ ahead[n] \in SUBSET places
    BY <1>0, FS_Subset, FS_CardinalityType DEF Orders
<1>3. ASSUME NEW n \in places PROVE Cardinality(ahead[n]) < c
  <2>1. ahead[n] # places /\ ahead[n] \in SUBSET places
      BY DEF Orders
  <2>2. Cardinality(ahead[n]) <= c /\ Cardinality(ahead[n]) # c
      BY <1>0, <2>1, FS_Subset
  <2> QED
      BY <1>1, <1>2, <2>2
<1>4. ASSUME NEW m \in places, NEW n \in places, m \in ahead[n]
      PROVE  Cardinality(ahead[m]) # Cardinality(ahead[n])
  <2>1. ahead[m] \in SUBSET ahead[n] /\ ahead[m] # ahead[n]
      BY <1>4 DEF Orders
  <2> QED
      BY <1>2, <2>1, FS_Subset
<1>5. \A m, n \in places : f[m] = f[n] => m = n
    BY <1>4 DEF Orders
<1>6. f \in [places -> 0 .. c - 1]
    BY <1>1, <1>2, <1>3
<1>7. IsFiniteSet(0 .. c - 1) /\ Cardinality(0 .. c - 1) = c
  <2> HIDE DEF c
  <2> QED
      BY <1>1, FS_Interval
<1>8. 0 .. c - 1 = {f[n] : n \in places}
  <2> DEFINE upTo == 0 .. c - 1
  <2>1. f \in [places -> upTo] /\ IsFiniteSet(upTo) /\ Cardinality(upTo) = Cardinality(places)
      BY <1>6, <1>7
  <2> HIDE DEF f, upTo
  <2>2. upTo = {f[n] : n \in places}
      BY <1>5, <2>1, AllOfThem
  <2> QED
      BY <2>2 DEF upTo
<1>9. ASSUME NEW b \in 0 .. c - 1
      PROVE  Nth(places, ahead, b) \in places /\ f[Nth(places, ahead, b)] = b
  <2>1. \E n \in places : Cardinality(ahead[n]) = b
      BY <1>8
  <2> QED
      BY <2>1 DEF Nth
<1> DEFINE all == Placed(bodies, places, ahead)
<1>10. all = [m \in 1 .. c |-> bodies[Nth(places, ahead, m - 1)]]
    BY DEF Placed
<1> HIDE DEF c, f
<1>11. \A m \in 1 .. c : m - 1 \in 0 .. c - 1
    BY <1>1
<1>12. all \in Seq(T)
  <2>1. all \in [1 .. c -> T]
      BY <1>0, <1>9, <1>10, <1>11
  <2> QED
      BY <1>1, <2>1
<1>13. \A m \in 1 .. c : all[m] \in {bodies[n] : n \in places}
    BY <1>9, <1>10, <1>11
<1>14. ASSUME NEW n \in places PROVE \E m \in 1 .. c : all[m] = bodies[n]
  <2>1. f[n] + 1 \in 1 .. c /\ f[n] \in 0 .. c - 1 /\ (f[n] + 1) - 1 = f[n]
      BY <1>1, <1>6
  <2>2. Nth(places, ahead, f[n]) = n
      BY <1>5, <1>9, <2>1
  <2> QED
      BY <1>10, <2>1, <2>2
<1>15. DOMAIN all = 1 .. c
    BY <1>10
<1> HIDE DEF all
<1>16. Range(all) = {bodies[n] : n \in places}
    BY <1>13, <1>14, <1>15 DEF Range
<1> QED
    BY <1>12, <1>16 DEF all

\* Sorting keeps the bodies.
LEMMA SortedKeeps ==
    ASSUME NEW bodies \in Seq(Body), keyOf \in [Body -> Key]
    PROVE  Sorted(bodies) \in Seq(Body) /\ Range(Sorted(bodies)) = Range(bodies)
<1> DEFINE chosen == DOMAIN bodies
           less(m, n) == \/ keyOf[bodies[m]] < keyOf[bodies[n]]
                         \/ keyOf[bodies[m]] = keyOf[bodies[n]] /\ m < n
           before == [n \in chosen |-> {m \in chosen : less(m, n)}]
<1>1. Sorted(bodies) = Placed(bodies, chosen, before)
    BY DEF Sorted
<1>2. IsFiniteSet(chosen) /\ chosen \subseteq Nat /\ \A n \in chosen : bodies[n] \in Body
  <2>1. chosen = 1 .. Len(bodies) /\ Len(bodies) \in Nat
      OBVIOUS
  <2> QED
      BY <2>1, FS_Interval
<1>3. \A n \in chosen : keyOf[bodies[n]] \in Nat
    BY <1>2, KeySpaceType
<1>4. Orders(chosen, before)
    BY <1>2, <1>3 DEF Orders
<1>0. chosen \in SUBSET DOMAIN bodies /\ bodies \in Seq(Body)
    OBVIOUS
<1> HIDE DEF chosen, before
<1>5. /\ Placed(bodies, chosen, before) \in Seq(Body)
      /\ Range(Placed(bodies, chosen, before)) = {bodies[n] : n \in chosen}
    BY <1>0, <1>4, PlacedHasAll
<1>6. {bodies[n] : n \in chosen} = Range(bodies)
    BY DEF chosen, Range
<1> QED
    BY <1>1, <1>5, <1>6

\* What a migration sends to a site is the bodies that belong there.
LEMMA OutgoingHas ==
    ASSUME NEW s \in Site, local[s] \in Seq(Body), NEW sp, NEW r \in Site
    PROVE  /\ Outgoing(s, sp)[r] \in Seq(Body)
           /\ Range(Outgoing(s, sp)[r]) = {i \in Bodies(s) : Destination(sp, Bucket(keyOf[i])) = r}
<1> DEFINE bodies == local[s]
           chosen == {n \in DOMAIN bodies : Destination(sp, Bucket(keyOf[bodies[n]])) = r}
           before == [n \in chosen |-> {m \in chosen : m < n}]
<1>1. Outgoing(s, sp)[r] = Placed(bodies, chosen, before)
    BY DEF Outgoing
<1>2. IsFiniteSet(chosen) /\ chosen \subseteq Nat /\ \A n \in chosen : bodies[n] \in Body
  <2>1. DOMAIN bodies = 1 .. Len(bodies) /\ Len(bodies) \in Nat
      OBVIOUS
  <2>2. IsFiniteSet(DOMAIN bodies) /\ chosen \in SUBSET DOMAIN bodies
      BY <2>1, FS_Interval
  <2> QED
      BY <2>1, <2>2, FS_Subset
<1>3. Orders(chosen, before)
  <2> HIDE DEF chosen
  <2> QED
      BY <1>2 DEF Orders
<1>4. {bodies[n] : n \in chosen} = {i \in Bodies(s) : Destination(sp, Bucket(keyOf[i])) = r}
    BY DEF Bodies, Range
<1>0. chosen \in SUBSET DOMAIN bodies /\ bodies \in Seq(Body)
    OBVIOUS
<1> HIDE DEF chosen, before
<1>5. /\ Placed(bodies, chosen, before) \in Seq(Body)
      /\ Range(Placed(bodies, chosen, before)) = {bodies[n] : n \in chosen}
    BY <1>0, <1>3, PlacedHasAll
<1> QED
    BY <1>1, <1>4, <1>5

----------------------------------------------------------------------------
(* Splitters and slices. *)

Choosing(hist, g) ==
    [c \in -1 .. NumBuckets - 1 |->
        IF c = -1 THEN <<>>
        ELSE IF /\ Len(g[c - 1]) < Size - 1
                /\ SumFunctionOnSet(hist, 0 .. c)
                      >= (Len(g[c - 1]) + 1) * ((SumFunction(hist) + Size - 1) \div Size)
             THEN Append(g[c - 1], c) ELSE g[c - 1]]

LEMMA SplittersIsRecursive ==
    ASSUME NEW hist
    PROVE  Splitters(hist) = (CHOOSE g : g = Choosing(hist, g))[NumBuckets - 1]
BY DEF Splitters, Choosing

\* There are fewer splitters than sites.
LEMMA SplittersFew ==
    ASSUME NEW hist
    PROVE  Splitters(hist) \in Seq(Buckets) /\ Len(Splitters(hist)) <= Size - 1
<1> DEFINE Lists == {q \in Seq(Buckets) : Len(q) <= Size - 1}
           over(q, c) == /\ Len(q) < Size - 1
                         /\ SumFunctionOnSet(hist, 0 .. c)
                               >= (Len(q) + 1) * ((SumFunction(hist) + Size - 1) \div Size)
           extended == [n \in 1 .. NumBuckets |->
                          [q \in Lists |-> IF over(q, n - 1) THEN Append(q, n - 1) ELSE q]]
           none == <<>>
           table == CHOOSE g : g = Choosing(hist, g)
<1>1. NumBuckets \in Nat \ {0} /\ Size \in Nat /\ Size > 1
    BY BucketsType, HpxStepAssumption
<1>2. none \in Lists
    BY <1>1
<1>3. extended \in [1 .. NumBuckets -> [Lists -> Lists]]
  <2>1. ASSUME NEW n \in 1 .. NumBuckets, NEW q \in Lists, over(q, n - 1)
        PROVE  Append(q, n - 1) \in Lists
    <3>1. n - 1 \in Buckets
        BY <1>1 DEF Buckets
    <3>2. Len(q) < Size - 1 /\ q \in Seq(Buckets) /\ Len(q) \in Nat
        BY <2>1
    <3>3. Append(q, n - 1) \in Seq(Buckets) /\ Len(Append(q, n - 1)) = Len(q) + 1
        BY <3>1, <3>2
    <3> QED
        BY <1>1, <3>2, <3>3
  <2> HIDE DEF Lists, over
  <2> QED
      BY <2>1
<1> HIDE DEF Lists, extended, none
<1>4. Solutions(Lists, none, NumBuckets, extended) # {}
    BY <1>1, <1>2, <1>3, Recursion
<1>5. PICK f \in [0 .. NumBuckets -> Lists] :
         f[0] = none /\ \A n \in 1 .. NumBuckets : f[n] = extended[n][f[n - 1]]
    BY <1>4 DEF Solutions
<1> HIDE DEF over
<1>6. \A n \in 1 .. NumBuckets :
         f[n] = IF over(f[n - 1], n - 1) THEN Append(f[n - 1], n - 1) ELSE f[n - 1]
  <2>1. \A n \in 1 .. NumBuckets : n - 1 \in 0 .. NumBuckets
      BY <1>1
  <2> QED
      BY <1>5, <2>1 DEF extended
<1> DEFINE h == [c \in -1 .. NumBuckets - 1 |-> f[c + 1]]
<1>7. h = Choosing(hist, h)
  <2>1. h[-1] = <<>>
      BY <1>1, <1>5 DEF none
  <2>2. ASSUME NEW c \in -1 .. NumBuckets - 1, c # -1
        PROVE  h[c] = IF over(h[c - 1], c) THEN Append(h[c - 1], c) ELSE h[c - 1]
    <3>1. /\ c + 1 \in 1 .. NumBuckets /\ (c + 1) - 1 = c /\ c - 1 \in -1 .. NumBuckets - 1
          /\ (c - 1) + 1 = c
        BY <1>1, <2>2
    <3>2. f[c + 1] = IF over(f[c], c) THEN Append(f[c], c) ELSE f[c]
        BY <1>6, <3>1
    <3> QED
        BY <3>1, <3>2
  <2>3. \A c \in -1 .. NumBuckets - 1 :
           h[c] = IF c = -1 THEN <<>>
                  ELSE IF over(h[c - 1], c) THEN Append(h[c - 1], c) ELSE h[c - 1]
      BY <2>1, <2>2
  <2>4. h = [c \in -1 .. NumBuckets - 1 |-> h[c]]
      OBVIOUS
  <2> HIDE DEF h
  <2> QED
      BY <2>3, <2>4 DEF Choosing, over
<1>8. table = Choosing(hist, table)
  <2> HIDE DEF h
  <2> QED
      BY <1>7
<1>9. \A c \in -1 .. NumBuckets - 1 :
         table[c] = IF c = -1 THEN none
                    ELSE IF over(table[c - 1], c) THEN Append(table[c - 1], c) ELSE table[c - 1]
  <2> HIDE DEF table
  <2>1. \A g : \A c \in -1 .. NumBuckets - 1 :
           Choosing(hist, g)[c] = IF c = -1 THEN none
              ELSE IF over(g[c - 1], c) THEN Append(g[c - 1], c) ELSE g[c - 1]
      BY DEF Choosing, over, none
  <2> QED
      BY <1>8, <2>1
<1> HIDE DEF table
<1> DEFINE Fine(n) == table[n - 1] \in Lists
           Bad == {n \in Nat : n <= NumBuckets /\ ~Fine(n)}
<1>10. Bad = {}
  <2> SUFFICES ASSUME Bad # {} PROVE FALSE
      OBVIOUS
  <2>1. Bad \in SUBSET Nat
      OBVIOUS
  <2>2. PICK n \in Bad : \A k \in Bad : n <= k
    <3> HIDE DEF Bad
    <3> QED
        BY <2>1, Least
  <2>3. n # 0
    <3>1. -1 \in -1 .. NumBuckets - 1 /\ 0 - 1 = -1
        BY <1>1
    <3>2. Fine(0)
        BY <1>2, <1>9, <3>1
    <3> QED
        BY <3>2
  <2>4. /\ n - 1 \in Nat /\ n - 1 <= NumBuckets /\ ~(n <= n - 1)
        /\ n - 1 \in -1 .. NumBuckets - 1 /\ n - 1 # -1 /\ n \in 1 .. NumBuckets
      BY <1>1, <2>3
  <2>5. Fine(n - 1)
    <3> HIDE DEF Fine
    <3> QED
        BY <2>2, <2>4
  <2> DEFINE q == table[(n - 1) - 1]
  <2>6. q \in Lists
      BY <2>5
  <2>7. table[n - 1] = IF over(q, n - 1) THEN Append(q, n - 1) ELSE q
      BY <1>9, <2>4
  <2>8. extended[n][q] \in Lists /\ extended[n][q] = IF over(q, n - 1) THEN Append(q, n - 1) ELSE q
    <3> HIDE DEF q
    <3>1. extended[n][q] = IF over(q, n - 1) THEN Append(q, n - 1) ELSE q
        BY <2>4, <2>6 DEF extended
    <3> QED
        BY <1>3, <2>4, <2>6, <3>1
  <2>9. Fine(n)
      BY <2>7, <2>8
  <2> QED
      BY <2>2, <2>9
<1>11. Fine(NumBuckets)
  <2> HIDE DEF Fine
  <2> QED
      BY <1>1, <1>10
<1>12. Splitters(hist) = table[NumBuckets - 1]
    BY SplittersIsRecursive DEF table
<1> QED
    BY <1>11, <1>12 DEF Lists

\* Every bucket goes to a site.
LEMMA RankIsSite ==
    ASSUME NEW hist, NEW bucket
    PROVE  RankOf(Splitters(hist), bucket) \in Site
<1> DEFINE sp == Splitters(hist)
           S == {n \in DOMAIN sp : sp[n] <= bucket}
<1>1. Len(sp) \in Nat /\ Len(sp) <= Size - 1 /\ DOMAIN sp = 1 .. Len(sp)
    BY SplittersFew
<1> HIDE DEF sp
<1>2. IsFiniteSet(DOMAIN sp) /\ Cardinality(DOMAIN sp) = Len(sp)
  <2> DEFINE n == Len(sp)
  <2>1. n \in Nat
      BY <1>1
  <2> HIDE DEF n
  <2>2. IsFiniteSet(1 .. n) /\ Cardinality(1 .. n) = n
      BY <2>1, FS_Interval
  <2> QED
      BY <1>1, <2>2 DEF n
<1>3. S \in SUBSET DOMAIN sp
    OBVIOUS
<1>4. Cardinality(S) <= Len(sp) /\ Cardinality(S) \in Nat
    BY <1>2, <1>3, FS_Subset, FS_CardinalityType
<1>5. RankOf(sp, bucket) = Cardinality(S)
    BY DEF RankOf
<1> HIDE DEF S
<1>6. RankOf(sp, bucket) \in 0 .. Size - 1
    BY <1>1, <1>4, <1>5, HpxStepAssumption
<1> QED
    BY <1>6 DEF Site, sp

\* How many bodies the sites before s start with.
SlicedBefore(s) == s * (NumBodies \div Size) + (IF s < NumBodies % Size THEN s ELSE NumBodies % Size)

LEMMA SlicesFollow ==
    /\ SlicedBefore(0) = 0 /\ SlicedBefore(Size) = NumBodies
    /\ \A s \in 0 .. Size : SlicedBefore(s) \in 0 .. NumBodies
    /\ \A s, q \in 0 .. Size : s <= q => SlicedBefore(s) <= SlicedBefore(q)
    /\ \A s \in Site : SlicedBefore(s + 1)
          = SlicedBefore(s) + (NumBodies \div Size) + (IF s < NumBodies % Size THEN 1 ELSE 0)
<1> DEFINE base == NumBodies \div Size
           rem == NumBodies % Size
<1>1. /\ base \in Nat /\ rem \in 0 .. Size - 1 /\ NumBodies = Size * base + rem
      /\ Size \in Nat /\ Size > 1 /\ NumBodies \in Nat
    BY HpxStepAssumption, NumBodiesAssumption
<1> DEFINE over(s) == IF s < rem THEN s ELSE rem
<1>2. \A s : SlicedBefore(s) = s * base + over(s)
    BY DEF SlicedBefore
<1> HIDE DEF base, rem
<1>3. \A s, q \in 0 .. Size : s <= q => s * base <= q * base
  <2>1. \A a, b, c \in Nat : a <= b => a * c <= b * c
      OBVIOUS
  <2> QED
      BY <1>1, <2>1
<1>4. \A s \in 0 .. Size : s * base \in Nat /\ over(s) \in Nat
    BY <1>1
<1>5. \A s, q \in 0 .. Size : s <= q => over(s) <= over(q)
    BY <1>1
<1>6. ASSUME NEW s \in Site PROVE (s + 1) * base = s * base + base
    BY <1>1 DEF Site
<1>7. \A s \in Site : over(s + 1) = over(s) + (IF s < rem THEN 1 ELSE 0)
    BY <1>1 DEF Site
<1>8. 0 * base = 0 /\ over(0) = 0 /\ over(Size) = rem
    BY <1>1
<1> HIDE DEF over
<1>9. SlicedBefore(0) = 0 /\ SlicedBefore(Size) = NumBodies
    BY <1>1, <1>2, <1>8
<1>10. \A s, q \in 0 .. Size : s <= q => SlicedBefore(s) <= SlicedBefore(q)
    BY <1>2, <1>3, <1>4, <1>5
<1>11. \A s \in 0 .. Size : SlicedBefore(s) \in Nat /\ SlicedBefore(s) <= SlicedBefore(Size)
    BY <1>1, <1>2, <1>4, <1>10
<1>12. ASSUME NEW s \in Site
       PROVE  SlicedBefore(s + 1) = SlicedBefore(s) + base + (IF s < rem THEN 1 ELSE 0)
  <2>1. s \in 0 .. Size /\ s * base \in Nat /\ over(s) \in Nat
      BY <1>1, <1>4 DEF Site
  <2>2. SlicedBefore(s + 1) = (s + 1) * base + over(s + 1) /\ SlicedBefore(s) = s * base + over(s)
      BY <1>2
  <2> DEFINE p == s * base
  <2>3. (s + 1) * base = p + base /\ p \in Nat
      BY <1>6, <2>1
  <2> HIDE DEF p
  <2> QED
      BY <1>1, <1>7, <2>1, <2>2, <2>3 DEF p
<1> QED
    BY <1>9, <1>10, <1>11, <1>12 DEF base, rem

LEMMA SliceHas ==
    ASSUME NEW s \in Site
    PROVE  /\ Slice(s) \in Seq(Body)
           /\ Range(Slice(s)) = {i \in Body : SlicedBefore(s) < i /\ i <= SlicedBefore(s + 1)}
<1> DEFINE base == NumBodies \div Size
           rem == NumBodies % Size
           count == base + (IF s < rem THEN 1 ELSE 0)
           before == SlicedBefore(s)
<1>1. /\ base \in Nat /\ rem \in Nat /\ s \in Nat /\ s \in 0 .. Size /\ s + 1 \in 0 .. Size
      /\ NumBodies \in Nat
    BY HpxStepAssumption, NumBodiesAssumption DEF Site
<1>2. Min({s, rem}) = IF s < rem THEN s ELSE rem
  <2> DEFINE least == IF s < rem THEN s ELSE rem
  <2>1. least \in {s, rem} /\ \A x \in {s, rem} : least <= x
      BY <1>1
  <2>2. \A y \in {s, rem} : (\A x \in {s, rem} : y <= x) => y = least
      BY <1>1
  <2> HIDE DEF least
  <2>3. (CHOOSE y \in {s, rem} : \A x \in {s, rem} : y <= x) = least
      BY <2>1, <2>2
  <2> QED
      BY <2>3 DEF Min, least
<1>3. Slice(s) = [n \in 1 .. count |-> before + n]
    BY <1>2 DEF Slice, SlicedBefore
<1>4. before \in Nat /\ SlicedBefore(s + 1) = before + count /\ before + count <= NumBodies
  <2>1. SlicedBefore(s + 1) = before + base + (IF s < rem THEN 1 ELSE 0)
      BY SlicesFollow
  <2>2. before \in 0 .. NumBodies /\ SlicedBefore(s + 1) \in 0 .. NumBodies
      BY <1>1, SlicesFollow
  <2> HIDE DEF base, rem, before
  <2> QED
      BY <1>1, <2>1, <2>2
<1>5. count \in Nat
    BY <1>1
<1> HIDE DEF count, before
<1>6. \A n \in 1 .. count : before + n \in Body /\ before < before + n /\ before + n <= before + count
    BY <1>1, <1>4, <1>5 DEF Body
<1>7. Slice(s) \in Seq(Body)
  <2>1. Slice(s) \in [1 .. count -> Body]
      BY <1>3, <1>6
  <2> QED
      BY <1>5, <2>1
<1>8. \A i \in Body : before < i /\ i <= before + count =>
         i - before \in 1 .. count /\ before + (i - before) = i
    BY <1>1, <1>4, <1>5 DEF Body
<1>9. DOMAIN Slice(s) = 1 .. count /\ \A n \in 1 .. count : Slice(s)[n] = before + n
    BY <1>3
<1> DEFINE slice == Slice(s)
           mine == {i \in Body : before < i /\ i <= before + count}
<1> HIDE DEF slice
<1>10. Range(slice) \subseteq mine
    BY <1>6, <1>9 DEF Range, slice
<1>11. ASSUME NEW i \in mine PROVE i \in Range(slice)
  <2>1. i - before \in 1 .. count /\ slice[i - before] = i
      BY <1>8, <1>9, <1>11 DEF slice
  <2> QED
      BY <1>9, <2>1 DEF Range, slice
<1> QED
    BY <1>4, <1>7, <1>10, <1>11 DEF slice, before

\* Every body is in one slice.
LEMMA OneSlice ==
    ASSUME NEW i \in Body
    PROVE  \E s \in Site : \A q \in Site : i \in Range(Slice(q)) <=> q = s
<1> DEFINE enough == {n \in Nat : n \in Site /\ i <= SlicedBefore(n + 1)}
<1>1. Size \in Nat /\ Size > 1 /\ i \in Nat /\ i > 0 /\ i <= NumBodies
    BY HpxStepAssumption, NumBodiesAssumption DEF Body
<1>2. Size - 1 \in enough
  <2>1. Size - 1 \in Site /\ Size - 1 \in Nat /\ (Size - 1) + 1 = Size
      BY <1>1 DEF Site
  <2> QED
      BY <1>1, <2>1, SlicesFollow
<1>3. PICK s \in enough : \A n \in enough : s <= n
  <2>1. enough # {} /\ enough \in SUBSET Nat
      BY <1>2
  <2> HIDE DEF enough
  <2> QED
      BY <2>1, Least
<1>4. s \in Site /\ i <= SlicedBefore(s + 1)
    OBVIOUS
<1>5. SlicedBefore(s) < i
  <2>1. CASE s = 0
      BY <1>1, <2>1, SlicesFollow
  <2>2. CASE s # 0
    <3>1. s - 1 \in Site /\ s - 1 \in Nat /\ (s - 1) + 1 = s /\ ~(s <= s - 1) /\ s \in 0 .. Size
        BY <1>1, <1>4, <2>2 DEF Site
    <3>2. ~(i <= SlicedBefore(s))
        BY <1>3, <3>1
    <3>3. SlicedBefore(s) \in 0 .. NumBodies
        BY <3>1, SlicesFollow
    <3> QED
        BY <1>1, <3>2, <3>3
  <2> QED
      BY <2>1, <2>2
<1>6. ASSUME NEW q \in Site, i \in Range(Slice(q)) PROVE q = s
  <2>1. SlicedBefore(q) < i /\ i <= SlicedBefore(q + 1)
      BY <1>6, SliceHas
  <2>2. /\ q \in 0 .. Size /\ q + 1 \in 0 .. Size /\ s \in 0 .. Size /\ s + 1 \in 0 .. Size
        /\ (q < s => q + 1 <= s) /\ (s < q => s + 1 <= q) /\ (q < s \/ s < q \/ q = s)
      BY <1>1, <1>4 DEF Site
  <2>3. \A n \in 0 .. Size : SlicedBefore(n) \in 0 .. NumBodies
      BY SlicesFollow
  <2>4. q < s => SlicedBefore(q + 1) <= SlicedBefore(s)
      BY <2>2, SlicesFollow
  <2>5. s < q => SlicedBefore(s + 1) <= SlicedBefore(q)
      BY <2>2, SlicesFollow
  <2> QED
      BY <1>1, <1>4, <1>5, <2>1, <2>2, <2>3, <2>4, <2>5
<1>7. i \in Range(Slice(s))
    BY <1>4, <1>5, SliceHas
<1> QED
    BY <1>4, <1>6, <1>7

----------------------------------------------------------------------------
(* What a step does, to what the invariant is about. *)

\* Only site s moves.
Stay(s) ==
    \A q \in Site \ {s} :
       /\ pc'[q] = pc[q] /\ step'[q] = step[q] /\ begun'[q] = begun[q]
       /\ local'[q] = local[q] /\ domains'[q] = domains[q] /\ splitters'[q] = splitters[q]
       /\ \A c \in Comm : calls'[q][c] = calls[q][c] /\ posted'[c][q] = posted[c][q]

\* It makes no call on the communicators C ...
Keeps(s, C) == \A c \in C : calls'[s][c] = calls[s][c] /\ posted'[c][s] = posted[c][s]

\* ... or one, on comm alone.
Posts(s, comm, value) ==
    /\ calls'[s][comm] = calls[s][comm] + 1
    /\ Contribution(comm, s)' = value
    /\ Keeps(s, Comm \ {comm})

Elsewhere(s) ==
    \A q \in Site \ {s} : /\ begun'[q] = begun[q]
                          /\ \A c \in Comm : calls'[q][c] = calls[q][c] /\ posted'[c][q] = posted[c][q]

LEMMA CommOfType ==
    ASSUME NEW phase \in Phase
    PROVE  /\ CommOf(phase) \in Comm
           /\ CommOf(phase) = IF phase = "rebbox" THEN "bbox"
                              ELSE IF phase = "output" THEN "barrier" ELSE phase
BY DEF CommOf, Comm, Phase

\* A call of site s on the communicator comm, after which it has started n timers.
LEMMA EnteredComms ==
    ASSUME CommsOK, NEW s \in Site, NEW comm \in Comm, NEW value, NEW n \in Nat,
           Enters(s, comm, value), begun' = [begun EXCEPT ![s] = n]
    PROVE  CommsOK' /\ Posts(s, comm, value) /\ Elsewhere(s) /\ begun'[s] = n
<1> DEFINE k == calls[s][comm] + 1
<1>1. /\ calls' = [calls EXCEPT ![s][comm] = k]
      /\ posted' = [posted EXCEPT ![comm][s] = <<k, value>>]
    BY DEF Enters
<1>2. k \in Nat /\ calls \in [Site -> [Comm -> Nat]] /\ begun \in [Site -> Nat]
      /\ DOMAIN posted = Comm /\ \A c \in Comm : DOMAIN posted[c] = Site
    BY DEF CommsOK
<1> HIDE DEF k
<1>3. /\ calls' \in [Site -> [Comm -> Nat]] /\ begun' \in [Site -> Nat]
      /\ calls'[s][comm] = k /\ begun'[s] = n
      /\ \A c \in Comm \ {comm} : calls'[s][c] = calls[s][c]
      /\ \A q \in Site \ {s} : begun'[q] = begun[q] /\ \A c \in Comm : calls'[q][c] = calls[q][c]
    BY <1>1, <1>2
<1>4. /\ DOMAIN posted' = Comm /\ \A c \in Comm : DOMAIN posted'[c] = Site
      /\ posted'[comm][s] = <<k, value>>
      /\ \A c \in Comm \ {comm} : posted'[c][s] = posted[c][s]
      /\ \A q \in Site \ {s} : \A c \in Comm : posted'[c][q] = posted[c][q]
    BY <1>1, <1>2
<1>5. \A c \in Comm, q \in Site : posted'[c][q][1] = calls'[q][c]
  <2> SUFFICES ASSUME NEW c \in Comm, NEW q \in Site
               PROVE  posted'[c][q][1] = calls'[q][c]
      OBVIOUS
  <2>1. posted[c][q][1] = calls[q][c]
      BY DEF CommsOK, Generation
  <2>2. CASE q = s /\ c = comm
      BY <1>3, <1>4, <2>2
  <2>3. CASE q = s /\ c # comm
      BY <1>3, <1>4, <2>1, <2>3
  <2>4. CASE q # s
      BY <1>3, <1>4, <2>1, <2>4
  <2> QED
      BY <2>2, <2>3, <2>4
<1>6. CommsOK'
    BY <1>3, <1>4, <1>5 DEF CommsOK, Generation
<1>7. Posts(s, comm, value)
    BY <1>3, <1>4 DEF Posts, Keeps, Contribution, k
<1> QED
    BY <1>3, <1>4, <1>6, <1>7 DEF Elsewhere

LEMMA CallPosts ==
    ASSUME TypeOK, NEW s \in Site, NEW phase \in Phase, NEW value, Call(s, phase, value)
    PROVE  /\ CommsOK' /\ Posts(s, CommOf(phase), value) /\ Elsewhere(s) /\ begun'[s] = 0
           /\ pc' \in [Site -> Place] /\ pc'[s] = phase
           /\ \A q \in Site \ {s} : pc'[q] = pc[q]
<1>1. CommOf(phase) \in Comm /\ CommsOK /\ 0 \in Nat
    BY CommOfType DEF TypeOK
<1>2. Enters(s, CommOf(phase), value) /\ begun' = [begun EXCEPT ![s] = 0]
      /\ pc' = [pc EXCEPT ![s] = phase]
    BY DEF Call
<1>3. CommsOK' /\ Posts(s, CommOf(phase), value) /\ Elsewhere(s) /\ begun'[s] = 0
    BY <1>1, <1>2, EnteredComms
<1>4. phase \in Place
    BY DEF Phase, Place, Before, Late, After
<1> QED
    BY <1>2, <1>3, <1>4 DEF TypeOK

\* Steps that change nothing of what bodies and domains are about.
Quiet(s) ==
    /\ Stay(s) /\ Keeps(s, Paced)
    /\ UNCHANGED <<step, local, keyOf, domains, splitters>>
    /\ \/ pc'[s] = pc[s]
       \/ pc[s] \in Before /\ pc'[s] \in Before \cup {"done"}
       \/ pc[s] \in Late /\ pc'[s] \in Late \cup After
       \/ pc[s] \in {"gather", "error"} /\ pc'[s] = "done"

\* The timers are forgotten, or the site is where they do not matter.
Settles(s) == begun'[s] = 0 \/ pc'[s] \in Late \cup After

\* The next step's opening kick and drift.
Advances(s) ==
    /\ Stay(s) /\ Keeps(s, Paced \ {"bbox"})
    /\ calls'[s]["bbox"] = calls[s]["bbox"] + 1
    /\ UNCHANGED <<local, domains, splitters>>
    /\ pc[s] \in Late /\ pc'[s] = "bbox"
    /\ step'[s] = step[s] + 1
    /\ \A i \in Body : i \notin Bodies(s) => keyOf'[i] = keyOf[i]

\* What ends a step at a site: a quiet step or the next one's beginning.
Ends(s) ==
    /\ TypeOK' /\ Keeps(s, {"scatter"}) /\ Settles(s)
    /\ pc[s] \in Late /\ pc'[s] \notin Before
    /\ Quiet(s) \/ Advances(s)

LEMMA StayFromCall ==
    ASSUME NEW s \in Site, Elsewhere(s), \A q \in Site \ {s} : pc'[q] = pc[q],
           \A q \in Site \ {s} : /\ step'[q] = step[q] /\ local'[q] = local[q]
                                 /\ domains'[q] = domains[q] /\ splitters'[q] = splitters[q]
    PROVE  Stay(s)
BY DEF Stay, Elsewhere

LEMMA PostsElsewhere ==
    ASSUME NEW s \in Site, NEW comm \in Comm, NEW value, Posts(s, comm, value),
           NEW C \in SUBSET Comm, comm \notin C
    PROVE  Keeps(s, C)
BY DEF Posts, Keeps

\* A call in the tail of a step.
LEMMA LateCall ==
    ASSUME TypeOK, NEW s \in Site, NEW phase \in Phase, NEW value, Call(s, phase, value),
           phase \in Late \cup After, pc[s] \in Late,
           UNCHANGED <<step, local, keyOf, path, ending, domains, splitters>>
    PROVE  Ends(s)
<1>1. /\ CommsOK' /\ Posts(s, CommOf(phase), value) /\ Elsewhere(s) /\ begun'[s] = 0
      /\ pc' \in [Site -> Place] /\ pc'[s] = phase
      /\ \A q \in Site \ {s} : pc'[q] = pc[q]
    BY CallPosts
<1>2. CommOf(phase) \in Comm /\ CommOf(phase) \notin Paced \cup {"scatter"}
    BY CommOfType DEF Paced, Late, After
<1>3. Paced \in SUBSET Comm /\ {"scatter"} \in SUBSET Comm
    BY DEF Paced, Comm, Phase
<1>4. Keeps(s, Paced) /\ Keeps(s, {"scatter"})
    BY <1>1, <1>2, <1>3, PostsElsewhere
<1>5. TypeOK'
    BY <1>1 DEF TypeOK
<1>6. Stay(s)
    BY <1>1, StayFromCall
<1>7. phase \notin Before
    BY DEF Before, Late, After
<1> QED
    BY <1>1, <1>4, <1>5, <1>6, <1>7 DEF Ends, Quiet, Settles

\* The end without a call.
LEMMA LateEnd ==
    ASSUME TypeOK, NEW s \in Site, NEW place \in Late \cup After, pc' = [pc EXCEPT ![s] = place],
           pc[s] \in Late,
           \/ UNCHANGED <<calls, posted, begun>>
           \/ begun' = [begun EXCEPT ![s] = 0] /\ UNCHANGED <<calls, posted>>,
           UNCHANGED <<step, local, keyOf, path, ending, domains, splitters>>
    PROVE  Ends(s)
<1>1. place \in Place /\ place \notin Before
    BY DEF Place, Before, Late, After
<1>2. /\ pc' \in [Site -> Place] /\ pc'[s] = place /\ \A q \in Site \ {s} : pc'[q] = pc[q]
    BY <1>1 DEF TypeOK
<1>3. begun' \in [Site -> Nat] /\ \A q \in Site \ {s} : begun'[q] = begun[q]
    BY DEF TypeOK, CommsOK
<1>4. CommsOK'
  <2>1. calls' = calls /\ posted' = posted
      OBVIOUS
  <2>2. \A c \in Comm, q \in Site : posted[c][q][1] = calls[q][c]
      BY DEF TypeOK, CommsOK, Generation
  <2>3. \A c \in Comm, q \in Site : posted'[c][q][1] = calls'[q][c]
      BY <2>1, <2>2
  <2> QED
      BY <1>3, <2>1, <2>3 DEF TypeOK, CommsOK, Generation
<1>5. TypeOK'
    BY <1>2, <1>4 DEF TypeOK
<1>6. Stay(s)
    BY <1>2, <1>3 DEF Stay
<1>7. Keeps(s, Paced) /\ Keeps(s, {"scatter"})
    BY DEF Keeps
<1> QED
    BY <1>1, <1>2, <1>5, <1>6, <1>7 DEF Ends, Quiet, Settles

LEMMA NextStepEnds ==
    ASSUME TypeOK, NEW s \in Site, NextStep(s), pc[s] \in Late,
           UNCHANGED <<local, path, ending, domains, splitters>>
    PROVE  Ends(s)
<1>1. CASE step[s] + 1 = Steps /\ UNCHANGED <<step, keyOf, vel>> /\ ending = "none"
  <2>1. pc' = [pc EXCEPT ![s] = "done"] /\ UNCHANGED <<calls, posted, begun>>
    <3>1. step[s] \in Int /\ ~(step[s] + 1 < Steps)
        BY <1>1, HpxStepAssumption DEF TypeOK
    <3> QED
        BY <1>1, <3>1 DEF NextStep, comms
  <2>2. "done" \in Late \cup After
      BY DEF After
  <2> QED
      BY <1>1, <2>1, <2>2, LateEnd
<1>2. CASE step[s] + 1 = Steps /\ UNCHANGED <<step, keyOf, vel>> /\ ending # "none"
  <2>1. Call(s, ending, FinalEntries(s))
    <3>1. step[s] \in Int /\ ~(step[s] + 1 < Steps)
        BY <1>2, HpxStepAssumption DEF TypeOK
    <3> QED
        BY <1>2, <3>1 DEF NextStep
  <2>2. ending \in Phase /\ ending \in Late \cup After
      BY <1>2, HpxStepAssumption DEF TypeOK, Phase, After
  <2> DEFINE value == FinalEntries(s)
  <2>3. Call(s, ending, value)
      BY <2>1
  <2> HIDE DEF value
  <2> QED
      BY <1>2, <2>2, <2>3, LateCall
<1>3. CASE /\ step[s] + 1 < Steps
           /\ step' = [step EXCEPT ![s] = @ + 1]
           /\ keyOf' = [i \in Body |-> IF i \in Bodies(s) THEN path[step[s] + 1][i] ELSE keyOf[i]]
           /\ Call(s, "bbox", {})
  <2>1. "bbox" \in Phase /\ "bbox" \in Place /\ CommOf("bbox") = "bbox" /\ "bbox" \in Comm
      BY DEF Phase, Place, CommOf, Comm
  <2> DEFINE value == {}
  <2>2. Call(s, "bbox", value)
      BY <1>3
  <2> HIDE DEF value
  <2>3. /\ CommsOK' /\ Posts(s, CommOf("bbox"), value) /\ Elsewhere(s) /\ begun'[s] = 0
        /\ pc' \in [Site -> Place] /\ pc'[s] = "bbox"
        /\ \A q \in Site \ {s} : pc'[q] = pc[q]
      BY <2>1, <2>2, CallPosts
  <2>4. /\ step' \in [Site -> 0 .. Steps - 1] /\ step'[s] = step[s] + 1
        /\ \A q \in Site \ {s} : step'[q] = step[q]
    <3>1. step \in [Site -> 0 .. Steps - 1] /\ step[s] \in Nat
        BY HpxStepAssumption DEF TypeOK
    <3>2. step[s] + 1 \in 0 .. Steps - 1
        BY <1>3, <3>1, HpxStepAssumption
    <3> DEFINE next == step[s] + 1
    <3>3. step' = [step EXCEPT ![s] = next] /\ next \in 0 .. Steps - 1
        BY <1>3, <3>2
    <3> HIDE DEF next
    <3>4. step' \in [Site -> 0 .. Steps - 1] /\ step'[s] = next
          /\ \A q \in Site \ {s} : step'[q] = step[q]
        BY <3>1, <3>3
    <3> QED
        BY <3>4 DEF next
  <2>5. keyOf' \in [Body -> Key]
    <3>1. step[s] + 1 \in 0 .. Steps - 1
        BY <2>4
    <3>2. path[step[s] + 1] \in [Body -> Key]
        BY <3>1, HpxStepAssumption DEF TypeOK
    <3> QED
        BY <1>3, <3>2 DEF TypeOK
  <2>6. TypeOK'
      BY <2>3, <2>4, <2>5 DEF TypeOK
  <2>7. Stay(s)
      BY <2>3, <2>4, StayFromCall
  <2>8. Keeps(s, Paced \ {"bbox"}) /\ Keeps(s, {"scatter"})
    <3>1. Paced \ {"bbox"} \in SUBSET Comm /\ {"scatter"} \in SUBSET Comm
        BY DEF Paced, Comm, Phase
    <3> QED
        BY <2>1, <2>3, <3>1, PostsElsewhere
  <2>9. Advances(s)
      BY <1>3, <2>1, <2>3, <2>4, <2>7, <2>8 DEF Advances, Posts
  <2>10. "bbox" \notin Before
      BY DEF Before
  <2> QED
      BY <2>3, <2>6, <2>8, <2>9, <2>10 DEF Ends, Settles
<1> QED
    BY <1>1, <1>2, <1>3 DEF NextStep

LEMMA EndStepEnds ==
    ASSUME TypeOK, NEW s \in Site, EndStep(s), pc[s] \in Late,
           UNCHANGED <<local, path, ending, domains, splitters>>
    PROVE  Ends(s)
<1>1. CASE timed = {}
    BY <1>1, NextStepEnds DEF EndStep
<1>2. CASE timed # {}
  <2> DEFINE value == {}
  <2>1. Call(s, "timers", value) /\ UNCHANGED <<step, keyOf>>
      BY <1>2 DEF EndStep
  <2>2. "timers" \in Phase /\ "timers" \in Late \cup After
      BY DEF Phase, Late
  <2> HIDE DEF value
  <2> QED
      BY <2>1, <2>2, LateCall
<1> QED
    BY <1>1, <1>2

LEMMA OutputEnds ==
    ASSUME TypeOK, NEW s \in Site, Output(s), pc[s] \in Late,
           UNCHANGED <<local, path, ending, domains, splitters>>
    PROVE  Ends(s)
<1>1. CASE step[s] \notin OutputAt
    BY <1>1, EndStepEnds DEF Output
<1>2. CASE step[s] \in OutputAt
  <2> DEFINE value == {}
  <2>1. Call(s, "output", value) /\ UNCHANGED <<step, keyOf>>
      BY <1>2 DEF Output
  <2>2. "output" \in Phase /\ "output" \in Late \cup After
      BY DEF Phase, Late
  <2> HIDE DEF value
  <2> QED
      BY <2>1, <2>2, LateCall
<1> QED
    BY <1>1, <1>2

\* The walks, the energy and the output only ever end a step.
LEMMA LateStepsEnd ==
    ASSUME TypeOK, NEW s \in Site,
           \/ Exchange(s) \/ Walks(s) \/ SampleEnergy(s) \/ GatherBodies(s) \/ Energy(s)
           \/ AfterOutput(s) \/ ReduceTimers(s)
    PROVE  Ends(s)
<1>1. CASE Exchange(s)
  <2>1. /\ pc[s] = "exchange" /\ pc' = [pc EXCEPT ![s] = "walk"]
        /\ begun' = [begun EXCEPT ![s] = 0] /\ UNCHANGED <<calls, posted>>
        /\ UNCHANGED <<step, local, keyOf, path, ending, domains, splitters>>
      BY <1>1 DEF Exchange, Returns, input, motion
  <2>2. "walk" \in Late \cup After /\ "exchange" \in Late
      BY DEF Late
  <2> QED
      BY <2>1, <2>2, LateEnd
<1>2. CASE Walks(s)
  <2>1. /\ pc[s] = "walk" /\ pc' = [pc EXCEPT ![s] = "kicked"]
        /\ UNCHANGED <<calls, posted, begun>>
        /\ UNCHANGED <<step, local, keyOf, path, ending, domains, splitters>>
      BY <1>2 DEF Walks, input, comms
  <2>2. "kicked" \in Late \cup After /\ "walk" \in Late
      BY DEF Late
  <2> QED
      BY <2>1, <2>2, LateEnd
<1>3. CASE SampleEnergy(s)
  <2>1. pc[s] \in Late /\ UNCHANGED <<path, ending, local, domains, splitters>>
      BY <1>3 DEF SampleEnergy, input, Late
  <2>2. CASE step[s] \notin EnergyAt
    <3>1. Output(s)
        BY <1>3, <2>2 DEF SampleEnergy
    <3> QED
        BY <2>1, <3>1, OutputEnds
  <2>3. CASE step[s] \in EnergyAt /\ exact
    <3> DEFINE value == Bodies(s)
    <3>1. Call(s, "potential", value) /\ UNCHANGED <<step, keyOf>>
        BY <1>3, <2>3 DEF SampleEnergy
    <3>2. "potential" \in Phase /\ "potential" \in Late \cup After
        BY DEF Phase, Late
    <3> HIDE DEF value
    <3> QED
        BY <2>1, <3>1, <3>2, LateCall
  <2>4. CASE step[s] \in EnergyAt /\ ~exact
    <3> DEFINE value == {}
    <3>1. Call(s, "energy", value) /\ UNCHANGED <<step, keyOf>>
        BY <1>3, <2>4 DEF SampleEnergy
    <3>2. "energy" \in Phase /\ "energy" \in Late \cup After
        BY DEF Phase, Late
    <3> HIDE DEF value
    <3> QED
        BY <2>1, <3>1, <3>2, LateCall
  <2> QED
      BY <2>2, <2>3, <2>4
<1>4. CASE GatherBodies(s)
  <2> DEFINE value == ExactPotential(s)
  <2>1. /\ pc[s] = "potential" /\ Call(s, "energy", value)
        /\ UNCHANGED <<step, local, keyOf, path, ending, domains, splitters>>
      BY <1>4 DEF GatherBodies, Returns, input
  <2>2. "energy" \in Phase /\ "energy" \in Late \cup After /\ "potential" \in Late
      BY DEF Phase, Late
  <2> HIDE DEF value
  <2> QED
      BY <2>1, <2>2, LateCall
<1>5. CASE Energy(s)
  <2>1. pc[s] \in Late /\ Output(s) /\ UNCHANGED <<path, ending, local, domains, splitters>>
      BY <1>5 DEF Energy, Returns, input, Late
  <2> QED
      BY <2>1, OutputEnds
<1>6. CASE AfterOutput(s)
  <2>1. pc[s] \in Late /\ EndStep(s) /\ UNCHANGED <<path, ending, local, domains, splitters>>
      BY <1>6 DEF AfterOutput, Returns, input, Late
  <2> QED
      BY <2>1, EndStepEnds
<1>7. CASE ReduceTimers(s)
  <2>1. pc[s] \in Late /\ NextStep(s) /\ UNCHANGED <<path, ending, local, domains, splitters>>
      BY <1>7 DEF ReduceTimers, Returns, input, Late
  <2> QED
      BY <2>1, NextStepEnds
<1> QED
    BY <1>1, <1>2, <1>3, <1>4, <1>5, <1>6, <1>7

\* What a call of a phase before the trees are exchanged does.
LEMMA EarlyCall ==
    ASSUME TypeOK, NEW s \in Site, NEW phase \in Phase, NEW value, Call(s, phase, value),
           step' = step, keyOf' = keyOf, UNCHANGED <<path, ending>>,
           local' \in [Site -> Seq(Body)], DOMAIN domains' = Site, DOMAIN splitters' = Site,
           \A q \in Site \ {s} : /\ local'[q] = local[q]
                                 /\ domains'[q] = domains[q] /\ splitters'[q] = splitters[q]
    PROVE  /\ TypeOK' /\ Stay(s) /\ Posts(s, CommOf(phase), value)
           /\ pc'[s] = phase /\ begun'[s] = 0
<1>1. /\ CommsOK' /\ Posts(s, CommOf(phase), value) /\ Elsewhere(s) /\ begun'[s] = 0
      /\ pc' \in [Site -> Place] /\ pc'[s] = phase
      /\ \A q \in Site \ {s} : pc'[q] = pc[q]
    BY CallPosts
<1>2. Stay(s)
    BY <1>1, StayFromCall
<1>3. TypeOK'
    BY <1>1 DEF TypeOK
<1> QED
    BY <1>1, <1>2, <1>3

----------------------------------------------------------------------------
(* The sites keep up with each other. *)

LEMMA Numbers ==
    ASSUME TypeOK, NEW s \in Site
    PROVE  /\ step[s] \in Nat /\ step[s] + 1 \in Nat /\ begun[s] \in Nat
           /\ \A c \in Comm : calls[s][c] \in Nat /\ posted[c][s][1] = calls[s][c]
           /\ calls[s]["hist"] \in Nat /\ calls[s]["bbox"] \in Nat /\ calls[s]["migrate"] \in Nat
           /\ Migrations(step[s]) \in Nat
           /\ Migrations(step[s] + 1)
                 = Migrations(step[s]) + (IF Rebalances(step[s]) THEN 1 ELSE 0)
           /\ pc[s] \in Place
<1>1. step[s] \in 0 .. Steps - 1
    BY DEF TypeOK
<1>2. step[s] \in Nat
    BY <1>1, HpxStepAssumption
<1>3. \A c \in Comm : calls[s][c] \in Nat /\ posted[c][s][1] = calls[s][c]
    BY DEF TypeOK, CommsOK, Generation
<1>4. {"hist", "bbox", "migrate"} \subseteq Comm
    BY DEF Comm, Phase
<1>5. begun[s] \in Nat /\ pc[s] \in Place
    BY DEF TypeOK, CommsOK
<1>6. /\ Migrations(step[s]) \in Nat
      /\ Migrations(step[s] + 1)
            = Migrations(step[s]) + (IF Rebalances(step[s]) THEN 1 ELSE 0)
    BY <1>2, MigrationsGrow
<1> QED
    BY <1>2, <1>3, <1>4, <1>5, <1>6

\* A collective has returned: the other sites have called it too.
LEMMA ReturnMeets ==
    ASSUME TypeOK, NEW s \in Site, Waited(s)
    PROVE  /\ Returns(s, "bbox") => \A q \in Site : calls[q]["bbox"] >= calls[s]["bbox"]
           /\ Returns(s, "rebbox") => \A q \in Site : calls[q]["bbox"] >= calls[s]["bbox"]
           /\ Returns(s, "hist") => \A q \in Site : calls[q]["hist"] >= calls[s]["hist"]
           /\ Returns(s, "migrate") => \A q \in Site : calls[q]["migrate"] = calls[s]["migrate"]
<1>1. \A q \in Site, c \in {"bbox", "hist", "migrate"} :
         /\ calls[q][c] \in Nat /\ Generation(c, q) = calls[q][c]
  <2>1. {"bbox", "hist", "migrate"} \subseteq Comm
      BY DEF Comm, Phase
  <2> QED
      BY <2>1 DEF TypeOK, CommsOK
<1>2. \A c \in {"bbox", "hist", "migrate"} :
         Arrived(s, c) => \A q \in Site : calls[q][c] = calls[s][c]
    BY <1>1 DEF Arrived, Awaited
<1>3. begun[s] \in Nat
    BY Numbers
<1>4. /\ CommOf("bbox") = "bbox" /\ CommOf("rebbox") = "bbox" /\ CommOf("hist") = "hist"
      /\ CommOf("migrate") = "migrate"
    BY DEF CommOf
<1>5. ASSUME Returns(s, "bbox") PROVE \A q \in Site : calls[q]["bbox"] >= calls[s]["bbox"]
  <2>1. pc[s] = "bbox" /\ begun[s] = 0
      BY <1>3, <1>5 DEF Returns, Waited, Before
  <2>2. Arrived(s, "bbox")
      BY <1>4, <1>5, <2>1 DEF Returns
  <2> QED
      BY <1>1, <1>2, <2>2
<1>6. ASSUME Returns(s, "rebbox") PROVE \A q \in Site : calls[q]["bbox"] >= calls[s]["bbox"]
  <2>1. pc[s] = "rebbox"
      BY <1>6 DEF Returns
  <2>2. begun[s] = 0 => Arrived(s, "bbox")
      BY <1>4, <1>6 DEF Returns
  <2>3. begun[s] > 0 => \A q \in Site : calls[q]["bbox"] >= calls[s]["bbox"]
      BY <2>1 DEF Waited
  <2> QED
      BY <1>1, <1>2, <1>3, <2>2, <2>3
<1>7. ASSUME Returns(s, "hist") PROVE \A q \in Site : calls[q]["hist"] >= calls[s]["hist"]
  <2>1. pc[s] = "hist"
      BY <1>7 DEF Returns
  <2>2. begun[s] = 0 => Arrived(s, "hist")
      BY <1>4, <1>7 DEF Returns
  <2>3. begun[s] > 0 => \A q \in Site : calls[q]["hist"] >= calls[s]["hist"]
      BY <2>1 DEF Waited
  <2> QED
      BY <1>1, <1>2, <1>3, <2>2, <2>3
<1>8. ASSUME Returns(s, "migrate") PROVE \A q \in Site : calls[q]["migrate"] = calls[s]["migrate"]
  <2>1. pc[s] = "migrate" /\ begun[s] = 0
      BY <1>3, <1>8 DEF Returns, Waited, Before
  <2>2. Arrived(s, "migrate")
      BY <1>4, <1>8, <2>1 DEF Returns
  <2> QED
      BY <1>2, <2>2
<1> QED
    BY <1>5, <1>6, <1>7, <1>8

\* A site that has reduced the histogram has left none behind.
LEMMA NobodyBehind ==
    ASSUME Lockstep, NEW s \in Site, Inside(s), pc[s] \notin {"bbox", "hist"}, NEW q \in Site
    PROVE  /\ Inside(q)
           /\ \/ step[q] > step[s]
              \/ step[q] = step[s] /\ pc[q] # "bbox"
<1>1. calls[q]["hist"] >= step[s] + 1
    BY Numbers DEF Lockstep, Met, Inside
<1>2. Inside(q)
    BY <1>1, Numbers DEF Lockstep, Outside, Paced
<1> QED
    BY <1>1, <1>2, Numbers DEF Lockstep, Inside

\* While a site waits for the bodies of a migration, none is further than the
\* bounding box that follows it.
LEMMA AtMigration ==
    ASSUME Lockstep, NEW s \in Site, Inside(s), pc[s] = "migrate", NEW q \in Site
    PROVE  Inside(q) /\ step[q] = step[s] /\ pc[q] \in {"hist", "migrate", "rebbox"}
<1>1. /\ Inside(q)
      /\ step[q] > step[s] \/ (step[q] = step[s] /\ pc[q] # "bbox")
    BY NobodyBehind
<1>2. Rebalances(step[s])
    BY DEF Inside
<1>3. Met(q, s)
    BY DEF Lockstep
<1>4. step[q] <= step[s] + 1
    BY <1>1, <1>3, Numbers DEF Lockstep, Met, Inside
<1>5. step[q] = step[s]
  <2> SUFFICES ASSUME step[q] = step[s] + 1 PROVE FALSE
      BY <1>1, <1>4, Numbers DEF Lockstep
  <2>1. Migrations(step[q]) = Migrations(step[s]) + 1
      BY <1>2, Numbers DEF Lockstep
  <2>2. calls[s]["bbox"] = step[s] + 1 + Migrations(step[s])
      BY Numbers DEF Lockstep, Inside
  <2>3. calls[q]["bbox"] - (IF pc[q] \in {"bbox", "rebbox"} THEN 1 ELSE 0)
           >= step[q] + Migrations(step[q])
      BY <1>1, Numbers DEF Lockstep, Inside
  <2> QED
      BY <1>3, <2>1, <2>2, <2>3, Numbers DEF Lockstep, Met
<1>6. pc[q] \in {"hist", "migrate", "rebbox"}
    BY <1>1, <1>2, <1>3, <1>5, Numbers DEF Lockstep, Met, Inside
<1> QED
    BY <1>1, <1>5, <1>6

\* When the bounding box of a step is known, none has gone further than the
\* histogram.
LEMMA AtBoundingBox ==
    ASSUME Lockstep, NEW s \in Site, pc[s] = "bbox",
           \A q \in Site : calls[q]["bbox"] >= calls[s]["bbox"], NEW q \in Site
    PROVE  Inside(s) /\ Inside(q) /\ step[q] = step[s] /\ pc[q] \in {"bbox", "hist"}
<1>1. Inside(s)
    BY DEF Lockstep, Outside, Before
<1>2. calls[s]["bbox"] = step[s] + 1 + Migrations(step[s]) /\ calls[s]["hist"] = step[s]
    BY <1>1, Numbers DEF Lockstep, Inside
<1>3. Inside(q)
    BY <1>2, Numbers DEF Lockstep, Outside, Paced
<1>4. Met(q, s) /\ Met(s, q) /\ calls[q]["bbox"] >= calls[s]["bbox"]
    BY DEF Lockstep
<1>5. step[q] <= step[s] /\ (pc[q] \notin {"bbox", "hist"} => step[q] + 1 <= step[s])
    BY <1>2, <1>3, <1>4, Numbers DEF Lockstep, Met, Inside
<1>6. step[q] >= step[s] - 1 /\ (pc[q] = "bbox" => step[q] = step[s])
    BY <1>2, <1>3, <1>4, <1>5, Numbers DEF Lockstep, Met, Inside
<1>7. step[q] # step[s] - 1
  <2> SUFFICES ASSUME step[q] = step[s] - 1 PROVE FALSE
      OBVIOUS
  <2>1. Migrations(step[s]) = Migrations(step[q]) + (IF Rebalances(step[q]) THEN 1 ELSE 0)
      BY Numbers DEF Lockstep
  <2>2. calls[q]["bbox"] <= step[q] + 1 + Migrations(step[s])
      BY <1>3, <2>1, Numbers DEF Lockstep, Inside
  <2> QED
      BY <1>2, <1>4, <2>2, Numbers DEF Lockstep
<1> QED
    BY <1>1, <1>3, <1>5, <1>6, <1>7, Numbers DEF Lockstep

\* When the domains of a step that migrates are known to a site, the others are at
\* the histogram or in the same migration, which nobody has fetched.
LEMMA AtHistogram ==
    ASSUME Lockstep, NEW s \in Site, pc[s] = "hist", Rebalances(step[s]),
           \A q \in Site : calls[q]["hist"] >= calls[s]["hist"], NEW q \in Site
    PROVE  /\ Inside(s) /\ Inside(q) /\ step[q] = step[s] /\ pc[q] \in {"hist", "migrate"}
           /\ Fetched(q) = calls[s]["migrate"] /\ calls[s]["migrate"] = Migrations(step[s])
<1>1. Inside(s)
    BY DEF Lockstep, Outside, Before
<1>2. /\ calls[s]["hist"] = step[s] + 1 /\ calls[s]["migrate"] = Migrations(step[s])
      /\ calls[s]["bbox"] = step[s] + 1 + Migrations(step[s])
    BY <1>1, Numbers DEF Lockstep, Inside
<1>3. Inside(q)
    BY <1>2, Numbers DEF Lockstep, Outside, Paced
<1>4. Met(q, s) /\ Met(s, q) /\ calls[q]["hist"] >= calls[s]["hist"]
    BY DEF Lockstep
<1>5. step[q] >= step[s] /\ (step[q] = step[s] => pc[q] # "bbox") /\ step[q] <= step[s] + 1
    BY <1>2, <1>3, <1>4, Numbers DEF Lockstep, Met, Inside
<1>6. step[q] # step[s] + 1
  <2> SUFFICES ASSUME step[q] = step[s] + 1 PROVE FALSE
      OBVIOUS
  <2>1. Migrations(step[q]) = Migrations(step[s]) + 1
      BY Numbers DEF Lockstep
  <2>2. Fetched(q) >= Migrations(step[q]) /\ Fetched(q) \in Int
      BY <1>3, Numbers DEF Lockstep, Inside, Fetched
  <2>3. calls[s]["migrate"] >= Fetched(q)
      BY <1>4 DEF Met
  <2> QED
      BY <1>2, <2>1, <2>2, <2>3, Numbers DEF Lockstep
<1>7. step[q] = step[s]
    BY <1>5, <1>6, Numbers DEF Lockstep
<1>8. pc[q] \in {"hist", "migrate"} /\ Fetched(q) = Migrations(step[s])
    BY <1>2, <1>3, <1>4, <1>5, <1>7, Numbers DEF Lockstep, Met, Inside, Fetched
<1> QED
    BY <1>1, <1>2, <1>3, <1>7, <1>8

----------------------------------------------------------------------------
(* The counts, after each kind of step. *)

LEMMA LockstepNext ==
    ASSUME Lockstep, NEW s \in Site, TypeOK', Stay(s),
           \A c \in Paced : calls'[s][c] >= calls[s][c],
           (Outside(s) \/ Inside(s))',
           \A q \in Site \ {s} :
              /\ calls[q]["hist"] >= calls'[s]["hist"] - (IF pc'[s] = "hist" THEN 1 ELSE 0)
              /\ calls[q]["bbox"]
                    >= calls'[s]["bbox"] - (IF pc'[s] \in {"bbox", "rebbox"} THEN 1 ELSE 0)
              /\ calls[q]["migrate"] >= Fetched(s)'
    PROVE  Lockstep'
<1>1. Paced \subseteq Comm
    BY DEF Paced, Comm, Phase
<1>2. \A q \in Site \ {s} : /\ pc'[q] = pc[q] /\ step'[q] = step[q]
                            /\ \A c \in Paced : calls'[q][c] = calls[q][c]
    BY <1>1 DEF Stay
<1>3. ASSUME NEW q \in Site PROVE (Outside(q) \/ Inside(q))'
  <2>1. CASE q = s
      BY <2>1
  <2>2. CASE q # s
    <3>1. Outside(q) \/ Inside(q)
        BY DEF Lockstep
    <3>2. CASE Outside(q)
        BY <1>2, <2>2, <3>2 DEF Outside
    <3>3. CASE Inside(q)
      <4>1. /\ pc'[q] = pc[q] /\ step'[q] = step[q] /\ calls'[q]["hist"] = calls[q]["hist"]
            /\ calls'[q]["bbox"] = calls[q]["bbox"] /\ calls'[q]["migrate"] = calls[q]["migrate"]
          BY <1>2, <2>2 DEF Paced
      <4> QED
          BY <3>3, <4>1 DEF Inside
    <3> QED
        BY <3>1, <3>2, <3>3
  <2> QED
      BY <2>1, <2>2
<1>4. ASSUME NEW p \in Site, NEW q \in Site PROVE Met(p, q)'
  <2>1. /\ \A c \in Paced : calls'[q][c] >= calls[q][c] /\ calls[q][c] \in Nat /\ calls'[q][c] \in Nat
        /\ \A c \in Paced : calls[p][c] \in Nat /\ calls'[p][c] \in Nat
    <3>1. \A c \in Paced : calls[q][c] \in Nat /\ calls[p][c] \in Nat
        BY <1>1 DEF Lockstep, TypeOK, CommsOK
    <3>2. \A c \in Paced : calls'[q][c] \in Nat /\ calls'[p][c] \in Nat
        BY <1>1 DEF TypeOK, CommsOK
    <3> QED
        BY <1>2, <3>1, <3>2
  <2>2. CASE p = s /\ q = s
      BY <2>1, <2>2 DEF Met, Fetched, Paced
  <2>3. CASE p = s /\ q # s
    <3>1. \A c \in Paced : calls'[q][c] = calls[q][c]
        BY <1>2, <2>3
    <3> QED
        BY <2>1, <2>3, <3>1 DEF Met, Fetched, Paced
  <2>4. CASE p # s
    <3>1. Met(p, q) /\ pc'[p] = pc[p] /\ \A c \in Paced : calls'[p][c] = calls[p][c]
        BY <1>2, <2>4 DEF Lockstep
    <3> QED
        BY <2>1, <3>1 DEF Met, Fetched, Paced
  <2> QED
      BY <2>2, <2>3, <2>4
<1> QED
    BY <1>3, <1>4 DEF Lockstep

LEMMA QuietKeepsStep ==
    ASSUME Lockstep, NEW s \in Site, TypeOK', Quiet(s)
    PROVE  Lockstep'
<1>1. /\ calls'[s]["hist"] = calls[s]["hist"] /\ calls'[s]["bbox"] = calls[s]["bbox"]
      /\ calls'[s]["migrate"] = calls[s]["migrate"] /\ step'[s] = step[s]
      /\ pc[s] \in Place
    BY Numbers DEF Quiet, Keeps, Paced, Lockstep
<1>2. /\ pc'[s] = "hist" <=> pc[s] = "hist"
      /\ pc'[s] \in {"bbox", "rebbox"} <=> pc[s] \in {"bbox", "rebbox"}
      /\ pc'[s] = "migrate" <=> pc[s] = "migrate"
      /\ pc'[s] = "bbox" <=> pc[s] = "bbox"
      /\ pc'[s] = "rebbox" => pc[s] = "rebbox"
    BY <1>1 DEF Quiet, Before, Late, After
<1>3. (Outside(s) \/ Inside(s))'
  <2>1. CASE Outside(s)
    <3>1. pc'[s] \in Before \cup {"done"}
        BY <2>1 DEF Outside, Quiet, Before, Late
    <3> QED
        BY <1>1, <2>1, <3>1 DEF Outside, Paced
  <2>2. CASE Inside(s)
    <3>1. pc'[s] \notin Before
        BY <2>2 DEF Inside, Quiet, Before, Late, After
    <3> QED
        BY <1>1, <1>2, <2>2, <3>1 DEF Inside
  <2> QED
      BY <2>1, <2>2 DEF Lockstep
<1>4. \A q \in Site : Met(s, q)
    BY DEF Lockstep
<1>5. \A q \in Site \ {s} :
         /\ calls[q]["hist"] >= calls'[s]["hist"] - (IF pc'[s] = "hist" THEN 1 ELSE 0)
         /\ calls[q]["bbox"]
               >= calls'[s]["bbox"] - (IF pc'[s] \in {"bbox", "rebbox"} THEN 1 ELSE 0)
         /\ calls[q]["migrate"] >= Fetched(s)'
    BY <1>1, <1>2, <1>4 DEF Met, Fetched
<1>6. \A c \in Paced : calls'[s][c] >= calls[s][c]
    BY <1>1, Numbers DEF Paced, Lockstep
<1>7. Stay(s)
    BY DEF Quiet
<1> QED
    BY <1>3, <1>5, <1>6, <1>7, LockstepNext

\* One call more, on the way through a step.
LEMMA ScatterKeepsStep ==
    ASSUME Lockstep, NEW s \in Site, TypeOK', Stay(s), pc[s] = "scatter", pc'[s] = "bbox",
           step'[s] = step[s], calls'[s]["bbox"] = calls[s]["bbox"] + 1,
           Keeps(s, {"hist", "migrate"})
    PROVE  Lockstep'
<1>1. calls'[s]["hist"] = calls[s]["hist"] /\ calls'[s]["migrate"] = calls[s]["migrate"]
    BY DEF Keeps
<1>2. Outside(s)
    BY DEF Lockstep, Inside, Before
<1>3. /\ step[s] = 0 /\ calls[s]["hist"] = 0 /\ calls[s]["bbox"] = 0 /\ calls[s]["migrate"] = 0
    BY <1>2 DEF Outside, Paced
<1>4. Inside(s)'
  <2>1. Migrations(0) = 0
      BY MigrationsGrow
  <2> QED
      BY <1>1, <1>3, <2>1 DEF Inside, Before
<1>5. \A q \in Site \ {s} :
         /\ calls[q]["hist"] >= calls'[s]["hist"] - (IF pc'[s] = "hist" THEN 1 ELSE 0)
         /\ calls[q]["bbox"]
               >= calls'[s]["bbox"] - (IF pc'[s] \in {"bbox", "rebbox"} THEN 1 ELSE 0)
         /\ calls[q]["migrate"] >= Fetched(s)'
    BY <1>1, <1>3, Numbers DEF Fetched, Lockstep
<1>6. \A c \in Paced : calls'[s][c] >= calls[s][c]
    BY <1>1, <1>3, Numbers DEF Paced, Lockstep
<1> QED
    BY <1>4, <1>5, <1>6, LockstepNext

LEMMA BoxKeepsStep ==
    ASSUME Lockstep, NEW s \in Site, TypeOK', Stay(s), pc[s] = "bbox", pc'[s] = "hist",
           step'[s] = step[s], calls'[s]["hist"] = calls[s]["hist"] + 1,
           Keeps(s, {"bbox", "migrate"}), \A q \in Site : calls[q]["bbox"] >= calls[s]["bbox"]
    PROVE  Lockstep'
<1>1. calls'[s]["bbox"] = calls[s]["bbox"] /\ calls'[s]["migrate"] = calls[s]["migrate"]
    BY DEF Keeps
<1>2. Inside(s)
    BY DEF Lockstep, Outside, Before
<1>3. Inside(s)'
    BY <1>1, <1>2, Numbers DEF Inside, Before, Lockstep
<1>4. \A q \in Site : Met(s, q)
    BY DEF Lockstep
<1>5. \A q \in Site \ {s} :
         /\ calls[q]["hist"] >= calls'[s]["hist"] - (IF pc'[s] = "hist" THEN 1 ELSE 0)
         /\ calls[q]["bbox"]
               >= calls'[s]["bbox"] - (IF pc'[s] \in {"bbox", "rebbox"} THEN 1 ELSE 0)
         /\ calls[q]["migrate"] >= Fetched(s)'
    BY <1>1, <1>4, Numbers DEF Fetched, Lockstep, Met
<1>6. \A c \in Paced : calls'[s][c] >= calls[s][c]
    BY <1>1, Numbers DEF Paced, Lockstep
<1> QED
    BY <1>3, <1>5, <1>6, LockstepNext

LEMMA MigrationKeepsStep ==
    ASSUME Lockstep, NEW s \in Site, TypeOK', Stay(s), pc[s] = "hist", pc'[s] = "migrate",
           step'[s] = step[s], Rebalances(step[s]),
           calls'[s]["migrate"] = calls[s]["migrate"] + 1,
           Keeps(s, {"bbox", "hist"}), \A q \in Site : calls[q]["hist"] >= calls[s]["hist"]
    PROVE  Lockstep'
<1>1. calls'[s]["bbox"] = calls[s]["bbox"] /\ calls'[s]["hist"] = calls[s]["hist"]
    BY DEF Keeps
<1>2. Inside(s)
    BY DEF Lockstep, Outside, Before
<1>3. Inside(s)'
    BY <1>1, <1>2, Numbers DEF Inside, Before, Lockstep
<1>4. \A q \in Site : Met(s, q)
    BY DEF Lockstep
<1>5. \A q \in Site \ {s} :
         /\ calls[q]["hist"] >= calls'[s]["hist"] - (IF pc'[s] = "hist" THEN 1 ELSE 0)
         /\ calls[q]["bbox"]
               >= calls'[s]["bbox"] - (IF pc'[s] \in {"bbox", "rebbox"} THEN 1 ELSE 0)
         /\ calls[q]["migrate"] >= Fetched(s)'
    BY <1>1, <1>4, Numbers DEF Fetched, Lockstep, Met
<1>6. \A c \in Paced : calls'[s][c] >= calls[s][c]
    BY <1>1, Numbers DEF Paced, Lockstep
<1> QED
    BY <1>3, <1>5, <1>6, LockstepNext

LEMMA FetchKeepsStep ==
    ASSUME Lockstep, NEW s \in Site, TypeOK', Stay(s), pc[s] = "migrate", pc'[s] = "rebbox",
           step'[s] = step[s], calls'[s]["bbox"] = calls[s]["bbox"] + 1,
           Keeps(s, {"migrate", "hist"}),
           \A q \in Site : calls[q]["migrate"] = calls[s]["migrate"]
    PROVE  Lockstep'
<1>1. calls'[s]["migrate"] = calls[s]["migrate"] /\ calls'[s]["hist"] = calls[s]["hist"]
    BY DEF Keeps
<1>2. Inside(s)
    BY DEF Lockstep, Outside, Before
<1>3. Inside(s)'
    BY <1>1, <1>2, Numbers DEF Inside, Before, Lockstep
<1>4. \A q \in Site : Met(s, q)
    BY DEF Lockstep
<1>5. \A q \in Site \ {s} :
         /\ calls[q]["hist"] >= calls'[s]["hist"] - (IF pc'[s] = "hist" THEN 1 ELSE 0)
         /\ calls[q]["bbox"]
               >= calls'[s]["bbox"] - (IF pc'[s] \in {"bbox", "rebbox"} THEN 1 ELSE 0)
         /\ calls[q]["migrate"] >= Fetched(s)'
    BY <1>1, <1>4, Numbers DEF Fetched, Lockstep, Met
<1>6. \A c \in Paced : calls'[s][c] >= calls[s][c]
    BY <1>1, Numbers DEF Paced, Lockstep
<1> QED
    BY <1>3, <1>5, <1>6, LockstepNext

\* The trees are built once the histogram is reduced, or the bounding box again.
LEMMA BuildKeepsStep ==
    ASSUME Lockstep, NEW s \in Site, TypeOK', Stay(s), pc'[s] = "exchange",
           step'[s] = step[s], Keeps(s, Paced),
           \/ /\ pc[s] = "hist" /\ ~Rebalances(step[s])
              /\ \A q \in Site : calls[q]["hist"] >= calls[s]["hist"]
           \/ /\ pc[s] = "rebbox"
              /\ \A q \in Site : calls[q]["bbox"] >= calls[s]["bbox"]
    PROVE  Lockstep'
<1>1. /\ calls'[s]["migrate"] = calls[s]["migrate"] /\ calls'[s]["hist"] = calls[s]["hist"]
      /\ calls'[s]["bbox"] = calls[s]["bbox"]
    BY DEF Keeps, Paced
<1>2. Inside(s)
    BY DEF Lockstep, Outside, Before
<1>3. Inside(s)'
    BY <1>1, <1>2, Numbers DEF Inside, Before, Lockstep
<1>4. \A q \in Site : Met(s, q)
    BY DEF Lockstep
<1>5. \A q \in Site \ {s} :
         /\ calls[q]["hist"] >= calls'[s]["hist"] - (IF pc'[s] = "hist" THEN 1 ELSE 0)
         /\ calls[q]["bbox"]
               >= calls'[s]["bbox"] - (IF pc'[s] \in {"bbox", "rebbox"} THEN 1 ELSE 0)
         /\ calls[q]["migrate"] >= Fetched(s)'
    BY <1>1, <1>4, Numbers DEF Fetched, Lockstep, Met
<1>6. \A c \in Paced : calls'[s][c] >= calls[s][c]
    BY <1>1, Numbers DEF Paced, Lockstep
<1> QED
    BY <1>3, <1>5, <1>6, LockstepNext

LEMMA AdvanceKeepsStep ==
    ASSUME Lockstep, NEW s \in Site, TypeOK', Advances(s)
    PROVE  Lockstep'
<1>1. /\ calls'[s]["migrate"] = calls[s]["migrate"] /\ calls'[s]["hist"] = calls[s]["hist"]
      /\ calls'[s]["bbox"] = calls[s]["bbox"] + 1 /\ step'[s] = step[s] + 1
      /\ pc[s] \in Late /\ pc'[s] = "bbox" /\ Stay(s)
    BY DEF Keeps, Paced, Advances
<1>2. Inside(s)
    BY <1>1 DEF Lockstep, Outside, Before, Late
<1>3. Inside(s)'
  <2>1. Migrations(step[s] + 1)
           = Migrations(step[s]) + (IF Rebalances(step[s]) THEN 1 ELSE 0)
      BY Numbers DEF Lockstep
  <2>2. pc[s] \notin {"bbox", "hist", "migrate", "rebbox"}
      BY <1>1 DEF Late
  <2> QED
      BY <1>1, <1>2, <2>1, <2>2, Numbers DEF Inside, Before, Lockstep
<1>4. \A q \in Site : Met(s, q)
    BY DEF Lockstep
<1>5. \A q \in Site \ {s} :
         /\ calls[q]["hist"] >= calls'[s]["hist"] - (IF pc'[s] = "hist" THEN 1 ELSE 0)
         /\ calls[q]["bbox"]
               >= calls'[s]["bbox"] - (IF pc'[s] \in {"bbox", "rebbox"} THEN 1 ELSE 0)
         /\ calls[q]["migrate"] >= Fetched(s)'
    BY <1>1, <1>4, Numbers DEF Fetched, Lockstep, Met, Late
<1>6. \A c \in Paced : calls'[s][c] >= calls[s][c]
    BY <1>1, Numbers DEF Paced, Lockstep
<1> QED
    BY <1>1, <1>3, <1>5, <1>6, LockstepNext

----------------------------------------------------------------------------
(* The bodies and the domains, after each kind of step. *)

LEMMA GlobalStays ==
    ASSUME NEW s \in Site, Stay(s), Keeps(s, {"hist"})
    PROVE  /\ GlobalHistogram' = GlobalHistogram /\ HomeDomains' = HomeDomains
           /\ \A q \in Site : Contribution("hist", q)' = Contribution("hist", q)
                              /\ calls'[q]["hist"] = calls[q]["hist"]
<1>1. \A q \in Site : /\ posted'["hist"][q] = posted["hist"][q]
                      /\ calls'[q]["hist"] = calls[q]["hist"]
  <2>1. "hist" \in Comm
      BY DEF Comm, Phase
  <2> QED
      BY <2>1 DEF Stay, Keeps
<1>2. \A q \in Site : Contribution("hist", q)' = Contribution("hist", q)
    BY <1>1 DEF Contribution
<1>3. GlobalHistogram' = GlobalHistogram
    BY <1>2 DEF GlobalHistogram
<1> QED
    BY <1>1, <1>2, <1>3 DEF HomeDomains

LEMMA PartsOfOthers ==
    ASSUME NEW s \in Site, Stay(s), NEW q \in Site \ {s}
    PROVE  Part(q)' = Part(q) /\ Bodies(q)' = Bodies(q)
<1>1. "bbox" \in Comm
    BY DEF Comm, Phase
<1>2. local'[q] = local[q] /\ calls'[q]["bbox"] = calls[q]["bbox"]
    BY <1>1 DEF Stay
<1> QED
    BY <1>2 DEF Part, Bodies

LEMMA WhereaboutsStay ==
    ASSUME NEW s \in Site, Stay(s), Keeps(s, {"migrate"}),
           pc'[s] = "migrate" <=> pc[s] = "migrate", Part(s)' = Part(s), NEW i \in Body
    PROVE  Holders(i)' = Holders(i) /\ Flights(i)' = Flights(i)
<1>1. \A q \in Site : Part(q)' = Part(q) /\ (pc'[q] = "migrate" <=> pc[q] = "migrate")
    BY PartsOfOthers DEF Stay
<1>2. \A q \in Site : /\ posted'["migrate"][q] = posted["migrate"][q]
                      /\ calls'[q]["migrate"] = calls[q]["migrate"]
  <2>1. "migrate" \in Comm
      BY DEF Comm, Phase
  <2> QED
      BY <2>1 DEF Stay, Keeps
<1>3. \A q \in Site : /\ Generation("migrate", q)' = Generation("migrate", q)
                      /\ Contribution("migrate", q)' = Contribution("migrate", q)
                      /\ Fetched(q)' = Fetched(q)
    BY <1>1, <1>2 DEF Generation, Contribution, Fetched
<1>4. Holders(i)' = Holders(i)
    BY <1>1 DEF Holders
<1>5. Flights(i)' = Flights(i)
    BY <1>3 DEF Flights
<1> QED
    BY <1>4, <1>5

\* A site's step leaves the bodies of the others where they are.
LEMMA PlacesOfOthers ==
    ASSUME NEW s \in Site, Stay(s), Keeps(s, {"hist"}), NEW i \in Body, InPlace(i),
           \/ keyOf'[i] = keyOf[i]
           \/ /\ Flights(i)' = {}
              /\ \A q \in Site \ {s} : pc[q] \in HasDomains \ {"migrate"} => i \notin Bodies(q),
           \A e \in Flights(i)' : e \in Flights(i) \/ Bucket(keyOf[i]) \in HomeDomains[e[2]],
           (Rebalances(step[s]) /\ pc[s] \in HasDomains \ {"migrate"} /\ i \in Bodies(s))'
              => Bucket(keyOf'[i]) \in HomeDomains[s]
    PROVE  InPlace(i)'
<1>1. HomeDomains' = HomeDomains
    BY GlobalStays
<1>2. ASSUME NEW q \in Site,
             (Rebalances(step[q]) /\ pc[q] \in HasDomains \ {"migrate"} /\ i \in Bodies(q))'
      PROVE  Bucket(keyOf'[i]) \in HomeDomains[q]
  <2>1. CASE q = s
      BY <1>2, <2>1
  <2>2. CASE q # s
    <3>1. Bodies(q)' = Bodies(q) /\ pc'[q] = pc[q] /\ step'[q] = step[q]
        BY <2>2, PartsOfOthers DEF Stay
    <3>2. /\ Rebalances(step[q]) /\ pc[q] \in HasDomains \ {"migrate"} /\ i \in Bodies(q)
        BY <1>2, <3>1 DEF Rebalances
    <3>3. keyOf'[i] = keyOf[i]
        BY <2>2, <3>2
    <3> QED
        BY <3>2, <3>3 DEF InPlace
  <2> QED
      BY <2>1, <2>2
<1>3. ASSUME NEW e \in Flights(i)' PROVE Bucket(keyOf'[i]) \in HomeDomains[e[2]]
    BY <1>3 DEF InPlace
<1> QED
    BY <1>1, <1>2, <1>3 DEF InPlace

\* What a site has reduced, and knows of the domains.
LEMMA ReducedOthers ==
    ASSUME NEW s \in Site, Stay(s), NEW q \in Site \ {s}, Reduced(q),
           pc[q] = "hist" => \A i \in Bodies(q) : keyOf'[i] = keyOf[i]
    PROVE  Reduced(q)'
<1>1. "hist" \in Comm /\ "migrate" \in Comm
    BY DEF Comm, Phase
<1>2. /\ posted'["hist"][q] = posted["hist"][q] /\ calls'[q]["hist"] = calls[q]["hist"]
      /\ posted'["migrate"][q] = posted["migrate"][q]
      /\ calls'[q]["migrate"] = calls[q]["migrate"] /\ pc'[q] = pc[q]
    BY <1>1 DEF Stay
<1>3. /\ Contribution("hist", q)' = Contribution("hist", q) /\ Bodies(q)' = Bodies(q)
      /\ Contribution("migrate", q)' = Contribution("migrate", q)
    BY <1>2, PartsOfOthers DEF Contribution
<1>4. ASSUME pc[q] = "hist" PROVE Histogram(Bodies(q))' = Histogram(Bodies(q))
  <2>1. \A c : {i \in Bodies(q) : Bucket(keyOf'[i]) = c} = {i \in Bodies(q) : Bucket(keyOf[i]) = c}
      BY <1>4
  <2> QED
      BY <1>3, <2>1 DEF Histogram
<1> QED
    BY <1>2, <1>3, <1>4 DEF Reduced

LEMMA DomainsOfOthers ==
    ASSUME NEW s \in Site, Stay(s), Keeps(s, {"hist"}), NEW q \in Site \ {s}, DomainsOf(q)
    PROVE  DomainsOf(q)'
<1>1. GlobalHistogram' = GlobalHistogram /\ HomeDomains' = HomeDomains
    BY GlobalStays
<1>2. pc'[q] = pc[q] /\ splitters'[q] = splitters[q] /\ domains'[q] = domains[q]
    BY DEF Stay
<1> QED
    BY <1>1, <1>2 DEF DomainsOf

LEMMA MatterNext ==
    ASSUME Matter, NEW s \in Site, Stay(s), Keeps(s, {"hist"}),
           \A q \in Site \ {s} : pc[q] = "hist" => \A i \in Bodies(q) : keyOf'[i] = keyOf[i],
           Reduced(s)', DomainsOf(s)',
           \A i \in Body : Kept(i)' /\ InPlace(i)'
    PROVE  Matter'
<1>1. ASSUME NEW q \in Site PROVE Reduced(q)' /\ DomainsOf(q)'
  <2>1. CASE q = s
      BY <2>1
  <2>2. CASE q # s
    <3>1. q \in Site \ {s} /\ Reduced(q) /\ DomainsOf(q)
        BY <2>2 DEF Matter
    <3>2. Reduced(q)'
        BY <3>1, ReducedOthers
    <3>3. DomainsOf(q)'
        BY <3>1, DomainsOfOthers
    <3> QED
        BY <3>2, <3>3
  <2> QED
      BY <2>1, <2>2
<1> QED
    BY <1>1 DEF Matter

\* The bodies of a site that has begun are those of its arrays.
LEMMA InsideHas ==
    ASSUME Lockstep, NEW s \in Site, Inside(s)
    PROVE  Part(s) = Bodies(s) /\ calls[s]["bbox"] > 0 /\ calls[s]["bbox"] \in Nat
<1>1. calls[s]["bbox"] > 0 /\ calls[s]["bbox"] \in Nat
    BY Numbers DEF Inside, Lockstep
<1> QED
    BY <1>1 DEF Part

LEMMA QuietKeepsMatter ==
    ASSUME Lockstep, Matter, NEW s \in Site, Quiet(s)
    PROVE  Matter'
<1>1. /\ Stay(s) /\ Keeps(s, Paced) /\ keyOf' = keyOf /\ local' = local /\ step' = step
      /\ domains' = domains /\ splitters' = splitters
    BY DEF Quiet
<1>2. /\ Keeps(s, {"hist"}) /\ Keeps(s, {"migrate"}) /\ calls'[s]["bbox"] = calls[s]["bbox"]
      /\ calls'[s]["migrate"] = calls[s]["migrate"]
      /\ posted'["migrate"][s] = posted["migrate"][s]
    BY <1>1 DEF Keeps, Paced
<1>3. /\ pc'[s] = "hist" => pc[s] = "hist"
      /\ pc'[s] = "migrate" <=> pc[s] = "migrate"
      /\ pc'[s] \in HasDomains => pc[s] \in HasDomains
      /\ pc'[s] \in HasDomains \ {"migrate"} => pc[s] \in HasDomains \ {"migrate"}
  <2>1. pc[s] \in Place
      BY Numbers DEF Lockstep
  <2> QED
      BY <2>1 DEF Quiet, Before, Late, After, HasDomains, Sampling, Place
<1>4. /\ Contribution("hist", s)' = Contribution("hist", s)
      /\ Contribution("migrate", s)' = Contribution("migrate", s)
      /\ calls'[s]["hist"] = calls[s]["hist"]
      /\ GlobalHistogram' = GlobalHistogram /\ HomeDomains' = HomeDomains
    BY <1>1, <1>2, GlobalStays DEF Contribution
<1>5. Bodies(s)' = Bodies(s) /\ Part(s)' = Part(s)
    BY <1>1, <1>2 DEF Bodies, Part
<1>6. Reduced(s)'
  <2>1. Histogram(Bodies(s))' = Histogram(Bodies(s))
      BY <1>1, <1>5 DEF Histogram
  <2>2. Reduced(s)
      BY DEF Matter
  <2> QED
      BY <1>2, <1>3, <1>4, <2>1, <2>2 DEF Reduced
<1>7. DomainsOf(s)'
    BY <1>1, <1>3, <1>4 DEF Matter, DomainsOf
<1>8. ASSUME NEW i \in Body PROVE Kept(i)' /\ InPlace(i)'
  <2>1. Holders(i)' = Holders(i) /\ Flights(i)' = Flights(i)
      BY <1>1, <1>2, <1>3, <1>5, WhereaboutsStay
  <2>2. Kept(i)'
      BY <2>1 DEF Kept, Matter
  <2>3. InPlace(i)
      BY DEF Matter
  <2>4. (Rebalances(step[s]) /\ pc[s] \in HasDomains \ {"migrate"} /\ i \in Bodies(s))'
           => Bucket(keyOf'[i]) \in HomeDomains[s]
      BY <1>1, <1>3, <1>5, <2>3 DEF InPlace, Rebalances
  <2>5. InPlace(i)'
      BY <1>1, <1>2, <2>1, <2>3, <2>4, PlacesOfOthers
  <2> QED
      BY <2>2, <2>5
<1> QED
    BY <1>1, <1>2, <1>6, <1>7, <1>8, MatterNext

LEMMA ScatterKeepsMatter ==
    ASSUME Lockstep, Matter, NEW s \in Site, Stay(s), pc[s] = "scatter", pc'[s] = "bbox",
           Keeps(s, {"hist", "migrate"}), calls'[s]["bbox"] = calls[s]["bbox"] + 1,
           local'[s] = Slice(s), keyOf' = keyOf
    PROVE  Matter'
<1>1. Keeps(s, {"hist"}) /\ Keeps(s, {"migrate"})
      /\ calls'[s]["hist"] = calls[s]["hist"] /\ calls'[s]["migrate"] = calls[s]["migrate"]
    BY DEF Keeps
<1>2. calls[s]["bbox"] = 0 /\ calls[s]["hist"] = 0 /\ calls[s]["migrate"] = 0
    BY DEF Lockstep, Inside, Before, Outside, Paced
<1>3. Part(s)' = Part(s)
    BY <1>2 DEF Part, Bodies
<1>4. Reduced(s)'
    BY <1>1, <1>2 DEF Reduced
<1>5. DomainsOf(s)'
    BY DEF DomainsOf, HasDomains, Sampling
<1>6. ASSUME NEW i \in Body PROVE Kept(i)' /\ InPlace(i)'
  <2>1. Holders(i)' = Holders(i) /\ Flights(i)' = Flights(i)
      BY <1>1, <1>3, WhereaboutsStay
  <2>2. Kept(i)'
      BY <2>1 DEF Kept, Matter
  <2>3. InPlace(i)
      BY DEF Matter
  <2>4. ~(pc'[s] \in HasDomains \ {"migrate"})
      BY DEF HasDomains, Sampling
  <2>5. InPlace(i)'
      BY <1>1, <2>1, <2>3, <2>4, PlacesOfOthers
  <2> QED
      BY <2>2, <2>5
<1> QED
    BY <1>1, <1>4, <1>5, <1>6, MatterNext

\* What is counted of finitely many bodies.
LEMMA HistogramCounts ==
    ASSUME NEW S \in SUBSET Body
    PROVE  /\ Histogram(S) \in [Buckets -> Nat]
           /\ \A i \in S : Bucket(keyOf[i]) \in Buckets => Histogram(S)[Bucket(keyOf[i])] > 0
<1> DEFINE of(c) == {i \in S : Bucket(keyOf[i]) = c}
<1>1. ASSUME NEW c \in Buckets
      PROVE  IsFiniteSet(of(c)) /\ Cardinality(of(c)) \in Nat /\ (of(c) # {} => Cardinality(of(c)) > 0)
  <2>1. IsFiniteSet(Body)
    <3> DEFINE n == NumBodies
    <3>1. n \in Nat
        BY NumBodiesAssumption
    <3> HIDE DEF n
    <3>2. IsFiniteSet(1 .. n)
        BY <3>1, FS_Interval
    <3> QED
        BY <3>2 DEF Body, n
  <2>2. of(c) \subseteq Body
      OBVIOUS
  <2> HIDE DEF of
  <2>3. IsFiniteSet(of(c))
      BY <2>1, <2>2, FS_Subset
  <2> QED
      BY <2>3, FS_CardinalityType, FS_EmptySet
<1>2. Histogram(S) = [c \in Buckets |-> Cardinality(of(c))]
    BY DEF Histogram, Buckets
<1>3. \A i \in S : i \in of(Bucket(keyOf[i]))
    OBVIOUS
<1> HIDE DEF of
<1> QED
    BY <1>1, <1>2, <1>3

LEMMA BoxKeepsMatter ==
    ASSUME Lockstep, Matter, NEW s \in Site, Stay(s), pc[s] = "bbox", pc'[s] = "hist",
           Keeps(s, {"bbox", "migrate"}), Contribution("hist", s)' = Histogram(Bodies(s)),
           \A q \in Site : calls[q]["bbox"] >= calls[s]["bbox"],
           local' = local, keyOf' = keyOf, step' = step
    PROVE  Matter'
<1>1. /\ Keeps(s, {"migrate"}) /\ calls'[s]["migrate"] = calls[s]["migrate"]
      /\ Contribution("migrate", s)' = Contribution("migrate", s)
      /\ calls'[s]["bbox"] = calls[s]["bbox"]
    BY DEF Keeps, Contribution
<1>2. \A q \in Site : Inside(q) /\ step[q] = step[s] /\ pc[q] \in {"bbox", "hist"}
    BY AtBoundingBox
<1>3. \A q \in Site : pc'[q] \notin HasDomains
    BY <1>2 DEF Stay, HasDomains, Sampling
<1>4. Part(s)' = Part(s) /\ Bodies(s)' = Bodies(s)
    BY <1>1 DEF Part, Bodies
<1>5. Reduced(s)'
  <2>1. Bodies(s) \in SUBSET Body
      BY DEF Lockstep, TypeOK, Bodies, Range
  <2>2. Histogram(Bodies(s)) \in [Buckets -> Nat]
      BY <2>1, HistogramCounts
  <2>3. Histogram(Bodies(s))' = Histogram(Bodies(s))
      BY <1>4 DEF Histogram
  <2>4. Reduced(s)
      BY DEF Matter
  <2> QED
      BY <1>1, <2>2, <2>3, <2>4 DEF Reduced, Buckets, NumBuckets
<1>6. ASSUME NEW q \in Site PROVE Reduced(q)' /\ DomainsOf(q)'
  <2>1. q # s => Reduced(q)'
    <3>1. Reduced(q)
        BY DEF Matter
    <3> QED
        BY <3>1, ReducedOthers
  <2> QED
      BY <1>3, <1>5, <2>1 DEF DomainsOf
<1>7. ASSUME NEW i \in Body PROVE Kept(i)' /\ InPlace(i)'
  <2>1. Holders(i)' = Holders(i) /\ Flights(i)' = Flights(i)
      BY <1>1, <1>4, WhereaboutsStay
  <2>2. Kept(i)'
      BY <2>1 DEF Kept, Matter
  <2>3. Flights(i) = {}
    <3>1. \A q \in Site : Generation("migrate", q) = Migrations(step[s]) /\ Fetched(q) = Migrations(step[s])
                          /\ Migrations(step[s]) \in Nat
      <4> SUFFICES ASSUME NEW q \in Site
                   PROVE  /\ Generation("migrate", q) = Migrations(step[s])
                          /\ Fetched(q) = Migrations(step[s]) /\ Migrations(step[s]) \in Nat
          OBVIOUS
      <4>1. "migrate" \in Comm
          BY DEF Comm, Phase
      <4>2. Generation("migrate", q) = calls[q]["migrate"]
          BY <4>1 DEF Lockstep, TypeOK, CommsOK
      <4> QED
          BY <1>2, <4>2, Numbers DEF Inside, Fetched, Lockstep
    <3> QED
        BY <3>1 DEF Flights
  <2>4. InPlace(i)'
      BY <1>3, <2>1, <2>3 DEF InPlace
  <2> QED
      BY <2>2, <2>4
<1> QED
    BY <1>6, <1>7 DEF Matter

LEMMA BuildKeepsMatter ==
    ASSUME Lockstep, Matter, NEW s \in Site, Stay(s), pc'[s] = "exchange",
           Keeps(s, Paced), keyOf' = keyOf, step' = step, Bodies(s)' = Bodies(s),
           \/ /\ pc[s] = "hist" /\ ~Rebalances(step[s])
              /\ splitters'[s] = Splitters(GlobalHistogram) /\ domains'[s] = HomeDomains
           \/ /\ pc[s] = "rebbox" /\ splitters'[s] = splitters[s] /\ domains'[s] = domains[s]
    PROVE  Matter'
<1>1. /\ Keeps(s, {"hist"}) /\ Keeps(s, {"migrate"}) /\ calls'[s]["bbox"] = calls[s]["bbox"]
      /\ calls'[s]["migrate"] = calls[s]["migrate"] /\ calls'[s]["hist"] = calls[s]["hist"]
      /\ Contribution("migrate", s)' = Contribution("migrate", s)
      /\ Contribution("hist", s)' = Contribution("hist", s)
    BY DEF Keeps, Paced, Contribution
<1>2. Inside(s) /\ Part(s) = Bodies(s)
  <2>1. Inside(s)
      BY DEF Lockstep, Outside, Before
  <2> QED
      BY <2>1, InsideHas
<1>3. Part(s)' = Part(s)
    BY <1>1, <1>2 DEF Part
<1>4. Reduced(s)'
    BY <1>1 DEF Matter, Reduced
<1>5. GlobalHistogram' = GlobalHistogram /\ HomeDomains' = HomeDomains
    BY <1>1, GlobalStays
<1>6. DomainsOf(s)'
  <2>1. pc[s] = "rebbox" => pc[s] \in HasDomains
      BY DEF HasDomains
  <2>2. DomainsOf(s)
      BY DEF Matter
  <2> QED
      BY <1>5, <2>1, <2>2 DEF DomainsOf
<1>7. ASSUME NEW i \in Body PROVE Kept(i)' /\ InPlace(i)'
  <2>1. Holders(i)' = Holders(i) /\ Flights(i)' = Flights(i)
      BY <1>1, <1>3, WhereaboutsStay
  <2>2. Kept(i)'
      BY <2>1 DEF Kept, Matter
  <2>3. InPlace(i)
      BY DEF Matter
  <2>4. (Rebalances(step[s]) /\ pc[s] \in HasDomains \ {"migrate"} /\ i \in Bodies(s))'
           => Bucket(keyOf'[i]) \in HomeDomains[s]
    <3>1. pc[s] = "rebbox" => pc[s] \in HasDomains \ {"migrate"}
        BY DEF HasDomains
    <3> QED
        BY <2>3, <3>1 DEF InPlace, Rebalances
  <2>5. InPlace(i)'
      BY <1>1, <2>1, <2>3, <2>4, PlacesOfOthers
  <2> QED
      BY <2>2, <2>5
<1> QED
    BY <1>1, <1>4, <1>6, <1>7, MatterNext

\* The bodies of two sites are not the same, and of a site's none is on its way.
LEMMA OneHolder ==
    ASSUME Lockstep, Matter, NEW s \in Site, Inside(s), pc[s] # "migrate", NEW i \in Bodies(s)
    PROVE  Holders(i) = {s} /\ Flights(i) = {}
<1>1. i \in Body
    BY DEF Lockstep, TypeOK, Bodies, Range
<1>2. s \in Holders(i)
    BY InsideHas DEF Holders
<1>3. Kept(i)
    BY <1>1 DEF Matter
<1> QED
    BY <1>2, <1>3 DEF Kept

LEMMA AdvanceKeepsMatter ==
    ASSUME Lockstep, Matter, NEW s \in Site, Advances(s)
    PROVE  Matter'
<1>1. /\ Stay(s) /\ Keeps(s, {"hist"}) /\ Keeps(s, {"migrate"})
      /\ calls'[s]["bbox"] = calls[s]["bbox"] + 1
      /\ calls'[s]["migrate"] = calls[s]["migrate"] /\ calls'[s]["hist"] = calls[s]["hist"]
      /\ Contribution("migrate", s)' = Contribution("migrate", s)
      /\ Contribution("hist", s)' = Contribution("hist", s)
      /\ local' = local /\ pc[s] \in Late /\ pc'[s] = "bbox"
      /\ \A i \in Body : i \notin Bodies(s) => keyOf'[i] = keyOf[i]
    BY DEF Advances, Keeps, Paced, Contribution
<1>2. Inside(s)
    BY <1>1 DEF Lockstep, Outside, Before, Late
<1>3. Part(s)' = Part(s)
  <2>1. Part(s) = Bodies(s) /\ calls[s]["bbox"] > 0 /\ calls[s]["bbox"] \in Nat
      BY <1>2, InsideHas
  <2>2. ~(calls'[s]["bbox"] = 0)
      BY <1>1, <2>1
  <2>3. Bodies(s)' = Bodies(s)
      BY <1>1 DEF Bodies
  <2> QED
      BY <2>1, <2>2, <2>3 DEF Part
<1>4. Reduced(s)'
    BY <1>1 DEF Matter, Reduced
<1>5. DomainsOf(s)'
    BY <1>1 DEF DomainsOf, HasDomains, Sampling
<1>6. ASSUME NEW i \in Bodies(s), NEW q \in Site \ {s}, Inside(q), pc[q] # "migrate"
      PROVE  i \notin Bodies(q)
  <2>1. Holders(i) = {s}
      BY <1>1, <1>2, OneHolder DEF Late
  <2>2. i \in Bodies(q) => Holders(i) = {q}
      BY <1>6, OneHolder
  <2> QED
      BY <1>6, <2>1, <2>2
<1>7. ASSUME NEW q \in Site \ {s}, pc[q] = "hist", NEW i \in Bodies(q) PROVE keyOf'[i] = keyOf[i]
  <2>1. i \in Body
      BY DEF Lockstep, TypeOK, Bodies, Range
  <2>2. Inside(q)
      BY <1>7 DEF Lockstep, Outside, Before
  <2>3. i \notin Bodies(s)
      BY <1>6, <1>7, <2>2
  <2> QED
      BY <1>1, <2>1, <2>3
<1>8. ASSUME NEW i \in Body PROVE Kept(i)' /\ InPlace(i)'
  <2>1. Holders(i)' = Holders(i) /\ Flights(i)' = Flights(i)
    <3>1. pc'[s] # "migrate" /\ pc[s] # "migrate"
        BY <1>1 DEF Late
    <3> QED
        BY <1>1, <1>3, <3>1, WhereaboutsStay
  <2>2. Kept(i)'
      BY <2>1 DEF Kept, Matter
  <2>3. InPlace(i)
      BY DEF Matter
  <2>4. ~(pc'[s] \in HasDomains \ {"migrate"})
      BY <1>1 DEF HasDomains, Sampling
  <2>5. \/ keyOf'[i] = keyOf[i]
        \/ /\ Flights(i)' = {}
           /\ \A q \in Site \ {s} : pc[q] \in HasDomains \ {"migrate"} => i \notin Bodies(q)
    <3>1. CASE i \in Bodies(s)
      <4>1. Flights(i) = {}
          BY <1>1, <1>2, <3>1, OneHolder DEF Late
      <4>2. ASSUME NEW q \in Site \ {s}, pc[q] \in HasDomains \ {"migrate"} PROVE i \notin Bodies(q)
        <5>1. Inside(q)
            BY <4>2 DEF Lockstep, Outside, Before, HasDomains, Sampling
        <5> QED
            BY <1>6, <3>1, <4>2, <5>1
      <4> QED
          BY <2>1, <4>1, <4>2
    <3>2. CASE i \notin Bodies(s)
        BY <1>1, <3>2
    <3> QED
        BY <3>1, <3>2
  <2>6. InPlace(i)'
      BY <1>1, <2>1, <2>3, <2>4, <2>5, PlacesOfOthers
  <2> QED
      BY <2>2, <2>6
<1> QED
    BY <1>1, <1>4, <1>5, <1>7, <1>8, MatterNext

\* What a site fetches is all that is on its way to it.
LEMMA IncomingHas ==
    ASSUME NEW s \in Site, \A q \in Site : Contribution("migrate", q)[s] \in Seq(Body)
    PROVE  /\ Incoming(s) \in Seq(Body)
           /\ Range(Incoming(s)) = {i \in Body : \E q \in Site : i \in Range(Contribution("migrate", q)[s])}
<1> DEFINE seqs == [n \in 1 .. Size |-> Contribution("migrate", n - 1)[s]]
<1>1. Size \in Nat \ {0}
    BY HpxStepAssumption
<1>2. /\ \A n \in 1 .. Size : n - 1 \in Site
      /\ \A q \in Site : q + 1 \in 1 .. Size /\ (q + 1) - 1 = q
    BY <1>1 DEF Site
<1>3. seqs \in [1 .. Size -> Seq(Body)]
    BY <1>2
<1>4. Incoming(s) = FlattenSeq(seqs)
    BY DEF Incoming, Arrivals
<1>5. /\ \A n \in 1 .. Size : seqs[n] = Contribution("migrate", n - 1)[s]
      /\ \A q \in Site : seqs[q + 1] = Contribution("migrate", q)[s]
    BY <1>2
<1> HIDE DEF seqs
<1>6. FlattenSeq(seqs) \in Seq(Body) /\ Range(FlattenSeq(seqs)) = UNION {Range(seqs[n]) : n \in 1 .. Size}
    BY <1>1, <1>3, FlatHasAll
<1>7. ASSUME NEW i PROVE i \in UNION {Range(seqs[n]) : n \in 1 .. Size}
                         <=> \E q \in Site : i \in Range(Contribution("migrate", q)[s])
  <2>1. ASSUME NEW q \in Site, i \in Range(Contribution("migrate", q)[s])
        PROVE  i \in UNION {Range(seqs[n]) : n \in 1 .. Size}
    <3>1. i \in Range(seqs[q + 1]) /\ q + 1 \in 1 .. Size
        BY <1>2, <1>5, <2>1
    <3> QED
        BY <3>1
  <2>2. ASSUME NEW n \in 1 .. Size, i \in Range(seqs[n])
        PROVE  \E q \in Site : i \in Range(Contribution("migrate", q)[s])
    <3>1. n - 1 \in Site /\ i \in Range(Contribution("migrate", n - 1)[s])
        BY <1>2, <1>5, <2>2
    <3> QED
        BY <3>1
  <2> QED
      BY <2>1, <2>2
<1>8. \A q \in Site : Range(Contribution("migrate", q)[s]) \subseteq Body
    BY DEF Range
<1> QED
    BY <1>4, <1>6, <1>7, <1>8

LEMMA FetchKeepsMatter ==
    ASSUME Lockstep, Matter, NEW s \in Site, Stay(s), pc[s] = "migrate", pc'[s] = "rebbox",
           Keeps(s, {"migrate", "hist"}), calls'[s]["bbox"] = calls[s]["bbox"] + 1,
           \A q \in Site : calls[q]["migrate"] = calls[s]["migrate"],
           keyOf' = keyOf, step' = step, local'[s] = Incoming(s),
           splitters'[s] = splitters[s], domains'[s] = domains[s]
    PROVE  Matter'
<1>1. /\ Keeps(s, {"hist"})
      /\ calls'[s]["migrate"] = calls[s]["migrate"] /\ calls'[s]["hist"] = calls[s]["hist"]
      /\ Contribution("migrate", s)' = Contribution("migrate", s)
      /\ Contribution("hist", s)' = Contribution("hist", s)
    BY DEF Keeps, Contribution
<1>2. Inside(s)
    BY DEF Lockstep, Outside, Before
<1>3. calls[s]["migrate"] > 0 /\ calls[s]["migrate"] \in Nat
    BY <1>2, Numbers DEF Inside, Lockstep
<1>4. /\ Incoming(s) \in Seq(Body)
      /\ Range(Incoming(s)) = {i \in Body : \E q \in Site : i \in Range(Contribution("migrate", q)[s])}
  <2>1. \A q \in Site : Contribution("migrate", q)[s] \in Seq(Body)
      BY <1>3 DEF Matter, Reduced
  <2> QED
      BY <2>1, IncomingHas
<1>5. Part(s)' = Range(Incoming(s)) /\ Bodies(s)' = Range(Incoming(s))
  <2>1. calls[s]["bbox"] \in Nat /\ ~(calls'[s]["bbox"] = 0)
      BY Numbers DEF Lockstep
  <2> QED
      BY <2>1 DEF Part, Bodies
<1>6. \A q \in Site : /\ Generation("migrate", q) = calls[s]["migrate"]
                      /\ Generation("migrate", q)' = calls[s]["migrate"]
                      /\ Contribution("migrate", q)' = Contribution("migrate", q)
                      /\ (q # s => Fetched(q)' = Fetched(q))
  <2>1. "migrate" \in Comm
      BY DEF Comm, Phase
  <2>2. \A q \in Site : posted'["migrate"][q] = posted["migrate"][q]
      BY <2>1 DEF Stay, Keeps
  <2>3. \A q \in Site : Generation("migrate", q) = calls[s]["migrate"]
      BY <2>1 DEF Lockstep, TypeOK, CommsOK
  <2>4. \A q \in Site \ {s} : calls'[q]["migrate"] = calls[q]["migrate"] /\ pc'[q] = pc[q]
      BY <2>1 DEF Stay
  <2> QED
      BY <2>2, <2>3, <2>4 DEF Generation, Contribution, Fetched
<1>7. Fetched(s) + 1 = calls[s]["migrate"] /\ Fetched(s)' = calls[s]["migrate"]
    BY <1>1, <1>3 DEF Fetched
<1>8. ASSUME NEW i \in Body
      PROVE  /\ Flights(i)' = {e \in Flights(i) : e[2] # s}
             /\ i \in Range(Incoming(s)) <=> \E q \in Site : <<q, s>> \in Flights(i)
             /\ Holders(i)' = Holders(i) \cup {q \in {s} : i \in Range(Incoming(s))}
  <2>1. Flights(i)' = {e \in Flights(i) : e[2] # s}
    <3>1. ASSUME NEW e \in Site \X Site
          PROVE  e \in Flights(i)' <=> e \in Flights(i) /\ e[2] # s
      <4>1. CASE e[2] = s
          BY <1>3, <1>6, <1>7, <4>1 DEF Flights
      <4>2. CASE e[2] # s
          BY <1>6, <4>2 DEF Flights
      <4> QED
          BY <4>1, <4>2
    <3>2. Flights(i)' \subseteq Site \X Site /\ Flights(i) \subseteq Site \X Site
        BY DEF Flights
    <3> QED
        BY <3>1, <3>2
  <2>2. i \in Range(Incoming(s)) <=> \E q \in Site : <<q, s>> \in Flights(i)
      BY <1>4, <1>6, <1>7 DEF Flights
  <2>3. Holders(i)' = Holders(i) \cup {q \in {s} : i \in Range(Incoming(s))}
    <3>1. \A q \in Site \ {s} : Part(q)' = Part(q) /\ pc'[q] = pc[q]
        BY PartsOfOthers DEF Stay
    <3> QED
        BY <1>5, <3>1 DEF Holders
  <2> QED
      BY <2>1, <2>2, <2>3
<1>9. ASSUME NEW i \in Body PROVE Kept(i)' /\ InPlace(i)'
  <2>1. Kept(i) /\ InPlace(i)
      BY DEF Matter
  <2>2. Kept(i)'
    <3>1. CASE \E p \in Site : Holders(i) = {p} /\ Flights(i) = {}
        BY <1>8, <3>1 DEF Kept
    <3>2. CASE \E e \in Site \X Site : Flights(i) = {e} /\ Holders(i) = {}
      <4>1. PICK e \in Site \X Site : Flights(i) = {e} /\ Holders(i) = {}
          BY <3>2
      <4>2. CASE e[2] = s
        <5>1. e = <<e[1], s>> /\ e[1] \in Site
            BY <4>1, <4>2
        <5>2. i \in Range(Incoming(s)) /\ Flights(i)' = {}
            BY <1>8, <4>1, <4>2, <5>1
        <5> QED
            BY <1>8, <4>1, <5>2 DEF Kept
      <4>3. CASE e[2] # s
        <5> DEFINE back(q) == <<q, s>>
        <5>2. \A q \in Site : back(q)[2] = s /\ back(q) # e
            BY <4>3
        <5>3. i \in Range(Incoming(s)) <=> \E q \in Site : back(q) \in Flights(i)
            BY <1>8
        <5> HIDE DEF back
        <5>1. Flights(i)' = {e} /\ i \notin Range(Incoming(s))
            BY <1>8, <4>1, <4>3, <5>2, <5>3
        <5> QED
            BY <1>8, <4>1, <5>1 DEF Kept
      <4> QED
          BY <4>2, <4>3
    <3> QED
        BY <2>1, <3>1, <3>2 DEF Kept
  <2>3. i \in Bodies(s)' => Bucket(keyOf[i]) \in HomeDomains[s]
      BY <1>5, <1>8, <2>1 DEF InPlace
  <2>4. InPlace(i)'
      BY <1>1, <1>8, <2>1, <2>3, PlacesOfOthers
  <2> QED
      BY <2>2, <2>4
<1>10. Reduced(s)'
    BY <1>1 DEF Matter, Reduced
<1>11. DomainsOf(s)'
  <2>1. GlobalHistogram' = GlobalHistogram /\ HomeDomains' = HomeDomains
      BY <1>1, GlobalStays
  <2>2. "migrate" \in HasDomains /\ DomainsOf(s)
      BY DEF HasDomains, Matter
  <2> QED
      BY <2>1, <2>2 DEF DomainsOf
<1> QED
    BY <1>1, <1>9, <1>10, <1>11, MatterNext

\* A bucket that a site has counted a body in is not empty.
LEMMA CountedByAll ==
    ASSUME \A q \in Site : Contribution("hist", q) \in [Buckets -> Nat],
           NEW s \in Site, NEW c \in Buckets, Contribution("hist", s)[c] > 0
    PROVE  GlobalHistogram[c] > 0 /\ c \in DOMAIN GlobalHistogram
<1> DEFINE counts == [q \in Site |-> Contribution("hist", q)[c]]
<1>1. IsFiniteSet(Site)
  <2> DEFINE n == Size - 1
  <2>1. n \in Nat
      BY HpxStepAssumption
  <2> HIDE DEF n
  <2>2. IsFiniteSet(0 .. n)
      BY <2>1, FS_Interval
  <2> QED
      BY <2>2 DEF Site, n
<1>2. \A q \in Site : counts[q] \in Nat /\ counts[q] \in Int
    OBVIOUS
<1>3. GlobalHistogram[c] = SumFunctionOnSet(counts, Site) /\ c \in DOMAIN GlobalHistogram
    BY DEF GlobalHistogram, Buckets
<1>4. counts[s] > 0
    OBVIOUS
<1> HIDE DEF counts
<1>5. SumFunctionOnSet(counts, Site) = counts[s] + SumFunctionOnSet(counts, Site \ {s})
    BY <1>1, <1>2, SumLessOne
<1>6. SumFunctionOnSet(counts, Site \ {s}) \in Nat
  <2>1. IsFiniteSet(Site \ {s})
      BY <1>1, FS_Subset
  <2> QED
      BY <1>2, <2>1, SumType
<1> QED
    BY <1>2, <1>3, <1>4, <1>5, <1>6

LEMMA MigrationKeepsMatter ==
    ASSUME Lockstep, Matter, NEW s \in Site, Stay(s), pc[s] = "hist", pc'[s] = "migrate",
           Keeps(s, {"bbox", "hist"}), Rebalances(step[s]),
           calls'[s]["migrate"] = calls[s]["migrate"] + 1,
           Contribution("migrate", s)' = Outgoing(s, Splitters(GlobalHistogram)),
           \A q \in Site : calls[q]["hist"] >= calls[s]["hist"],
           TypeOK', keyOf' = keyOf, step' = step, local' = local,
           splitters'[s] = Splitters(GlobalHistogram), domains'[s] = HomeDomains
    PROVE  Matter'
<1>1. /\ Keeps(s, {"hist"}) /\ calls'[s]["hist"] = calls[s]["hist"]
      /\ calls'[s]["bbox"] = calls[s]["bbox"]
      /\ Contribution("hist", s)' = Contribution("hist", s)
    BY DEF Keeps, Contribution
<1>2. \A q \in Site : /\ Inside(q) /\ step[q] = step[s] /\ pc[q] \in {"hist", "migrate"}
                      /\ Fetched(q) = calls[s]["migrate"]
    BY AtHistogram
<1> DEFINE sp == Splitters(GlobalHistogram)
           sent == Outgoing(s, sp)
<1>3. Part(s) = Bodies(s) /\ Part(s)' = Bodies(s)
  <2>1. Part(s) = Bodies(s) /\ ~(calls[s]["bbox"] = 0)
      BY <1>2, InsideHas
  <2> QED
      BY <1>1, <2>1 DEF Part, Bodies
<1>4. ASSUME NEW r \in Site
      PROVE  /\ sent[r] \in Seq(Body)
             /\ Range(sent[r]) = {i \in Bodies(s) : RankOf(sp, Bucket(keyOf[i])) = r}
  <2>1. local[s] \in Seq(Body)
      BY DEF Lockstep, TypeOK
  <2> HIDE DEF sp
  <2> QED
      BY <2>1, OutgoingHas DEF Destination
<1>5. /\ \A i \in Bodies(s) : i \in Body /\ keyOf[i] \in Key /\ Bucket(keyOf[i]) \in Buckets
      /\ Bodies(s) \in SUBSET Body
    BY BucketOfKey DEF Lockstep, TypeOK, Bodies, Range
<1>6. ASSUME NEW i \in Bodies(s)
      PROVE  /\ RankOf(sp, Bucket(keyOf[i])) \in Site
             /\ Bucket(keyOf[i]) \in HomeDomains[RankOf(sp, Bucket(keyOf[i]))]
  <2> DEFINE c == Bucket(keyOf[i])
             r == RankOf(sp, c)
  <2>1. \A q \in Site : Contribution("hist", q) \in [Buckets -> Nat]
    <3>1. \A q \in Site : calls[q]["hist"] > 0
        BY <1>2, Numbers DEF Lockstep, Inside
    <3> QED
        BY <3>1 DEF Matter, Reduced
  <2>2. Contribution("hist", s)[c] > 0
    <3>1. Contribution("hist", s) = Histogram(Bodies(s))
        BY DEF Matter, Reduced
    <3> QED
        BY <1>5, <3>1, HistogramCounts
  <2>3. GlobalHistogram[c] > 0 /\ c \in DOMAIN GlobalHistogram
      BY <1>5, <2>1, <2>2, CountedByAll
  <2>4. r \in Site
      BY RankIsSite
  <2> HIDE DEF c, sp
  <2>5. HomeDomains[r] = {b \in DOMAIN GlobalHistogram : GlobalHistogram[b] > 0 /\ RankOf(sp, b) = r}
      BY <2>4 DEF HomeDomains, Domains, sp
  <2>6. c \in HomeDomains[r]
      BY <2>3, <2>5
  <2> QED
      BY <2>4, <2>6 DEF c
<1>7. /\ \A q \in Site \ {s} : /\ Generation("migrate", q)' = Generation("migrate", q)
                               /\ Contribution("migrate", q)' = Contribution("migrate", q)
      /\ Generation("migrate", s) = calls[s]["migrate"] /\ calls[s]["migrate"] \in Nat
      /\ Generation("migrate", s)' = calls[s]["migrate"] + 1
      /\ \A q \in Site : Fetched(q)' = calls[s]["migrate"]
  <2>1. "migrate" \in Comm
      BY DEF Comm, Phase
  <2>2. \A q \in Site \ {s} : /\ posted'["migrate"][q] = posted["migrate"][q]
                              /\ calls'[q]["migrate"] = calls[q]["migrate"] /\ pc'[q] = pc[q]
      BY <2>1 DEF Stay
  <2>3. Generation("migrate", s) = calls[s]["migrate"] /\ calls[s]["migrate"] \in Nat
      BY <2>1 DEF Lockstep, TypeOK, CommsOK
  <2>4. Generation("migrate", s)' = calls'[s]["migrate"]
      BY <2>1 DEF TypeOK, CommsOK
  <2>5. \A q \in Site \ {s} : Fetched(q)' = Fetched(q)
      BY <2>2 DEF Fetched
  <2>6. Fetched(s)' = calls[s]["migrate"]
      BY <2>3 DEF Fetched
  <2> QED
      BY <1>2, <2>2, <2>3, <2>4, <2>5, <2>6 DEF Generation, Contribution
<1>8. ASSUME NEW i \in Body
      PROVE  /\ Holders(i)' = Holders(i) \ {s}
             /\ Flights(i)' = Flights(i) \cup {e \in Site \X Site : e[1] = s /\ i \in Range(sent[e[2]])}
  <2>1. Holders(i)' = Holders(i) \ {s}
    <3>1. \A q \in Site \ {s} : Part(q)' = Part(q) /\ pc'[q] = pc[q]
        BY PartsOfOthers DEF Stay
    <3> QED
        BY <3>1 DEF Holders
  <2>2. Flights(i)' = Flights(i) \cup {e \in Site \X Site : e[1] = s /\ i \in Range(sent[e[2]])}
    <3> HIDE DEF sent
    <3>1. Contribution("migrate", s)' = sent
        BY DEF sent
    <3>2. ASSUME NEW e \in Site \X Site
          PROVE  e \in Flights(i)' <=> e \in Flights(i) \/ (e[1] = s /\ i \in Range(sent[e[2]]))
      <4>1. CASE e[1] = s
          BY <1>2, <1>7, <3>1, <4>1 DEF Flights
      <4>2. CASE e[1] # s
          BY <1>2, <1>7, <4>2 DEF Flights
      <4> QED
          BY <4>1, <4>2
    <3>3. Flights(i)' \subseteq Site \X Site /\ Flights(i) \subseteq Site \X Site
        BY DEF Flights
    <3> QED
        BY <3>2, <3>3
  <2> QED
      BY <2>1, <2>2
<1>9. ASSUME NEW i \in Body PROVE Kept(i)' /\ InPlace(i)'
  <2>1. Kept(i) /\ InPlace(i)
      BY DEF Matter
  <2> DEFINE r == RankOf(sp, Bucket(keyOf[i]))
             new == {e \in Site \X Site : e[1] = s /\ i \in Range(sent[e[2]])}
  <2>2. new = IF i \in Bodies(s) THEN {<<s, r>>} ELSE {}
    <3> HIDE DEF sp, sent
    <3>1. \A e \in Site \X Site : e[2] \in Site /\ e = <<e[1], e[2]>>
        OBVIOUS
    <3>2. i \in Bodies(s) => r \in Site
        BY <1>6
    <3>3. i \in Bodies(s) => <<s, r>> \in Site \X Site /\ <<s, r>>[1] = s /\ <<s, r>>[2] = r
        BY <3>2
    <3>4. \A p \in Site : i \in Range(sent[p]) <=> i \in Bodies(s) /\ r = p
        BY <1>4
    <3> HIDE DEF r
    <3> QED
        BY <3>1, <3>2, <3>3, <3>4
  <2>3. Flights(i)' = Flights(i) \cup new /\ Holders(i)' = Holders(i) \ {s}
      BY <1>8
  <2>4. i \in Bodies(s) => Holders(i) = {s} /\ Flights(i) = {} /\ r \in Site
      BY <1>2, <1>6, OneHolder
  <2>5. i \notin Bodies(s) => s \notin Holders(i)
      BY <1>3 DEF Holders
  <2>6. i \in Bodies(s) => Bucket(keyOf[i]) \in HomeDomains[r]
      BY <1>6
  <2> HIDE DEF new, r, sp, sent
  <2>7. Kept(i)'
    <3>1. CASE i \in Bodies(s)
      <4>1. <<s, r>> \in Site \X Site /\ Flights(i)' = {<<s, r>>} /\ Holders(i)' = {}
          BY <2>2, <2>3, <2>4, <3>1
      <4> QED
          BY <4>1 DEF Kept
    <3>2. CASE i \notin Bodies(s)
      <4>1. Flights(i)' = Flights(i) /\ Holders(i)' = Holders(i)
          BY <2>2, <2>3, <2>5, <3>2
      <4> QED
          BY <2>1, <4>1 DEF Kept
    <3> QED
        BY <3>1, <3>2
  <2>8. \A e \in Flights(i)' : e \in Flights(i) \/ Bucket(keyOf[i]) \in HomeDomains[e[2]]
    <3>1. <<s, r>>[2] = r
        OBVIOUS
    <3> QED
        BY <2>2, <2>3, <2>6, <3>1
  <2>9. ~(pc'[s] \in HasDomains \ {"migrate"})
      OBVIOUS
  <2>10. InPlace(i)'
      BY <1>1, <2>1, <2>8, <2>9, PlacesOfOthers
  <2> QED
      BY <2>7, <2>10
<1>10. Reduced(s)'
  <2> HIDE DEF sp, sent
  <2>1. Contribution("migrate", s)' = sent
      BY DEF sp, sent
  <2>2. Reduced(s)
      BY DEF Matter
  <2> QED
      BY <1>1, <1>4, <2>1, <2>2 DEF Reduced
<1>11. DomainsOf(s)'
    BY <1>1, GlobalStays DEF DomainsOf
<1> QED
    BY <1>1, <1>9, <1>10, <1>11, MatterNext

----------------------------------------------------------------------------
(* The whole invariant, after each action. *)

LEMMA ScatteredStays ==
    ASSUME Scattered, NEW s \in Site, Stay(s), Keeps(s, {"scatter"}),
           \/ pc'[s] \notin Before
           \/ pc'[s] = pc[s]
           \/ pc[s] = "start" /\ pc'[s] = "bcast"
    PROVE  Scattered'
<1>1. \A q \in Site : /\ calls'[q]["scatter"] = calls[q]["scatter"]
                      /\ posted'["scatter"][q] = posted["scatter"][q]
  <2>1. "scatter" \in Comm
      BY DEF Comm, Phase
  <2> QED
      BY <2>1 DEF Stay, Keeps
<1>2. Root \in Site
    BY HpxStepAssumption DEF Root, Site
<1>3. Contribution("scatter", Root)' = Contribution("scatter", Root)
    BY <1>1, <1>2 DEF Contribution, Root
<1>4. calls'[Root]["scatter"] = calls[Root]["scatter"] /\ Root' = Root
    BY <1>1, <1>2 DEF Root
<1>5. \A q \in Site : /\ pc'[q] \in {"start", "bcast"} => pc[q] \in {"start", "bcast"}
                      /\ pc'[q] = "scatter" => pc[q] = "scatter"
    BY DEF Stay, Before
<1>6. [r \in Site |-> Slice(r)]' = [r \in Site |-> Slice(r)]
    BY DEF Slice
<1> QED
    BY <1>1, <1>3, <1>4, <1>5, <1>6 DEF Scattered, Root

LEMMA InvNext ==
    ASSUME HpxInv, NEW s \in Site, Lockstep', Matter', Scattered', Stay(s),
           \A c \in {"hist", "bbox", "scatter"} : calls'[s][c] >= calls[s][c],
           begun'[s] = 0 \/ pc'[s] \in Late \cup After \/ Waited(s)'
    PROVE  HpxInv'
<1>1. Root \in Site /\ Root = 0
    BY HpxStepAssumption DEF Root, Site
<1>2. {"hist", "bbox", "scatter"} \subseteq Comm
    BY DEF Comm, Phase
<1>3. \A q \in Site, c \in {"hist", "bbox", "scatter"} :
         /\ calls'[q][c] >= calls[q][c] /\ calls'[q][c] \in Nat /\ calls[q][c] \in Nat
         /\ (q # s => calls'[q][c] = calls[q][c])
  <2>1. \A q \in Site, c \in Comm : calls[q][c] \in Nat
      BY DEF HpxInv, Lockstep, TypeOK, CommsOK
  <2>2. \A q \in Site, c \in Comm : calls'[q][c] \in Nat
      BY DEF Lockstep, TypeOK, CommsOK
  <2>3. \A q \in Site \ {s}, c \in Comm : calls'[q][c] = calls[q][c]
      BY DEF Stay
  <2> QED
      BY <1>2, <2>1, <2>2, <2>3
<1>4. calls'[0]["scatter"] <= 1
    BY DEF Scattered, Root
<1>5. Waited(s)'
  <2>1. CASE begun'[s] = 0
      BY <2>1 DEF Waited
  <2>2. CASE pc'[s] \in Late \cup After
      BY <2>2 DEF Waited, Late, After, Before
  <2> QED
      BY <2>1, <2>2
<1>6. ASSUME NEW q \in Site, q # s PROVE Waited(q)'
  <2>1. Waited(q) /\ pc'[q] = pc[q] /\ begun'[q] = begun[q]
      BY <1>6 DEF HpxInv, Stay
  <2>2. calls[0]["scatter"] = 1 => calls'[0]["scatter"] = 1
      BY <1>1, <1>3, <1>4
  <2>3. (\A p \in Site : calls[p]["hist"] >= calls[q]["hist"])
           => \A p \in Site : calls'[p]["hist"] >= calls'[q]["hist"]
      BY <1>3, <1>6
  <2>4. (\A p \in Site : calls[p]["bbox"] >= calls[q]["bbox"])
           => \A p \in Site : calls'[p]["bbox"] >= calls'[q]["bbox"]
      BY <1>3, <1>6
  <2> QED
      BY <2>1, <2>2, <2>3, <2>4 DEF Waited, Root
<1> QED
    BY <1>5, <1>6 DEF HpxInv

LEMMA PostsGrow ==
    ASSUME TypeOK, NEW s \in Site, NEW comm \in Comm, NEW value, Posts(s, comm, value)
    PROVE  \A c \in {"hist", "bbox", "scatter"} : calls'[s][c] >= calls[s][c]
<1>1. \A c \in Comm : calls[s][c] \in Nat /\ (calls'[s][c] = calls[s][c] \/ calls'[s][c] = calls[s][c] + 1)
    BY DEF TypeOK, CommsOK, Posts, Keeps
<1>2. {"hist", "bbox", "scatter"} \subseteq Comm
    BY DEF Comm, Phase
<1>3. \A c \in Comm : calls'[s][c] >= calls[s][c]
    BY <1>1
<1> QED
    BY <1>2, <1>3

LEMMA KeepsGrow ==
    ASSUME TypeOK, NEW s \in Site, Keeps(s, Paced), Keeps(s, {"scatter"})
    PROVE  \A c \in {"hist", "bbox", "scatter"} : calls'[s][c] >= calls[s][c]
<1>1. \A c \in {"hist", "bbox", "scatter"} : calls'[s][c] = calls[s][c]
    BY DEF Keeps, Paced
<1>2. {"hist", "bbox", "scatter"} \subseteq Comm
    BY DEF Comm, Phase
<1>3. \A c \in Comm : calls[s][c] \in Nat
    BY DEF TypeOK, CommsOK
<1> QED
    BY <1>1, <1>2, <1>3

\* Steps that change nothing of what the invariant is about.
LEMMA QuietKeeps ==
    ASSUME HpxInv, NEW s \in Site, TypeOK', Quiet(s), Keeps(s, {"scatter"}),
           \/ pc'[s] \notin Before
           \/ pc'[s] = pc[s]
           \/ pc[s] = "start" /\ pc'[s] = "bcast",
           begun'[s] = 0 \/ pc'[s] \in Late \cup After \/ Waited(s)'
    PROVE  HpxInv'
<1>1. Lockstep /\ Matter /\ Scattered /\ Stay(s) /\ Keeps(s, Paced) /\ TypeOK
    BY DEF HpxInv, Quiet, Lockstep
<1>2. Lockstep'
    BY <1>1, QuietKeepsStep
<1>3. Matter'
    BY <1>1, QuietKeepsMatter
<1>4. Scattered'
    BY <1>1, ScatteredStays
<1> QED
    BY <1>1, <1>2, <1>3, <1>4, KeepsGrow, InvNext

LEMMA EndsKeep ==
    ASSUME HpxInv, NEW s \in Site, Ends(s)
    PROVE  HpxInv'
<1>1. CASE Quiet(s)
    BY <1>1, QuietKeeps DEF Ends, Settles
<1>2. CASE Advances(s)
  <2>1. /\ Lockstep /\ Matter /\ Scattered /\ Stay(s) /\ TypeOK /\ TypeOK'
        /\ Keeps(s, {"scatter"}) /\ pc'[s] \notin Before
      BY <1>2 DEF HpxInv, Lockstep, Ends, Advances
  <2>2. Lockstep'
      BY <1>2, <2>1, AdvanceKeepsStep
  <2>3. Matter'
      BY <1>2, <2>1, AdvanceKeepsMatter
  <2>4. Scattered'
      BY <2>1, ScatteredStays
  <2>5. \A c \in {"hist", "bbox", "scatter"} : calls'[s][c] >= calls[s][c]
    <3>1. /\ calls'[s]["hist"] = calls[s]["hist"] /\ calls'[s]["scatter"] = calls[s]["scatter"]
          /\ calls'[s]["bbox"] = calls[s]["bbox"] + 1
        BY <1>2, <2>1 DEF Advances, Keeps, Paced
    <3>2. \A c \in {"hist", "bbox", "scatter"} : calls[s][c] \in Nat
      <4>1. {"hist", "bbox", "scatter"} \subseteq Comm
          BY DEF Comm, Phase
      <4> QED
          BY <2>1, <4>1 DEF TypeOK, CommsOK
    <3> QED
        BY <3>1, <3>2
  <2> QED
      BY <2>1, <2>2, <2>3, <2>4, <2>5, InvNext DEF Ends, Settles
<1> QED
    BY <1>1, <1>2 DEF Ends

LEMMA StartKeeps ==
    ASSUME HpxInv, NEW s \in Site, Start(s)
    PROVE  HpxInv'
<1> DEFINE value == IF s = Root THEN readable ELSE TRUE
<1>1. /\ pc[s] = "start" /\ Call(s, "bcast", value) /\ UNCHANGED <<path, ending>>
      /\ UNCHANGED <<step, local, keyOf, domains, splitters>>
    BY DEF Start, input
<1>2. "bcast" \in Phase /\ CommOf("bcast") = "bcast" /\ "bcast" \in Comm
      /\ Paced \in SUBSET Comm /\ {"scatter"} \in SUBSET Comm
    BY DEF Phase, CommOf, Comm, Paced
<1>3. TypeOK
    BY DEF HpxInv, Lockstep
<1> HIDE DEF value
<1>4. TypeOK' /\ Stay(s) /\ Posts(s, "bcast", value) /\ pc'[s] = "bcast" /\ begun'[s] = 0
    BY <1>1, <1>2, <1>3, EarlyCall DEF TypeOK
<1>5. Keeps(s, Paced) /\ Keeps(s, {"scatter"})
    BY <1>2, <1>4, PostsElsewhere DEF Paced
<1>6. Quiet(s)
    BY <1>1, <1>4, <1>5 DEF Quiet, Before
<1> QED
    BY <1>1, <1>4, <1>5, <1>6, QuietKeeps

\* A collective whose contribution is the root's has returned.
LEMMA RootHasSent ==
    ASSUME HpxInv, NEW s \in Site, pc[s] = "scatter", begun[s] = 0 => Arrived(s, "scatter")
    PROVE  calls[Root]["scatter"] = 1 /\ Contribution("scatter", Root) = [r \in Site |-> Slice(r)]
<1>1. calls[s]["scatter"] = 1
    BY DEF HpxInv, Scattered
<1>2. Root \in Site /\ "scatter" \in Comm
    BY HpxStepAssumption DEF Root, Site, Comm, Phase
<1>3. begun[s] \in Nat /\ Generation("scatter", Root) = calls[Root]["scatter"]
    BY <1>2 DEF HpxInv, Lockstep, TypeOK, CommsOK
<1>4. CASE begun[s] = 0
  <2>1. Generation("scatter", Root) = calls[s]["scatter"]
      BY <1>4 DEF Arrived, Awaited
  <2> QED
      BY <1>1, <1>3, <2>1 DEF HpxInv, Scattered
<1>5. CASE begun[s] > 0
    BY <1>5 DEF HpxInv, Waited, Scattered
<1> QED
    BY <1>3, <1>4, <1>5

LEMMA BroadcastKeeps ==
    ASSUME HpxInv, NEW s \in Site, Broadcast(s)
    PROVE  HpxInv'
<1>1. /\ pc[s] = "bcast" /\ UNCHANGED <<path, ending>>
      /\ UNCHANGED <<step, local, keyOf, domains, splitters>>
    BY DEF Broadcast, Returns, input
<1>2. TypeOK
    BY DEF HpxInv, Lockstep
<1>3. CASE pc' = [pc EXCEPT ![s] = "done"] /\ UNCHANGED comms
  <2>1. UNCHANGED <<calls, posted, begun>>
      BY <1>3 DEF comms
  <2>2. /\ pc' \in [Site -> Place] /\ pc'[s] = "done" /\ \A q \in Site \ {s} : pc'[q] = pc[q]
    <3>1. "done" \in Place
        BY DEF Place, After
    <3> QED
        BY <1>2, <1>3, <3>1 DEF TypeOK
  <2>3. CommsOK'
    <3>1. \A c \in Comm, q \in Site : posted[c][q][1] = calls[q][c]
        BY <1>2 DEF TypeOK, CommsOK, Generation
    <3>2. \A c \in Comm, q \in Site : posted'[c][q][1] = calls'[q][c]
        BY <2>1, <3>1
    <3> QED
        BY <1>2, <2>1, <3>2 DEF TypeOK, CommsOK, Generation
  <2>4. TypeOK'
      BY <1>1, <1>2, <2>2, <2>3 DEF TypeOK
  <2>5. Stay(s) /\ Keeps(s, Paced) /\ Keeps(s, {"scatter"})
      BY <1>1, <2>1, <2>2 DEF Stay, Keeps
  <2>6. Quiet(s)
      BY <1>1, <2>2, <2>5 DEF Quiet, Before
  <2>7. pc'[s] \in Late \cup After /\ pc'[s] \notin Before
      BY <2>2 DEF After, Before
  <2> QED
      BY <2>4, <2>5, <2>6, <2>7, QuietKeeps
<1>4. CASE Call(s, "scatter", IF s = Root THEN [r \in Site |-> Slice(r)] ELSE <<>>)
  <2> DEFINE value == IF s = Root THEN [r \in Site |-> Slice(r)] ELSE <<>>
  <2>1. Call(s, "scatter", value)
      BY <1>4
  <2>2. "scatter" \in Phase /\ CommOf("scatter") = "scatter" /\ "scatter" \in Comm
        /\ Paced \in SUBSET Comm
      BY DEF Phase, CommOf, Comm, Paced
  <2>3. s = Root => value = [r \in Site |-> Slice(r)]
      OBVIOUS
  <2> HIDE DEF value
  <2>4. TypeOK' /\ Stay(s) /\ Posts(s, "scatter", value) /\ pc'[s] = "scatter" /\ begun'[s] = 0
      BY <1>1, <1>2, <2>1, <2>2, EarlyCall DEF TypeOK
  <2>5. Keeps(s, Paced)
      BY <2>2, <2>4, PostsElsewhere DEF Paced
  <2>6. Quiet(s)
      BY <1>1, <2>4, <2>5 DEF Quiet, Before
  <2>7. Lockstep' /\ Matter' /\ Lockstep /\ Matter /\ Scattered
    <3>1. Lockstep /\ Matter /\ Scattered
        BY DEF HpxInv
    <3> QED
        BY <2>4, <2>6, <3>1, QuietKeepsStep, QuietKeepsMatter
  <2>8. Scattered'
    <3>1. Root \in Site /\ Root = 0
        BY HpxStepAssumption DEF Root, Site
    <3>2. calls'[s]["scatter"] = 1 /\ Contribution("scatter", s)' = value
        BY <1>1, <2>4, <2>7 DEF Posts, Scattered
    <3>3. \A q \in Site \ {s} : /\ calls'[q]["scatter"] = calls[q]["scatter"] /\ pc'[q] = pc[q]
                                /\ posted'["scatter"][q] = posted["scatter"][q]
        BY <2>2, <2>4 DEF Stay
    <3>4. \A q \in Site \ {s} : Contribution("scatter", q)' = Contribution("scatter", q)
        BY <3>3 DEF Contribution
    <3>5. \A q \in Site : /\ pc'[q] \in {"start", "bcast"} => calls'[q]["scatter"] = 0
                          /\ pc'[q] = "scatter" => calls'[q]["scatter"] = 1
        BY <2>4, <2>7, <3>2, <3>3 DEF Scattered
    <3>6. /\ calls'[0]["scatter"] <= 1
          /\ calls'[0]["scatter"] = 1 => Contribution("scatter", 0)' = [r \in Site |-> Slice(r)]
      <4>1. CASE s = 0
          BY <2>3, <3>1, <3>2, <4>1
      <4>2. CASE s # 0
          BY <2>7, <3>1, <3>3, <3>4, <4>2 DEF Scattered
      <4> QED
          BY <4>1, <4>2
    <3>7. [r \in Site |-> Slice(r)]' = [r \in Site |-> Slice(r)]
        BY DEF Slice
    <3> QED
        BY <3>5, <3>6, <3>7 DEF Scattered, Root
  <2>9. \A c \in {"hist", "bbox", "scatter"} : calls'[s][c] >= calls[s][c]
      BY <1>2, <2>2, <2>4, PostsGrow
  <2> QED
      BY <2>4, <2>7, <2>8, <2>9, InvNext
<1> QED
    BY <1>3, <1>4 DEF Broadcast

LEMMA ScatterKeeps ==
    ASSUME HpxInv, NEW s \in Site, Scatter(s)
    PROVE  HpxInv'
<1> DEFINE value == {}
<1>1. /\ pc[s] = "scatter" /\ (begun[s] = 0 => Arrived(s, "scatter"))
      /\ local' = [local EXCEPT ![s] = Contribution("scatter", Root)[s]]
      /\ Call(s, "bbox", value) /\ UNCHANGED <<path, ending>>
      /\ UNCHANGED <<step, keyOf, domains, splitters>>
    BY DEF Scatter, Returns, input, CommOf
<1> HIDE DEF value
<1>2. TypeOK /\ Lockstep /\ Matter /\ Scattered
    BY DEF HpxInv, Lockstep
<1>3. Contribution("scatter", Root)[s] = Slice(s)
    BY <1>1, RootHasSent
<1>4. /\ local' \in [Site -> Seq(Body)] /\ local'[s] = Slice(s)
      /\ \A q \in Site \ {s} : local'[q] = local[q]
  <2>1. Slice(s) \in Seq(Body)
      BY SliceHas
  <2> DEFINE slice == Slice(s)
  <2>2. slice \in Seq(Body) /\ local' = [local EXCEPT ![s] = slice]
      BY <1>1, <1>3, <2>1
  <2> HIDE DEF slice
  <2>3. /\ local' \in [Site -> Seq(Body)] /\ local'[s] = slice
        /\ \A q \in Site \ {s} : local'[q] = local[q]
      BY <1>2, <2>2 DEF TypeOK
  <2> QED
      BY <2>3 DEF slice
<1>5. "bbox" \in Phase /\ CommOf("bbox") = "bbox" /\ "bbox" \in Comm
      /\ {"hist", "migrate"} \in SUBSET Comm /\ {"scatter"} \in SUBSET Comm
    BY DEF Phase, CommOf, Comm
<1>6. TypeOK' /\ Stay(s) /\ Posts(s, "bbox", value) /\ pc'[s] = "bbox" /\ begun'[s] = 0
    BY <1>1, <1>2, <1>4, <1>5, EarlyCall DEF TypeOK
<1>7. Keeps(s, {"hist", "migrate"}) /\ Keeps(s, {"scatter"})
      /\ calls'[s]["bbox"] = calls[s]["bbox"] + 1
    BY <1>5, <1>6, PostsElsewhere DEF Posts
<1>8. Lockstep'
    BY <1>1, <1>2, <1>6, <1>7, ScatterKeepsStep
<1>9. Matter'
    BY <1>1, <1>2, <1>4, <1>6, <1>7, ScatterKeepsMatter
<1>10. Scattered'
  <2>1. pc'[s] \notin Before
      BY <1>6 DEF Before
  <2> QED
      BY <1>2, <1>6, <1>7, <2>1, ScatteredStays
<1>11. \A c \in {"hist", "bbox", "scatter"} : calls'[s][c] >= calls[s][c]
    BY <1>2, <1>5, <1>6, PostsGrow
<1> QED
    BY <1>6, <1>8, <1>9, <1>10, <1>11, InvNext

LEMMA BoundingBoxKeeps ==
    ASSUME HpxInv, NEW s \in Site, BoundingBox(s)
    PROVE  HpxInv'
<1> DEFINE value == Histogram(Bodies(s))
<1>1. /\ pc[s] = "bbox" /\ Returns(s, "bbox") /\ Call(s, "hist", value) /\ UNCHANGED <<path, ending>>
      /\ UNCHANGED <<step, local, keyOf, domains, splitters>>
    BY DEF BoundingBox, Returns, input
<1>2. TypeOK /\ Lockstep /\ Matter /\ Scattered /\ Waited(s)
    BY DEF HpxInv, Lockstep
<1>3. value = Histogram(Bodies(s))
    OBVIOUS
<1> HIDE DEF value
<1>4. "hist" \in Phase /\ CommOf("hist") = "hist" /\ "hist" \in Comm
      /\ {"bbox", "migrate"} \in SUBSET Comm /\ {"scatter"} \in SUBSET Comm
    BY DEF Phase, CommOf, Comm
<1>5. TypeOK' /\ Stay(s) /\ Posts(s, "hist", value) /\ pc'[s] = "hist" /\ begun'[s] = 0
    BY <1>1, <1>2, <1>4, EarlyCall DEF TypeOK
<1>6. Keeps(s, {"bbox", "migrate"}) /\ Keeps(s, {"scatter"})
      /\ calls'[s]["hist"] = calls[s]["hist"] + 1
      /\ Contribution("hist", s)' = Histogram(Bodies(s))
    BY <1>3, <1>4, <1>5, PostsElsewhere DEF Posts
<1>7. \A q \in Site : calls[q]["bbox"] >= calls[s]["bbox"]
    BY <1>1, <1>2, ReturnMeets
<1>8. Lockstep'
    BY <1>1, <1>2, <1>5, <1>6, <1>7, BoxKeepsStep
<1>9. Matter'
    BY <1>1, <1>2, <1>5, <1>6, <1>7, BoxKeepsMatter
<1>10. Scattered'
  <2>1. pc'[s] \notin Before
      BY <1>5 DEF Before
  <2> QED
      BY <1>2, <1>5, <1>6, <2>1, ScatteredStays
<1>11. \A c \in {"hist", "bbox", "scatter"} : calls'[s][c] >= calls[s][c]
    BY <1>2, <1>4, <1>5, PostsGrow
<1> QED
    BY <1>5, <1>8, <1>9, <1>10, <1>11, InvNext

\* The bodies sorted, and the trees sent.
LEMMA BuildKeeps ==
    ASSUME HpxInv, NEW s \in Site, NEW dom, BuildAndExchange(s, dom),
           UNCHANGED <<path, ending>>, UNCHANGED <<step, keyOf>>,
           \A q \in Site \ {s} : domains'[q] = domains[q] /\ splitters'[q] = splitters[q],
           DOMAIN domains' = Site, DOMAIN splitters' = Site,
           \/ /\ Returns(s, "hist") /\ ~Rebalances(step[s])
              /\ splitters'[s] = Splitters(GlobalHistogram) /\ domains'[s] = HomeDomains
           \/ /\ Returns(s, "rebbox") /\ splitters'[s] = splitters[s] /\ domains'[s] = domains[s]
    PROVE  HpxInv'
<1> DEFINE value == TreeSent(s, BuildOctree(Bodies(s), keyOf), dom)
           sorted == Sorted(local[s])
<1>1. /\ Call(s, "exchange", value) /\ local' = [local EXCEPT ![s] = sorted]
    BY DEF BuildAndExchange
<1>2. TypeOK /\ Lockstep /\ Matter /\ Scattered /\ Waited(s)
    BY DEF HpxInv, Lockstep
<1>3. sorted \in Seq(Body) /\ Range(sorted) = Bodies(s)
    BY <1>2, SortedKeeps DEF TypeOK, Bodies
<1> HIDE DEF value, sorted
<1>4. /\ local' \in [Site -> Seq(Body)] /\ Bodies(s)' = Bodies(s)
      /\ \A q \in Site \ {s} : local'[q] = local[q]
    BY <1>1, <1>2, <1>3 DEF TypeOK, Bodies
<1>5. "exchange" \in Phase /\ CommOf("exchange") = "exchange" /\ "exchange" \in Comm
      /\ Paced \in SUBSET Comm /\ {"scatter"} \in SUBSET Comm /\ "exchange" \notin Paced
    BY DEF Phase, CommOf, Comm, Paced
<1>6. TypeOK' /\ Stay(s) /\ Posts(s, "exchange", value) /\ pc'[s] = "exchange" /\ begun'[s] = 0
    BY <1>1, <1>2, <1>4, <1>5, EarlyCall
<1>7. Keeps(s, Paced) /\ Keeps(s, {"scatter"})
    BY <1>5, <1>6, PostsElsewhere
<1>8. \/ /\ pc[s] = "hist" /\ ~Rebalances(step[s])
         /\ \A q \in Site : calls[q]["hist"] >= calls[s]["hist"]
      \/ /\ pc[s] = "rebbox"
         /\ \A q \in Site : calls[q]["bbox"] >= calls[s]["bbox"]
    BY <1>2, ReturnMeets DEF Returns
<1>9. Lockstep'
    BY <1>2, <1>6, <1>7, <1>8, BuildKeepsStep
<1>10. Matter'
    BY <1>2, <1>4, <1>6, <1>7, BuildKeepsMatter DEF Returns
<1>11. Scattered'
  <2>1. pc'[s] \notin Before
      BY <1>6 DEF Before
  <2> QED
      BY <1>2, <1>6, <1>7, <2>1, ScatteredStays
<1> QED
    BY <1>2, <1>6, <1>7, <1>9, <1>10, <1>11, KeepsGrow, InvNext

LEMMA ReduceHistogramKeeps ==
    ASSUME HpxInv, NEW s \in Site, ReduceHistogram(s)
    PROVE  HpxInv'
<1> DEFINE sp == Splitters(GlobalHistogram)
           dom == HomeDomains
<1>1. /\ Returns(s, "hist") /\ pc[s] = "hist"
      /\ splitters' = [splitters EXCEPT ![s] = sp] /\ domains' = [domains EXCEPT ![s] = dom]
      /\ UNCHANGED <<path, ending>> /\ UNCHANGED <<step, keyOf>>
    BY DEF ReduceHistogram, Returns, HomeDomains, input
<1>2. \/ Rebalances(step[s]) /\ Call(s, "migrate", Outgoing(s, sp)) /\ local' = local
      \/ ~Rebalances(step[s]) /\ BuildAndExchange(s, dom)
    BY DEF ReduceHistogram, HomeDomains
<1>3. TypeOK /\ Lockstep /\ Matter /\ Scattered /\ Waited(s)
    BY DEF HpxInv, Lockstep
<1>4. sp = Splitters(GlobalHistogram) /\ dom = HomeDomains
    OBVIOUS
<1> HIDE DEF sp, dom
<1>5. /\ DOMAIN domains' = Site /\ DOMAIN splitters' = Site
      /\ splitters'[s] = sp /\ domains'[s] = dom
      /\ \A q \in Site \ {s} : domains'[q] = domains[q] /\ splitters'[q] = splitters[q]
    BY <1>1, <1>3 DEF TypeOK
<1>6. CASE ~Rebalances(step[s]) /\ BuildAndExchange(s, dom)
    BY <1>1, <1>4, <1>5, <1>6, BuildKeeps
<1>7. CASE Rebalances(step[s]) /\ Call(s, "migrate", Outgoing(s, sp)) /\ local' = local
  <2> DEFINE value == Outgoing(s, sp)
  <2>1. Call(s, "migrate", value)
      BY <1>7
  <2>2. value = Outgoing(s, Splitters(GlobalHistogram))
      BY <1>4
  <2> HIDE DEF value
  <2>3. "migrate" \in Phase /\ CommOf("migrate") = "migrate" /\ "migrate" \in Comm
        /\ {"bbox", "hist"} \in SUBSET Comm /\ {"scatter"} \in SUBSET Comm
      BY DEF Phase, CommOf, Comm
  <2>4. TypeOK' /\ Stay(s) /\ Posts(s, "migrate", value) /\ pc'[s] = "migrate" /\ begun'[s] = 0
    <3>1. local' \in [Site -> Seq(Body)] /\ \A q \in Site \ {s} : local'[q] = local[q]
        BY <1>3, <1>7 DEF TypeOK
    <3> QED
        BY <1>1, <1>3, <1>5, <2>1, <2>3, <3>1, EarlyCall
  <2>5. Keeps(s, {"bbox", "hist"}) /\ Keeps(s, {"scatter"})
        /\ calls'[s]["migrate"] = calls[s]["migrate"] + 1
        /\ Contribution("migrate", s)' = Outgoing(s, Splitters(GlobalHistogram))
      BY <2>2, <2>3, <2>4, PostsElsewhere DEF Posts
  <2>6. \A q \in Site : calls[q]["hist"] >= calls[s]["hist"]
      BY <1>1, <1>3, ReturnMeets
  <2>7. Lockstep'
      BY <1>1, <1>3, <1>7, <2>4, <2>5, <2>6, MigrationKeepsStep
  <2>8. Matter'
      BY <1>1, <1>3, <1>4, <1>5, <1>7, <2>4, <2>5, <2>6, MigrationKeepsMatter
  <2>9. Scattered'
    <3>1. pc'[s] \notin Before
        BY <2>4 DEF Before
    <3> QED
        BY <1>3, <2>4, <2>5, <3>1, ScatteredStays
  <2>10. \A c \in {"hist", "bbox", "scatter"} : calls'[s][c] >= calls[s][c]
      BY <1>3, <2>3, <2>4, PostsGrow
  <2> QED
      BY <2>4, <2>7, <2>8, <2>9, <2>10, InvNext
<1> QED
    BY <1>2, <1>6, <1>7

LEMMA BoundingBoxAgainKeeps ==
    ASSUME HpxInv, NEW s \in Site, BoundingBoxAgain(s)
    PROVE  HpxInv'
<1> DEFINE dom == domains[s]
<1>1. /\ Returns(s, "rebbox") /\ BuildAndExchange(s, dom)
      /\ UNCHANGED <<path, ending>> /\ UNCHANGED <<step, keyOf, domains, splitters>>
    BY DEF BoundingBoxAgain, input
<1> HIDE DEF dom
<1>2. DOMAIN domains = Site /\ DOMAIN splitters = Site
    BY DEF HpxInv, Lockstep, TypeOK
<1> QED
    BY <1>1, <1>2, BuildKeeps

LEMMA MigrateKeeps ==
    ASSUME HpxInv, NEW s \in Site, Migrate(s)
    PROVE  HpxInv'
<1> DEFINE value == {}
           incoming == Incoming(s)
<1>1. /\ pc[s] = "migrate" /\ Returns(s, "migrate") /\ Call(s, "rebbox", value)
      /\ UNCHANGED <<path, ending>> /\ UNCHANGED <<step, keyOf, domains, splitters>>
      /\ local' = [local EXCEPT ![s] = incoming]
    BY DEF Migrate, Returns, input
<1>2. TypeOK /\ Lockstep /\ Matter /\ Scattered /\ Waited(s)
    BY DEF HpxInv, Lockstep
<1>3. incoming \in Seq(Body)
  <2>1. Inside(s)
      BY <1>1, <1>2 DEF Lockstep, Outside, Before
  <2>2. calls[s]["migrate"] > 0
      BY <1>1, <1>2, <2>1, Numbers DEF Inside
  <2>3. \A q \in Site : calls[q]["migrate"] = calls[s]["migrate"]
      BY <1>1, <1>2, ReturnMeets
  <2>4. \A q \in Site : Contribution("migrate", q)[s] \in Seq(Body)
      BY <1>2, <2>2, <2>3 DEF Matter, Reduced
  <2> QED
      BY <2>4, IncomingHas
<1>4. incoming = Incoming(s)
    OBVIOUS
<1> HIDE DEF value, incoming
<1>5. /\ local' \in [Site -> Seq(Body)] /\ local'[s] = incoming
      /\ \A q \in Site \ {s} : local'[q] = local[q]
    BY <1>1, <1>2, <1>3 DEF TypeOK
<1>6. "rebbox" \in Phase /\ CommOf("rebbox") = "bbox" /\ "bbox" \in Comm
      /\ {"migrate", "hist"} \in SUBSET Comm /\ {"scatter"} \in SUBSET Comm
    BY DEF Phase, CommOf, Comm
<1>7. TypeOK' /\ Stay(s) /\ Posts(s, "bbox", value) /\ pc'[s] = "rebbox" /\ begun'[s] = 0
    BY <1>1, <1>2, <1>5, <1>6, EarlyCall DEF TypeOK
<1>8. Keeps(s, {"migrate", "hist"}) /\ Keeps(s, {"scatter"})
      /\ calls'[s]["bbox"] = calls[s]["bbox"] + 1
    BY <1>6, <1>7, PostsElsewhere DEF Posts
<1>9. \A q \in Site : calls[q]["migrate"] = calls[s]["migrate"]
    BY <1>1, <1>2, ReturnMeets
<1>10. Lockstep'
    BY <1>1, <1>2, <1>7, <1>8, <1>9, FetchKeepsStep
<1>11. Matter'
    BY <1>1, <1>2, <1>4, <1>5, <1>7, <1>8, <1>9, FetchKeepsMatter
<1>12. Scattered'
  <2>1. pc'[s] \notin Before
      BY <1>7 DEF Before
  <2> QED
      BY <1>2, <1>7, <1>8, <2>1, ScatteredStays
<1>13. \A c \in {"hist", "bbox", "scatter"} : calls'[s][c] >= calls[s][c]
    BY <1>2, <1>6, <1>7, PostsGrow
<1> QED
    BY <1>7, <1>10, <1>11, <1>12, <1>13, InvNext

\* A timer is started where there is one to start, its collective complete.
LEMMA StartTimerKeeps ==
    ASSUME HpxInv, NEW s \in Site, StartTimer(s)
    PROVE  HpxInv'
<1> DEFINE value == {}
           n == begun[s] + 1
<1>1. /\ pc[s] = "kicked" \/ (pc[s] \in Phase /\ (begun[s] = 0 => Arrived(s, CommOf(pc[s]))))
      /\ begun[s] < Due(s) /\ Enters(s, "barrier", value)
      /\ begun' = [begun EXCEPT ![s] = n] /\ UNCHANGED <<path, ending>>
      /\ UNCHANGED <<pc, step, local, keyOf, domains, splitters>>
    BY DEF StartTimer, input
<1>2. TypeOK /\ Lockstep /\ Waited(s) /\ Scattered
    BY DEF HpxInv, Lockstep
<1>3. begun[s] \in Nat /\ n \in Nat
    BY <1>2, Numbers
<1> HIDE DEF value, n
<1>4. "barrier" \in Comm /\ Paced \in SUBSET Comm /\ {"scatter"} \in SUBSET Comm
      /\ "barrier" \notin Paced
    BY DEF Comm, Phase, Paced
<1>5. CommsOK' /\ Posts(s, "barrier", value) /\ Elsewhere(s)
    BY <1>1, <1>2, <1>3, <1>4, EnteredComms DEF TypeOK
<1>6. TypeOK' /\ Stay(s) /\ Keeps(s, Paced) /\ Keeps(s, {"scatter"})
    BY <1>1, <1>2, <1>4, <1>5, PostsElsewhere DEF TypeOK, Stay, Elsewhere
<1>7. Quiet(s)
    BY <1>1, <1>6 DEF Quiet
<1>8. Due(s) # 0
    BY <1>1, <1>3
<1>9. pc[s] \notin {"start", "bcast", "bbox", "migrate"}
  <2> SUFFICES ASSUME pc[s] \in {"start", "bcast", "bbox", "migrate"} PROVE Due(s) = 0
      BY <1>8
  <2>1. TimersAhead(s) = {}
      BY DEF TimersAhead
  <2> QED
      BY <2>1, FS_EmptySet DEF Due
<1>10. /\ calls'[s]["hist"] = calls[s]["hist"] /\ calls'[s]["bbox"] = calls[s]["bbox"]
       /\ \A q \in Site : /\ calls'[q]["hist"] = calls[q]["hist"]
                          /\ calls'[q]["bbox"] = calls[q]["bbox"]
                          /\ calls'[q]["scatter"] = calls[q]["scatter"]
  <2>1. {"hist", "bbox", "scatter"} \subseteq Comm
      BY DEF Comm, Phase
  <2> QED
      BY <1>6, <2>1 DEF Stay, Keeps, Paced
<1>11. \A q \in Site, c \in {"hist", "bbox"} : Generation(c, q) = calls[q][c] /\ calls[q][c] \in Nat
  <2>1. {"hist", "bbox"} \subseteq Comm
      BY DEF Comm, Phase
  <2> QED
      BY <1>2, <2>1 DEF TypeOK, CommsOK
<1>12. Waited(s)'
  <2>1. pc[s] = "scatter" => calls[Root]["scatter"] = 1
    <3> SUFFICES ASSUME pc[s] = "scatter" PROVE calls[Root]["scatter"] = 1
        OBVIOUS
    <3>1. begun[s] = 0 => Arrived(s, "scatter")
        BY <1>1 DEF CommOf
    <3> QED
        BY <3>1, RootHasSent
  <2>2. pc[s] = "hist" => \A q \in Site : calls[q]["hist"] >= calls[s]["hist"]
    <3> SUFFICES ASSUME pc[s] = "hist" PROVE \A q \in Site : calls[q]["hist"] >= calls[s]["hist"]
        OBVIOUS
    <3>1. begun[s] = 0 => Arrived(s, "hist")
        BY <1>1 DEF CommOf
    <3>2. CASE begun[s] = 0
        BY <1>11, <3>1, <3>2 DEF Arrived, Awaited
    <3>3. CASE begun[s] > 0
        BY <1>2, <3>3 DEF Waited
    <3> QED
        BY <1>3, <3>2, <3>3
  <2>3. pc[s] = "rebbox" => \A q \in Site : calls[q]["bbox"] >= calls[s]["bbox"]
    <3> SUFFICES ASSUME pc[s] = "rebbox" PROVE \A q \in Site : calls[q]["bbox"] >= calls[s]["bbox"]
        OBVIOUS
    <3>1. begun[s] = 0 => Arrived(s, "bbox")
        BY <1>1 DEF CommOf
    <3>2. CASE begun[s] = 0
        BY <1>11, <3>1, <3>2 DEF Arrived, Awaited
    <3>3. CASE begun[s] > 0
        BY <1>2, <3>3 DEF Waited
    <3> QED
        BY <1>3, <3>2, <3>3
  <2>4. Root \in Site /\ Root = 0
      BY HpxStepAssumption DEF Root, Site
  <2>5. pc'[s] = pc[s]
      BY <1>1
  <2> QED
      BY <1>9, <1>10, <2>1, <2>2, <2>3, <2>4, <2>5 DEF Waited, Before, Root
<1> QED
    BY <1>1, <1>6, <1>7, <1>12, QuietKeeps

LEMMA FinishKeeps ==
    ASSUME HpxInv, NEW s \in Site, Finish(s)
    PROVE  HpxInv'
<1>1. /\ pc[s] = ending /\ pc' = [pc EXCEPT ![s] = "done"]
      /\ UNCHANGED <<path, ending>> /\ UNCHANGED <<calls, posted, begun>>
      /\ UNCHANGED <<step, local, keyOf, domains, splitters>>
    BY DEF Finish, Returns, input, comms
<1>2. TypeOK
    BY DEF HpxInv, Lockstep
<1>3. pc[s] \in {"gather", "error"}
    BY <1>1, <1>2, HpxStepAssumption DEF TypeOK, Place, Before, Late, After
<1>4. /\ pc' \in [Site -> Place] /\ pc'[s] = "done" /\ \A q \in Site \ {s} : pc'[q] = pc[q]
  <2>1. "done" \in Place
      BY DEF Place, After
  <2> QED
      BY <1>1, <1>2, <2>1 DEF TypeOK
<1>5. CommsOK'
  <2>1. \A c \in Comm, q \in Site : posted[c][q][1] = calls[q][c]
      BY <1>2 DEF TypeOK, CommsOK, Generation
  <2>2. \A c \in Comm, q \in Site : posted'[c][q][1] = calls'[q][c]
      BY <1>1, <2>1
  <2> QED
      BY <1>1, <1>2, <2>2 DEF TypeOK, CommsOK, Generation
<1>6. TypeOK'
    BY <1>1, <1>2, <1>4, <1>5 DEF TypeOK
<1>7. Stay(s) /\ Keeps(s, Paced) /\ Keeps(s, {"scatter"})
    BY <1>1, <1>4 DEF Stay, Keeps
<1>8. Quiet(s)
    BY <1>1, <1>3, <1>4, <1>7 DEF Quiet
<1>9. pc'[s] \in Late \cup After /\ pc'[s] \notin Before
    BY <1>4 DEF After, Before
<1> QED
    BY <1>6, <1>7, <1>8, <1>9, QuietKeeps

LEMMA NothingKeeps ==
    ASSUME HpxInv, UNCHANGED vars
    PROVE  HpxInv'
<1>1. Root \in Site
    BY HpxStepAssumption DEF Root, Site
<1>2. UNCHANGED <<path, ending, pc, step, calls, posted, begun, local, keyOf, domains, splitters>>
    BY DEF vars, input, comms
<1>3. TypeOK /\ Waited(0)
    BY <1>1 DEF HpxInv, Lockstep, Root
<1>4. CommsOK'
  <2>1. \A c \in Comm, q \in Site : posted[c][q][1] = calls[q][c]
      BY <1>3 DEF TypeOK, CommsOK, Generation
  <2>2. \A c \in Comm, q \in Site : posted'[c][q][1] = calls'[q][c]
      BY <1>2, <2>1
  <2> QED
      BY <1>2, <1>3, <2>2 DEF TypeOK, CommsOK, Generation
<1>5. TypeOK'
    BY <1>2, <1>3, <1>4 DEF TypeOK
<1>6. Quiet(0) /\ Keeps(0, {"scatter"})
    BY <1>2 DEF Quiet, Stay, Keeps
<1>7. Waited(0)'
    BY <1>2, <1>3 DEF Waited, Root
<1>8. 0 \in Site /\ pc'[0] = pc[0]
    BY <1>1, <1>2 DEF Root
<1> QED
    BY <1>5, <1>6, <1>7, <1>8, QuietKeeps

LEMMA Initially ==
    ASSUME Init
    PROVE  HpxInv
<1>1. /\ path \in Paths /\ ending \in Endings /\ keyOf = path[0]
      /\ pc = [s \in Site |-> "start"] /\ step = [s \in Site |-> 0]
      /\ calls = [s \in Site |-> [c \in Comm |-> 0]] /\ begun = [s \in Site |-> 0]
      /\ posted = [c \in Comm |-> [s \in Site |-> <<0, {}>>]]
      /\ local = [s \in Site |-> <<>>]
      /\ domains = [s \in Site |-> [r \in Site |-> {}]] /\ splitters = [s \in Site |-> <<>>]
    BY DEF Init
<1>2. Root \in Site /\ Root = 0 /\ 0 \in 0 .. Steps - 1
    BY HpxStepAssumption DEF Root, Site
<1>3. CommsOK
    BY <1>1 DEF CommsOK, Generation
<1>4. TypeOK
  <2>1. "start" \in Place
      BY DEF Place, Before
  <2>2. keyOf \in [Body -> Key]
      BY <1>1, <1>2, HpxStepAssumption
  <2>3. <<>> \in Seq(Body)
      OBVIOUS
  <2> QED
      BY <1>1, <1>2, <1>3, <2>1, <2>2, <2>3 DEF TypeOK
<1>5. /\ Paced \subseteq Comm /\ "scatter" \in Comm
      /\ {"hist", "bbox", "migrate"} \subseteq Comm
    BY DEF Paced, Comm, Phase
<1>6. \A s \in Site : pc[s] = "start" /\ step[s] = 0 /\ begun[s] = 0
                      /\ \A c \in Comm : calls[s][c] = 0
    BY <1>1
<1>7. \A s \in Site : Outside(s)
    BY <1>5, <1>6 DEF Outside, Before
<1>8. \A s, q \in Site : Met(s, q)
    BY <1>5, <1>6 DEF Met, Fetched
<1>9. Lockstep
    BY <1>4, <1>7, <1>8 DEF Lockstep
<1>10. \A s \in Site : Waited(s)
    BY <1>6 DEF Waited
<1>11. Scattered
    BY <1>2, <1>5, <1>6 DEF Scattered
<1>12. \A s \in Site : Reduced(s) /\ DomainsOf(s)
    BY <1>5, <1>6 DEF Reduced, DomainsOf, HasDomains, Sampling
<1>13. ASSUME NEW i \in Body PROVE Kept(i) /\ InPlace(i)
  <2>1. Flights(i) = {}
    <3>1. \A q \in Site : Generation("migrate", q) = 0 /\ Fetched(q) = 0
      <4>1. \A q \in Site : Generation("migrate", q) = calls[q]["migrate"]
          BY <1>3, <1>5 DEF CommsOK
      <4> QED
          BY <1>5, <1>6, <4>1 DEF Fetched
    <3> QED
        BY <3>1 DEF Flights
  <2>2. PICK s \in Site : \A q \in Site : i \in Range(Slice(q)) <=> q = s
      BY OneSlice
  <2>3. Holders(i) = {s}
      BY <1>5, <1>6, <2>2 DEF Holders, Part
  <2>4. Kept(i)
      BY <2>1, <2>3 DEF Kept
  <2>5. InPlace(i)
      BY <1>6, <2>1 DEF InPlace, HasDomains, Sampling
  <2> QED
      BY <2>4, <2>5
<1> QED
    BY <1>9, <1>10, <1>11, <1>12, <1>13 DEF HpxInv, Matter

\* The invariant holds in every state of every run.
THEOREM Invariant == Spec => []HpxInv
<1>1. Init => HpxInv
    BY Initially
<1>2. HpxInv /\ [Next]_vars => HpxInv'
  <2> SUFFICES ASSUME HpxInv, [Next]_vars PROVE HpxInv'
      OBVIOUS
  <2>1. CASE UNCHANGED vars
      BY <2>1, NothingKeeps
  <2>2. ASSUME NEW s \in Site, SiteNext(s) PROVE HpxInv'
    <3>1. CASE Start(s)
        BY <3>1, StartKeeps
    <3>2. CASE Broadcast(s)
        BY <3>2, BroadcastKeeps
    <3>3. CASE Scatter(s)
        BY <3>3, ScatterKeeps
    <3>4. CASE BoundingBox(s)
        BY <3>4, BoundingBoxKeeps
    <3>5. CASE ReduceHistogram(s)
        BY <3>5, ReduceHistogramKeeps
    <3>6. CASE Migrate(s)
        BY <3>6, MigrateKeeps
    <3>7. CASE BoundingBoxAgain(s)
        BY <3>7, BoundingBoxAgainKeeps
    <3>8. CASE \/ Exchange(s) \/ Walks(s) \/ SampleEnergy(s) \/ GatherBodies(s) \/ Energy(s)
               \/ AfterOutput(s) \/ ReduceTimers(s)
      <4>1. TypeOK
          BY DEF HpxInv, Lockstep
      <4>2. Ends(s)
          BY <3>8, <4>1, LateStepsEnd
      <4> QED
          BY <4>2, EndsKeep
    <3>9. CASE StartTimer(s)
        BY <3>9, StartTimerKeeps
    <3>10. CASE Finish(s)
        BY <3>10, FinishKeeps
    <3> QED
        BY <2>2, <3>1, <3>2, <3>3, <3>4, <3>5, <3>6, <3>7, <3>8, <3>9, <3>10 DEF SiteNext
  <2> QED
      BY <2>1, <2>2 DEF Next
<1> QED
    BY <1>1, <1>2, PTL DEF Spec

\* No body is lost or doubled in a migration, whenever each site fetches what is
\* sent to it.
THEOREM MigrationsKeepBodies == Spec => []BodiesKept
<1>1. HpxInv => BodiesKept
  <2> SUFFICES ASSUME HpxInv, \A s \in Site : pc[s] \in InLoop, NEW i \in Body
               PROVE  Cardinality({s \in Site : pc[s] # "migrate" /\ i \in Bodies(s)})
                         + Cardinality({e \in Site \X Site :
                              /\ Generation("migrate", e[1]) = Fetched(e[2]) + 1
                              /\ i \in Range(Contribution("migrate", e[1])[e[2]])}) = 1
      BY DEF BodiesKept
  <2>1. \A s \in Site : Part(s) = Bodies(s)
    <3>1. Lockstep
        BY DEF HpxInv
    <3>2. \A s \in Site : Inside(s)
        BY <3>1 DEF Lockstep, Outside, Before, InLoop, HasDomains, Sampling
    <3> QED
        BY <3>1, <3>2, InsideHas
  <2>2. {s \in Site : pc[s] # "migrate" /\ i \in Bodies(s)} = Holders(i)
      BY <2>1 DEF Holders
  <2>3. {e \in Site \X Site : /\ Generation("migrate", e[1]) = Fetched(e[2]) + 1
                              /\ i \in Range(Contribution("migrate", e[1])[e[2]])} = Flights(i)
      BY DEF Flights
  <2>4. Kept(i)
      BY DEF HpxInv, Matter
  <2>5. Cardinality({}) = 0 /\ \A x : Cardinality({x}) = 1
      BY FS_EmptySet, FS_Singleton
  <2>6. Cardinality(Holders(i)) + Cardinality(Flights(i)) = 1
    <3>1. CASE \E s \in Site : Holders(i) = {s} /\ Flights(i) = {}
      <4>1. Cardinality(Holders(i)) = 1 /\ Cardinality(Flights(i)) = 0
          BY <2>5, <3>1
      <4> QED
          BY <4>1
    <3>2. CASE \E e \in Site \X Site : Flights(i) = {e} /\ Holders(i) = {}
      <4>1. Cardinality(Flights(i)) = 1 /\ Cardinality(Holders(i)) = 0
          BY <2>5, <3>2
      <4> QED
          BY <4>1
    <3> QED
        BY <2>4, <3>1, <3>2 DEF Kept
  <2> QED
      BY <2>2, <2>3, <2>6
<1> QED
    BY <1>1, Invariant, PTL

\* Every site finds the same domains, and in a step that migrates has bodies of
\* its own domain alone.
THEOREM SitesAgree == Spec => []DomainsAgree
<1>1. HpxInv => DomainsAgree
  <2> SUFFICES ASSUME HpxInv, NEW s \in Site, pc[s] \in HasDomains
               PROVE  /\ \A q \in Site : pc[q] \in HasDomains /\ step[q] = step[s] =>
                            domains[q] = domains[s] /\ splitters[q] = splitters[s]
                      /\ Rebalances(step[s]) /\ pc[s] # "migrate" =>
                            \A i \in Bodies(s) : Bucket(keyOf[i]) \in domains[s][s]
      BY DEF DomainsAgree
  <2>1. \A q \in Site : pc[q] \in HasDomains =>
           domains[q] = HomeDomains /\ splitters[q] = Splitters(GlobalHistogram)
      BY DEF HpxInv, Matter, DomainsOf
  <2>2. ASSUME Rebalances(step[s]), pc[s] # "migrate", NEW i \in Bodies(s)
        PROVE  Bucket(keyOf[i]) \in domains[s][s]
    <3>1. i \in Body
        BY DEF HpxInv, Lockstep, TypeOK, Bodies, Range
    <3>2. Bucket(keyOf[i]) \in HomeDomains[s]
        BY <2>2, <3>1 DEF HpxInv, Matter, InPlace
    <3> QED
        BY <2>1, <3>2
  <2> QED
      BY <2>1, <2>2
<1> QED
    BY <1>1, Invariant, PTL

============================================================================

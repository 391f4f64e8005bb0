---------------------------- MODULE SceneProofs ----------------------------
(***************************************************************************)
(* Proofs about the components of Scene, for every number of entities and  *)
(* every order of the operations: the rows of the TransformComponent stay  *)
(* apart, the map of either component is the inverse of its array, and the *)
(* hierarchy of the transforms is what was asked for.                      *)
(*                                                                         *)
(* The argument has four parts.  The first is about the hash table alone:  *)
(* which entries its chains reach, and what set and remove change of that. *)
(* The second follows the column of entities through the operations on     *)
(* rows.  The third has the inductive invariants of the two maps.  The     *)
(* fourth is about the links between rows and the traversal that follows   *)
(* them.                                                                   *)
(***************************************************************************)
EXTENDS Scene, FiniteSetTheorems, WellFoundedInduction, TLAPS

----------------------------------------------------------------------------
(* Numbers: induction, and definitions by it.                              *)

\* A set of numbers that is not empty has a least one.
LEMMA LeastNumber ==
  ASSUME NEW T, T \subseteq Nat, T # {}
  PROVE  \E x \in T : \A y \in T : x <= y
  <1>1. PICK x \in T : \A y \in T : ~ (<<y, x>> \in OpToRel(<, Nat))
    BY NatLessThanWellFounded, WFMin
  <1>2. ASSUME NEW y \in T
        PROVE  x <= y
    <2>1. ~ (<<y, x>> \in OpToRel(<, Nat))
      BY <1>1
    <2>2. ~ (y < x)
      BY <2>1 DEF OpToRel
    <2> QED
      BY <2>2
  <1> QED
    BY <1>2

\* What holds of 0 and of the successors of what it holds of holds of them all.
LEMMA NumbersByStep ==
  ASSUME NEW T, 0 \in T, \A n \in Nat : n \in T => n + 1 \in T
  PROVE  Nat \subseteq T
  <1> DEFINE U == Nat \ T
  <1>1. SUFFICES ASSUME U # {}
                 PROVE  FALSE
    OBVIOUS
  <1>2. PICK n \in U : \A m \in U : n <= m
    <2> HIDE DEF U
    <2>1. U \subseteq Nat
      BY DEF U
    <2> QED
      BY <1>1, <2>1, LeastNumber
  <1>3. n - 1 \in Nat /\ (n - 1) + 1 = n /\ n - 1 \notin U
    BY <1>2
  <1> QED
    BY <1>2, <1>3

\* next is what the nth of the numbers of a run are followed by.
Runs(f, first, next) ==
  /\ f[0] = first
  /\ \A n \in Nat : f[n + 1] = next[n][f[n]]

\* The runs of n + 1 members of S.
RunsTo(n, S, first, next) ==
  {p \in [0 .. n -> S] : p[0] = first /\ \A k \in 0 .. n - 1 : p[k + 1] = next[k][p[k]]}

\* There is a run of every length.
LEMMA RunOfEveryLength ==
  ASSUME NEW S, NEW first \in S, NEW next \in [Nat -> [S -> S]], NEW n \in Nat
  PROVE  RunsTo(n, S, first, next) # {}
  <1> DEFINE T == {k \in Nat : RunsTo(k, S, first, next) = {}}
  <1>1. SUFFICES ASSUME T # {}
                 PROVE  FALSE
    OBVIOUS
  <1>2. PICK m \in T : \A k \in T : m <= k
    <2> HIDE DEF T
    <2>1. T \subseteq Nat
      BY DEF T
    <2> QED
      BY <1>1, <2>1, LeastNumber
  <1>3. m # 0
    <2>1. [k \in 0 .. 0 |-> first] \in RunsTo(0, S, first, next)
      BY DEF RunsTo
    <2> QED
      BY <2>1
  <1>4. PICK p : p \in RunsTo(m - 1, S, first, next)
    <2>1. m - 1 \in Nat /\ m - 1 \notin T
      BY <1>2, <1>3
    <2> QED
      BY <2>1
  <1> DEFINE q == [k \in 0 .. m |-> IF k = m THEN next[m - 1][p[m - 1]] ELSE p[k]]
  <1>5. q \in RunsTo(m, S, first, next)
    <2>1. m \in Nat /\ m - 1 \in Nat
      BY <1>3
    <2>2. /\ p \in [0 .. m - 1 -> S] /\ p[0] = first
          /\ \A k \in 0 .. (m - 1) - 1 : p[k + 1] = next[k][p[k]]
      BY <1>4 DEF RunsTo
    <2>3. q \in [0 .. m -> S]
      BY <2>1, <2>2
    <2>4. q[0] = first
      BY <1>3, <2>1, <2>2
    <2>5. ASSUME NEW k \in 0 .. m - 1
          PROVE  q[k + 1] = next[k][q[k]]
      <3>1. CASE k = m - 1
        BY <2>1, <3>1
      <3>2. CASE k # m - 1
        BY <2>1, <2>2, <3>2
      <3> QED
        BY <3>1, <3>2
    <2> QED
      BY <2>3, <2>4, <2>5 DEF RunsTo
  <1> QED
    BY <1>5

\* Two runs agree as far as both go.
LEMMA RunsAgree ==
  ASSUME NEW S, NEW first, NEW next, NEW n \in Nat, NEW m \in Nat,
         NEW p \in RunsTo(n, S, first, next), NEW q \in RunsTo(m, S, first, next)
  PROVE  \A k \in 0 .. n : k <= m => p[k] = q[k]
  <1> DEFINE T == {k \in 0 .. n : k <= m /\ p[k] # q[k]}
  <1>1. SUFFICES ASSUME T # {}
                 PROVE  FALSE
    OBVIOUS
  <1>2. PICK k \in T : \A j \in T : k <= j
    <2> HIDE DEF T
    <2>1. T \subseteq Nat
      BY DEF T
    <2> QED
      BY <1>1, <2>1, LeastNumber
  <1>3. k # 0
    BY DEF RunsTo
  <1>4. k - 1 \in 0 .. n - 1 /\ k - 1 \in 0 .. m - 1 /\ (k - 1) + 1 = k
    BY <1>3
  <1>5. p[k - 1] = q[k - 1]
    BY <1>2, <1>4
  <1>6. p[k] = next[k - 1][p[k - 1]] /\ q[k] = next[k - 1][q[k - 1]]
    BY <1>4 DEF RunsTo
  <1> QED
    BY <1>5, <1>6

\* So a function on the numbers may be defined by a first value and the step from
\* each to the next.
LEMMA RunExists ==
  ASSUME NEW S, NEW first \in S, NEW next \in [Nat -> [S -> S]]
  PROVE  \E f \in [Nat -> S] : Runs(f, first, next)
  <1> DEFINE run(n) == CHOOSE p : p \in RunsTo(n, S, first, next)
             f == [n \in Nat |-> run(n)[n]]
  <1>1. \A n \in Nat : run(n) \in RunsTo(n, S, first, next)
    BY RunOfEveryLength
  <1> HIDE DEF run
  <1>2. \A n \in Nat : run(n) \in [0 .. n -> S]
    BY <1>1 DEF RunsTo
  <1>3. f \in [Nat -> S]
    BY <1>2
  <1>4. f[0] = first
    BY <1>1 DEF RunsTo
  <1>5. ASSUME NEW n \in Nat
        PROVE  f[n + 1] = next[n][f[n]]
    <2>1. run(n + 1) \in RunsTo(n + 1, S, first, next) /\ run(n) \in RunsTo(n, S, first, next)
      BY <1>1
    <2>2. run(n)[n] = run(n + 1)[n]
      BY <2>1, RunsAgree
    <2>3. run(n + 1)[n + 1] = next[n][run(n + 1)[n]]
      BY <2>1 DEF RunsTo
    <2> QED
      BY <2>2, <2>3
  <1> QED
    BY <1>3, <1>4, <1>5 DEF Runs

----------------------------------------------------------------------------
(* The chains of a table.                                                  *)

Entries == [key : Nat, next : Nat, value : Int]
Tables  == [buckets : Seq(Nat), data : Seq(Entries)]

\* The bucket of entry i
Home(h, i) == BucketOf(h, h.data[i].key)

\* Through the entries of L run chains, along which order increases, each in the
\* bucket of its entries; the keys differ, and entries that are not in L are not
\* reached.
Threaded(h, L, order) ==
  /\ L \subseteq DOMAIN h.data
  /\ order \in [L -> Nat]
  /\ \A b \in DOMAIN h.buckets :
       h.buckets[b] # End => h.buckets[b] \in L /\ Home(h, h.buckets[b]) = b
  /\ \A i \in L : h.data[i].next # End =>
       /\ h.data[i].next \in L
       /\ Home(h, h.data[i].next) = Home(h, i)
       /\ order[i] < order[h.data[i].next]
       /\ h.data[i].next # h.buckets[Home(h, i)]
  /\ \A i \in L : h.buckets[Home(h, i)] = i \/ \E j \in L : h.data[j].next = i
  /\ \A i, j \in L : h.data[i].next = h.data[j].next /\ h.data[i].next # End => i = j
  /\ \A i, j \in L : h.data[i].key = h.data[j].key => i = j

\* No bucket, or some buckets with their chains.
SoundWith(h, L) ==
  /\ h \in Tables
  /\ h.buckets = <<>> => h.data = <<>>
  /\ \E order : Threaded(h, L, order)

\* A key has a bucket.
LEMMA KeyHasBucket ==
  ASSUME NEW h \in Tables, h.buckets # <<>>, NEW key \in Nat
  PROVE  BucketOf(h, key) \in DOMAIN h.buckets
  <1>1. Len(h.buckets) \in Nat \ {0} /\ DOMAIN h.buckets = 1 .. Len(h.buckets)
    BY DEF Tables
  <1>2. \A n \in Nat \ {0} : key % n \in 0 .. n - 1
    OBVIOUS
  <1> DEFINE n == Len(h.buckets)
  <1>3. key % n \in 0 .. n - 1
    <2> HIDE DEF n
    <2> QED
      BY <1>1, <1>2 DEF n
  <1>4. (key % n) + 1 \in 1 .. n
    <2> DEFINE r == key % n
    <2> HIDE DEF r, n
    <2>1. r \in 0 .. n - 1 /\ n \in Nat
      BY <1>1, <1>3 DEF r, n
    <2> QED
      BY <2>1 DEF r
  <1> QED
    BY <1>1, <1>4 DEF BucketOf

\* f is the chain of bucket b, going on for ever at End.
Walk(f, h, b) ==
  /\ f[0] = h.buckets[b]
  /\ \A n \in Nat : f[n + 1] = IF f[n] = End THEN End ELSE h.data[f[n]].next

\* Chain is that, up to the length of the array.
LEMMA ChainWalks ==
  ASSUME NEW h, NEW L, NEW order, Threaded(h, L, order), NEW b \in DOMAIN h.buckets
  PROVE  \E f \in [Nat -> L \union {End}] :
           Walk(f, h, b) /\ Chain(h, b) = [n \in 0 .. Len(h.data) |-> f[n]]
  <1> DEFINE S == L \union {End}
             step == [v \in S |-> IF v = End THEN End ELSE h.data[v].next]
             next == [n \in Nat |-> step]
             node == CHOOSE node : node = [n \in Nat |->
                       IF n = 0 THEN h.buckets[b]
                       ELSE IF node[n - 1] = End THEN End ELSE h.data[node[n - 1]].next]
  <1>1. h.buckets[b] \in S
    BY DEF Threaded
  <1>2. \A v \in S : step[v] \in S
    BY DEF Threaded
  <1>3. next \in [Nat -> [S -> S]]
    BY <1>2
  <1>4. PICK f \in [Nat -> S] : Runs(f, h.buckets[b], next)
    <2> HIDE DEF next, S
    <2> QED
      BY <1>1, <1>3, RunExists
  <1>5. f[0] = h.buckets[b] /\ \A n \in Nat : f[n + 1] = step[f[n]]
    BY <1>4 DEF Runs
  <1>6. \A n \in Nat : f[n + 1] = IF f[n] = End THEN End ELSE h.data[f[n]].next
    BY <1>5
  <1>7. f = [n \in Nat |-> IF n = 0 THEN h.buckets[b]
                           ELSE IF f[n - 1] = End THEN End ELSE h.data[f[n - 1]].next]
    <2>1. ASSUME NEW n \in Nat, n # 0
          PROVE  f[n] = IF f[n - 1] = End THEN End ELSE h.data[f[n - 1]].next
      <3>1. n - 1 \in Nat /\ (n - 1) + 1 = n
        BY <2>1
      <3> QED
        BY <1>6, <3>1
    <2> HIDE DEF S
    <2> QED
      BY <1>5, <2>1
  <1>8. node = [n \in Nat |->
                  IF n = 0 THEN h.buckets[b]
                  ELSE IF node[n - 1] = End THEN End ELSE h.data[node[n - 1]].next]
    BY <1>7
  <1>9. Chain(h, b) = [n \in 0 .. Len(h.data) |-> node[n]]
    BY DEF Chain
  <1> HIDE DEF node
  <1>10. node[0] = f[0]
    BY <1>5, <1>8
  <1>11. ASSUME NEW n \in Nat
         PROVE  node[n + 1] = IF node[n] = End THEN End ELSE h.data[node[n]].next
    <2>1. n + 1 \in Nat /\ n + 1 # 0 /\ (n + 1) - 1 = n
      OBVIOUS
    <2> QED
      BY <1>8, <2>1
  <1>12. \A n \in Nat : node[n] = f[n]
    <2> DEFINE T == {n \in Nat : node[n] # f[n]}
    <2>1. SUFFICES ASSUME T # {}
                   PROVE  FALSE
      OBVIOUS
    <2>2. PICK n \in T : \A m \in T : n <= m
      <3> HIDE DEF T
      <3>1. T \subseteq Nat
        BY DEF T
      <3> QED
        BY <2>1, <3>1, LeastNumber
    <2>3. n - 1 \in Nat /\ (n - 1) + 1 = n /\ n - 1 \notin T
      BY <1>10, <2>2
    <2>4. node[n - 1] = f[n - 1]
      BY <2>3
    <2> QED
      BY <1>6, <1>11, <2>2, <2>3, <2>4
  <1>13. Chain(h, b) = [n \in 0 .. Len(h.data) |-> f[n]]
    BY <1>9, <1>12
  <1> QED
    BY <1>5, <1>6, <1>13 DEF Walk

\* Along a chain the order increases, so it is one of different entries.
LEMMA WalkClimbs ==
  ASSUME NEW h, NEW L, NEW order, Threaded(h, L, order), NEW b \in DOMAIN h.buckets,
         NEW f \in [Nat -> L \union {End}], Walk(f, h, b)
  PROVE  \A n \in Nat : f[n] # End =>
           /\ Home(h, f[n]) = b
           /\ \A m \in 0 .. n - 1 : f[m] # End /\ order[f[m]] < order[f[n]]
  <1> DEFINE T == {n \in Nat : f[n] # End =>
                     /\ Home(h, f[n]) = b
                     /\ \A m \in 0 .. n - 1 : f[m] # End /\ order[f[m]] < order[f[n]]}
  <1>1. 0 \in T
    BY DEF Threaded, Walk
  <1>2. ASSUME NEW n \in Nat, n \in T
        PROVE  n + 1 \in T
    <2>1. SUFFICES ASSUME f[n + 1] # End
                   PROVE  /\ Home(h, f[n + 1]) = b
                          /\ \A m \in 0 .. n : f[m] # End /\ order[f[m]] < order[f[n + 1]]
      BY <1>2
    <2>2. f[n] # End /\ f[n + 1] = h.data[f[n]].next /\ f[n] \in L
      BY <2>1 DEF Walk
    <2>3. /\ Home(h, f[n + 1]) = b /\ f[n + 1] \in L
          /\ order[f[n]] < order[f[n + 1]]
      BY <1>2, <2>1, <2>2 DEF Threaded
    <2>4. ASSUME NEW m \in 0 .. n
          PROVE  f[m] # End /\ order[f[m]] < order[f[n + 1]]
      <3>1. CASE m = n
        BY <2>2, <2>3, <3>1
      <3>2. CASE m # n
        <4>1. m \in 0 .. n - 1
          BY <3>2
        <4>2. f[m] # End /\ order[f[m]] < order[f[n]]
          BY <1>2, <2>2, <4>1
        <4>3. f[m] \in L
          BY <4>2
        <4>4. order[f[m]] \in Nat /\ order[f[n]] \in Nat /\ order[f[n + 1]] \in Nat
          BY <2>2, <2>3, <4>3 DEF Threaded
        <4> QED
          BY <2>3, <4>2, <4>4
      <3> QED
        BY <3>1, <3>2
    <2> QED
      BY <2>3, <2>4
  <1>3. Nat \subseteq T
    <2> HIDE DEF T
    <2> QED
      BY <1>1, <1>2, NumbersByStep
  <1> QED
    BY <1>3

\* It is shorter than the array.
LEMMA WalkEnds ==
  ASSUME NEW h \in Tables, NEW L, NEW order, Threaded(h, L, order),
         NEW b \in DOMAIN h.buckets,
         NEW f \in [Nat -> L \union {End}], Walk(f, h, b),
         NEW n \in Nat, f[n] # End
  PROVE  n < Len(h.data)
  <1> DEFINE T == DOMAIN h.data
             g == [m \in 0 .. n |-> f[m]]
  <1>1. \A k \in 0 .. n : f[k] # End /\ f[k] \in L
    <2>1. \A k \in 0 .. n - 1 : f[k] # End
      BY WalkClimbs
    <2> QED
      BY <2>1
  <1>2. T = 1 .. Len(h.data) /\ Len(h.data) \in Nat /\ L \subseteq T /\ order \in [L -> Nat]
    BY DEF Tables, Threaded
  <1>3. ASSUME NEW k \in 0 .. n, NEW m \in 0 .. n, k < m
        PROVE  f[k] # f[m]
    <2>1. order[f[k]] < order[f[m]]
      BY <1>1, <1>3, WalkClimbs
    <2> QED
      BY <1>1, <1>2, <2>1
  <1>4. ASSUME NEW k \in 0 .. n, NEW m \in 0 .. n, k # m
        PROVE  f[k] # f[m]
    <2>1. k < m \/ m < k
      BY <1>4
    <2> QED
      BY <1>3, <2>1
  <1>5. g \in Injection(0 .. n, T)
    <2>1. g \in [0 .. n -> T]
      BY <1>1, <1>2
    <2>2. \A k, m \in 0 .. n : g[k] = g[m] => k = m
      BY <1>4
    <2> QED
      BY <2>1, <2>2 DEF Injection, IsInjective
  <1>6. IsFiniteSet(T) /\ Cardinality(T) = Len(h.data)
    <2> DEFINE size == Len(h.data)
    <2> HIDE DEF T, size
    <2>1. size \in Nat /\ T = 1 .. size
      BY <1>2 DEF size
    <2>2. /\ IsFiniteSet(1 .. size)
          /\ Cardinality(1 .. size) = IF 1 > size THEN 0 ELSE size - 1 + 1
      BY <2>1, FS_Interval
    <2> QED
      BY <2>1, <2>2 DEF size
  <1>7. Cardinality(0 .. n) = n + 1
    BY FS_Interval
  <1>8. Cardinality(0 .. n) <= Cardinality(T)
    <2> HIDE DEF T, g
    <2> QED
      BY <1>5, <1>6, FS_Injection
  <1> QED
    BY <1>2, <1>6, <1>7, <1>8

\* Every entry is in the chain of its bucket.
LEMMA WalkReaches ==
  ASSUME NEW h \in Tables, NEW L, NEW order, Threaded(h, L, order),
         NEW b \in DOMAIN h.buckets,
         NEW f \in [Nat -> L \union {End}], Walk(f, h, b)
  PROVE  \A i \in L : Home(h, i) = b => \E n \in Nat : f[n] = i
  <1> DEFINE M == {i \in L : Home(h, i) = b /\ \A n \in Nat : f[n] # i}
             T == {order[i] : i \in M}
  <1>1. SUFFICES ASSUME M # {}
                 PROVE  FALSE
    OBVIOUS
  <1>2. PICK x \in T : \A y \in T : x <= y
    <2>1. T \subseteq Nat /\ T # {}
      BY <1>1 DEF Threaded
    <2> HIDE DEF T
    <2> QED
      BY <2>1, LeastNumber
  <1>3. PICK i \in M : order[i] = x
    BY <1>2
  <1>4. h.buckets[b] # i
    BY <1>3 DEF Walk
  <1>5. PICK j \in L : h.data[j].next = i
    BY <1>3, <1>4 DEF Threaded
  <1>6. i # End /\ i \in L
    BY <1>3 DEF End, Threaded, Tables
  <1>7. Home(h, j) = b /\ order[j] < order[i]
    BY <1>3, <1>5, <1>6 DEF Threaded
  <1>8. j \notin M
    <2>1. order[j] \in Nat /\ order[i] \in Nat
      BY <1>5, <1>6 DEF Threaded
    <2>2. ~ (order[i] <= order[j])
      BY <1>7, <2>1
    <2> QED
      BY <1>2, <1>3, <2>2
  <1>9. PICK n \in Nat : f[n] = j
    BY <1>5, <1>7, <1>8
  <1>10. j # End
    BY <1>5 DEF End, Threaded, Tables
  <1>11. f[n + 1] = i
    BY <1>5, <1>9, <1>10 DEF Walk
  <1> QED
    BY <1>3, <1>11

\* What find returns: the entry of the key, if there is one, and what points to it,
\* or the end of the key's chain.
Found(h, L, key, fr) ==
  /\ fr.bucket = BucketOf(h, key)
  /\ fr.i \in L \union {End} /\ fr.prev \in L \union {End}
  /\ IF fr.i = End THEN \A i \in L : h.data[i].key # key ELSE h.data[fr.i].key = key
  /\ IF fr.prev = End THEN h.buckets[fr.bucket] = fr.i
     ELSE Home(h, fr.prev) = fr.bucket /\ h.data[fr.prev].next = fr.i

\* find finds an entry by its key, wherever it is in the chain.
LEMMA FindFinds ==
  ASSUME NEW h \in Tables, NEW L, NEW order, Threaded(h, L, order), h.buckets # <<>>,
         NEW key \in Nat
  PROVE  Found(h, L, key, Find(h, key))
  <1> DEFINE b == BucketOf(h, key)
             size == Len(h.data)
             stops(c, n) == c[n] = End \/ h.data[c[n]].key = key
             T == {n \in DOMAIN Chain(h, b) : stops(Chain(h, b), n)}
             m == Min(T)
  <1>1. b \in DOMAIN h.buckets
    BY KeyHasBucket
  <1> HIDE DEF b
  <1>2. PICK f \in [Nat -> L \union {End}] :
          Walk(f, h, b) /\ Chain(h, b) = [n \in 0 .. size |-> f[n]]
    BY <1>1, ChainWalks
  <1>3. size \in Nat
    BY DEF Tables
  <1>4. \A n \in Nat : f[n] # End => n < size
    BY <1>1, <1>2, WalkEnds
  <1> HIDE DEF size
  <1>5. T = {n \in 0 .. size : stops(f, n)}
    BY <1>2
  <1>6. T \subseteq Nat /\ T # {}
    <2>1. f[size] = End
      BY <1>3, <1>4
    <2>2. size \in T
      BY <1>3, <1>5, <2>1
    <2> QED
      BY <1>3, <1>5, <2>2
  <1>7. m \in T /\ \A n \in T : m <= n
    <2> HIDE DEF T
    <2>1. \E x \in T : \A y \in T : x <= y
      BY <1>6, LeastNumber
    <2> QED
      BY <2>1 DEF Min
  <1>8. m \in 0 .. size /\ stops(f, m) /\ \A n \in 0 .. m - 1 : ~stops(f, n)
    <2> HIDE DEF m
    <2>1. m \in 0 .. size /\ stops(f, m)
      BY <1>5, <1>7
    <2>2. ASSUME NEW n \in 0 .. m - 1
          PROVE  ~stops(f, n)
      <3>1. n \notin T /\ n \in 0 .. size
        BY <1>3, <1>7, <2>1
      <3> QED
        BY <1>5, <3>1
    <2> QED
      BY <2>1, <2>2
  <1>9. Find(h, key) = [bucket |-> b, prev |-> IF m = 0 THEN End ELSE Chain(h, b)[m - 1],
                        i |-> Chain(h, b)[m]]
    BY DEF Find, b
  <1> HIDE DEF m, T
  <1>10. m = 0 \/ (m - 1 \in 0 .. size /\ (m - 1) + 1 = m)
    BY <1>3, <1>8
  <1>11. Find(h, key) = [bucket |-> b, prev |-> IF m = 0 THEN End ELSE f[m - 1], i |-> f[m]]
    BY <1>2, <1>8, <1>9, <1>10
  <1> DEFINE fr == Find(h, key)
  <1>12. fr.bucket = b /\ fr.i = f[m] /\ fr.prev = IF m = 0 THEN End ELSE f[m - 1]
    BY <1>11
  <1> HIDE DEF fr
  <1>13. f[m] = End => \A i \in L : h.data[i].key # key
    <2> SUFFICES ASSUME f[m] = End, NEW i \in L, h.data[i].key = key
                 PROVE  FALSE
      OBVIOUS
    <2>1. Home(h, i) = b
      BY DEF Home, b
    <2>2. PICK n \in Nat : f[n] = i
      BY <1>1, <1>2, <2>1, WalkReaches
    <2>3. i # End
      BY DEF End, Threaded, Tables
    <2>4. stops(f, n) /\ n # m
      BY <2>2, <2>3
    <2>5. ~ (n < m)
      BY <1>8, <2>4
    <2>6. m < n
      BY <1>8, <2>4, <2>5
    <2>7. f[m] # End
      BY <1>1, <1>2, <1>8, <2>2, <2>3, <2>6, WalkClimbs
    <2> QED
      BY <2>7
  <1>14. m # 0 => f[m - 1] # End /\ Home(h, f[m - 1]) = b /\ h.data[f[m - 1]].next = f[m]
    <2> SUFFICES ASSUME m # 0
                 PROVE  f[m - 1] # End /\ Home(h, f[m - 1]) = b /\ h.data[f[m - 1]].next = f[m]
      OBVIOUS
    <2>1. m - 1 \in 0 .. m - 1 /\ m - 1 \in Nat
      BY <1>8, <1>10
    <2>2. f[m - 1] # End
      BY <1>8, <2>1
    <2>3. f[m] = h.data[f[m - 1]].next
      BY <1>2, <1>10, <2>1, <2>2 DEF Walk
    <2>4. Home(h, f[m - 1]) = b
      BY <1>1, <1>2, <2>1, <2>2, WalkClimbs
    <2> QED
      BY <2>2, <2>3, <2>4
  <1>15. m = 0 => h.buckets[b] = f[m]
    BY <1>2 DEF Walk
  <1>16. f[m] \in L \union {End} /\ fr.prev \in L \union {End}
    BY <1>8, <1>10, <1>12
  <1>17. fr.bucket = BucketOf(h, key)
    BY <1>12 DEF b
  <1>18. Found(h, L, key, fr)
    <2>1. IF fr.i = End THEN \A i \in L : h.data[i].key # key ELSE h.data[fr.i].key = key
      BY <1>8, <1>12, <1>13
    <2>2. IF fr.prev = End THEN h.buckets[fr.bucket] = fr.i
          ELSE Home(h, fr.prev) = fr.bucket /\ h.data[fr.prev].next = fr.i
      BY <1>12, <1>14, <1>15
    <2> QED
      BY <1>12, <1>16, <1>17, <2>1, <2>2 DEF Found
  <1> QED
    BY <1>18 DEF fr

\* The linked entries are those of L.
LEMMA LinkedAreThreaded ==
  ASSUME NEW h \in Tables, NEW L, NEW order, Threaded(h, L, order), h.buckets # <<>>
  PROVE  Linked(h) = L
  <1>1. \A b \in DOMAIN h.buckets, n \in 0 .. Len(h.data) : Chain(h, b)[n] \in L \union {End}
    <2> TAKE b \in DOMAIN h.buckets, n \in 0 .. Len(h.data)
    <2>1. PICK f \in [Nat -> L \union {End}] :
            Chain(h, b) = [k \in 0 .. Len(h.data) |-> f[k]]
      BY ChainWalks
    <2>2. n \in Nat
      BY DEF Tables
    <2> QED
      BY <2>1, <2>2
  <1>2. ASSUME NEW i \in L
        PROVE  \E b \in DOMAIN h.buckets, n \in 0 .. Len(h.data) : Chain(h, b)[n] = i
    <2>1. i # End /\ h.data[i].key \in Nat
      <3>1. h.data \in Seq(Entries) /\ i \in DOMAIN h.data
        BY DEF Threaded, Tables
      <3>2. h.data[i] \in Entries
        BY <3>1
      <3> QED
        BY <3>1, <3>2 DEF End, Entries
    <2>2. Home(h, i) \in DOMAIN h.buckets
      BY <2>1, KeyHasBucket DEF Home
    <2>3. PICK f \in [Nat -> L \union {End}] :
            /\ Walk(f, h, Home(h, i))
            /\ Chain(h, Home(h, i)) = [k \in 0 .. Len(h.data) |-> f[k]]
      BY <2>2, ChainWalks
    <2>4. PICK n \in Nat : f[n] = i
      BY <2>2, <2>3, WalkReaches
    <2>5. n \in 0 .. Len(h.data)
      <3>1. n < Len(h.data)
        BY <2>1, <2>2, <2>3, <2>4, WalkEnds
      <3>2. Len(h.data) \in Nat
        BY DEF Tables
      <3> QED
        BY <3>1, <3>2
    <2> QED
      BY <2>2, <2>3, <2>4, <2>5
  <1>3. End \notin L
    BY DEF End, Threaded, Tables
  <1>4. \A x : x \in Linked(h) <=>
          x # End /\ \E b \in DOMAIN h.buckets : \E n \in 0 .. Len(h.data) : x = Chain(h, b)[n]
    BY DEF Linked
  <1>5. \A x : x \in Linked(h) <=> x \in L
    BY <1>1, <1>2, <1>3, <1>4
  <1> QED
    BY <1>5

\* t is h with i where fr was found: what Link does.
Relinked(h, t, fr, i) ==
  /\ t \in Tables
  /\ DOMAIN t.buckets = DOMAIN h.buckets /\ DOMAIN t.data = DOMAIN h.data
  /\ Len(t.buckets) = Len(h.buckets) /\ Len(t.data) = Len(h.data)
  /\ \A b \in DOMAIN h.buckets :
       t.buckets[b] = IF fr.prev = End /\ b = fr.bucket THEN i ELSE h.buckets[b]
  /\ \A k \in DOMAIN h.data :
       /\ t.data[k].key = h.data[k].key /\ t.data[k].value = h.data[k].value
       /\ t.data[k].next = IF k = fr.prev THEN i ELSE h.data[k].next

\* Link changes a bucket's head or the next of one entry.
LEMMA LinkRelinks ==
  ASSUME NEW h \in Tables, NEW fr, fr.bucket \in DOMAIN h.buckets,
         fr.prev \in DOMAIN h.data \union {End}, NEW i \in Nat
  PROVE  Relinked(h, Link(h, fr, i), fr, i)
  <1>1. /\ h.buckets \in Seq(Nat) /\ h.data \in Seq(Entries)
        /\ h = [buckets |-> h.buckets, data |-> h.data]
    BY DEF Tables
  <1>2. \A k \in DOMAIN h.data :
          h.data[k].key \in Nat /\ h.data[k].next \in Nat /\ h.data[k].value \in Int
          /\ h.data[k] = [key |-> h.data[k].key, next |-> h.data[k].next,
                          value |-> h.data[k].value]
    <2> TAKE k \in DOMAIN h.data
    <2>1. h.data[k] \in Entries
      BY <1>1
    <2> QED
      BY <2>1 DEF Entries
  <1>3. CASE fr.prev = End
    <2> DEFINE t == [h EXCEPT !.buckets[fr.bucket] = i]
               B == [h.buckets EXCEPT ![fr.bucket] = i]
    <2>1. t = [buckets |-> B, data |-> h.data]
      <3>1. t = [h EXCEPT !.buckets = B]
        OBVIOUS
      <3> HIDE DEF t, B
      <3> QED
        BY <1>1, <3>1
    <2>2. /\ B \in Seq(Nat) /\ DOMAIN B = DOMAIN h.buckets /\ Len(B) = Len(h.buckets)
          /\ \A b \in DOMAIN h.buckets : B[b] = IF b = fr.bucket THEN i ELSE h.buckets[b]
      BY <1>1
    <2>3. t.buckets = B /\ t.data = h.data /\ t \in Tables
      BY <1>1, <2>1, <2>2 DEF Tables
    <2>4. Link(h, fr, i) = t
      BY <1>3 DEF Link
    <2>5. \A k \in DOMAIN h.data : k # fr.prev
      BY <1>1, <1>3 DEF End
    <2> HIDE DEF t, B
    <2> QED
      BY <1>3, <2>2, <2>3, <2>4, <2>5 DEF Relinked
  <1>4. CASE fr.prev # End
    <2> DEFINE t == [h EXCEPT !.data[fr.prev].next = i]
               D == [h.data EXCEPT ![fr.prev].next = i]
    <2>1. t = [buckets |-> h.buckets, data |-> D]
      <3>1. t = [h EXCEPT !.data = D]
        OBVIOUS
      <3> HIDE DEF t, D
      <3> QED
        BY <1>1, <3>1
    <2>2. /\ DOMAIN D = DOMAIN h.data /\ Len(D) = Len(h.data)
          /\ \A k \in DOMAIN h.data :
               /\ D[k].key = h.data[k].key /\ D[k].value = h.data[k].value
               /\ D[k].next = IF k = fr.prev THEN i ELSE h.data[k].next
               /\ D[k] \in Entries
      <3>1. DOMAIN D = DOMAIN h.data /\ Len(D) = Len(h.data)
        BY <1>1
      <3>2. ASSUME NEW k \in DOMAIN h.data
            PROVE  D[k] = [key |-> h.data[k].key,
                           next |-> IF k = fr.prev THEN i ELSE h.data[k].next,
                           value |-> h.data[k].value]
        <4>1. D[k] = IF k = fr.prev THEN [h.data[k] EXCEPT !.next = i] ELSE h.data[k]
          BY <1>1
        <4> HIDE DEF D
        <4> QED
          BY <1>2, <4>1
      <3> HIDE DEF D
      <3>3. ASSUME NEW k \in DOMAIN h.data
            PROVE  /\ D[k].key = h.data[k].key /\ D[k].value = h.data[k].value
                   /\ D[k].next = IF k = fr.prev THEN i ELSE h.data[k].next
        <4> DEFINE next == IF k = fr.prev THEN i ELSE h.data[k].next
        <4>1. D[k] = [key |-> h.data[k].key, next |-> next, value |-> h.data[k].value]
          BY <3>2
        <4> HIDE DEF next
        <4>2. D[k].key = h.data[k].key /\ D[k].value = h.data[k].value /\ D[k].next = next
          BY <4>1
        <4> QED
          BY <4>2 DEF next
      <3>4. ASSUME NEW k \in DOMAIN h.data
            PROVE  D[k] \in Entries
        <4> DEFINE next == IF k = fr.prev THEN i ELSE h.data[k].next
        <4>1. next \in Nat
          BY <1>2
        <4>2. D[k] = [key |-> h.data[k].key, next |-> next, value |-> h.data[k].value]
          BY <3>2
        <4> HIDE DEF next
        <4>3. h.data[k].key \in Nat /\ h.data[k].value \in Int
          BY <1>2
        <4> QED
          BY <4>1, <4>2, <4>3 DEF Entries
      <3> QED
        BY <3>1, <3>3, <3>4
    <2>3. D \in Seq(Entries)
      <3>1. DOMAIN h.data = 1 .. Len(h.data) /\ Len(h.data) \in Nat
        BY <1>1
      <3>2. D = [k \in 1 .. Len(h.data) |-> D[k]]
        BY <3>1
      <3> HIDE DEF D
      <3>3. D \in [1 .. Len(h.data) -> Entries]
        BY <2>2, <3>1, <3>2
      <3> QED
        BY <3>1, <3>3
    <2>4. t.buckets = h.buckets /\ t.data = D /\ t \in Tables
      BY <1>1, <2>1, <2>3 DEF Tables
    <2>5. Link(h, fr, i) = t
      BY <1>4 DEF Link
    <2> HIDE DEF t, D
    <2> QED
      BY <1>4, <2>2, <2>4, <2>5 DEF Relinked
  <1> QED
    BY <1>3, <1>4

\* Entry fr.i is taken out of its chain.
LEMMA UnlinkThreads ==
  ASSUME NEW h \in Tables, NEW L, NEW order, Threaded(h, L, order), h.buckets # <<>>,
         NEW key \in Nat, NEW fr, Found(h, L, key, fr), fr.i # End,
         NEW t, Relinked(h, t, fr, h.data[fr.i].next)
  PROVE  Threaded(t, L \ {fr.i}, [k \in L \ {fr.i} |-> order[k]])
  <1> DEFINE i == fr.i
             p == fr.prev
             n == h.data[i].next
             K == L \ {i}
             ord == [k \in K |-> order[k]]
             Key(k) == h.data[k].key
             NextOf(k) == h.data[k].next
             HeadOf(b) == h.buckets[b]
             NextNow(k) == t.data[k].next
             HeadNow(b) == t.buckets[b]
  <1>1. /\ i \in L /\ p \in L \union {End} /\ Home(h, i) = fr.bucket
        /\ p = End => HeadOf(fr.bucket) = i
        /\ p # End => Home(h, p) = fr.bucket /\ NextOf(p) = i
    BY DEF Found, Home
  <1>2. /\ L \subseteq DOMAIN h.data /\ order \in [L -> Nat] /\ End \notin L
        /\ \A k \in L : Home(h, k) \in DOMAIN h.buckets
    <2>1. h.data \in Seq(Entries) /\ L \subseteq DOMAIN h.data
      BY DEF Threaded, Tables
    <2>2. \A k \in L : h.data[k] \in Entries /\ k # End
      BY <2>1 DEF End
    <2>3. \A k \in L : h.data[k].key \in Nat
      BY <2>2 DEF Entries
    <2> QED
      BY <2>1, <2>2, <2>3, KeyHasBucket DEF Threaded, Home
  <1>3. \A k \in DOMAIN h.data : Home(t, k) = Home(h, k)
    BY DEF Relinked, Home, BucketOf
  <1>4. \A b \in DOMAIN h.buckets : HeadOf(b) # End => HeadOf(b) \in L /\ Home(h, HeadOf(b)) = b
    BY DEF Threaded
  <1>5. \A k \in L : NextOf(k) # End =>
          /\ NextOf(k) \in L /\ Home(h, NextOf(k)) = Home(h, k) /\ order[k] < order[NextOf(k)]
          /\ NextOf(k) # HeadOf(Home(h, k))
    BY DEF Threaded
  <1>6. \A k \in L : HeadOf(Home(h, k)) = k \/ \E j \in L : NextOf(j) = k
    BY DEF Threaded
  <1>7. \A j, k \in L : NextOf(j) = NextOf(k) /\ NextOf(j) # End => j = k
    BY DEF Threaded
  <1>8. \A b \in DOMAIN h.buckets : HeadNow(b) = IF p = End /\ b = fr.bucket THEN n ELSE HeadOf(b)
    BY DEF Relinked
  <1>9. \A k \in L : NextNow(k) = IF k = p THEN n ELSE NextOf(k)
    BY <1>2 DEF Relinked
  <1>10. n # End => n \in K /\ Home(h, n) = fr.bucket /\ order[i] < order[n] /\ n # HeadOf(fr.bucket)
    <2>1. \A x, y \in Nat : x < y => x # y
      OBVIOUS
    <2> QED
      BY <1>1, <1>2, <1>5, <2>1
  <1>11. /\ DOMAIN t.buckets = DOMAIN h.buckets /\ DOMAIN t.data = DOMAIN h.data
         /\ \A k \in DOMAIN h.data : t.data[k].key = Key(k)
    BY DEF Relinked
  <1> HIDE DEF n, NextOf, HeadOf, NextNow, HeadNow, Key, i, p, K
  <1>12. K = L \ {i}
    BY DEF K
  <1>13. ASSUME NEW b \in DOMAIN h.buckets, HeadNow(b) # End
         PROVE  HeadNow(b) \in K /\ Home(h, HeadNow(b)) = b
    BY <1>1, <1>4, <1>5, <1>8, <1>10, <1>12, <1>13
  <1>14. ASSUME NEW k \in K, NextNow(k) # End
         PROVE  /\ NextNow(k) \in K /\ Home(h, NextNow(k)) = Home(h, k)
                /\ order[k] < order[NextNow(k)] /\ NextNow(k) # HeadNow(Home(h, k))
    <2>1. CASE k = p
      <3>1. NextNow(k) = n /\ p # End /\ Home(h, k) = fr.bucket /\ NextOf(k) = i
        BY <1>1, <1>2, <1>9, <1>12, <2>1
      <3>2. order[k] < order[i] /\ order[i] < order[n] /\ n \in K
        BY <1>1, <1>2, <1>5, <1>10, <1>12, <1>14, <3>1
      <3>3. order[k] < order[n]
        <4>1. order[k] \in Nat /\ order[i] \in Nat /\ order[n] \in Nat
          BY <1>1, <1>2, <1>12, <3>2
        <4> QED
          BY <3>2, <4>1
      <3>4. HeadNow(fr.bucket) = HeadOf(fr.bucket)
        BY <1>1, <1>2, <1>8, <3>1
      <3> QED
        BY <1>10, <1>14, <3>1, <3>2, <3>3, <3>4
    <2>2. CASE k # p
      <3>1. NextNow(k) = NextOf(k) /\ k \in L /\ k # i
        BY <1>9, <1>12, <2>2
      <3>2. /\ NextOf(k) \in L /\ Home(h, NextOf(k)) = Home(h, k) /\ order[k] < order[NextOf(k)]
            /\ NextOf(k) # HeadOf(Home(h, k))
        BY <1>5, <1>14, <3>1
      <3>3. NextOf(k) # i
        BY <1>1, <1>2, <1>7, <2>2, <3>1, <3>2
      <3>4. NextOf(k) # n
        <4>1. n = NextOf(i)
          BY DEF n, NextOf
        <4> QED
          BY <1>1, <1>7, <1>14, <3>1, <4>1
      <3>5. HeadNow(Home(h, k)) \in {n, HeadOf(Home(h, k))}
        BY <1>2, <1>8, <3>1
      <3> QED
        BY <1>12, <3>1, <3>2, <3>3, <3>4, <3>5
    <2> QED
      BY <2>1, <2>2
  <1>15. ASSUME NEW k \in K
         PROVE  HeadNow(Home(h, k)) = k \/ \E j \in K : NextNow(j) = k
    <2>1. k \in L /\ k # i /\ Home(h, k) \in DOMAIN h.buckets
      BY <1>2, <1>12
    <2>2. CASE HeadOf(Home(h, k)) = k
      BY <1>1, <1>8, <2>1, <2>2
    <2>3. ASSUME NEW j \in L, NextOf(j) = k
          PROVE  HeadNow(Home(h, k)) = k \/ \E m \in K : NextNow(m) = k
      <3>1. CASE j = i
        <4>1. n = k
          BY <2>3, <3>1 DEF n, NextOf
        <4>2. Home(h, k) = fr.bucket
          BY <1>2, <1>10, <2>1, <4>1
        <4>3. p = End \/ (p \in K /\ NextNow(p) = k)
          <5>1. p # End => p \in L /\ p # i
            <6>1. \A x \in Nat : ~ (x < x)
              OBVIOUS
            <6> QED
              BY <1>1, <1>2, <1>5, <6>1
          <5> QED
            BY <1>9, <1>12, <4>1, <5>1
        <4> QED
          BY <1>8, <2>1, <4>1, <4>2, <4>3
      <3>2. CASE j # i
        <4>1. j # p
          BY <1>1, <1>2, <2>1, <2>3
        <4> QED
          BY <1>9, <1>12, <2>3, <3>2, <4>1
      <3> QED
        BY <3>1, <3>2
    <2> QED
      BY <1>6, <2>1, <2>2, <2>3
  <1>16. ASSUME NEW j \in K, NEW k \in K, NextNow(j) = NextNow(k), NextNow(j) # End
         PROVE  j = k
    <2>1. n = NextOf(i)
      BY DEF n, NextOf
    <2> QED
      BY <1>1, <1>7, <1>9, <1>12, <1>16, <2>1
  <1>17. \A j, k \in K : Key(j) = Key(k) => j = k
    BY <1>12 DEF Threaded, Key
  <1>18. K \subseteq DOMAIN t.data /\ ord \in [K -> Nat]
    BY <1>2, <1>11, <1>12
  <1>19. \A k \in K : t.data[k].key = Key(k) /\ Home(t, k) = Home(h, k)
    BY <1>2, <1>3, <1>11, <1>12
  <1>20. \A b \in DOMAIN t.buckets :
           t.buckets[b] # End => t.buckets[b] \in K /\ Home(t, t.buckets[b]) = b
    BY <1>11, <1>13, <1>19 DEF HeadNow
  <1>21. \A k \in K : t.data[k].next # End =>
           /\ t.data[k].next \in K /\ Home(t, t.data[k].next) = Home(t, k)
           /\ ord[k] < ord[t.data[k].next]
           /\ t.data[k].next # t.buckets[Home(t, k)]
    BY <1>14, <1>19 DEF HeadNow, NextNow
  <1>22. /\ \A k \in K : t.buckets[Home(t, k)] = k \/ \E j \in K : t.data[j].next = k
         /\ \A j, k \in K : t.data[j].next = t.data[k].next /\ t.data[j].next # End => j = k
         /\ \A j, k \in K : t.data[j].key = t.data[k].key => j = k
    BY <1>15, <1>16, <1>17, <1>19 DEF HeadNow, NextNow
  <1>23. Threaded(t, K, ord)
    BY <1>18, <1>20, <1>21, <1>22 DEF Threaded
  <1> QED
    BY <1>23 DEF K, i

\* Entries that no chain reaches may come, change and go.
LEMMA SameThreads ==
  ASSUME NEW h, NEW L, NEW order, Threaded(h, L, order),
         NEW t, t.buckets = h.buckets, L \subseteq DOMAIN t.data,
         \A i \in L : t.data[i].key = h.data[i].key /\ t.data[i].next = h.data[i].next
  PROVE  Threaded(t, L, order)
  <1>1. \A i \in L : Home(t, i) = Home(h, i)
    BY DEF Home, BucketOf
  <1> QED
    BY <1>1 DEF Threaded

\* Entry i, which no chain reaches, comes to the end of its chain, or into the place
\* of the entry with its key.
LEMMA RelinkThreads ==
  ASSUME NEW h \in Tables, NEW L, NEW order, Threaded(h, L, order), h.buckets # <<>>,
         NEW i \in DOMAIN h.data, i \notin L,
         NEW fr, Found(h, L, h.data[i].key, fr),
         h.data[i].next = IF fr.i = End THEN End ELSE h.data[fr.i].next,
         NEW t, Relinked(h, t, fr, i)
  PROVE  \E o : Threaded(t, (L \ {fr.i}) \union {i}, o)
  <1> DEFINE j == fr.i
             p == fr.prev
             b0 == fr.bucket
             K == (L \ {j}) \union {i}
             place == IF j # End THEN order[j] ELSE IF p = End THEN 0 ELSE order[p] + 1
             ord == [k \in K |-> IF k = i THEN place ELSE order[k]]
             Key(k) == h.data[k].key
             NextOf(k) == h.data[k].next
             HeadOf(b) == h.buckets[b]
             NextNow(k) == t.data[k].next
             HeadNow(b) == t.buckets[b]
             HomeOf(k) == Home(h, k)
  <1>1. /\ j \in L \union {End} /\ p \in L \union {End} /\ HomeOf(i) = b0
        /\ j # End => HomeOf(j) = b0 /\ Key(j) = Key(i)
        /\ j = End => \A k \in L : Key(k) # Key(i)
        /\ p = End => HeadOf(b0) = j
        /\ p # End => HomeOf(p) = b0 /\ NextOf(p) = j
        /\ NextOf(i) = IF j = End THEN End ELSE NextOf(j)
    BY DEF Found, Home
  <1>2. /\ L \subseteq DOMAIN h.data /\ order \in [L -> Nat] /\ End \notin L /\ i # End
        /\ \A k \in L \union {i} : HomeOf(k) \in DOMAIN h.buckets
    <2>1. h.data \in Seq(Entries) /\ L \subseteq DOMAIN h.data
      BY DEF Threaded, Tables
    <2>2. \A k \in L \union {i} : h.data[k] \in Entries /\ k # End
      BY <2>1 DEF End
    <2>3. \A k \in L \union {i} : h.data[k].key \in Nat
      BY <2>2 DEF Entries
    <2> QED
      BY <2>1, <2>2, <2>3, KeyHasBucket DEF Threaded, Home
  <1>3. \A k \in DOMAIN h.data : Home(t, k) = HomeOf(k)
    BY DEF Relinked, Home, BucketOf
  <1>4. \A b \in DOMAIN h.buckets : HeadOf(b) # End => HeadOf(b) \in L /\ HomeOf(HeadOf(b)) = b
    BY DEF Threaded
  <1>5. \A k \in L : NextOf(k) # End =>
          /\ NextOf(k) \in L /\ HomeOf(NextOf(k)) = HomeOf(k) /\ order[k] < order[NextOf(k)]
          /\ NextOf(k) # HeadOf(HomeOf(k))
    BY DEF Threaded
  <1>6. \A k \in L : HeadOf(HomeOf(k)) = k \/ \E m \in L : NextOf(m) = k
    BY DEF Threaded
  <1>7. \A m, k \in L : NextOf(m) = NextOf(k) /\ NextOf(m) # End => m = k
    BY DEF Threaded
  <1>8. \A b \in DOMAIN h.buckets : HeadNow(b) = IF p = End /\ b = b0 THEN i ELSE HeadOf(b)
    BY DEF Relinked
  <1>9. \A k \in L \union {i} : NextNow(k) = IF k = p THEN i ELSE NextOf(k)
    BY <1>2 DEF Relinked
  <1>10. /\ DOMAIN t.buckets = DOMAIN h.buckets /\ DOMAIN t.data = DOMAIN h.data
         /\ \A k \in DOMAIN h.data : t.data[k].key = Key(k)
    BY DEF Relinked
  <1>11. \A k, m \in L : Key(k) = Key(m) => k = m
    BY DEF Threaded
  <1> HIDE DEF NextOf, HeadOf, NextNow, HeadNow, Key, HomeOf, j, p, b0, K, place
  <1>12. K = (L \ {j}) \union {i}
    BY DEF K
  <1>13. \A x \in Nat : ~ (x < x)
    OBVIOUS
  <1>14. p # End => p \in L /\ p # j /\ p # i /\ p \in K
    BY <1>1, <1>2, <1>5, <1>12, <1>13
  <1>15. place \in Nat /\ (p # End => order[p] < place)
    <2>1. CASE j # End
      <3>1. place = order[j] /\ place \in Nat
        BY <1>1, <1>2, <2>1 DEF place
      <3> QED
        BY <1>1, <1>5, <1>14, <2>1, <3>1
    <2>2. CASE j = End
      <3>1. place = IF p = End THEN 0 ELSE order[p] + 1
        BY <2>2 DEF place
      <3>2. p # End => order[p] \in Nat
        BY <1>2, <1>14
      <3> QED
        BY <3>1, <3>2
    <2> QED
      BY <2>1, <2>2
  <1>16. ASSUME NEW b \in DOMAIN h.buckets, HeadNow(b) # End
         PROVE  HeadNow(b) \in K /\ HomeOf(HeadNow(b)) = b
    <2>1. CASE p = End /\ b = b0
      BY <1>1, <1>8, <1>12, <2>1
    <2>2. CASE ~ (p = End /\ b = b0)
      <3>1. HeadNow(b) = HeadOf(b) /\ HeadOf(b) \in L /\ HomeOf(HeadOf(b)) = b
        BY <1>4, <1>8, <1>16, <2>2
      <3>2. HeadOf(b) # j
        BY <1>1, <1>2, <1>5, <1>14, <2>2, <3>1
      <3> QED
        BY <1>12, <3>1, <3>2
    <2> QED
      BY <2>1, <2>2
  <1>17. ASSUME NEW k \in K, NextNow(k) # End
         PROVE  /\ NextNow(k) \in K /\ HomeOf(NextNow(k)) = HomeOf(k)
                /\ ord[k] < ord[NextNow(k)] /\ NextNow(k) # HeadNow(HomeOf(k))
    <2>1. CASE k = p
      <3>1. NextNow(k) = i /\ p \in L /\ p # i /\ p # End
        BY <1>2, <1>9, <1>12, <1>14, <1>17, <2>1
      <3>2. HomeOf(k) = b0 /\ i \in K /\ HomeOf(i) = b0 /\ b0 \in DOMAIN h.buckets
        BY <1>1, <1>2, <1>12, <2>1, <3>1
      <3>3. ord[k] < ord[i]
        BY <1>15, <2>1, <3>1, <3>2
      <3>4. HeadNow(b0) = HeadOf(b0)
        BY <1>8, <3>1, <3>2
      <3>5. HeadNow(b0) # i
        BY <1>2, <1>4, <3>2, <3>4
      <3> QED
        BY <3>1, <3>2, <3>3, <3>5
    <2>2. CASE k = i /\ k # p
      <3>1. NextNow(k) = NextOf(i) /\ j # End /\ NextOf(i) = NextOf(j) /\ j \in L
        BY <1>1, <1>9, <1>12, <1>17, <2>2
      <3>2. /\ NextOf(j) \in L /\ HomeOf(NextOf(j)) = b0 /\ order[j] < order[NextOf(j)]
            /\ NextOf(j) # HeadOf(b0)
        BY <1>1, <1>5, <1>17, <3>1
      <3>3. NextOf(j) # j /\ NextOf(j) # i
        BY <1>2, <1>13, <3>1, <3>2
      <3>4. NextOf(j) \in K
        BY <1>12, <3>2, <3>3
      <3>5. ord[k] = order[j] /\ ord[NextOf(j)] = order[NextOf(j)]
        BY <2>2, <3>1, <3>3, <3>4 DEF place
      <3>6. HeadNow(b0) \in {i, HeadOf(b0)}
        BY <1>1, <1>2, <1>8
      <3> QED
        BY <1>1, <2>2, <3>1, <3>2, <3>3, <3>4, <3>5, <3>6
    <2>3. CASE k # i /\ k # p
      <3>1. NextNow(k) = NextOf(k) /\ k \in L /\ k # j
        BY <1>9, <1>12, <2>3
      <3>2. /\ NextOf(k) \in L /\ HomeOf(NextOf(k)) = HomeOf(k) /\ order[k] < order[NextOf(k)]
            /\ NextOf(k) # HeadOf(HomeOf(k))
        BY <1>5, <1>17, <3>1
      <3>3. NextOf(k) # j
        <4>1. CASE p = End
          BY <1>1, <1>2, <3>2, <4>1
        <4>2. CASE p # End
          BY <1>1, <1>7, <1>14, <1>17, <2>3, <3>1, <4>2
        <4> QED
          BY <4>1, <4>2
      <3>4. NextOf(k) # i /\ NextOf(k) \in K
        BY <1>12, <3>2, <3>3
      <3>5. ord[k] = order[k] /\ ord[NextOf(k)] = order[NextOf(k)]
        BY <2>3, <3>4
      <3>6. HeadNow(HomeOf(k)) \in {i, HeadOf(HomeOf(k))}
        BY <1>2, <1>8, <3>1
      <3> QED
        BY <3>1, <3>2, <3>4, <3>5, <3>6
    <2> QED
      BY <2>1, <2>2, <2>3
  <1>18. ASSUME NEW k \in K
         PROVE  HeadNow(HomeOf(k)) = k \/ \E m \in K : NextNow(m) = k
    <2>1. CASE k = i
      <3>1. b0 \in DOMAIN h.buckets /\ HomeOf(k) = b0
        BY <1>1, <1>2, <2>1
      <3>2. p # End => p \in K /\ NextNow(p) = i
        BY <1>9, <1>14
      <3> QED
        BY <1>8, <2>1, <3>1, <3>2
    <2>2. CASE k # i
      <3>1. k \in L /\ k # j /\ HomeOf(k) \in DOMAIN h.buckets
        BY <1>2, <1>12, <2>2
      <3>2. CASE HeadOf(HomeOf(k)) = k
        BY <1>1, <1>8, <3>1, <3>2
      <3>3. ASSUME NEW m \in L, NextOf(m) = k
            PROVE  \E x \in K : NextNow(x) = k
        <4>1. CASE m = j
          <5>1. i \in K /\ NextNow(i) = k
            BY <1>1, <1>2, <1>9, <1>12, <1>14, <3>3, <4>1
          <5> QED
            BY <5>1
        <4>2. CASE m # j
          <5>1. m # p
            BY <1>1, <1>14, <3>1, <3>3, <1>2
          <5>2. m \in K /\ NextNow(m) = k
            BY <1>9, <1>12, <3>3, <4>2, <5>1
          <5> QED
            BY <5>2
        <4> QED
          BY <4>1, <4>2
      <3> QED
        BY <1>6, <3>1, <3>2, <3>3
    <2> QED
      BY <2>1, <2>2
  <1>19. ASSUME NEW m \in K, NEW k \in K, NextNow(m) = NextNow(k), NextNow(m) # End
         PROVE  m = k
    <2>1. \A x \in K \ {i} : x \in L /\ x # j
      BY <1>12
    <2>2. \A x \in K \ {p} : NextNow(x) # i
      <3>1. \A x \in K \ {p} : NextNow(x) = NextOf(x)
        BY <1>9, <1>12
      <3>2. NextOf(i) # i
        BY <1>1, <1>2, <1>5
      <3>3. \A x \in L : NextOf(x) # i
        BY <1>2, <1>5
      <3> QED
        BY <2>1, <3>1, <3>2, <3>3
    <2>3. m = p <=> k = p
      <3>1. \A x \in K : x = p => NextNow(x) = i
        BY <1>9, <1>12
      <3> QED
        BY <1>19, <2>2, <3>1
    <2>4. CASE m # p /\ k # p
      <3>1. NextNow(m) = NextOf(m) /\ NextNow(k) = NextOf(k)
        BY <1>9, <1>12, <2>4
      <3>2. \A x \in L : x # j => ~ (NextOf(x) = NextOf(i) /\ NextOf(i) # End)
        BY <1>1, <1>7
      <3> QED
        BY <1>7, <1>19, <2>1, <3>1, <3>2
    <2> QED
      BY <2>3, <2>4
  <1>20. \A m, k \in K : Key(m) = Key(k) => m = k
    <2>1. \A x \in K \ {i} : x \in L /\ x # j /\ Key(x) # Key(i)
      BY <1>1, <1>11, <1>12
    <2> QED
      BY <1>11, <2>1
  <1>21. K \subseteq DOMAIN t.data /\ ord \in [K -> Nat]
    <2>1. \A k \in K : k # i => order[k] \in Nat
      BY <1>2, <1>12
    <2> QED
      BY <1>2, <1>10, <1>12, <1>15, <2>1
  <1> HIDE DEF ord
  <1>22. \A k \in K : t.data[k].key = Key(k) /\ Home(t, k) = HomeOf(k)
    BY <1>2, <1>3, <1>10, <1>12
  <1>23. \A b \in DOMAIN t.buckets :
           t.buckets[b] # End => t.buckets[b] \in K /\ Home(t, t.buckets[b]) = b
    BY <1>10, <1>16, <1>22 DEF HeadNow
  <1>24. \A k \in K : t.data[k].next # End =>
           /\ t.data[k].next \in K /\ Home(t, t.data[k].next) = Home(t, k)
           /\ ord[k] < ord[t.data[k].next]
           /\ t.data[k].next # t.buckets[Home(t, k)]
    BY <1>17, <1>22 DEF HeadNow, NextNow
  <1>25. /\ \A k \in K : t.buckets[Home(t, k)] = k \/ \E m \in K : t.data[m].next = k
         /\ \A m, k \in K : t.data[m].next = t.data[k].next /\ t.data[m].next # End => m = k
         /\ \A m, k \in K : t.data[m].key = t.data[k].key => m = k
    BY <1>18, <1>19, <1>20, <1>22 DEF HeadNow, NextNow
  <1>26. Threaded(t, K, ord)
    BY <1>21, <1>23, <1>24, <1>25 DEF Threaded
  <1> QED
    BY <1>26 DEF K, j

\* What find found is found in a table that has the same buckets and entries.
LEMMA SameFound ==
  ASSUME NEW h, NEW L, NEW key, NEW fr, Found(h, L, key, fr),
         NEW t, t.buckets = h.buckets,
         \A i \in L : t.data[i].key = h.data[i].key /\ t.data[i].next = h.data[i].next
  PROVE  Found(t, L, key, fr)
  <1>1. \A i \in L : Home(t, i) = Home(h, i)
    BY DEF Home, BucketOf
  <1>2. BucketOf(t, key) = BucketOf(h, key)
    BY DEF BucketOf
  <1> QED
    BY <1>1, <1>2 DEF Found

\* t is h with entry e at the end of the array and in its chain.
Extended(h, t, L, e) ==
  /\ SoundWith(t, L \union {Len(h.data) + 1})
  /\ Len(t.buckets) = Len(h.buckets) /\ Len(t.data) = Len(h.data) + 1
  /\ \A k \in DOMAIN h.data :
       t.data[k].key = h.data[k].key /\ t.data[k].value = h.data[k].value
  /\ LET new == t.data[Len(h.data) + 1] IN new.key = e.key /\ new.value = e.value

\* The fields of the entries of a table.
LEMMA TableFields ==
  ASSUME NEW h \in Tables
  PROVE  /\ h.buckets \in Seq(Nat) /\ h.data \in Seq(Entries)
         /\ h = [buckets |-> h.buckets, data |-> h.data]
         /\ Len(h.data) \in Nat /\ DOMAIN h.data = 1 .. Len(h.data)
         /\ \A k \in DOMAIN h.data :
              /\ h.data[k] \in Entries
              /\ h.data[k].key \in Nat /\ h.data[k].next \in Nat /\ h.data[k].value \in Int
              /\ h.data[k] = [key |-> h.data[k].key, next |-> h.data[k].next,
                              value |-> h.data[k].value]
  <1>1. h.buckets \in Seq(Nat) /\ h.data \in Seq(Entries)
        /\ h = [buckets |-> h.buckets, data |-> h.data]
    BY DEF Tables
  <1>2. ASSUME NEW k \in DOMAIN h.data
        PROVE  /\ h.data[k] \in Entries
               /\ h.data[k].key \in Nat /\ h.data[k].next \in Nat /\ h.data[k].value \in Int
               /\ h.data[k] = [key |-> h.data[k].key, next |-> h.data[k].next,
                               value |-> h.data[k].value]
    <2>1. h.data[k] \in Entries
      BY <1>1
    <2> QED
      BY <2>1 DEF Entries
  <1> QED
    BY <1>1, <1>2

\* A new key: its entry is appended to the array and to its chain.
LEMMA AppendExtends ==
  ASSUME NEW h, NEW L, SoundWith(h, L), h.buckets # <<>>,
         NEW e \in Entries, e.next = End, \A i \in L : h.data[i].key # e.key
  PROVE  Extended(h, Link([h EXCEPT !.data = Append(@, e)], Find(h, e.key), Len(h.data) + 1),
                  L, e)
  <1> DEFINE n == Len(h.data) + 1
             fr == Find(h, e.key)
             D == Append(h.data, e)
             a == [h EXCEPT !.data = Append(@, e)]
             t == Link(a, fr, n)
  <1>1. h \in Tables /\ e.key \in Nat
    BY DEF SoundWith, Entries
  <1>2. PICK order : Threaded(h, L, order)
    BY DEF SoundWith
  <1>3. Found(h, L, e.key, fr) /\ fr.i = End
    <2>1. Found(h, L, e.key, fr)
      BY <1>1, <1>2, FindFinds
    <2> QED
      BY <2>1 DEF Found
  <1> HIDE DEF fr
  <1>4. /\ h.buckets \in Seq(Nat) /\ h.data \in Seq(Entries) /\ n \in Nat \ {0}
        /\ h = [buckets |-> h.buckets, data |-> h.data]
        /\ DOMAIN h.data = 1 .. n - 1 /\ L \subseteq DOMAIN h.data
    BY <1>1, <1>2, TableFields DEF Threaded
  <1>5. /\ D \in Seq(Entries) /\ Len(D) = n /\ DOMAIN D = 1 .. n /\ D[n] = e
        /\ \A k \in 1 .. n - 1 : D[k] = h.data[k]
    BY <1>4
  <1>6. a.buckets = h.buckets /\ a.data = D /\ a \in Tables
    <2>1. a = [buckets |-> h.buckets, data |-> D]
      <3>1. a = [h EXCEPT !.data = D]
        OBVIOUS
      <3> HIDE DEF a, D
      <3> QED
        BY <1>4, <3>1
    <2> HIDE DEF a, D
    <2> QED
      BY <1>4, <1>5, <2>1 DEF Tables
  <1> HIDE DEF a, D
  <1>7. n \notin L /\ n \in DOMAIN a.data /\ L \subseteq DOMAIN a.data
    <2> HIDE DEF n
    <2> QED
      BY <1>4, <1>5, <1>6
  <1>8. \A i \in L : a.data[i] = h.data[i]
    BY <1>4, <1>5, <1>6
  <1>9. Threaded(a, L, order)
    BY <1>2, <1>6, <1>7, <1>8, SameThreads
  <1>10. Found(a, L, e.key, fr)
    BY <1>3, <1>6, <1>8, SameFound
  <1>11. fr.bucket \in DOMAIN a.buckets /\ fr.prev \in DOMAIN a.data \union {End}
    <2>1. fr.bucket = BucketOf(a, e.key) /\ fr.prev \in L \union {End}
      BY <1>10 DEF Found
    <2> QED
      BY <1>1, <1>6, <1>7, <2>1, KeyHasBucket
  <1> HIDE DEF n
  <1>12. Relinked(a, t, fr, n)
    BY <1>4, <1>6, <1>11, LinkRelinks
  <1> HIDE DEF t
  <1>13. a.data[n].key = e.key /\ a.data[n].next = End /\ a.data[n].value = e.value
    BY <1>5, <1>6
  <1>14. a.buckets # <<>>
    BY <1>6
  <1>15. a.data[n].next = IF fr.i = End THEN End ELSE a.data[fr.i].next
    BY <1>3, <1>13
  <1>16. Found(a, L, a.data[n].key, fr)
    BY <1>10, <1>13
  <1>17. \E o : Threaded(t, (L \ {fr.i}) \union {n}, o)
    BY <1>6, <1>7, <1>9, <1>12, <1>14, <1>15, <1>16, RelinkThreads
  <1>18. L \ {fr.i} = L
    BY <1>3, <1>4 DEF End
  <1>19. t \in Tables /\ DOMAIN t.buckets = DOMAIN h.buckets /\ Len(t.data) = n
         /\ Len(t.buckets) = Len(h.buckets)
    BY <1>5, <1>6, <1>12 DEF Relinked
  <1>20. t.buckets # <<>>
    <2>1. t.buckets \in Seq(Nat)
      BY <1>19, TableFields
    <2>2. Len(h.buckets) # 0
      BY <1>4
    <2> QED
      BY <1>19, <2>1, <2>2
  <1>21. SoundWith(t, L \union {n})
    BY <1>17, <1>18, <1>19, <1>20 DEF SoundWith
  <1>22. \A k \in DOMAIN a.data :
           t.data[k].key = a.data[k].key /\ t.data[k].value = a.data[k].value
    BY <1>12 DEF Relinked
  <1>23. \A k \in DOMAIN h.data :
           t.data[k].key = h.data[k].key /\ t.data[k].value = h.data[k].value
    BY <1>4, <1>5, <1>6, <1>22
  <1>24. t.data[n].key = e.key /\ t.data[n].value = e.value
    BY <1>7, <1>13, <1>22
  <1> QED
    BY <1>19, <1>21, <1>23, <1>24 DEF Extended, n, t, a, fr

\* The first n entries of h have come into t, a table with enough buckets.
Regrown(h, n, t) ==
  /\ SoundWith(t, 1 .. n)
  /\ Len(t.buckets) = Len(h.data) * 2 + BaseBuckets /\ Len(t.data) = n
  /\ \A k \in 1 .. n :
       t.data[k].key = h.data[k].key /\ t.data[k].value = h.data[k].value

\* The next one comes.
LEMMA InsertRegrows ==
  ASSUME NEW h \in Tables, \A i, k \in DOMAIN h.data : h.data[i].key = h.data[k].key => i = k,
         NEW n \in Nat, n < Len(h.data), NEW t, Regrown(h, n, t)
  PROVE  Regrown(h, n + 1, Insert(t, h.data[n + 1]))
  <1> DEFINE x == h.data[n + 1]
             e == [x EXCEPT !.next = End]
             fr == Find(t, x.key)
             size == Len(h.data) * 2 + BaseBuckets
  <1>1. /\ Len(h.data) \in Nat /\ DOMAIN h.data = 1 .. Len(h.data) /\ n + 1 \in DOMAIN h.data
        /\ x = [key |-> x.key, next |-> x.next, value |-> x.value]
        /\ x.key \in Nat /\ x.value \in Int
    <2>1. Len(h.data) \in Nat /\ DOMAIN h.data = 1 .. Len(h.data)
      BY TableFields
    <2>2. n + 1 \in DOMAIN h.data
      BY <2>1
    <2> QED
      BY <2>1, <2>2, TableFields
  <1>2. t \in Tables /\ \E order : Threaded(t, 1 .. n, order)
    BY DEF Regrown, SoundWith
  <1>3. t.buckets # <<>>
    <2>1. Len(t.buckets) = size /\ size # 0
      BY <1>1, HashAssumption DEF Regrown
    <2> HIDE DEF size
    <2> QED
      BY <2>1
  <1>4. ASSUME NEW i \in 1 .. n
        PROVE  t.data[i].key # x.key
    <2>1. i \in DOMAIN h.data /\ i # n + 1
      BY <1>1
    <2> QED
      BY <1>1, <2>1 DEF Regrown
  <1>5. fr.i = End
    <2>1. Found(t, 1 .. n, x.key, fr)
      BY <1>1, <1>2, <1>3, FindFinds
    <2> QED
      BY <1>4, <2>1 DEF Found
  <1>6. [x EXCEPT !.next = fr.i] = e
    BY <1>5
  <1>7. e.key = x.key /\ e.value = x.value /\ e.next = End /\ e \in Entries
    <2> HIDE DEF x
    <2>1. e = [key |-> x.key, next |-> End, value |-> x.value]
      BY <1>1
    <2> HIDE DEF e
    <2> QED
      BY <1>1, <2>1 DEF Entries, End
  <1> DEFINE a == [t EXCEPT !.data = Append(@, [x EXCEPT !.next = fr.i])]
             b == [t EXCEPT !.data = Append(@, e)]
  <1>8. Insert(t, x) = Link(a, fr, Len(a.data))
    BY DEF Insert
  <1>9. a = b
    BY <1>6
  <1>10. Len(b.data) = Len(t.data) + 1
    <2>1. t.data \in Seq(Entries) /\ t = [buckets |-> t.buckets, data |-> t.data]
      BY <1>2, TableFields
    <2> HIDE DEF e
    <2>2. b.data = Append(t.data, e)
      BY <2>1
    <2> HIDE DEF b
    <2> QED
      BY <2>1, <2>2
  <1>11. Insert(t, x) = Link(b, Find(t, e.key), Len(t.data) + 1)
    <2> HIDE DEF a, b, e, x
    <2> QED
      BY <1>7, <1>8, <1>9, <1>10
  <1> HIDE DEF a, e, x
  <1>12. SoundWith(t, 1 .. n) /\ Len(t.data) = n
    BY DEF Regrown
  <1>13. Extended(t, Insert(t, x), 1 .. n, e)
    BY <1>3, <1>4, <1>7, <1>11, <1>12, AppendExtends
  <1> HIDE DEF b, size
  <1>14. /\ SoundWith(Insert(t, x), (1 .. n) \union {n + 1})
         /\ Len(Insert(t, x).buckets) = Len(t.buckets) /\ Len(Insert(t, x).data) = n + 1
         /\ \A k \in DOMAIN t.data :
              /\ Insert(t, x).data[k].key = t.data[k].key
              /\ Insert(t, x).data[k].value = t.data[k].value
         /\ Insert(t, x).data[n + 1].key = x.key /\ Insert(t, x).data[n + 1].value = x.value
    BY <1>7, <1>12, <1>13 DEF Extended
  <1>15. DOMAIN t.data = 1 .. n
    BY <1>2, <1>12, TableFields
  <1> DEFINE u == Insert(t, x)
  <1> HIDE DEF u
  <1>16. (1 .. n) \union {n + 1} = 1 .. n + 1
    OBVIOUS
  <1>17. \A k \in 1 .. n + 1 : u.data[k].key = h.data[k].key /\ u.data[k].value = h.data[k].value
    <2> TAKE k \in 1 .. n + 1
    <2>1. CASE k = n + 1
      BY <1>14, <2>1 DEF u, x
    <2>2. CASE k # n + 1
      <3>1. k \in 1 .. n
        BY <2>2
      <3>2. t.data[k].key = h.data[k].key /\ t.data[k].value = h.data[k].value
        BY <3>1 DEF Regrown
      <3> QED
        BY <1>14, <1>15, <3>1, <3>2 DEF u
    <2> QED
      BY <2>1, <2>2
  <1>18. Regrown(h, n + 1, u)
    BY <1>14, <1>16, <1>17 DEF Regrown, u
  <1> QED
    BY <1>18 DEF u, x

\* grow keeps every entry at its index, if no two have the same key: it finds each
\* place in the array once.
LEMMA GrowRegrows ==
  ASSUME NEW h \in Tables, \A i, k \in DOMAIN h.data : h.data[i].key = h.data[k].key => i = k
  PROVE  Regrown(h, Len(h.data), Grow(h))
  <1> DEFINE size == Len(h.data) * 2 + BaseBuckets
             N == Len(h.data)
             empty == [buckets |-> [b \in 1 .. size |-> End], data |-> <<>>]
             next == [n \in Nat |-> [t \in Tables |->
                        IF n < N /\ Regrown(h, n, t) THEN Insert(t, h.data[n + 1]) ELSE t]]
             table == CHOOSE table : table = [n \in 0 .. N |->
                        IF n = 0 THEN empty ELSE Insert(table[n - 1], h.data[n])]
  <1>1. N \in Nat /\ size \in Nat \ {0}
    <2>1. N \in Nat
      BY TableFields
    <2> QED
      BY <2>1, HashAssumption
  <1> HIDE DEF N
  <1>2. empty \in Tables /\ Regrown(h, 0, empty)
    <2> DEFINE B == [b \in 1 .. size |-> End]
    <2>1. B \in Seq(Nat) /\ Len(B) = size /\ \A b \in DOMAIN B : B[b] = End
      <3> HIDE DEF size
      <3> QED
        BY <1>1 DEF End
    <2>2. B # <<>>
      <3> HIDE DEF size, B
      <3> QED
        BY <1>1, <2>1
    <2> HIDE DEF B
    <2>3. empty = [buckets |-> B, data |-> <<>>]
      BY DEF B
    <2> HIDE DEF empty
    <2>4. empty.buckets = B /\ empty.data = <<>> /\ empty \in Tables
      BY <2>1, <2>3 DEF Tables
    <2>5. Threaded(empty, {}, [i \in {} |-> 0])
      BY <2>1, <2>4 DEF Threaded
    <2>6. 1 .. 0 = {} /\ Len(<<>>) = 0
      OBVIOUS
    <2>7. SoundWith(empty, 1 .. 0)
      BY <2>2, <2>4, <2>5, <2>6 DEF SoundWith
    <2> QED
      BY <2>1, <2>4, <2>6, <2>7 DEF Regrown
  <1> HIDE DEF empty, size
  <1>3. \A n \in Nat, t \in Tables : n < N /\ Regrown(h, n, t) =>
          /\ Regrown(h, n + 1, Insert(t, h.data[n + 1]))
          /\ Insert(t, h.data[n + 1]) \in Tables
    <2>1. \A n, t : Regrown(h, n, t) => t \in Tables
      BY DEF Regrown, SoundWith
    <2> QED
      BY <2>1, InsertRegrows DEF N
  <1>4. PICK f \in [Nat -> Tables] : Runs(f, empty, next)
    <2>1. next \in [Nat -> [Tables -> Tables]]
      BY <1>3
    <2> HIDE DEF next
    <2> QED
      BY <1>2, <2>1, RunExists
  <1>5. f[0] = empty /\ \A n \in Nat : f[n + 1] =
          IF n < N /\ Regrown(h, n, f[n]) THEN Insert(f[n], h.data[n + 1]) ELSE f[n]
    BY <1>4 DEF Runs
  <1> DEFINE T == {n \in Nat : n <= N => Regrown(h, n, f[n])}
  <1>6. Nat \subseteq T
    <2>1. 0 \in T
      BY <1>2, <1>5
    <2>2. ASSUME NEW n \in Nat, n \in T
          PROVE  n + 1 \in T
      <3> SUFFICES ASSUME n + 1 <= N
                   PROVE  Regrown(h, n + 1, f[n + 1])
        OBVIOUS
      <3>1. n < N /\ n <= N
        BY <1>1
      <3> QED
        BY <1>3, <1>5, <2>2, <3>1
    <2> HIDE DEF T
    <2> QED
      BY <2>1, <2>2, NumbersByStep
  <1>7. \A n \in Nat : n < N => f[n + 1] = Insert(f[n], h.data[n + 1])
    <2> TAKE n \in Nat
    <2>1. n < N => Regrown(h, n, f[n])
      BY <1>1, <1>6
    <2> QED
      BY <1>5, <2>1
  <1> HIDE DEF T
  <1> DEFINE g == [n \in 0 .. N |-> f[n]]
  <1>8. g = [n \in 0 .. N |-> IF n = 0 THEN empty ELSE Insert(g[n - 1], h.data[n])]
    <2>1. ASSUME NEW n \in 0 .. N, n # 0
          PROVE  f[n] = Insert(g[n - 1], h.data[n])
      <3>1. n - 1 \in Nat /\ n - 1 \in 0 .. N /\ (n - 1) + 1 = n /\ n - 1 < N
        BY <1>1, <2>1
      <3>2. g[n - 1] = f[n - 1]
        BY <3>1
      <3> HIDE DEF g
      <3> QED
        BY <1>7, <3>1, <3>2
    <2> QED
      BY <1>5, <2>1
  <1> HIDE DEF g
  <1>9. table = [n \in 0 .. N |-> IF n = 0 THEN empty ELSE Insert(table[n - 1], h.data[n])]
    BY <1>8
  <1>10. Grow(h) = table[N]
    BY DEF Grow, N, empty, size
  <1> HIDE DEF table
  <1> DEFINE U == {n \in Nat : n <= N => table[n] = f[n]}
  <1>11. Nat \subseteq U
    <2>1. 0 \in U
      BY <1>1, <1>5, <1>9
    <2>2. ASSUME NEW n \in Nat, n \in U
          PROVE  n + 1 \in U
      <3> SUFFICES ASSUME n + 1 <= N
                   PROVE  table[n + 1] = f[n + 1]
        OBVIOUS
      <3>1. n < N /\ n <= N /\ n + 1 \in 0 .. N /\ n + 1 # 0 /\ (n + 1) - 1 = n
        BY <1>1
      <3>2. table[n + 1] = Insert(table[n], h.data[n + 1])
        BY <1>9, <3>1
      <3>3. table[n] = f[n]
        BY <2>2, <3>1
      <3> QED
        BY <1>7, <3>1, <3>2, <3>3
    <2> HIDE DEF U
    <2> QED
      BY <2>1, <2>2, NumbersByStep
  <1>12. table[N] = f[N] /\ Regrown(h, N, f[N])
    BY <1>1, <1>6, <1>11 DEF T
  <1> QED
    BY <1>10, <1>12 DEF N

----------------------------------------------------------------------------
(* What the table maps to what.                                            *)

Pairs(h) == {<<h.data[i].key, h.data[i].value>> : i \in Linked(h)}

Sound(h) == SoundWith(h, Linked(h))

\* A table that has buckets has room for another entry.
HasRoom(h) == h.buckets = <<>> \/ ~Full(h)

\* The entries that chains can reach are the ones they do reach.
LEMMA SoundIsLinked ==
  ASSUME NEW h, NEW L, SoundWith(h, L)
  PROVE  Linked(h) = L /\ Sound(h)
  <1>1. h \in Tables /\ \E order : Threaded(h, L, order)
    BY DEF SoundWith
  <1>2. Linked(h) = L
    <2>1. CASE h.buckets # <<>>
      BY <1>1, <2>1, LinkedAreThreaded
    <2>2. CASE h.buckets = <<>>
      <3>1. L = {}
        <4>1. h.data = <<>> /\ L \subseteq DOMAIN h.data
          BY <1>1, <2>2 DEF SoundWith, Threaded
        <4> QED
          BY <4>1
      <3>2. DOMAIN h.buckets = {}
        BY <2>2
      <3> DEFINE all == {{Chain(h, b)[n] : n \in 0 .. Len(h.data)} : b \in DOMAIN h.buckets}
      <3>3. all = {}
        BY <3>2
      <3>4. Linked(h) = (UNION all) \ {End}
        BY DEF Linked
      <3> HIDE DEF all
      <3> QED
        BY <3>1, <3>3, <3>4
    <2> QED
      BY <2>1, <2>2
  <1> QED
    BY <1>2 DEF Sound

\* An empty table maps nothing.
LEMMA NewTableSound == Sound(NewTable) /\ HasRoom(NewTable) /\ Pairs(NewTable) = {}
  <1>1. NewTable.buckets = <<>> /\ NewTable.data = <<>> /\ NewTable \in Tables
    BY DEF NewTable, Tables
  <1>2. Threaded(NewTable, {}, [i \in {} |-> 0])
    BY <1>1 DEF Threaded
  <1>3. SoundWith(NewTable, {})
    BY <1>1, <1>2 DEF SoundWith
  <1> QED
    BY <1>1, <1>3, SoundIsLinked DEF Pairs, HasRoom

\* has and get tell what the table maps.
LEMMA LookupFinds ==
  ASSUME NEW h, Sound(h), NEW key \in Nat, NEW value, NEW default
  PROVE  <<key, value>> \in Pairs(h) <=> HashHas(h, key) /\ HashGet(h, key, default) = value
  <1> DEFINE L == Linked(h)
             fr == Find(h, key)
  <1>1. h \in Tables /\ \E order : Threaded(h, L, order)
    BY DEF Sound, SoundWith
  <1>2. <<key, value>> \in Pairs(h)
          <=> \E i \in L : h.data[i].key = key /\ h.data[i].value = value
    BY DEF Pairs
  <1>3. \A i \in L : i # End
    BY <1>1, TableFields DEF Threaded, End
  <1>4. \A i, k \in L : h.data[i].key = h.data[k].key => i = k
    BY <1>1 DEF Threaded
  <1> HIDE DEF L
  <1>5. CASE h.buckets # <<>>
    <2>1. Found(h, L, key, fr)
      BY <1>1, <1>5, FindFinds
    <2>2. /\ fr.i \in L \union {End}
          /\ IF fr.i = End THEN \A i \in L : h.data[i].key # key ELSE h.data[fr.i].key = key
      BY <2>1 DEF Found
    <2>3. /\ HashHas(h, key) <=> fr.i # End
          /\ fr.i # End => HashGet(h, key, default) = h.data[fr.i].value
      BY DEF HashHas, HashGet
    <2> HIDE DEF fr
    <2> QED
      BY <1>2, <1>3, <1>4, <2>2, <2>3
  <1>6. CASE h.buckets = <<>>
    <2>1. L = {}
      <3>1. h.data = <<>> /\ L \subseteq DOMAIN h.data
        BY <1>1, <1>6 DEF Sound, SoundWith, Threaded, L
      <3> QED
        BY <3>1
    <2>2. fr.i = End
      BY <1>6 DEF Find
    <2> QED
      BY <1>2, <2>1, <2>2 DEF HashHas
  <1> QED
    BY <1>5, <1>6

\* The pairs of a table that grew are those it had.
LEMMA GrowKeepsPairs ==
  ASSUME NEW h, Sound(h), Linked(h) = DOMAIN h.data
  PROVE  /\ Sound(Grow(h)) /\ Pairs(Grow(h)) = Pairs(h)
         /\ Grow(h).buckets # <<>> /\ Linked(Grow(h)) = DOMAIN Grow(h).data
         /\ Len(Grow(h).data) = Len(h.data) /\ ~Full(Grow(h))
  <1> DEFINE t == Grow(h)
             N == Len(h.data)
  <1>1. h \in Tables /\ \E order : Threaded(h, DOMAIN h.data, order)
    BY DEF Sound, SoundWith
  <1>2. \A i, k \in DOMAIN h.data : h.data[i].key = h.data[k].key => i = k
    BY <1>1 DEF Threaded
  <1>3. Regrown(h, N, t)
    BY <1>1, <1>2, GrowRegrows
  <1>4. N \in Nat /\ DOMAIN h.data = 1 .. N
    BY <1>1, TableFields
  <1> HIDE DEF t
  <1>5. /\ SoundWith(t, 1 .. N) /\ Len(t.data) = N
        /\ Len(t.buckets) = N * 2 + BaseBuckets
        /\ \A k \in 1 .. N : t.data[k].key = h.data[k].key /\ t.data[k].value = h.data[k].value
    BY <1>3 DEF Regrown
  <1> HIDE DEF N
  <1>6. Linked(t) = 1 .. N /\ Sound(t)
    BY <1>5, SoundIsLinked
  <1>7. t \in Tables
    BY <1>5 DEF SoundWith
  <1>8. DOMAIN t.data = 1 .. N
    BY <1>5, <1>7, TableFields
  <1>9. t.buckets # <<>>
    <2>1. N * 2 + BaseBuckets # 0
      BY <1>4, HashAssumption
    <2> QED
      BY <1>5, <2>1
  <1>10. ~Full(t)
    <2>1. ~ (10 * N >= 7 * (N * 2 + BaseBuckets))
      BY <1>4, HashAssumption
    <2> QED
      BY <1>5, <2>1 DEF Full
  <1>11. Pairs(t) = Pairs(h)
    <2>1. Linked(h) = 1 .. N
      BY <1>4
    <2> QED
      BY <1>5, <1>6, <2>1 DEF Pairs
  <1> QED
    BY <1>5, <1>6, <1>8, <1>9, <1>10, <1>11 DEF t, N

\* The value of an entry is set.
LEMMA ValueSet ==
  ASSUME NEW h, Sound(h), NEW i \in Linked(h), NEW value \in Int
  PROVE  LET t == [h EXCEPT !.data[i].value = value]
         IN  /\ Sound(t) /\ Linked(t) = Linked(h)
             /\ t.buckets = h.buckets
             /\ DOMAIN t.data = DOMAIN h.data /\ Len(t.data) = Len(h.data)
             /\ Pairs(t) = {p \in Pairs(h) : p[1] # h.data[i].key}
                             \union {<<h.data[i].key, value>>}
  <1> DEFINE L == Linked(h)
             D == [h.data EXCEPT ![i].value = value]
             t == [h EXCEPT !.data[i].value = value]
             K == DOMAIN h.data
  <1>1. h \in Tables
    BY DEF Sound, SoundWith
  <1>2. PICK order : Threaded(h, L, order)
    BY DEF Sound, SoundWith
  <1>3. i \in K /\ L \subseteq K
    BY <1>2 DEF Threaded
  <1>4. /\ h.data \in Seq(Entries) /\ h = [buckets |-> h.buckets, data |-> h.data]
        /\ h.buckets \in Seq(Nat)
        /\ Len(h.data) \in Nat /\ K = 1 .. Len(h.data)
        /\ \A k \in K : /\ h.data[k] \in Entries
                        /\ h.data[k].key \in Nat /\ h.data[k].next \in Nat
                        /\ h.data[k] = [key |-> h.data[k].key, next |-> h.data[k].next,
                                        value |-> h.data[k].value]
    BY <1>1, TableFields
  <1>5. DOMAIN D = K /\ D[i] = [h.data[i] EXCEPT !.value = value]
        /\ \A k \in K \ {i} : D[k] = h.data[k]
    BY <1>3, <1>4
  <1>6. t = [buckets |-> h.buckets, data |-> D]
    <2>1. t = [h EXCEPT !.data = D]
      OBVIOUS
    <2> HIDE DEF t, D
    <2> QED
      BY <1>4, <2>1
  <1> HIDE DEF L, t, D
  <1>7. D[i] = [key |-> h.data[i].key, next |-> h.data[i].next, value |-> value]
    BY <1>3, <1>4, <1>5
  <1>8. D[i] \in Entries /\ D[i].key = h.data[i].key /\ D[i].next = h.data[i].next
        /\ D[i].value = value
    <2>1. D[i].key = h.data[i].key /\ D[i].next = h.data[i].next /\ D[i].value = value
      BY <1>7
    <2>2. h.data[i].key \in Nat /\ h.data[i].next \in Nat
      BY <1>3, <1>4
    <2>3. D[i] \in Entries
      BY <1>7, <2>2 DEF Entries
    <2> QED
      BY <2>1, <2>3
  <1>9. D \in Seq(Entries) /\ Len(D) = Len(h.data)
    <2>1. D = [k \in 1 .. Len(h.data) |-> D[k]]
      <3>1. D = [k \in DOMAIN h.data |-> D[k]]
        BY <1>5 DEF D
      <3> QED
        BY <1>4, <3>1
    <2>2. \A k \in K : D[k] \in Entries
      BY <1>4, <1>5, <1>8
    <2>3. D \in [1 .. Len(h.data) -> Entries]
      BY <1>4, <2>1, <2>2
    <2> QED
      BY <1>4, <2>3
  <1>10. t.buckets = h.buckets /\ t.data = D /\ t \in Tables
    BY <1>4, <1>6, <1>9 DEF Tables
  <1>11. \A k \in L : t.data[k].key = h.data[k].key /\ t.data[k].next = h.data[k].next
    BY <1>3, <1>5, <1>8, <1>10
  <1>12. Threaded(t, L, order)
    BY <1>2, <1>3, <1>5, <1>10, <1>11, SameThreads
  <1>13. h.buckets # <<>>
    <2>1. h.buckets = <<>> => h.data = <<>>
      BY DEF Sound, SoundWith
    <2> QED
      BY <1>3, <2>1
  <1>14. SoundWith(t, L)
    BY <1>10, <1>12, <1>13 DEF SoundWith
  <1>15. Linked(t) = L /\ Sound(t)
    BY <1>14, SoundIsLinked
  <1>16. Pairs(t) = {p \in Pairs(h) : p[1] # h.data[i].key} \union {<<h.data[i].key, value>>}
    <2> DEFINE Key(k) == h.data[k].key
               Value(k) == h.data[k].value
    <2>1. \A k \in L : k # i => Key(k) # Key(i)
      BY <1>2 DEF Threaded, L
    <2>2. Pairs(t) = {<<Key(k), t.data[k].value>> : k \in L}
      BY <1>11, <1>15 DEF Pairs
    <2>3. \A k \in L : t.data[k].value = IF k = i THEN value ELSE Value(k)
      BY <1>3, <1>5, <1>8, <1>10
    <2>4. Pairs(h) = {<<Key(k), Value(k)>> : k \in L}
      BY DEF Pairs, L
    <2>5. i \in L
      BY DEF L
    <2> HIDE DEF Key, Value
    <2>6. ASSUME NEW p
          PROVE  p \in {<<Key(k), t.data[k].value>> : k \in L}
                   <=> p \in {q \in Pairs(h) : q[1] # Key(i)} \/ p = <<Key(i), value>>
      <3>1. \A k \in L \ {i} : <<Key(k), t.data[k].value>> = <<Key(k), Value(k)>>
        BY <2>3
      <3>2. p \in {q \in Pairs(h) : q[1] # Key(i)}
              <=> \E k \in L : p = <<Key(k), Value(k)>> /\ Key(k) # Key(i)
        BY <2>4
      <3> QED
        BY <2>1, <2>3, <2>5, <3>1, <3>2
    <2> QED
      BY <2>2, <2>6 DEF Key
  <1> QED
    BY <1>5, <1>9, <1>10, <1>15, <1>16 DEF t, L

\* set with a key that the table does not have.
Added(h, key, value) ==
  Link([h EXCEPT !.data = Append(@, [key |-> key, next |-> End, value |-> value])],
       Find(h, key), Len(h.data) + 1)

\* A key that the table does not have is added with its value.
LEMMA ValueAdded ==
  ASSUME NEW h, Sound(h), h.buckets # <<>>, NEW key \in Nat, ~HashHas(h, key),
         NEW value \in Int
  PROVE  LET t == Added(h, key, value)
         IN  /\ Sound(t) /\ Linked(t) = Linked(h) \union {Len(h.data) + 1}
             /\ Len(t.buckets) = Len(h.buckets) /\ Len(t.data) = Len(h.data) + 1
             /\ Pairs(t) = {p \in Pairs(h) : p[1] # key} \union {<<key, value>>}
  <1> DEFINE L == Linked(h)
             n == Len(h.data) + 1
             e == [key |-> key, next |-> End, value |-> value]
             t == Link([h EXCEPT !.data = Append(@, e)], Find(h, key), n)
             Key(k) == h.data[k].key
             Value(k) == h.data[k].value
  <1>1. h \in Tables /\ SoundWith(h, L) /\ L \subseteq DOMAIN h.data
    BY DEF Sound, SoundWith, Threaded
  <1>2. Pairs(h) = {<<Key(k), Value(k)>> : k \in L}
    BY DEF Pairs
  <1>3. \A k \in L : Key(k) # key
    <2>1. \A k \in L : <<Key(k), Value(k)>> \in Pairs(h)
      BY <1>2
    <2>2. \A v : <<key, v>> \notin Pairs(h)
      BY LookupFinds
    <2> QED
      BY <2>1, <2>2
  <1>4. e \in Entries /\ e.key = key /\ e.next = End /\ e.value = value
    BY DEF Entries, End
  <1>5. Extended(h, t, L, e)
    <2> HIDE DEF e, L
    <2> QED
      BY <1>1, <1>3, <1>4, AppendExtends
  <1> HIDE DEF e, t, L, n, Key, Value
  <1>6. /\ SoundWith(t, L \union {n})
        /\ Len(t.buckets) = Len(h.buckets) /\ Len(t.data) = n
        /\ \A k \in L : t.data[k].key = Key(k) /\ t.data[k].value = Value(k)
        /\ t.data[n].key = key /\ t.data[n].value = value
    BY <1>1, <1>4, <1>5 DEF Extended, n, Key, Value
  <1>7. Linked(t) = L \union {n} /\ Sound(t)
    BY <1>6, SoundIsLinked
  <1>8. Pairs(t) = {p \in Pairs(h) : p[1] # key} \union {<<key, value>>}
    <2>1. Pairs(t) = {<<t.data[k].key, t.data[k].value>> : k \in L \union {n}}
      BY <1>7 DEF Pairs
    <2>2. \A k \in L : <<t.data[k].key, t.data[k].value>> = <<Key(k), Value(k)>>
      BY <1>6
    <2>3. <<t.data[n].key, t.data[n].value>> = <<key, value>>
      BY <1>6
    <2>4. {p \in Pairs(h) : p[1] # key} = Pairs(h)
      BY <1>2, <1>3
    <2> QED
      BY <1>2, <2>1, <2>2, <2>3, <2>4
  <1> QED
    BY <1>6, <1>7, <1>8 DEF t, L, n, e, Added

\* hash::set maps the key to the value and leaves the rest as it was, unless the
\* growth of the table links what erase left behind.
LEMMA SetMaps ==
  ASSUME NEW h, Sound(h), NEW key \in Nat, NEW value \in Int, ~GrowthResurrects(h, key)
  PROVE  /\ Sound(HashSet(h, key, value)) /\ HasRoom(HashSet(h, key, value))
         /\ Pairs(HashSet(h, key, value))
              = {p \in Pairs(h) : p[1] # key} \union {<<key, value>>}
  <1> DEFINE ready == IF h.buckets = <<>> THEN Grow(h) ELSE h
             fr == Find(ready, key)
             e == [key |-> key, next |-> End, value |-> value]
             set == [ready EXCEPT !.data[fr.i].value = value]
             appended == Link([ready EXCEPT !.data = Append(@, e)], fr, Len(ready.data) + 1)
             stored == IF fr.i # End THEN set ELSE appended
             result == {p \in Pairs(h) : p[1] # key} \union {<<key, value>>}
  <1>1. HashSet(h, key, value) = IF Full(stored) THEN Grow(stored) ELSE stored
    BY DEF HashSet
  <1>2. h \in Tables /\ Linked(h) \subseteq DOMAIN h.data /\ (h.buckets = <<>> => h.data = <<>>)
    BY DEF Sound, SoundWith, Threaded
  <1>3. /\ Sound(ready) /\ Pairs(ready) = Pairs(h) /\ ready.buckets # <<>>
        /\ h.buckets = <<>> => Linked(ready) = DOMAIN ready.data
    <2>1. CASE h.buckets = <<>>
      <3>1. Linked(h) = DOMAIN h.data
        <4>1. DOMAIN h.data = {}
          BY <1>2, <2>1
        <4> QED
          BY <1>2, <4>1
      <3> QED
        BY <2>1, <3>1, GrowKeepsPairs
    <2>2. CASE h.buckets # <<>>
      BY <2>2
    <2> QED
      BY <2>1, <2>2
  <1>4. h.buckets # <<>> => ready = h
    OBVIOUS
  <1> HIDE DEF ready
  <1>5. HashHas(ready, key) <=> fr.i # End
    BY DEF HashHas
  <1>6. ready \in Tables /\ Linked(ready) \subseteq DOMAIN ready.data
        /\ Len(ready.data) \in Nat /\ DOMAIN ready.data = 1 .. Len(ready.data)
    <2>1. ready \in Tables /\ Linked(ready) \subseteq DOMAIN ready.data
      BY <1>3 DEF Sound, SoundWith, Threaded
    <2> QED
      BY <2>1, TableFields
  <1>7. /\ Sound(stored) /\ Pairs(stored) = result /\ Len(stored.buckets) = Len(ready.buckets)
        /\ Len(stored.data) = Len(ready.data) + (IF HashHas(ready, key) THEN 0 ELSE 1)
        /\ Linked(ready) = DOMAIN ready.data => Linked(stored) = 1 .. Len(stored.data)
    <2>1. CASE fr.i # End
      <3>1. fr.i \in Linked(ready) /\ ready.data[fr.i].key = key
        <4>1. PICK order : Threaded(ready, Linked(ready), order)
          BY <1>3 DEF Sound, SoundWith
        <4>2. Found(ready, Linked(ready), key, fr)
          BY <1>3, <1>6, <4>1, FindFinds
        <4> QED
          BY <2>1, <4>2 DEF Found
      <3> HIDE DEF fr
      <3>2. /\ Sound(set) /\ Linked(set) = Linked(ready)
            /\ set.buckets = ready.buckets
            /\ DOMAIN set.data = DOMAIN ready.data /\ Len(set.data) = Len(ready.data)
            /\ Pairs(set) = {p \in Pairs(ready) : p[1] # ready.data[fr.i].key}
                              \union {<<ready.data[fr.i].key, value>>}
        BY <1>3, <3>1, ValueSet
      <3> HIDE DEF set
      <3>3. Pairs(set) = result
        BY <1>3, <3>1, <3>2
      <3>4. stored = set /\ HashHas(ready, key)
        BY <1>5, <2>1
      <3> HIDE DEF stored, result
      <3> QED
        BY <1>6, <3>2, <3>3, <3>4
    <2>2. CASE fr.i = End
      <3>1. ~HashHas(ready, key) /\ stored = appended
        BY <1>5, <2>2
      <3>2. /\ Sound(appended) /\ Linked(appended) = Linked(ready) \union {Len(ready.data) + 1}
            /\ Len(appended.buckets) = Len(ready.buckets)
            /\ Len(appended.data) = Len(ready.data) + 1
            /\ Pairs(appended) = {p \in Pairs(ready) : p[1] # key} \union {<<key, value>>}
        <4>1. appended = Added(ready, key, value)
          BY DEF Added
        <4> HIDE DEF appended
        <4> QED
          BY <1>3, <3>1, <4>1, ValueAdded
      <3> HIDE DEF appended, stored, fr
      <3>3. (1 .. Len(ready.data)) \union {Len(ready.data) + 1} = 1 .. Len(ready.data) + 1
        BY <1>6
      <3> QED
        BY <1>3, <1>6, <3>1, <3>2, <3>3
    <2> QED
      BY <2>1, <2>2
  <1> HIDE DEF stored, result, fr, set, appended
  <1>8. stored \in Tables /\ DOMAIN stored.data = 1 .. Len(stored.data)
    <2>1. stored \in Tables
      BY <1>7 DEF Sound, SoundWith
    <2> QED
      BY <2>1, TableFields
  <1>9. CASE Full(stored)
    <2>1. Linked(ready) = DOMAIN ready.data
      <3>1. CASE h.buckets # <<>>
        <4>1. ready = h
          BY <1>4, <3>1
        <4>2. 10 * (Len(h.data) + IF HashHas(h, key) THEN 0 ELSE 1) >= 7 * Len(h.buckets)
          BY <1>7, <1>9, <4>1 DEF Full
        <4>3. Ghosts(h) = {}
          BY <4>2 DEF GrowthResurrects
        <4> QED
          BY <1>2, <4>1, <4>3 DEF Ghosts
      <3> QED
        BY <1>3, <3>1
    <2>2. Linked(stored) = DOMAIN stored.data
      BY <1>7, <1>8, <2>1
    <2>3. /\ Sound(Grow(stored)) /\ Pairs(Grow(stored)) = Pairs(stored)
          /\ ~Full(Grow(stored))
      BY <1>7, <2>2, GrowKeepsPairs
    <2> QED
      BY <1>1, <1>7, <1>9, <2>3 DEF result, HasRoom
  <1>10. CASE ~Full(stored)
    BY <1>1, <1>7, <1>10 DEF result, HasRoom
  <1> QED
    BY <1>9, <1>10

\* The last entry, which no chain reaches any more, is dropped.
LEMMA LastDropped ==
  ASSUME NEW h \in Tables, NEW L, NEW order, Threaded(h, L, order), h.buckets # <<>>,
         h.data # <<>>, Len(h.data) \notin L
  PROVE  LET t == [h EXCEPT !.data = Front(@)]
         IN  /\ SoundWith(t, L)
             /\ t.buckets = h.buckets /\ Len(t.data) = Len(h.data) - 1
             /\ \A k \in L : t.data[k] = h.data[k]
  <1> DEFINE D == Front(h.data)
             n == Len(h.data)
             t == [h EXCEPT !.data = Front(@)]
  <1>1. /\ h.buckets \in Seq(Nat) /\ h.data \in Seq(Entries) /\ n \in Nat
        /\ h = [buckets |-> h.buckets, data |-> h.data] /\ DOMAIN h.data = 1 .. n
    BY TableFields
  <1>2. n # 0
    BY <1>1
  <1>3. D = [k \in 1 .. n - 1 |-> h.data[k]]
    <2>1. D = SubSeq(h.data, 1, n - 1)
      BY DEF Front
    <2> QED
      BY <1>1, <1>2, <2>1
  <1>4. t = [buckets |-> h.buckets, data |-> D]
    <2>1. t = [h EXCEPT !.data = D]
      OBVIOUS
    <2> HIDE DEF t, D
    <2> QED
      BY <1>1, <2>1
  <1> HIDE DEF D, t, n
  <1>5. D \in Seq(Entries) /\ DOMAIN D = 1 .. n - 1 /\ Len(D) = n - 1
    <2>1. \A k \in 1 .. n - 1 : h.data[k] \in Entries
      BY <1>1
    <2>2. D \in [1 .. n - 1 -> Entries] /\ n - 1 \in Nat
      BY <1>1, <1>2, <1>3, <2>1
    <2> QED
      BY <2>2
  <1>6. t.buckets = h.buckets /\ t.data = D /\ t \in Tables
    BY <1>1, <1>4, <1>5 DEF Tables
  <1>7. L \subseteq 1 .. n - 1
    <2>1. L \subseteq 1 .. n /\ n \notin L
      BY <1>1 DEF Threaded, n
    <2> QED
      BY <1>1, <2>1
  <1>8. \A k \in L : t.data[k] = h.data[k]
    BY <1>3, <1>6, <1>7
  <1>9. Threaded(t, L, order)
    BY <1>5, <1>6, <1>7, <1>8, SameThreads
  <1>10. SoundWith(t, L)
    BY <1>6, <1>9 DEF SoundWith
  <1> QED
    BY <1>5, <1>6, <1>8, <1>10 DEF t, n

\* Entry i is overwritten with a copy of entry k.
Overwritten(h, i, k) == [h EXCEPT !.data[i] = h.data[k]]

\* That changes no chain if none reaches entry i.
LEMMA EntryCopied ==
  ASSUME NEW h \in Tables, NEW L, NEW order, Threaded(h, L, order),
         NEW i \in DOMAIN h.data, i \notin L, NEW k \in DOMAIN h.data
  PROVE  LET t == Overwritten(h, i, k)
         IN  /\ t \in Tables /\ Threaded(t, L, order) /\ t.buckets = h.buckets
             /\ DOMAIN t.data = DOMAIN h.data /\ Len(t.data) = Len(h.data)
             /\ t.data[i] = h.data[k]
             /\ \A j \in DOMAIN h.data \ {i} : t.data[j] = h.data[j]
  <1> DEFINE D == [h.data EXCEPT ![i] = h.data[k]]
             t == [h EXCEPT !.data[i] = h.data[k]]
             n == Len(h.data)
  <1>1. /\ h.buckets \in Seq(Nat) /\ h.data \in Seq(Entries) /\ n \in Nat
        /\ h = [buckets |-> h.buckets, data |-> h.data] /\ DOMAIN h.data = 1 .. n
        /\ \A j \in DOMAIN h.data : h.data[j] \in Entries
    BY TableFields
  <1>2. t = [buckets |-> h.buckets, data |-> D]
    <2>1. t = [h EXCEPT !.data = D]
      OBVIOUS
    <2> HIDE DEF t, D
    <2> QED
      BY <1>1, <2>1
  <1> HIDE DEF t, n
  <1>3. DOMAIN D = 1 .. n /\ D[i] = h.data[k] /\ \A j \in 1 .. n : j # i => D[j] = h.data[j]
    BY <1>1
  <1>4. D \in Seq(Entries) /\ Len(D) = n
    <2>1. D = [j \in 1 .. n |-> D[j]]
      BY <1>1
    <2>2. \A j \in 1 .. n : D[j] \in Entries
      <3> HIDE DEF D
      <3> QED
        BY <1>1, <1>3
    <2> HIDE DEF D
    <2>3. D \in [1 .. n -> Entries]
      BY <2>1, <2>2
    <2> QED
      BY <1>1, <2>3
  <1> HIDE DEF D
  <1>5. t.buckets = h.buckets /\ t.data = D /\ t \in Tables
    BY <1>1, <1>2, <1>4 DEF Tables
  <1>6. \A j \in L : j \in 1 .. n /\ j # i
    BY <1>1 DEF Threaded
  <1>7. \A j \in L : t.data[j] = h.data[j]
    BY <1>3, <1>5, <1>6
  <1>8. L \subseteq DOMAIN t.data
    BY <1>3, <1>5, <1>6
  <1>9. Threaded(t, L, order)
    BY <1>5, <1>7, <1>8, SameThreads
  <1> QED
    BY <1>1, <1>3, <1>4, <1>5, <1>9 DEF t, n, Overwritten

\* hash::remove forgets the key and nothing else, unless it moves an entry into its
\* place that an earlier erase left behind.
LEMMA RemoveForgets ==
  ASSUME NEW h, Sound(h), NEW key \in Nat, ~RemovalResurrects(h, key)
  PROVE  /\ Sound(HashRemove(h, key))
         /\ Pairs(HashRemove(h, key)) = {p \in Pairs(h) : p[1] # key}
         /\ HasRoom(h) => HasRoom(HashRemove(h, key))
  <1> DEFINE L == Linked(h)
             fr == Find(h, key)
             i == fr.i
             last == Len(h.data)
             Key(k) == h.data[k].key
             Value(k) == h.data[k].value
             unlinked == Link(h, fr, h.data[i].next)
             t == HashRemove(h, key)
  <1>1. /\ h \in Tables /\ \E order : Threaded(h, L, order)
        /\ h.buckets = <<>> => h.data = <<>>
    BY DEF Sound, SoundWith
  <1>2. PICK order : Threaded(h, L, order)
    BY <1>1
  <1>3. /\ L \subseteq DOMAIN h.data /\ \A k, m \in L : Key(k) = Key(m) => k = m
        /\ last \in Nat /\ DOMAIN h.data = 1 .. last
        /\ \A k \in DOMAIN h.data :
             h.data[k] \in Entries /\ h.data[k].key \in Nat /\ h.data[k].next \in Nat
    BY <1>1, <1>2, TableFields DEF Threaded
  <1>4. Pairs(h) = {<<Key(k), Value(k)>> : k \in L}
    BY DEF Pairs
  <1>5. HashHas(h, key) <=> i # End
    BY DEF HashHas
  <1>6. CASE i = End
    <2>1. t = h
      BY <1>6 DEF HashRemove
    <2>2. \A v : <<key, v>> \notin Pairs(h)
      BY <1>5, <1>6, LookupFinds
    <2>3. \A p \in Pairs(h) : p = <<p[1], p[2]>>
      BY <1>4
    <2>4. \A p \in Pairs(h) : p[1] # key
      <3> HIDE DEF i
      <3> QED
        BY <2>2, <2>3
    <2>5. {p \in Pairs(h) : p[1] # key} = Pairs(h)
      <3> HIDE DEF i
      <3> QED
        BY <2>4
    <2> QED
      BY <2>1, <2>5
  <1>7. CASE i # End
    <2>1. h.buckets # <<>>
      BY <1>7 DEF Find
    <2>2. Found(h, L, key, fr)
      BY <1>1, <1>2, <2>1, FindFinds
    <2>3. i \in L /\ Key(i) = key /\ fr.prev \in L \union {End}
          /\ fr.bucket = BucketOf(h, key)
      BY <1>7, <2>2 DEF Found
    <2>4. fr.bucket \in DOMAIN h.buckets
      BY <1>1, <2>1, <2>3, KeyHasBucket
    <2>5. t = Erase(h, fr)
      BY <1>7 DEF HashRemove
    <2>6. ~ (i # last /\ last \notin L)
      <3>1. i # last => ~ (Len(h.data) \in Ghosts(h))
        BY <1>5, <1>7 DEF RemovalResurrects
      <3>2. last \in DOMAIN h.data
        <4> HIDE DEF i, last
        <4> QED
          BY <1>3, <2>3
      <3> QED
        BY <3>1, <3>2 DEF Ghosts
    <2>7. Relinked(h, unlinked, fr, h.data[i].next)
      <3>1. h.data[i].next \in Nat /\ fr.prev \in DOMAIN h.data \union {End}
        BY <1>3, <2>3
      <3> HIDE DEF i, fr
      <3> QED
        BY <1>1, <2>4, <3>1, LinkRelinks
    <2> DEFINE M == L \ {i}
    <2>8. Threaded(unlinked, M, [k \in M |-> order[k]])
      <3> HIDE DEF fr, unlinked
      <3> QED
        BY <1>1, <1>2, <1>7, <2>1, <2>2, <2>7, UnlinkThreads
    <2> HIDE DEF fr, unlinked
    <2>9. /\ unlinked \in Tables /\ DOMAIN unlinked.data = 1 .. last
          /\ Len(unlinked.data) = last /\ unlinked.buckets # <<>> /\ unlinked.data # <<>>
          /\ Len(unlinked.buckets) = Len(h.buckets)
          /\ \A k \in 1 .. last :
               unlinked.data[k].key = Key(k) /\ unlinked.data[k].value = Value(k)
      <3>1. /\ unlinked \in Tables /\ DOMAIN unlinked.data = DOMAIN h.data
            /\ Len(unlinked.data) = Len(h.data) /\ Len(unlinked.buckets) = Len(h.buckets)
            /\ DOMAIN unlinked.buckets = DOMAIN h.buckets
            /\ \A k \in DOMAIN h.data :
                 unlinked.data[k].key = Key(k) /\ unlinked.data[k].value = Value(k)
        BY <2>7 DEF Relinked
      <3>2. DOMAIN h.buckets # {} /\ DOMAIN h.data # {}
        BY <1>3, <2>3, <2>4
      <3>3. DOMAIN <<>> = {}
        OBVIOUS
      <3>4. unlinked.buckets # <<>> /\ unlinked.data # <<>>
        BY <3>1, <3>2, <3>3
      <3> HIDE DEF i, Key, Value
      <3> QED
        BY <1>3, <3>1, <3>4
    <2>10. last \in 1 .. last /\ i \in 1 .. last
      <3> HIDE DEF i, last
      <3> QED
        BY <1>3, <2>3
    <2>11. {p \in Pairs(h) : p[1] # key} = {<<Key(k), Value(k)>> : k \in M}
      <3>1. \A k \in L : k \in M <=> Key(k) # key
        BY <1>3, <2>3
      <3> HIDE DEF Key, Value, L, M
      <3>2. M \subseteq L
        BY DEF M
      <3> QED
        BY <1>4, <3>1, <3>2
    <2>12. CASE i = last
      <3> DEFINE u == [unlinked EXCEPT !.data = Front(@)]
      <3>1. t = u
        BY <2>5, <2>12 DEF Erase, unlinked
      <3>2. /\ SoundWith(u, M) /\ \A k \in M : u.data[k] = unlinked.data[k]
            /\ u.buckets = unlinked.buckets /\ Len(u.data) = last - 1
        <4>1. Len(unlinked.data) \notin M
          BY <2>9, <2>12
        <4> HIDE DEF M
        <4> QED
          BY <2>8, <2>9, <4>1, LastDropped
      <3> HIDE DEF u
      <3>3. Linked(u) = M /\ Sound(u)
        BY <3>2, SoundIsLinked
      <3>4. \A k \in M : u.data[k].key = Key(k) /\ u.data[k].value = Value(k)
        BY <1>3, <2>9, <3>2
      <3>5. Pairs(u) = {<<Key(k), Value(k)>> : k \in M}
        BY <3>3, <3>4 DEF Pairs
      <3>6. HasRoom(h) => HasRoom(u)
        <4> HIDE DEF last
        <4>1. Len(h.buckets) \in Nat /\ last \in Nat
          BY <1>1, <1>3, TableFields
        <4>2. ~(10 * last >= 7 * Len(h.buckets)) => ~(10 * (last - 1) >= 7 * Len(h.buckets))
          BY <4>1
        <4> QED
          BY <2>1, <2>9, <3>2, <4>2 DEF HasRoom, Full, last
      <3> QED
        BY <2>11, <3>1, <3>3, <3>5, <3>6
    <2>13. CASE i # last
      <3> DEFINE moved == [unlinked EXCEPT !.data[i] = unlinked.data[last]]
                 fs == Find(moved, moved.data[i].key)
                 u == Link(moved, fs, i)
                 ord == [k \in M |-> order[k]]
                 K == (M \ {last}) \union {i}
      <3>1. t = u
        BY <2>5, <2>13 DEF Erase, unlinked
      <3>2. last \in M /\ i \notin M
        BY <2>6, <2>13
      <3> HIDE DEF M, ord, i, last
      <3>3. Threaded(unlinked, M, ord)
        BY <2>8 DEF ord
      <3>4. /\ moved \in Tables /\ Threaded(moved, M, ord) /\ moved.buckets = unlinked.buckets
            /\ DOMAIN moved.data = 1 .. last /\ Len(moved.data) = last
            /\ moved.data[i] = unlinked.data[last]
            /\ \A k \in 1 .. last : k # i => moved.data[k] = unlinked.data[k]
        <4>1. moved = Overwritten(unlinked, i, last)
          BY DEF Overwritten
        <4> HIDE DEF moved
        <4>2. i \in DOMAIN unlinked.data /\ last \in DOMAIN unlinked.data
          BY <2>9, <2>10
        <4> QED
          BY <2>9, <3>2, <3>3, <4>1, <4>2, EntryCopied
      <3> HIDE DEF moved
      <3>5. M \subseteq 1 .. last
        BY <3>3, <2>9 DEF Threaded
      <3>6. /\ moved.data[i].key = Key(last) /\ moved.data[i].value = Value(last)
            /\ \A k \in M : moved.data[k] = unlinked.data[k]
            /\ \A k \in M : moved.data[k].key = Key(k) /\ moved.data[k].value = Value(k)
        BY <2>9, <2>10, <3>2, <3>4, <3>5
      <3>7. Key(last) \in Nat
        BY <1>3, <2>10
      <3>8. moved.buckets # <<>>
        BY <2>9, <3>4
      <3>9. Found(moved, M, moved.data[i].key, fs)
        BY <3>4, <3>6, <3>7, <3>8, FindFinds
      <3>10. fs.i = last
        <4>1. fs.i \in M \union {End}
              /\ IF fs.i = End THEN \A k \in M : moved.data[k].key # Key(last)
                 ELSE moved.data[fs.i].key = Key(last)
          BY <3>6, <3>9 DEF Found
        <4>2. \A k, m \in M : Key(k) = Key(m) => k = m
          BY <1>3 DEF M
        <4> HIDE DEF fs, Key
        <4> QED
          BY <3>2, <3>6, <4>1, <4>2
      <3>11. Relinked(moved, u, fs, i)
        <4>1. fs.bucket \in DOMAIN moved.buckets
          <5>1. fs.bucket = BucketOf(moved, Key(last))
            BY <3>6, <3>9 DEF Found
          <5> QED
            BY <3>4, <3>7, <3>8, <5>1, KeyHasBucket
        <4>2. fs.prev \in DOMAIN moved.data \union {End}
          BY <3>4, <3>5, <3>9 DEF Found
        <4>3. i \in Nat
          BY <2>10
        <4> HIDE DEF fs
        <4> QED
          BY <3>4, <4>1, <4>2, <4>3, LinkRelinks
      <3>12. \E o : Threaded(u, K, o)
        <4>1. moved.data[i].next = moved.data[last].next
          BY <3>2, <3>4, <3>6
        <4>2. last # End
          BY <2>10 DEF End
        <4>3. moved.data[i].next = IF fs.i = End THEN End ELSE moved.data[fs.i].next
          BY <3>10, <4>1, <4>2
        <4> HIDE DEF fs, u
        <4>4. \E o : Threaded(u, (M \ {fs.i}) \union {i}, o)
          BY <2>10, <3>2, <3>4, <3>8, <3>9, <3>11, <4>3, RelinkThreads
        <4> QED
          BY <3>10, <4>4
      <3> HIDE DEF u, fs, K
      <3>13. /\ u \in Tables /\ Len(u.data) = last /\ DOMAIN u.buckets = DOMAIN moved.buckets
             /\ Len(u.buckets) = Len(moved.buckets)
             /\ \A k \in 1 .. last :
                  u.data[k].key = moved.data[k].key /\ u.data[k].value = moved.data[k].value
        BY <3>4, <3>11 DEF Relinked
      <3>14. u.buckets # <<>>
        <4>1. moved.buckets \in Seq(Nat)
          BY <3>4, TableFields
        <4>2. Len(moved.buckets) # 0
          BY <3>8, <4>1
        <4> QED
          BY <3>13, <4>2
      <3>15. Linked(u) = K /\ Sound(u)
        <4>1. SoundWith(u, K)
          BY <3>12, <3>13, <3>14 DEF SoundWith
        <4> QED
          BY <4>1, SoundIsLinked
      <3>16. Pairs(u) = {<<Key(k), Value(k)>> : k \in M}
        <4>1. \A k \in M : u.data[k].key = Key(k) /\ u.data[k].value = Value(k)
          BY <3>5, <3>6, <3>13
        <4>2. u.data[i].key = Key(last) /\ u.data[i].value = Value(last)
          BY <2>10, <3>6, <3>13
        <4>3. Pairs(u) = {<<u.data[k].key, u.data[k].value>> : k \in K}
          BY <3>15 DEF Pairs
        <4> HIDE DEF Key, Value
        <4>4. \A k \in M \ {last} : <<u.data[k].key, u.data[k].value>> = <<Key(k), Value(k)>>
          BY <4>1
        <4>5. <<u.data[i].key, u.data[i].value>> = <<Key(last), Value(last)>>
          BY <4>2
        <4>6. K = (M \ {last}) \union {i}
          BY DEF K
        <4>7. ASSUME NEW p
              PROVE  (\E k \in K : p = <<u.data[k].key, u.data[k].value>>)
                       <=> \E k \in M : p = <<Key(k), Value(k)>>
          BY <3>2, <4>4, <4>5, <4>6
        <4> QED
          BY <4>3, <4>7
      <3>17. HasRoom(h) => HasRoom(u)
        BY <2>1, <2>9, <3>4, <3>13 DEF HasRoom, Full, last
      <3> QED
        BY <2>11, <3>1, <3>15, <3>16, <3>17
    <2> QED
      BY <2>12, <2>13
  <1> QED
    BY <1>6, <1>7

\* A key that the table has is given another value without any growth.
LEMMA SetInPlace ==
  ASSUME NEW h, Sound(h), HasRoom(h), NEW key, NEW value, <<key, value>> \in Pairs(h),
         key \in Nat
  PROVE  ~GrowthResurrects(h, key)
  <1>1. HashHas(h, key)
    BY LookupFinds
  <1>2. h.buckets # <<>>
    BY <1>1 DEF HashHas, Find
  <1>3. ~Full(h) /\ Len(h.data) \in Nat
    BY <1>2, TableFields DEF HasRoom, Sound, SoundWith
  <1>4. Len(h.data) + (IF HashHas(h, key) THEN 0 ELSE 1) = Len(h.data)
    BY <1>1, <1>3
  <1> QED
    BY <1>3, <1>4 DEF GrowthResurrects, Full

\* The table is the inverse of a column of n different keys.
Inverts(h, column, n) ==
  /\ Sound(h) /\ HasRoom(h)
  /\ Pairs(h) = {<<column[k], k>> : k \in 0 .. n - 1}

\* How both components take row i out of their arrays: the last row is mapped to i,
\* and the key that row i had is removed.
LEMMA RowTakenOut ==
  ASSUME NEW h, NEW n \in Nat, NEW column, \A k \in 0 .. n - 1 : column[k] \in Nat,
         Inverts(h, column, n),
         \A k, m \in 0 .. n - 1 : column[k] = column[m] => k = m,
         NEW i \in 0 .. n - 1,
         ~RemovalResurrects(HashSet(h, column[n - 1], i), column[i]),
         NEW after, \A k \in 0 .. n - 2 : after[k] = column[IF k = i THEN n - 1 ELSE k]
  PROVE  Inverts(HashRemove(HashSet(h, column[n - 1], i), column[i]), after, n - 1)
  <1> DEFINE last == n - 1
             Key(k) == column[k]
             table == HashSet(h, Key(last), i)
             t == HashRemove(table, Key(i))
             rest == 0 .. n - 2
  <1>1. Sound(h) /\ HasRoom(h) /\ Pairs(h) = {<<Key(k), k>> : k \in 0 .. last}
    BY DEF Inverts
  <1>2. /\ last \in 0 .. last /\ last \in Nat /\ i \in 0 .. last /\ i \in Nat
        /\ 0 .. last = rest \union {last} /\ last \notin rest /\ rest \subseteq Int
    OBVIOUS
  <1>3. \A k \in 0 .. last : Key(k) \in Nat
    OBVIOUS
  <1>4. \A k, m \in 0 .. last : Key(k) = Key(m) => k = m
    OBVIOUS
  <1>5. ~RemovalResurrects(table, Key(i))
    OBVIOUS
  <1>6. \A k \in rest : after[k] = IF k = i THEN Key(last) ELSE Key(k)
    OBVIOUS
  <1> HIDE DEF last, Key, rest
  <1>7. ~GrowthResurrects(h, Key(last))
    BY <1>1, <1>2, <1>3, SetInPlace
  <1>8. /\ Sound(table) /\ HasRoom(table)
        /\ Pairs(table) = {p \in Pairs(h) : p[1] # Key(last)} \union {<<Key(last), i>>}
    BY <1>1, <1>2, <1>3, <1>7, SetMaps
  <1> HIDE DEF table
  <1>9. /\ Sound(t) /\ HasRoom(t)
        /\ Pairs(t) = {p \in Pairs(table) : p[1] # Key(i)}
    BY <1>2, <1>3, <1>5, <1>8, RemoveForgets
  <1> HIDE DEF t
  <1>10. Pairs(t) = {<<after[k], k>> : k \in rest}
    <2>1. \A p : p \in Pairs(t) <=>
            p[1] # Key(i) /\ (p = <<Key(last), i>>
                              \/ \E k \in 0 .. last : p = <<Key(k), k>> /\ p[1] # Key(last))
      BY <1>1, <1>8, <1>9
    <2>2. ASSUME NEW p \in Pairs(t)
          PROVE  \E k \in rest : p = <<after[k], k>>
      <3>1. CASE p = <<Key(last), i>>
        <4>1. i # last
          BY <2>1, <2>2, <3>1
        <4> QED
          BY <1>2, <1>6, <3>1, <4>1
      <3>2. ASSUME NEW k \in 0 .. last, p = <<Key(k), k>>, p[1] # Key(last)
            PROVE  \E m \in rest : p = <<after[m], m>>
        <4>1. k # last /\ k # i
          BY <2>1, <2>2, <3>2
        <4> QED
          BY <1>2, <1>6, <3>2, <4>1
      <3> QED
        BY <2>1, <2>2, <3>1, <3>2
    <2>3. ASSUME NEW k \in rest
          PROVE  <<after[k], k>> \in Pairs(t)
      <3>1. CASE k = i
        <4>1. Key(last) # Key(i) /\ <<after[k], k>> = <<Key(last), i>>
          BY <1>2, <1>4, <1>6, <3>1
        <4> QED
          BY <2>1, <4>1
      <3>2. CASE k # i
        <4>1. Key(k) # Key(i) /\ Key(k) # Key(last) /\ <<after[k], k>> = <<Key(k), k>>
              /\ k \in 0 .. last
          BY <1>2, <1>4, <1>6, <3>2
        <4> QED
          BY <2>1, <4>1
      <3> QED
        BY <3>1, <3>2
    <2> QED
      BY <2>2, <2>3
  <1>11. rest = 0 .. last - 1
    BY DEF rest, last
  <1>12. Inverts(t, after, last)
    BY <1>9, <1>10, <1>11 DEF Inverts
  <1> QED
    BY <1>12 DEF t, table, Key, last

\* A key that the table does not have is mapped to the next index.
LEMMA RowMapped ==
  ASSUME NEW h, NEW n \in Nat, NEW column, Inverts(h, column, n),
         NEW key \in Nat, ~GrowthResurrects(h, key), \A k \in 0 .. n - 1 : column[k] # key,
         NEW after, after[n] = key, \A k \in 0 .. n - 1 : after[k] = column[k]
  PROVE  Inverts(HashSet(h, key, n), after, n + 1)
  <1> DEFINE t == HashSet(h, key, n)
  <1>1. Sound(h) /\ HasRoom(h) /\ Pairs(h) = {<<column[k], k>> : k \in 0 .. n - 1}
    BY DEF Inverts
  <1>2. /\ Sound(t) /\ HasRoom(t)
        /\ Pairs(t) = {p \in Pairs(h) : p[1] # key} \union {<<key, n>>}
    BY <1>1, SetMaps
  <1> HIDE DEF t
  <1>3. 0 .. (n + 1) - 1 = (0 .. n - 1) \union {n}
    OBVIOUS
  <1>4. \A p \in Pairs(h) : p[1] # key
    BY <1>1
  <1>5. Pairs(t) = {<<after[k], k>> : k \in 0 .. (n + 1) - 1}
    <2>1. Pairs(t) = Pairs(h) \union {<<key, n>>}
      BY <1>2, <1>4
    <2>2. \A k \in 0 .. n - 1 : <<after[k], k>> = <<column[k], k>>
      OBVIOUS
    <2>3. <<after[n], n>> = <<key, n>>
      OBVIOUS
    <2> QED
      BY <1>1, <1>3, <2>1, <2>2, <2>3
  <1> QED
    BY <1>2, <1>5 DEF Inverts, t

\* Then lookup finds the row of every key that has one, and knows no other.
LEMMA InvertsFinds ==
  ASSUME NEW h, NEW n \in Nat, NEW column, Inverts(h, column, n), NEW key \in Nat
  PROVE  /\ \A k \in 0 .. n - 1 :
              column[k] = key => HashHas(h, key) /\ HashGet(h, key, 0) = k
         /\ HashHas(h, key) => \E k \in 0 .. n - 1 : column[k] = key
  <1>1. Sound(h) /\ Pairs(h) = {<<column[k], k>> : k \in 0 .. n - 1}
    BY DEF Inverts
  <1>2. \A v : <<key, v>> \in Pairs(h) <=> HashHas(h, key) /\ HashGet(h, key, 0) = v
    BY <1>1, LookupFinds
  <1> QED
    BY <1>1, <1>2

----------------------------------------------------------------------------
(* The rows of the TransformComponent.                                      *)

\* Every row of r has an entity.
HasEntities(r) == \A k \in DOMAIN r : "entity" \in DOMAIN r[k]

\* s has the same rows as r, but for their matrices and links.
SameEntities(r, s) ==
  /\ DOMAIN s = DOMAIN r
  /\ \A k \in DOMAIN r : "entity" \in DOMAIN s[k] /\ s[k].entity = r[k].entity

\* In s, the entity of row from of r is in row to, and no other row changed.
EntityMoved(r, s, from, to) ==
  /\ DOMAIN s = DOMAIN r \union {to}
  /\ HasEntities(s)
  /\ s[to].entity = r[from].entity
  /\ \A k \in DOMAIN r : k # to => s[k].entity = r[k].entity

\* In s, the entities of rows a and b of r have changed places.
EntitiesSwapped(r, s, a, b) ==
  /\ DOMAIN r \subseteq DOMAIN s
  /\ HasEntities(s)
  /\ s[b].entity = r[a].entity
  /\ a # b => s[a].entity = r[b].entity
  /\ \A k \in DOMAIN r \ {a, b} : s[k].entity = r[k].entity

\* The rows are 0 .. n - 1, they lie inside the arrays with one place to spare,
\* and they have different entities, all the living ones among them.
Apart ==
  /\ alive \subseteq issued /\ added \subseteq issued
  /\ issued \subseteq Entities
  /\ capacity \in Nat
  /\ \E n \in Nat : DOMAIN rows = 0 .. n - 1
  /\ HasEntities(rows)
  /\ \A i \in DOMAIN rows : rows[i].entity \in added
  /\ Size = 0 \/ Size < capacity
  /\ \A i, k \in DOMAIN rows : rows[i].entity = rows[k].entity => i = k
  /\ \A e \in alive \intersect added : \E i \in DOMAIN rows : rows[i].entity = e

----------------------------------------------------------------------------
(* The column of entities under the operations on rows                     *)

\* A link or a matrix may be set in any row, there or not: set_parent, swap and
\* transform keep the column of entities.
LEMMA SetField ==
  ASSUME NEW r, HasEntities(r), NEW i, NEW f, f # "entity", NEW v
  PROVE  SameEntities(r, [r EXCEPT ![i][f] = v])
<1>1. ASSUME NEW k \in DOMAIN r
      PROVE  /\ "entity" \in DOMAIN [r EXCEPT ![i][f] = v][k]
             /\ [r EXCEPT ![i][f] = v][k].entity = r[k].entity
  <2>1. CASE k = i
    <3>1. [r EXCEPT ![i][f] = v][k] = [r[i] EXCEPT ![f] = v]
      BY <1>1, <2>1
    <3>2. "entity" \in DOMAIN r[i]
      BY <1>1, <2>1 DEF HasEntities
    <3> QED BY <3>1, <3>2, <2>1
  <2>2. CASE k # i
    BY <1>1, <2>2 DEF HasEntities
  <2> QED BY <2>1, <2>2
<1>2. DOMAIN [r EXCEPT ![i][f] = v] = DOMAIN r
  OBVIOUS
<1> QED BY <1>1, <1>2 DEF SameEntities

\* The same for the links by their names, as set_parent and swap set them.
LEMMA SetLinks ==
  ASSUME NEW r, HasEntities(r), NEW i, NEW v
  PROVE  /\ SameEntities(r, [r EXCEPT ![i].parent = v])
         /\ SameEntities(r, [r EXCEPT ![i].first = v])
         /\ SameEntities(r, [r EXCEPT ![i].next = v])
         /\ SameEntities(r, [r EXCEPT ![i].prev = v])
         /\ SameEntities(r, [r EXCEPT ![i].local = v])
         /\ SameEntities(r, [r EXCEPT ![i].world = v])
<1>1. SameEntities(r, [r EXCEPT ![i].parent = v]) BY SetField
<1>2. SameEntities(r, [r EXCEPT ![i].first = v]) BY SetField
<1>3. SameEntities(r, [r EXCEPT ![i].next = v]) BY SetField
<1>4. SameEntities(r, [r EXCEPT ![i].prev = v]) BY SetField
<1>5. SameEntities(r, [r EXCEPT ![i].local = v]) BY SetField
<1>6. SameEntities(r, [r EXCEPT ![i].world = v]) BY SetField
<1> QED BY <1>1, <1>2, <1>3, <1>4, <1>5, <1>6

\* Keeping the column of entities is transitive, and keeps every row's entity.
LEMMA SameTwice ==
  ASSUME NEW r, NEW s, SameEntities(r, s)
  PROVE  /\ HasEntities(s)
         /\ \A t : SameEntities(s, t) => SameEntities(r, t)
BY DEF SameEntities, HasEntities

\* Nothing changed.
LEMMA SameAtOnce ==
  ASSUME NEW r, HasEntities(r) PROVE SameEntities(r, r)
BY DEF SameEntities, HasEntities

\* set_parent keeps the column of entities in its first half.
LEMMA UnlinkKeepsEntities ==
  ASSUME NEW r, HasEntities(r), NEW i
  PROVE  SameEntities(r, Unlink(r, i))
<1> DEFINE p == r[i].parent
           prev == r[i].prev
           next == r[i].next
           r1 == IF IsValid(next) THEN [r EXCEPT ![next].prev = prev] ELSE r
           q1 == [r1 EXCEPT ![prev].next = next]
           q2 == [r1 EXCEPT ![p].first = next]
<1>1. SameEntities(r, r1) /\ SameEntities(r, r)
  BY SetLinks, SameAtOnce
<1>2. Unlink(r, i) \in {r, q1, q2}
  BY DEF Unlink
<1> HIDE DEF r1
<1>3. HasEntities(r1)
  BY <1>1, SameTwice
<1>4. SameEntities(r1, q1) /\ SameEntities(r1, q2)
  BY <1>3, SetLinks
<1>5. SameEntities(r, q1) /\ SameEntities(r, q2)
  BY <1>1, <1>4, SameTwice
<1> QED BY <1>1, <1>2, <1>5

\* set_parent keeps the column of entities in its second half.
LEMMA LinkFirstKeepsEntities ==
  ASSUME NEW r, HasEntities(r), NEW i, NEW p
  PROVE  SameEntities(r, LinkFirst(r, i, p))
<1> DEFINE first == r[p].first
           r1 == [r EXCEPT ![p].first = i]
           q1 == [r1 EXCEPT ![i].next = first]
           q2 == [q1 EXCEPT ![first].prev = i]
           q3 == [r1 EXCEPT ![i].next = None]
           r2 == IF IsValid(first) THEN q2 ELSE q3
           w == Relative(r2[p].world, r2[i].world)
           r3 == [r2 EXCEPT ![i].local = w]
<1>1. LinkFirst(r, i, p) = r3
  BY DEF LinkFirst
<1> HIDE DEF w, first
<1>2. SameEntities(r, r1)
  BY SetLinks
<1> HIDE DEF r1
<1>3. HasEntities(r1)
  BY <1>2, SameTwice
<1>4. SameEntities(r1, q1) /\ SameEntities(r1, q3)
  BY <1>3, SetLinks
<1> HIDE DEF q1, q3
<1>5. HasEntities(q1)
  BY <1>4, SameTwice
<1>6. SameEntities(q1, q2)
  BY <1>5, SetLinks
<1> HIDE DEF q2
<1>7. SameEntities(r1, r2)
  BY <1>4, <1>6, SameTwice
<1> HIDE DEF r2
<1>8. SameEntities(r, r2)
  BY <1>2, <1>7, SameTwice
<1>9. HasEntities(r2)
  BY <1>8, SameTwice
<1>10. SameEntities(r2, r3)
  BY <1>9, SetLinks
<1> QED BY <1>1, <1>8, <1>10, SameTwice

\* set_parent keeps the column of entities.
LEMMA ReparentedKeepsEntities ==
  ASSUME NEW r, HasEntities(r), NEW i, NEW p
  PROVE  SameEntities(r, Reparented(r, i, p))
<1> DEFINE u == Unlink(r, i)
           r1 == [u EXCEPT ![i].parent = p]
<1>1. SameEntities(r, r)
  BY SameAtOnce
<1>2. Reparented(r, i, p) \in {r, r1, LinkFirst(r1, i, p)}
  BY DEF Reparented
<1>3. SameEntities(r, u)
  BY UnlinkKeepsEntities
<1> HIDE DEF u
<1>4. HasEntities(u)
  BY <1>3, SameTwice
<1>5. SameEntities(u, r1)
  BY <1>4, SetLinks
<1> HIDE DEF r1
<1>6. SameEntities(r, r1)
  BY <1>3, <1>5, SameTwice
<1>7. HasEntities(r1)
  BY <1>6, SameTwice
<1>8. SameEntities(r1, LinkFirst(r1, i, p))
  BY <1>7, LinkFirstKeepsEntities
<1>9. SameEntities(r, LinkFirst(r1, i, p))
  BY <1>6, <1>8, SameTwice
<1> QED BY <1>1, <1>2, <1>6, <1>9

\* move_instance copies the entity of row from into row to, which may be the
\* one past the end, and no other entity.
LEMMA CopiedEntity ==
  ASSUME NEW r, HasEntities(r), NEW from, NEW to, from \in DOMAIN r
  PROVE  EntityMoved(r, Copied(r, from, to), from, to)
<1> DEFINE a == IF to \in DOMAIN r THEN r[to].next ELSE None
           b == IF to \in DOMAIN r THEN r[to].prev ELSE None
           row == [r[from] EXCEPT !.next = a, !.prev = b]
           s == Copied(r, from, to)
<1>1. s = [k \in DOMAIN r \union {to} |-> IF k # to THEN r[k] ELSE row]
  BY DEF Copied
<1>2. "entity" \in DOMAIN row /\ row.entity = r[from].entity
  <2> HIDE DEF a, b
  <2>1. "entity" \in DOMAIN r[from]
    BY DEF HasEntities
  <2> QED BY <2>1
<1> HIDE DEF row, s
<1>3. EntityMoved(r, s, from, to)
  BY <1>1, <1>2 DEF HasEntities, EntityMoved
<1> QED BY <1>3 DEF s

\* Telling the siblings keeps the column of entities.
LEMMA ToldKeepsEntities ==
  ASSUME NEW r, HasEntities(r), NEW from, NEW to
  PROVE  SameEntities(r, NextTold(r, from, to)) /\ SameEntities(r, PrevTold(r, from, to))
<1>1. SameEntities(r, NextTold(r, from, to))
  <2> DEFINE next == r[from].next
             r1 == [r EXCEPT ![to].next = next]
             r2 == [r1 EXCEPT ![next].prev = to]
  <2>1. NextTold(r, from, to) \in {r1, r2}
    BY Zenon DEF NextTold
  <2> HIDE DEF next
  <2>2. SameEntities(r, r1)
    BY SetLinks
  <2> HIDE DEF r1
  <2>3. HasEntities(r1)
    BY <2>2, SameTwice
  <2>4. SameEntities(r1, r2)
    BY <2>3, SetLinks
  <2> HIDE DEF r2
  <2>5. SameEntities(r, r2)
    BY <2>2, <2>4, SameTwice
  <2> QED BY <2>1, <2>2, <2>5
<1>2. SameEntities(r, PrevTold(r, from, to))
  <2> DEFINE prev == r[from].prev
             p == r[to].parent
             r1 == [r EXCEPT ![to].prev = prev]
             r2 == [r1 EXCEPT ![prev].next = to]
             r3 == [r1 EXCEPT ![p].first = to]
  <2>1. PrevTold(r, from, to) \in {r2, r3}
    BY Zenon DEF PrevTold
  <2> HIDE DEF prev, p
  <2>2. SameEntities(r, r1)
    BY SetLinks
  <2> HIDE DEF r1
  <2>3. HasEntities(r1)
    BY <2>2, SameTwice
  <2>4. SameEntities(r1, r2) /\ SameEntities(r1, r3)
    BY <2>3, SetLinks
  <2> HIDE DEF r2, r3
  <2>5. SameEntities(r, r2) /\ SameEntities(r, r3)
    BY <2>2, <2>4, SameTwice
  <2> QED BY <2>1, <2>5
<1> QED BY <1>1, <1>2

\* move_instance as a whole.
LEMMA MoveEntity ==
  ASSUME NEW r, HasEntities(r), NEW from, NEW to, from \in DOMAIN r
  PROVE  EntityMoved(r, Move(r, from, to), from, to)
<1> DEFINE c == Copied(r, from, to)
           n == NextTold(c, from, to)
           s == Move(r, from, to)
<1>1. s \in {c, PrevTold(n, from, to)}
  BY Zenon DEF Move
<1>2. EntityMoved(r, c, from, to)
  BY CopiedEntity
<1> HIDE DEF c
<1>3. HasEntities(c)
  BY <1>2 DEF EntityMoved
<1>4. SameEntities(c, c) /\ SameEntities(c, n)
  BY <1>3, SameAtOnce, ToldKeepsEntities
<1> HIDE DEF n
<1>5. SameEntities(n, PrevTold(n, from, to))
  BY <1>4, SameTwice, ToldKeepsEntities
<1>6. SameEntities(c, PrevTold(n, from, to))
  BY <1>4, <1>5, SameTwice
<1>7. SameEntities(c, s)
  BY <1>1, <1>4, <1>6
<1> HIDE DEF s
<1>8. EntityMoved(r, s, from, to)
  BY <1>2, <1>7 DEF SameEntities, HasEntities, EntityMoved
<1> QED BY <1>8 DEF s

\* swap exchanges the entities of two rows, by way of the place past the end.
LEMMA SwapEntities ==
  ASSUME NEW r, HasEntities(r), NEW a \in DOMAIN r, NEW b \in DOMAIN r,
         Size \notin DOMAIN r
  PROVE  EntitiesSwapped(r, Swap(r, a, b), a, b)
<1> DEFINE m1 == Move(r, a, Size)
           m2 == Move(m1, b, a)
           m3 == Move(m2, Size, b)
<1>1. Swap(r, a, b) = m3
  BY DEF Swap
<1>2. EntityMoved(r, m1, a, Size)
  BY MoveEntity
<1> HIDE DEF m1
<1>3. HasEntities(m1) /\ b \in DOMAIN m1 /\ Size \in DOMAIN m1
  BY <1>2 DEF EntityMoved
<1>4. EntityMoved(m1, m2, b, a)
  BY <1>3, MoveEntity
<1> HIDE DEF m2
<1>5. HasEntities(m2) /\ Size \in DOMAIN m2
  BY <1>3, <1>4 DEF EntityMoved
<1>6. EntityMoved(m2, m3, Size, b)
  BY <1>5, MoveEntity
<1> HIDE DEF m3
<1> QED BY <1>1, <1>2, <1>4, <1>6 DEF EntityMoved, EntitiesSwapped

----------------------------------------------------------------------------
(* The invariant                                                           *)

\* The rows are counted by their indices.
LEMMA SizeOfRows ==
  ASSUME NEW n \in Nat, DOMAIN rows = 0 .. n - 1
  PROVE  Size = n
<1>1. Cardinality(0 .. n - 1) = IF 0 > n - 1 THEN 0 ELSE n - 1 - 0 + 1
  BY FS_Interval
<1> QED BY <1>1 DEF Size

\* No row, no transform.
LEMMA ApartAtFirst == Init => Apart
<1> SUFFICES ASSUME Init PROVE Apart
  OBVIOUS
<1>1. DOMAIN rows = 0 .. 0 - 1
  <2>1. DOMAIN rows = {}
    BY DEF Init
  <2>2. 0 .. 0 - 1 = {}
    OBVIOUS
  <2> QED BY <2>1, <2>2
<1>2. Size = 0
  BY <1>1, SizeOfRows
<1>3. DOMAIN rows = {}
  BY DEF Init
<1> QED BY <1>1, <1>2, <1>3 DEF Init, Apart, HasEntities

\* The operations that keep the column of entities, the capacity, and the
\* entities that live.
LEMMA ApartKept ==
  ASSUME Apart, SameEntities(rows, rows'),
         capacity' = capacity, issued' = issued, added' = added,
         alive' \subseteq alive
  PROVE  Apart'
<1>1. DOMAIN rows' = DOMAIN rows
  BY DEF SameEntities
<1>2. Size' = Size
  BY <1>1 DEF Size
<1>3. \A k \in DOMAIN rows : rows'[k].entity = rows[k].entity /\ "entity" \in DOMAIN rows'[k]
  BY DEF SameEntities
<1>4. HasEntities(rows)'
  BY <1>1, <1>3 DEF HasEntities
<1>5. (Size = 0 \/ Size < capacity)'
  BY <1>2 DEF Apart
<1> QED BY <1>1, <1>3, <1>4, <1>5 DEF Apart

\* An entity is created, with an id that was never issued.
LEMMA CreateEntityApart ==
  ASSUME Apart, NEW e \in Entities, CreateEntity(e)
  PROVE  Apart'
<1>1. /\ alive' = alive \union {e} /\ issued' = issued \union {e} /\ e \notin issued
      /\ UNCHANGED <<rows, capacity, added>>
  BY DEF CreateEntity
<1>2. alive' \intersect added' = alive \intersect added
  BY <1>1 DEF Apart
<1>3. Size' = Size
  BY <1>1 DEF Size
<1> QED BY <1>1, <1>2, <1>3 DEF Apart, HasEntities

\* add: a place to spare is left behind the new row.
LEMMA AddApart ==
  ASSUME Apart, NEW e \in Entities, Add(e)
  PROVE  Apart'
<1>1. PICK n \in Nat : DOMAIN rows = 0 .. n - 1
  BY DEF Apart
<1>2. Size = n
  BY <1>1, SizeOfRows
<1>3. /\ e \in alive /\ e \notin added
      /\ capacity' = Grown
      /\ rows' = [k \in 0 .. n |-> IF k = n THEN NewRow(e) ELSE rows[k]]
      /\ added' = added \union {e}
      /\ UNCHANGED <<alive, issued>>
  BY <1>2 DEF Add
<1>4. DOMAIN rows' = 0 .. (n + 1) - 1 /\ n + 1 \in Nat
  BY <1>3
<1>5. (Size = n + 1)'
  <2>1. Cardinality(0 .. (n + 1) - 1) = n + 1
    BY FS_Interval
  <2> QED BY <2>1, <1>4 DEF Size
<1>6. n < capacity \/ n = 0
  BY <1>2 DEF Apart
<1>7. capacity' \in Nat /\ n + 1 < capacity'
  BY <1>2, <1>3, <1>6, TransformAssumption DEF Grown, Apart
<1>8. /\ rows'[n].entity = e /\ "entity" \in DOMAIN rows'[n]
      /\ \A k \in 0 .. n - 1 : rows'[k] = rows[k]
  <2>1. NewRow(e).entity = e /\ "entity" \in DOMAIN NewRow(e)
    BY DEF NewRow
  <2>2. rows'[n] = NewRow(e)
    BY <1>3
  <2>3. \A k \in 0 .. n - 1 : rows'[k] = rows[k]
    BY <1>3
  <2> QED BY <2>1, <2>2, <2>3
<1>9. 0 .. (n + 1) - 1 = (0 .. n - 1) \union {n}
  OBVIOUS
<1>10. \A k \in DOMAIN rows : rows[k].entity # e
  BY <1>3 DEF Apart
<1>11. HasEntities(rows)'
  BY <1>1, <1>4, <1>8, <1>9 DEF Apart, HasEntities
<1>12. \A i \in DOMAIN rows' : rows'[i].entity \in added'
  BY <1>1, <1>3, <1>4, <1>8, <1>9 DEF Apart
<1>13. \A i, k \in DOMAIN rows' : rows'[i].entity = rows'[k].entity => i = k
  BY <1>1, <1>4, <1>8, <1>9, <1>10 DEF Apart
<1>14. ASSUME NEW x \in alive' \intersect added'
       PROVE  \E i \in DOMAIN rows' : rows'[i].entity = x
  <2>1. CASE x = e
    BY <2>1, <1>4, <1>8, <1>9
  <2>2. CASE x # e
    <3>1. PICK i \in DOMAIN rows : rows[i].entity = x
      BY <2>2, <1>3, <1>14 DEF Apart
    <3> QED BY <3>1, <1>1, <1>4, <1>8, <1>9
  <2> QED BY <2>1, <2>2
<1>15. (alive \subseteq issued /\ added \subseteq issued /\ issued \subseteq Entities)'
  BY <1>3 DEF Apart
<1>16. (\E m \in Nat : DOMAIN rows = 0 .. m - 1)'
  BY <1>4
<1>17. (Size = 0 \/ Size < capacity)'
  BY <1>5, <1>7
<1> QED BY <1>7, <1>11, <1>12, <1>13, <1>14, <1>15, <1>16, <1>17 DEF Apart

\* destroy: the entity of row i, which is dead, changes places with the last
\* one and is dropped with the last row.
LEMMA CollectRowApart ==
  ASSUME Apart, NEW i \in DOMAIN rows, CollectRow(i)
  PROVE  Apart'
<1>1. PICK n \in Nat : DOMAIN rows = 0 .. n - 1
  BY DEF Apart
<1>2. Size = n /\ n # 0
  BY <1>1, SizeOfRows
<1> DEFINE last == n - 1
           swapped == Swap(rows, i, last)
<1>3. /\ rows' = [k \in 0 .. last - 1 |-> swapped[k]]
      /\ rows[i].entity \notin alive
      /\ UNCHANGED <<alive, issued, capacity, added>>
  BY <1>2 DEF CollectRow, Destroy
<1>4. last \in DOMAIN rows /\ Size \notin DOMAIN rows /\ last \in Nat
  BY <1>1, <1>2
<1>5. HasEntities(rows)
  BY DEF Apart
<1>6. EntitiesSwapped(rows, swapped, i, last)
  <2> HIDE DEF last
  <2> QED BY <1>4, <1>5, SwapEntities
<1> HIDE DEF swapped
<1>7. DOMAIN rows' = 0 .. last - 1 /\ DOMAIN rows = (0 .. last - 1) \union {last}
      /\ last \notin 0 .. last - 1
  BY <1>1, <1>3, <1>4
<1> HIDE DEF last
<1>8. ASSUME NEW k \in DOMAIN rows'
      PROVE  /\ k \in DOMAIN rows /\ k # last
             /\ "entity" \in DOMAIN rows'[k]
             /\ rows'[k].entity = rows[IF k = i THEN last ELSE k].entity
  <2>1. k \in DOMAIN rows /\ k # last /\ rows'[k] = swapped[k]
    BY <1>3, <1>7
  <2>2. "entity" \in DOMAIN swapped[k]
    BY <2>1, <1>6 DEF HasEntities, EntitiesSwapped
  <2> QED BY <2>1, <2>2, <1>6 DEF EntitiesSwapped
<1>9. HasEntities(rows)'
  BY <1>8 DEF HasEntities
<1>10. \A k \in DOMAIN rows' : rows'[k].entity \in added'
  BY <1>3, <1>4, <1>8 DEF Apart
<1>11. \A j, k \in DOMAIN rows' : rows'[j].entity = rows'[k].entity => j = k
  BY <1>4, <1>8 DEF Apart
<1>12. ASSUME NEW x \in alive' \intersect added'
       PROVE  \E k \in DOMAIN rows' : rows'[k].entity = x
  <2>1. PICK k \in DOMAIN rows : rows[k].entity = x
    BY <1>3 DEF Apart
  <2>2. k # i
    BY <2>1, <1>3
  <2>3. CASE k = last
    <3>1. i \in DOMAIN rows'
      BY <2>2, <2>3, <1>7
    <3> QED BY <3>1, <2>1, <2>3, <1>8
  <2>4. CASE k # last
    <3>1. k \in DOMAIN rows'
      BY <2>4, <1>7
    <3> QED BY <3>1, <2>1, <2>2, <1>8
  <2> QED BY <2>3, <2>4
<1>13. (Size = 0 \/ Size < capacity)'
  <2>1. (Size = last)'
    <3>1. Cardinality(0 .. last - 1) = last
      BY <1>4, FS_Interval
    <3> QED BY <3>1, <1>7 DEF Size
  <2>2. n < capacity
    BY <1>2 DEF Apart
  <2> QED BY <2>1, <2>2, <1>3 DEF last, Apart
<1>14. (alive \subseteq issued /\ added \subseteq issued /\ issued \subseteq Entities
          /\ capacity \in Nat)'
  BY <1>3 DEF Apart
<1>15. (\E m \in Nat : DOMAIN rows = 0 .. m - 1)'
  BY <1>4, <1>7
<1> QED BY <1>9, <1>10, <1>11, <1>12, <1>13, <1>14, <1>15 DEF Apart

\* set_local, and a call of transform: matrices only.
LEMMA MatricesKeepEntities ==
  ASSUME HasEntities(rows), Transform \/ \E e \in Entities, m \in Matrices : SetLocal(e, m)
  PROVE  SameEntities(rows, rows')
<1>1. CASE Transform
  <2>1. PICK k, v : rows' = [rows EXCEPT ![k].world = v]
    BY <1>1 DEF Transform
  <2> QED BY <2>1, SetLinks
<1>2. ASSUME NEW e \in Entities, NEW m \in Matrices, SetLocal(e, m)
      PROVE  SameEntities(rows, rows')
  <2>1. PICK i, v : rows' = [rows EXCEPT ![i].local = m, ![i].world = v]
    BY <1>2 DEF SetLocal
  <2> DEFINE r1 == [rows EXCEPT ![i].local = m]
  <2>2. rows' = [r1 EXCEPT ![i].world = v]
    BY <2>1
  <2>3. SameEntities(rows, r1)
    BY SetLinks
  <2> HIDE DEF r1
  <2>4. HasEntities(r1)
    BY <2>3, SameTwice
  <2>5. SameEntities(r1, rows')
    BY <2>2, <2>4, SetLinks
  <2> QED BY <2>3, <2>5, SameTwice
<1> QED BY <1>1, <1>2

\* So the rows stay apart.
LEMMA MatricesApart ==
  ASSUME Apart, Transform \/ \E e \in Entities, m \in Matrices : SetLocal(e, m)
  PROVE  Apart'
<1>1. HasEntities(rows)
  BY DEF Apart
<1>2. SameEntities(rows, rows')
  BY <1>1, MatricesKeepEntities
<1>3. UNCHANGED <<capacity, issued, added, alive>>
  BY DEF Transform, SetLocal
<1> QED BY <1>2, <1>3, ApartKept

\* set_parent: links and one matrix only.
LEMMA SetParentApart ==
  ASSUME Apart, NEW e \in Entities, NEW pe \in Entities \union {NoEntity}, SetParent(e, pe)
  PROVE  Apart'
<1>1. PICK i, p : rows' = Reparented(rows, i, p)
  BY DEF SetParent
<1>2. HasEntities(rows)
  BY DEF Apart
<1>3. SameEntities(rows, rows')
  BY <1>1, <1>2, ReparentedKeepsEntities
<1>4. UNCHANGED <<capacity, issued, added, alive>>
  BY DEF SetParent
<1> QED BY <1>3, <1>4, ApartKept

\* Every step keeps the rows apart.
LEMMA ApartInductive == Apart /\ [Next]_vars => Apart'
<1> SUFFICES ASSUME Apart, [Next]_vars PROVE Apart'
  OBVIOUS
<1>1. HasEntities(rows) /\ SameEntities(rows, rows)
  BY SameAtOnce DEF Apart
<1>2. ASSUME NEW e \in Entities, CreateEntity(e) \/ DestroyEntity(e) \/ Add(e)
      PROVE  Apart'
  <2>1. CASE CreateEntity(e)
    BY <2>1, CreateEntityApart
  <2>2. CASE DestroyEntity(e)
    <3>1. alive' \subseteq alive /\ UNCHANGED <<rows, capacity, issued, added>>
      BY <2>2 DEF DestroyEntity
    <3> QED BY <3>1, <1>1, ApartKept
  <2>3. CASE Add(e)
    BY <2>3, AddApart
  <2> QED BY <1>2, <2>1, <2>2, <2>3
<1>3. ASSUME NEW e \in Entities, NEW pe \in Entities \union {NoEntity}, SetParent(e, pe)
      PROVE  Apart'
  BY <1>3, SetParentApart
<1>4. CASE Transform \/ \E e \in Entities, m \in Matrices : SetLocal(e, m)
  BY <1>4, MatricesApart
<1>5. ASSUME NEW i \in DOMAIN rows, CollectRow(i)
      PROVE  Apart'
  BY <1>5, CollectRowApart
<1>6. CASE CollectBegin \/ CollectEnd \/ UNCHANGED vars
  <2>1. UNCHANGED <<rows, capacity, issued, added, alive>>
    BY <1>6 DEF CollectBegin, CollectEnd, vars
  <2> QED BY <2>1, <1>1, ApartKept
<1> QED BY <1>2, <1>3, <1>4, <1>5, <1>6 DEF Next

----------------------------------------------------------------------------
(* The map of the TransformComponent.                                      *)

\* The entities of the rows by their indices.
Column == [k \in DOMAIN rows |-> rows[k].entity]

\* Until the table links an erased entry again, the map is the inverse of that.
MapInv == "map" \notin damage => Inverts(map, Column, Size)

\* The operations that keep the column and the map.
LEMMA MapKept ==
  ASSUME MapInv, Apart, SameEntities(rows, rows'), map' = map, damage \subseteq damage'
  PROVE  MapInv'
  <1>1. Column' = Column
    BY DEF Column, SameEntities
  <1>2. Size' = Size
    BY DEF Size, SameEntities
  <1> QED
    BY <1>1, <1>2 DEF MapInv

\* The rows are counted by their indices, which are different entities' indices.
LEMMA ColumnOfRows ==
  ASSUME Apart
  PROVE  /\ Size \in Nat /\ DOMAIN rows = 0 .. Size - 1
         /\ \A k \in 0 .. Size - 1 : Column[k] = rows[k].entity /\ Column[k] \in Nat
         /\ \A k, m \in 0 .. Size - 1 : Column[k] = Column[m] => k = m
  <1>1. Size \in Nat /\ DOMAIN rows = 0 .. Size - 1
    BY SizeOfRows DEF Apart
  <1>2. \A k \in DOMAIN rows : rows[k].entity \in Nat
    BY TransformAssumption DEF Apart
  <1>3. \A k, m \in DOMAIN rows : rows[k].entity = rows[m].entity => k = m
    BY DEF Apart
  <1> HIDE DEF Size
  <1> QED
    BY <1>1, <1>2, <1>3 DEF Column

\* add: the new row's index.
LEMMA AddMaps ==
  ASSUME MapInv, Apart, Apart', NEW e \in Entities, Add(e)
  PROVE  MapInv'
  <1> DEFINE n == Size
  <1>1. /\ e \notin added
        /\ rows' = [k \in 0 .. n |-> IF k = n THEN NewRow(e) ELSE rows[k]]
        /\ map' = HashSet(map, e, n)
        /\ damage' = damage \union (IF GrowthResurrects(map, e) THEN {"map"} ELSE {})
    BY DEF Add
  <1>2. /\ n \in Nat /\ DOMAIN rows = 0 .. n - 1
        /\ \A k \in 0 .. n - 1 : Column[k] = rows[k].entity
    BY ColumnOfRows
  <1> HIDE DEF n
  <1>3. SUFFICES ASSUME "map" \notin damage'
                 PROVE  Inverts(map', Column', Size')
    BY DEF MapInv
  <1>4. "map" \notin damage /\ ~GrowthResurrects(map, e)
    BY <1>1, <1>3
  <1>5. Inverts(map, Column, n)
    BY <1>4 DEF MapInv, n
  <1>6. DOMAIN rows' = 0 .. n
    BY <1>1
  <1>7. Size' = n + 1
    <2>1. Cardinality(0 .. n) = n + 1
      BY <1>2, FS_Interval
    <2> QED
      BY <1>6, <2>1 DEF Size
  <1>8. Column'[n] = e /\ \A k \in 0 .. n - 1 : Column'[k] = Column[k]
    <2>1. \A k \in 0 .. n : Column'[k] = rows'[k].entity
      BY <1>6 DEF Column
    <2>2. rows'[n] = NewRow(e) /\ NewRow(e).entity = e
      BY <1>1, <1>2 DEF NewRow
    <2>3. \A k \in 0 .. n - 1 : k \in 0 .. n /\ rows'[k] = rows[k]
      BY <1>1, <1>2
    <2> QED
      BY <1>2, <2>1, <2>2, <2>3
  <1>9. \A k \in 0 .. n - 1 : Column[k] # e
    BY <1>1, <1>2 DEF Apart
  <1>10. e \in Nat
    BY TransformAssumption
  <1> QED
    BY <1>1, <1>2, <1>4, <1>5, <1>7, <1>8, <1>9, <1>10, RowMapped

\* destroy: the last row takes the place of row i, in the column and in the map.
LEMMA CollectRowMaps ==
  ASSUME MapInv, Apart, NEW i \in DOMAIN rows, CollectRow(i)
  PROVE  MapInv'
  <1> DEFINE n == Size
             last == n - 1
             swapped == Swap(rows, i, last)
             e == rows[i].entity
             table == HashSet(map, rows[last].entity, i)
  <1>1. /\ rows' = [k \in 0 .. last - 1 |-> swapped[k]]
        /\ map' = HashRemove(table, e)
        /\ damage \subseteq damage'
        /\ RemovalResurrects(table, e) => "map" \in damage'
    BY DEF CollectRow, Destroy
  <1>2. /\ n \in Nat /\ DOMAIN rows = 0 .. n - 1
        /\ \A k \in 0 .. n - 1 : Column[k] = rows[k].entity /\ Column[k] \in Nat
        /\ \A k, m \in 0 .. n - 1 : Column[k] = Column[m] => k = m
    BY ColumnOfRows
  <1> HIDE DEF swapped, table, n
  <1>3. SUFFICES ASSUME "map" \notin damage'
                 PROVE  Inverts(map', Column', Size')
    BY DEF MapInv
  <1>4. "map" \notin damage /\ ~RemovalResurrects(table, e)
    BY <1>1, <1>3
  <1>5. Inverts(map, Column, n)
    BY <1>4 DEF MapInv, n
  <1>6. n # 0 /\ i \in 0 .. last /\ last \in DOMAIN rows
    BY <1>2
  <1>7. EntitiesSwapped(rows, swapped, i, last)
    <2>1. Size \notin DOMAIN rows
      BY <1>2 DEF n
    <2> HIDE DEF last
    <2> QED
      BY <1>6, <2>1, SwapEntities DEF swapped, Apart
  <1>8. DOMAIN rows' = 0 .. last - 1 /\ (n - 1) - 1 = n - 2
    BY <1>1, <1>2
  <1>9. Size' = last
    <2>1. last \in Nat
      BY <1>2, <1>6
    <2> HIDE DEF last
    <2>2. Cardinality(0 .. last - 1) = last
      BY <2>1, FS_Interval
    <2> QED
      BY <1>8, <2>2 DEF Size
  <1>10. ASSUME NEW k \in 0 .. n - 2
         PROVE  Column'[k] = Column[IF k = i THEN last ELSE k]
    <2>1. k \in 0 .. last - 1 /\ k \in DOMAIN rows /\ k # last
      BY <1>2, <1>6
    <2>2. Column'[k] = swapped[k].entity
      BY <1>1, <1>8, <2>1 DEF Column
    <2> HIDE DEF last
    <2>3. swapped[k].entity = rows[IF k = i THEN last ELSE k].entity
      BY <1>6, <1>7, <2>1 DEF EntitiesSwapped
    <2> QED
      BY <1>2, <1>6, <2>1, <2>2, <2>3 DEF Column
  <1>11. Column[last] = rows[last].entity /\ Column[i] = e
    BY <1>6 DEF Column
  <1>12. map' = HashRemove(HashSet(map, Column[n - 1], i), Column[i])
    BY <1>1, <1>11 DEF table
  <1>13. ~RemovalResurrects(HashSet(map, Column[n - 1], i), Column[i])
    BY <1>4, <1>11 DEF table
  <1>14. Inverts(map', Column', n - 1)
    <2>1. i \in 0 .. n - 1
      BY <1>6
    <2> HIDE DEF last, e
    <2> QED
      BY <1>2, <1>5, <1>10, <1>12, <1>13, <2>1, RowTakenOut DEF last
  <1> QED
    BY <1>9, <1>14

\* Every step keeps the map the inverse of the array.
LEMMA MapInductive == MapInv /\ Apart /\ [Next]_vars => MapInv'
  <1> SUFFICES ASSUME MapInv, Apart, [Next]_vars
               PROVE  MapInv'
    OBVIOUS
  <1>1. HasEntities(rows) /\ SameEntities(rows, rows) /\ Apart'
    BY SameAtOnce, ApartInductive DEF Apart
  <1>2. ASSUME NEW e \in Entities, CreateEntity(e) \/ DestroyEntity(e) \/ Add(e)
        PROVE  MapInv'
    <2>1. CASE CreateEntity(e) \/ DestroyEntity(e)
      <3>1. UNCHANGED <<rows, map, damage>>
        BY <2>1 DEF CreateEntity, DestroyEntity
      <3> QED
        BY <1>1, <3>1, MapKept
    <2>2. CASE Add(e)
      BY <1>1, <2>2, AddMaps
    <2> QED
      BY <1>2, <2>1, <2>2
  <1>3. ASSUME NEW e \in Entities, NEW pe \in Entities \union {NoEntity}, SetParent(e, pe)
        PROVE  MapInv'
    <2>1. PICK i, p : rows' = Reparented(rows, i, p)
      BY <1>3 DEF SetParent
    <2>2. SameEntities(rows, rows')
      BY <1>1, <2>1, ReparentedKeepsEntities
    <2>3. map' = map /\ damage \subseteq damage'
      BY <1>3 DEF SetParent
    <2> QED
      BY <2>2, <2>3, MapKept
  <1>4. CASE Transform \/ \E e \in Entities, m \in Matrices : SetLocal(e, m)
    <2>1. SameEntities(rows, rows') /\ map' = map /\ damage' = damage
      BY <1>1, <1>4, MatricesKeepEntities DEF Transform, SetLocal
    <2> QED
      BY <2>1, MapKept
  <1>5. ASSUME NEW i \in DOMAIN rows, CollectRow(i)
        PROVE  MapInv'
    BY <1>5, CollectRowMaps
  <1>6. CASE CollectBegin \/ CollectEnd \/ UNCHANGED vars
    <2>1. UNCHANGED <<rows, map, damage>>
      BY <1>6 DEF CollectBegin, CollectEnd, vars
    <2> QED
      BY <1>1, <2>1, MapKept
  <1> QED
    BY <1>2, <1>3, <1>4, <1>5, <1>6 DEF Next

\* No row, no key.
LEMMA MapAtFirst == Init => MapInv
  <1> SUFFICES ASSUME Init
               PROVE  MapInv
    OBVIOUS
  <1>1. map = NewTable /\ DOMAIN rows = {}
    BY DEF Init
  <1>2. DOMAIN rows = 0 .. 0 - 1
    BY <1>1
  <1>3. Size = 0
    BY <1>2, SizeOfRows
  <1>4. {<<Column[k], k>> : k \in 0 .. 0 - 1} = {}
    OBVIOUS
  <1> QED
    BY <1>1, <1>3, <1>4, NewTableSound DEF MapInv, Inverts

----------------------------------------------------------------------------
(* MeshComponent's table is one of the same hash tables.                   *)

\* It begins empty.
LEMMA MeshTableIsNew == MeshMap!NewTable = NewTable
  BY DEF MeshMap!NewTable, NewTable

\* It is searched in the same way.
LEMMA MeshTableFinds ==
  ASSUME NEW h, NEW key
  PROVE  /\ MeshMap!Find(h, key) = Find(h, key)
         /\ MeshMap!HashHas(h, key) = HashHas(h, key)
         /\ \A default : MeshMap!HashGet(h, key, default) = HashGet(h, key, default)
  <1>1. MeshMap!Find(h, key) = Find(h, key)
    BY DEF MeshMap!Find, Find, MeshMap!BucketOf, BucketOf, MeshMap!Chain, Chain,
           MeshMap!Min, Min, MeshMap!End, End
  <1> QED
    BY <1>1 DEF MeshMap!HashHas, HashHas, MeshMap!HashGet, HashGet, MeshMap!End, End

\* Its chains are changed in the same way.
LEMMA MeshTableLinks ==
  ASSUME NEW h, NEW fr, NEW i
  PROVE  MeshMap!Link(h, fr, i) = Link(h, fr, i)
  BY DEF MeshMap!Link, Link, MeshMap!End, End

\* It grows in the same way.
LEMMA MeshTableGrows ==
  ASSUME NEW h
  PROVE  MeshMap!Grow(h) = Grow(h)
  <1>1. ASSUME NEW t, NEW x
        PROVE  MeshMap!Insert(t, x) = Insert(t, x)
    BY MeshTableFinds, MeshTableLinks DEF MeshMap!Insert, Insert
  <1> DEFINE size == Len(h.data) * 2 + BaseBuckets
             empty == [buckets |-> [b \in 1 .. size |-> End], data |-> <<>>]
             theirs(t) == [n \in 0 .. Len(h.data) |->
                             IF n = 0 THEN empty ELSE MeshMap!Insert(t[n - 1], h.data[n])]
             ours(t) == [n \in 0 .. Len(h.data) |->
                           IF n = 0 THEN empty ELSE Insert(t[n - 1], h.data[n])]
  <1>2. MeshMap!Grow(h) = (CHOOSE t : t = theirs(t))[Len(h.data)]
    BY DEF MeshMap!Grow, MeshMap!End, End
  <1>3. Grow(h) = (CHOOSE t : t = ours(t))[Len(h.data)]
    BY DEF Grow
  <1> HIDE DEF empty, size
  <1>4. \A t : theirs(t) = ours(t)
    BY <1>1
  <1> HIDE DEF theirs, ours
  <1>5. (CHOOSE t : t = theirs(t)) = (CHOOSE t : t = ours(t))
    BY <1>4
  <1> QED
    BY <1>2, <1>3, <1>5

\* So it is set and removed from in the same way.
LEMMA MeshTableChanges ==
  ASSUME NEW h, NEW key
  PROVE  /\ \A value : MeshMap!HashSet(h, key, value) = HashSet(h, key, value)
         /\ MeshMap!HashRemove(h, key) = HashRemove(h, key)
  <1>1. ASSUME NEW t
        PROVE  MeshMap!Full(t) = Full(t)
    BY DEF MeshMap!Full, Full
  <1>2. ASSUME NEW value
        PROVE  MeshMap!HashSet(h, key, value) = HashSet(h, key, value)
    <2> DEFINE ready == IF h.buckets = <<>> THEN Grow(h) ELSE h
               entry == [key |-> key, next |-> End, value |-> value]
               fr == Find(ready, key)
               stored == IF fr.i # End
                           THEN [ready EXCEPT !.data[fr.i].value = value]
                           ELSE Link([ready EXCEPT !.data = Append(@, entry)], fr,
                                     Len(ready.data) + 1)
    <2>1. HashSet(h, key, value) = IF Full(stored) THEN Grow(stored) ELSE stored
      BY DEF HashSet
    <2>2. MeshMap!HashSet(h, key, value) =
            IF MeshMap!Full(stored) THEN MeshMap!Grow(stored) ELSE stored
      BY MeshTableFinds, MeshTableLinks, MeshTableGrows DEF MeshMap!HashSet, MeshMap!End, End
    <2> HIDE DEF stored
    <2> QED
      BY <1>1, <2>1, <2>2, MeshTableGrows
  <1>3. MeshMap!HashRemove(h, key) = HashRemove(h, key)
    <2>1. ASSUME NEW fr
          PROVE  MeshMap!Erase(h, fr) = Erase(h, fr)
      <3> DEFINE last == Len(h.data)
                 unlinked == Link(h, fr, h.data[fr.i].next)
                 moved == [unlinked EXCEPT !.data[fr.i] = unlinked.data[last]]
                 shorter == [unlinked EXCEPT !.data = Front(@)]
                 relinked == Link(moved, Find(moved, moved.data[fr.i].key), fr.i)
      <3>1. Erase(h, fr) = IF fr.i = last THEN shorter ELSE relinked
        BY DEF Erase
      <3>2. MeshMap!Erase(h, fr) =
              IF fr.i = last THEN [unlinked EXCEPT !.data = MeshMap!Front(@)]
              ELSE MeshMap!Link(moved, MeshMap!Find(moved, moved.data[fr.i].key), fr.i)
        BY MeshTableLinks DEF MeshMap!Erase
      <3>3. [unlinked EXCEPT !.data = MeshMap!Front(@)] = shorter
        BY DEF MeshMap!Front, Front
      <3>4. MeshMap!Link(moved, MeshMap!Find(moved, moved.data[fr.i].key), fr.i) = relinked
        <4> HIDE DEF moved
        <4> QED
          BY MeshTableFinds, MeshTableLinks
      <3> HIDE DEF moved, unlinked, shorter, relinked
      <3> QED
        BY <3>1, <3>2, <3>3, <3>4
    <2> QED
      BY <2>1, MeshTableFinds DEF MeshMap!HashRemove, HashRemove, MeshMap!End, End
  <1> QED
    BY <1>2, <1>3

\* And it has the same entries that no chain reaches.
LEMMA MeshTableResurrects ==
  ASSUME NEW h, NEW key
  PROVE  /\ MeshMap!GrowthResurrects(h, key) = GrowthResurrects(h, key)
         /\ MeshMap!RemovalResurrects(h, key) = RemovalResurrects(h, key)
  <1>1. MeshMap!Ghosts(h) = Ghosts(h)
    BY DEF MeshMap!Ghosts, Ghosts, MeshMap!Linked, Linked, MeshMap!Chain, Chain,
           MeshMap!End, End
  <1> QED
    BY <1>1, MeshTableFinds
    DEF MeshMap!GrowthResurrects, GrowthResurrects, MeshMap!RemovalResurrects,
        RemovalResurrects, MeshMap!End, End

----------------------------------------------------------------------------
(* The map of MeshComponent.                                               *)

Instances == [entity : Entities, mesh : Meshes]

\* The entities of the instances by their indices, counted from 0.
MeshColumn == [k \in 0 .. Len(mData) - 1 |-> mData[k + 1].entity]

\* While no entity has had two meshes, and none that was erased is back: the map is
\* the inverse of the vector, which has the meshes that were given.
MeshInv ==
  mDamage = {} =>
    /\ mData \in Seq(Instances)
    /\ \A i, k \in DOMAIN mData : mData[i].entity = mData[k].entity => i = k
    /\ mGiven = {<<mData[i].entity, mData[i].mesh>> : i \in DOMAIN mData}
    /\ Inverts(mMap, MeshColumn, Len(mData))

\* No instance, no key.
LEMMA MeshAtFirst == MeshMap!Init => MeshInv
  <1> SUFFICES ASSUME MeshMap!Init
               PROVE  MeshInv
    OBVIOUS
  <1>1. mData = <<>> /\ mMap = NewTable /\ mGiven = {}
    BY MeshTableIsNew DEF MeshMap!Init
  <1>2. mData \in Seq(Instances) /\ DOMAIN mData = {} /\ Len(mData) = 0
    BY <1>1
  <1>3. {<<MeshColumn[k], k>> : k \in 0 .. 0 - 1} = {}
    OBVIOUS
  <1> QED
    BY <1>1, <1>2, <1>3, NewTableSound DEF MeshInv, Inverts

\* What the invariant says of the column.
LEMMA ColumnOfMeshes ==
  ASSUME MeshInv, mDamage = {}
  PROVE  /\ Len(mData) \in Nat /\ DOMAIN mData = 1 .. Len(mData)
         /\ \A i \in DOMAIN mData : mData[i].entity \in Entities /\ mData[i].mesh \in Meshes
         /\ \A k \in 0 .. Len(mData) - 1 :
              /\ k + 1 \in DOMAIN mData
              /\ MeshColumn[k] = mData[k + 1].entity /\ MeshColumn[k] \in Nat
         /\ \A k, m \in 0 .. Len(mData) - 1 : MeshColumn[k] = MeshColumn[m] => k = m
  <1>1. /\ mData \in Seq(Instances)
        /\ \A i, k \in DOMAIN mData : mData[i].entity = mData[k].entity => i = k
    BY DEF MeshInv
  <1>2. \A i \in DOMAIN mData : mData[i].entity \in Entities /\ mData[i].mesh \in Meshes
    <2>1. \A i \in DOMAIN mData : mData[i] \in Instances
      BY <1>1
    <2> QED
      BY <2>1 DEF Instances
  <1>3. Len(mData) \in Nat /\ DOMAIN mData = 1 .. Len(mData)
    BY <1>1
  <1>4. \A k \in 0 .. Len(mData) - 1 :
          k + 1 \in DOMAIN mData /\ MeshColumn[k] = mData[k + 1].entity
    BY <1>3 DEF MeshColumn
  <1>5. \A k, m \in 0 .. Len(mData) - 1 : MeshColumn[k] = MeshColumn[m] => k = m
    <2> TAKE k, m \in 0 .. Len(mData) - 1
    <2>1. MeshColumn[k] = MeshColumn[m] => k + 1 = m + 1
      BY <1>1, <1>4
    <2> QED
      BY <1>3, <2>1
  <1> QED
    BY <1>2, <1>3, <1>4, <1>5, TransformAssumption

\* add: the new instance's index.
LEMMA MeshAdded ==
  ASSUME MeshInv, NEW e \in Entities, NEW mesh \in Meshes, MeshMap!Add(e, mesh)
  PROVE  MeshInv'
  <1> DEFINE n == Len(mData)
             x == [entity |-> e, mesh |-> mesh]
  <1>1. /\ mDamage = {}
        /\ mData' = Append(mData, x)
        /\ mMap' = HashSet(mMap, e, n)
        /\ mGiven' = mGiven \union {<<e, mesh>>}
        /\ HashHas(mMap, e) => "twice" \in mDamage'
        /\ GrowthResurrects(mMap, e) => "map" \in mDamage'
    BY MeshTableFinds, MeshTableChanges, MeshTableResurrects
    DEF MeshMap!Add, MeshMap!Ready
  <1>2. SUFFICES ASSUME mDamage' = {}
                 PROVE  /\ mData' \in Seq(Instances)
                        /\ \A i, k \in DOMAIN mData' :
                             mData'[i].entity = mData'[k].entity => i = k
                        /\ mGiven' = {<<mData'[i].entity, mData'[i].mesh>> : i \in DOMAIN mData'}
                        /\ Inverts(mMap', MeshColumn', Len(mData'))
    BY DEF MeshInv
  <1>3. ~HashHas(mMap, e) /\ ~GrowthResurrects(mMap, e)
    BY <1>1, <1>2
  <1>4. /\ mData \in Seq(Instances) /\ Inverts(mMap, MeshColumn, n)
        /\ \A i, k \in DOMAIN mData : mData[i].entity = mData[k].entity => i = k
        /\ mGiven = {<<mData[i].entity, mData[i].mesh>> : i \in DOMAIN mData}
    BY <1>1 DEF MeshInv
  <1>5. /\ n \in Nat /\ DOMAIN mData = 1 .. n
        /\ \A k \in 0 .. n - 1 : k + 1 \in DOMAIN mData /\ MeshColumn[k] = mData[k + 1].entity
    BY <1>1, ColumnOfMeshes
  <1>6. e \in Nat
    BY TransformAssumption
  <1>7. \A k \in 0 .. n - 1 : MeshColumn[k] # e
    <2> HIDE DEF n
    <2> QED
      BY <1>3, <1>4, <1>5, <1>6, InvertsFinds
  <1>8. x \in Instances /\ x.entity = e /\ x.mesh = mesh
    BY DEF Instances
  <1> HIDE DEF x
  <1>9. /\ mData' \in Seq(Instances) /\ Len(mData') = n + 1 /\ DOMAIN mData' = 1 .. n + 1
        /\ mData'[n + 1] = x /\ \A i \in 1 .. n : mData'[i] = mData[i]
    BY <1>1, <1>4, <1>8
  <1> HIDE DEF n
  <1>10. 1 .. n + 1 = (1 .. n) \union {n + 1} /\ n + 1 \notin 1 .. n
    BY <1>5
  <1>11. \A i \in 1 .. n : mData[i].entity # e
    <2> TAKE i \in 1 .. n
    <2>1. i - 1 \in 0 .. n - 1 /\ (i - 1) + 1 = i
      BY <1>5
    <2> QED
      BY <1>5, <1>7, <2>1
  <1>12. \A i, k \in DOMAIN mData' : mData'[i].entity = mData'[k].entity => i = k
    BY <1>4, <1>5, <1>8, <1>9, <1>10, <1>11
  <1>13. mGiven' = {<<mData'[i].entity, mData'[i].mesh>> : i \in DOMAIN mData'}
    BY <1>1, <1>4, <1>5, <1>8, <1>9, <1>10
  <1>14. MeshColumn'[n] = e /\ \A k \in 0 .. n - 1 : MeshColumn'[k] = MeshColumn[k]
    <2>1. MeshColumn' = [k \in 0 .. n |-> mData'[k + 1].entity]
      BY <1>5, <1>9 DEF MeshColumn
    <2>2. n \in 0 .. n /\ \A k \in 0 .. n - 1 : k \in 0 .. n /\ k + 1 \in 1 .. n
      BY <1>5
    <2> QED
      BY <1>5, <1>8, <1>9, <2>1, <2>2
  <1>15. Inverts(mMap', MeshColumn', n + 1)
    BY <1>1, <1>3, <1>4, <1>5, <1>6, <1>7, <1>14, RowMapped
  <1> QED
    BY <1>9, <1>12, <1>13, <1>15

\* destroy: the last instance is copied over instance i, in the vector and in the map.
LEMMA MeshDestroyed ==
  ASSUME MeshInv, NEW i \in 0 .. Len(mData) - 1, MeshMap!Destroy(i)
  PROVE  MeshInv'
  <1> DEFINE n == Len(mData)
             gone == mData[i + 1]
             last == mData[n]
             D == [mData EXCEPT ![i + 1] = last]
             table == HashSet(mMap, last.entity, i)
  <1>1. mDamage = {}
    BY DEF MeshMap!Destroy, MeshMap!Ready
  <1>2. /\ mData \in Seq(Instances) /\ Inverts(mMap, MeshColumn, n)
        /\ \A j, k \in DOMAIN mData : mData[j].entity = mData[k].entity => j = k
        /\ mGiven = {<<mData[j].entity, mData[j].mesh>> : j \in DOMAIN mData}
    BY <1>1 DEF MeshInv
  <1>3. /\ n \in Nat /\ DOMAIN mData = 1 .. n
        /\ \A k \in 0 .. n - 1 :
             /\ k + 1 \in DOMAIN mData
             /\ MeshColumn[k] = mData[k + 1].entity /\ MeshColumn[k] \in Nat
        /\ \A k, m \in 0 .. n - 1 : MeshColumn[k] = MeshColumn[m] => k = m
    BY <1>1, ColumnOfMeshes
  <1>4. n # 0 /\ i \in 0 .. n - 1 /\ i + 1 \in 1 .. n /\ n - 1 \in 0 .. n - 1 /\ n \in 1 .. n
    BY <1>3
  <1>5. MeshMap!Last(mData) = last
    BY DEF MeshMap!Last
  <1>6. /\ mData' = MeshMap!Front(D)
        /\ mMap' = HashRemove(table, gone.entity)
        /\ mGiven' = mGiven \ {<<gone.entity, gone.mesh>>}
        /\ RemovalResurrects(table, gone.entity) => "map" \in mDamage'
    BY <1>5, MeshTableChanges, MeshTableResurrects DEF MeshMap!Destroy, MeshMap!Remapped
  <1>7. mData' = [k \in 1 .. n - 1 |-> IF k = i + 1 THEN last ELSE mData[k]]
    <2>1. Len(D) = n /\ D \in Seq(Instances) /\ DOMAIN D = 1 .. n
          /\ \A k \in 1 .. n : D[k] = IF k = i + 1 THEN last ELSE mData[k]
      BY <1>2, <1>3, <1>4
    <2> HIDE DEF D, last, n
    <2>2. mData' = SubSeq(D, 1, n - 1)
      BY <1>6, <2>1 DEF MeshMap!Front
    <2>3. SubSeq(D, 1, n - 1) = [k \in 1 .. n - 1 |-> D[k]]
      BY <1>3, <2>1
    <2>4. \A k \in 1 .. n - 1 : k \in 1 .. n
      BY <1>3
    <2> QED
      BY <2>1, <2>2, <2>3, <2>4
  <1> SUFFICES ASSUME mDamage' = {}
               PROVE  /\ mData' \in Seq(Instances)
                      /\ \A j, k \in DOMAIN mData' :
                           mData'[j].entity = mData'[k].entity => j = k
                      /\ mGiven' = {<<mData'[j].entity, mData'[j].mesh>> : j \in DOMAIN mData'}
                      /\ Inverts(mMap', MeshColumn', Len(mData'))
    BY DEF MeshInv
  <1>8. ~RemovalResurrects(table, gone.entity)
    BY <1>6
  <1> HIDE DEF D, table, n, last, gone
  <1>9. last = mData[n] /\ gone = mData[i + 1]
    BY DEF last, gone, n
  <1>10. \A k \in 1 .. n : mData[k] \in Instances
    BY <1>2, <1>3
  <1>11. /\ mData' \in Seq(Instances) /\ Len(mData') = n - 1 /\ DOMAIN mData' = 1 .. n - 1
    <2>1. mData' \in [1 .. n - 1 -> Instances]
      <3>1. \A k \in 1 .. n - 1 : k \in 1 .. n
        BY <1>3
      <3> QED
        BY <1>4, <1>7, <1>9, <1>10, <3>1
    <2> QED
      BY <1>3, <1>4, <2>1
  <1> DEFINE from(k) == IF k = i + 1 THEN n ELSE k
  <1>12. \A k \in 1 .. n - 1 : from(k) \in 1 .. n /\ from(k) # i + 1 /\ mData'[k] = mData[from(k)]
    BY <1>3, <1>4, <1>7, <1>9
  <1>13. \A j, k \in 1 .. n - 1 : from(j) = from(k) => j = k
    BY <1>3
  <1>14. \A m \in 1 .. n : m # i + 1 => \E k \in 1 .. n - 1 : from(k) = m
    <2> TAKE m \in 1 .. n
    <2>1. SUFFICES ASSUME m # i + 1
                   PROVE  \E k \in 1 .. n - 1 : from(k) = m
      OBVIOUS
    <2>2. CASE m = n
      <3>1. i + 1 \in 1 .. n - 1
        BY <1>3, <1>4, <2>1, <2>2
      <3>2. from(i + 1) = m
        BY <2>2
      <3> HIDE DEF from
      <3> QED
        BY <3>1, <3>2
    <2>3. CASE m # n
      <3>1. m \in 1 .. n - 1
        BY <1>3, <2>3
      <3>2. from(m) = m
        BY <2>1
      <3> HIDE DEF from
      <3> QED
        BY <3>1, <3>2
    <2> QED
      BY <2>2, <2>3
  <1> HIDE DEF from
  <1>15. \A j, k \in DOMAIN mData' : mData'[j].entity = mData'[k].entity => j = k
    <2> SUFFICES ASSUME NEW j \in 1 .. n - 1, NEW k \in 1 .. n - 1,
                        mData'[j].entity = mData'[k].entity
                 PROVE  j = k
      BY <1>11
    <2>1. mData[from(j)].entity = mData[from(k)].entity
      BY <1>12
    <2>2. from(j) \in DOMAIN mData /\ from(k) \in DOMAIN mData
      BY <1>3, <1>12
    <2>3. from(j) = from(k)
      BY <1>2, <2>1, <2>2
    <2> QED
      BY <1>13, <2>3
  <1>16. mGiven' = {<<mData'[j].entity, mData'[j].mesh>> : j \in DOMAIN mData'}
    <2> DEFINE Pair(k) == <<mData[k].entity, mData[k].mesh>>
    <2>1. \A k \in 1 .. n : k # i + 1 => Pair(k) # Pair(i + 1)
      BY <1>2, <1>3, <1>4
    <2>2. mGiven' = mGiven \ {Pair(i + 1)} /\ mGiven = {Pair(k) : k \in 1 .. n}
      BY <1>2, <1>3, <1>6, <1>9
    <2>3. \A k \in 1 .. n - 1 : <<mData'[k].entity, mData'[k].mesh>> = Pair(from(k))
      BY <1>12
    <2> HIDE DEF Pair
    <2>4. mGiven' = {Pair(k) : k \in (1 .. n) \ {i + 1}}
      BY <2>1, <2>2
    <2>5. {Pair(k) : k \in (1 .. n) \ {i + 1}} = {Pair(from(k)) : k \in 1 .. n - 1}
      BY <1>12, <1>14
    <2>6. {Pair(from(k)) : k \in 1 .. n - 1}
            = {<<mData'[k].entity, mData'[k].mesh>> : k \in 1 .. n - 1}
      BY <2>3
    <2> QED
      BY <1>11, <2>4, <2>5, <2>6
  <1>17. ASSUME NEW k \in 0 .. n - 2
         PROVE  MeshColumn'[k] = MeshColumn[IF k = i THEN n - 1 ELSE k]
    <2>1. k + 1 \in 1 .. n - 1 /\ k \in 0 .. (n - 1) - 1 /\ k \in 0 .. n - 1
      BY <1>3
    <2>2. MeshColumn'[k] = mData'[k + 1].entity
      BY <1>11, <2>1 DEF MeshColumn
    <2>3. mData'[k + 1] = mData[IF k = i THEN n ELSE k + 1]
      BY <1>3, <1>7, <1>9, <2>1
    <2>4. CASE k = i
      <3>1. (n - 1) + 1 = n
        BY <1>3
      <3> QED
        BY <1>3, <1>4, <2>2, <2>3, <2>4, <3>1
    <2>5. CASE k # i
      BY <1>3, <2>1, <2>2, <2>3, <2>5
    <2> QED
      BY <2>4, <2>5
  <1>18. MeshColumn[n - 1] = last.entity /\ MeshColumn[i] = gone.entity
    <2>1. (n - 1) + 1 = n
      BY <1>3
    <2> QED
      BY <1>3, <1>4, <1>9, <2>1
  <1>19. mMap' = HashRemove(HashSet(mMap, MeshColumn[n - 1], i), MeshColumn[i])
    BY <1>6, <1>18 DEF table
  <1>20. ~RemovalResurrects(HashSet(mMap, MeshColumn[n - 1], i), MeshColumn[i])
    BY <1>8, <1>18 DEF table
  <1>21. Inverts(mMap', MeshColumn', n - 1)
    BY <1>2, <1>3, <1>4, <1>17, <1>19, <1>20, RowTakenOut
  <1> QED
    BY <1>11, <1>15, <1>16, <1>21

\* Every step keeps the meshes and the map.
LEMMA MeshInductive == MeshInv /\ [MeshMap!Next]_meshVars => MeshInv'
  <1> SUFFICES ASSUME MeshInv, [MeshMap!Next]_meshVars
               PROVE  MeshInv'
    OBVIOUS
  <1>1. CASE UNCHANGED meshVars
    BY <1>1 DEF meshVars, MeshInv, MeshColumn
  <1>2. CASE MeshMap!Next
    BY <1>2, MeshAdded, MeshDestroyed DEF MeshMap!Next
  <1> QED
    BY <1>1, <1>2

\* The invariant is what MeshesKept says of every entity.
LEMMA MeshesAreFound == MeshInv => MeshMap!MeshesKept
  <1> SUFFICES ASSUME MeshInv, mDamage = {}
               PROVE  /\ {<<mData[i].entity, mData[i].mesh>> : i \in DOMAIN mData} = mGiven
                      /\ \A e \in Entities :
                           LET at == {i \in DOMAIN mData : mData[i].entity = e}
                           IN  IF at = {} THEN ~HashHas(mMap, e)
                               ELSE HashHas(mMap, e) /\ at = {HashGet(mMap, e, 0) + 1}
    BY MeshTableFinds DEF MeshMap!MeshesKept
  <1> DEFINE n == Len(mData)
  <1>1. /\ mGiven = {<<mData[i].entity, mData[i].mesh>> : i \in DOMAIN mData}
        /\ Inverts(mMap, MeshColumn, n)
        /\ \A i, k \in DOMAIN mData : mData[i].entity = mData[k].entity => i = k
    BY DEF MeshInv
  <1>2. /\ n \in Nat /\ DOMAIN mData = 1 .. n
        /\ \A k \in 0 .. n - 1 :
             /\ k + 1 \in DOMAIN mData
             /\ MeshColumn[k] = mData[k + 1].entity
    BY ColumnOfMeshes
  <1> HIDE DEF n
  <1>3. ASSUME NEW e \in Entities
        PROVE  LET at == {i \in DOMAIN mData : mData[i].entity = e}
               IN  IF at = {} THEN ~HashHas(mMap, e)
                   ELSE HashHas(mMap, e) /\ at = {HashGet(mMap, e, 0) + 1}
    <2> DEFINE at == {i \in DOMAIN mData : mData[i].entity = e}
    <2>1. e \in Nat
      BY TransformAssumption
    <2>2. /\ \A k \in 0 .. n - 1 :
               MeshColumn[k] = e => HashHas(mMap, e) /\ HashGet(mMap, e, 0) = k
          /\ HashHas(mMap, e) => \E k \in 0 .. n - 1 : MeshColumn[k] = e
      BY <1>1, <1>2, <2>1, InvertsFinds
    <2>3. CASE at = {}
      BY <1>2, <2>2, <2>3
    <2>4. ASSUME NEW i \in at
          PROVE  HashHas(mMap, e) /\ at = {HashGet(mMap, e, 0) + 1}
      <3>1. i - 1 \in 0 .. n - 1 /\ (i - 1) + 1 = i
        BY <1>2
      <3>2. MeshColumn[i - 1] = e
        BY <1>2, <3>1
      <3>3. HashHas(mMap, e) /\ HashGet(mMap, e, 0) + 1 = i
        BY <2>2, <3>1, <3>2
      <3>4. at = {i}
        BY <1>1
      <3> QED
        BY <3>3, <3>4
    <2> QED
      BY <2>3, <2>4
  <1> QED
    BY <1>1, <1>3

----------------------------------------------------------------------------
(* The hierarchy: its links.                                               *)

\* A link of r that leads to a row or nowhere.
LinkOf(r, l) == l \in DOMAIN r \union {None}

\* The lists of children are linked both ways: from a parent to its first child, and
\* from a child to the next and the previous one.  A row without a parent has no
\* previous sibling; what next holds then is left over.
Family(r) ==
  \A c \in DOMAIN r :
    /\ LinkOf(r, r[c].parent) /\ LinkOf(r, r[c].first)
    /\ r[c].first # None => r[r[c].first].parent = c /\ r[r[c].first].prev = None
    /\ r[c].parent = None => r[c].prev = None
    /\ r[c].parent # None =>
         /\ LinkOf(r, r[c].next) /\ LinkOf(r, r[c].prev)
         /\ r[c].prev = None => r[r[c].parent].first = c
         /\ r[c].prev # None =>
              r[r[c].prev].next = c /\ r[r[c].prev].parent = r[c].parent
         /\ r[c].next # None =>
              r[r[c].next].prev = c /\ r[r[c].next].parent = r[c].parent

\* order increases along the lists of children.
InOrder(r, order) ==
  /\ order \in [DOMAIN r -> Nat]
  /\ \A c \in DOMAIN r :
       r[c].parent # None /\ r[c].next # None => order[c] < order[r[c].next]

\* The parents are those that were asked for: of is parentOf, known is added.
Asked(r, of, known) ==
  /\ of \in [Entities -> Entities \union {NoEntity}]
  /\ \A e \in Entities \ known : of[e] = NoEntity
  /\ \A c \in DOMAIN r :
       of[r[c].entity] = IF r[c].parent = None THEN NoEntity ELSE r[r[c].parent].entity

\* depth grows from parent to child.
Deeper(of, depth) ==
  /\ depth \in [Entities -> Nat]
  /\ \A e \in Entities : of[e] # NoEntity => depth[of[e]] < depth[e]

\* The same for rows.
Rising(r, rank) ==
  /\ rank \in [DOMAIN r -> Nat]
  /\ \A c \in DOMAIN r : r[c].parent # None => rank[r[c].parent] < rank[c]

----------------------------------------------------------------------------
(* The hierarchy: its matrices.                                            *)

\* The rows of the calls still to make.
Pending(cs) == {cs[n].row : n \in DOMAIN cs}

\* The row that calls transform for row x.
Caller(r, x) == IF r[x].prev # None THEN r[x].prev ELSE r[x].parent

\* The rows that the traversal will come to are due: what is below one of them and
\* what comes after it in its list is due, and it is pending or will be called for.
Due(r, cs, due) ==
  /\ due \subseteq DOMAIN r
  /\ \A x \in due : r[x].parent # None
  /\ \A c \in DOMAIN r : r[c].parent \in due => c \in due
  /\ \A x \in due : r[x].next # None => r[x].next \in due
  /\ \A x \in due : x \in Pending(cs) <=> Caller(r, x) \notin due

\* The pending calls are different, and with the right parents.
CallsOn(r, cs, due) ==
  /\ cs \in Seq([row : due, parent : DOMAIN r])
  /\ \A n \in DOMAIN cs : cs[n].parent = r[cs[n].row].parent
  /\ \A m, n \in DOMAIN cs : cs[m].row = cs[n].row => m = n

\* All the others have the world matrix that they should.
Follows(r, c) == r[c].world = Times(r[c].local, r[r[c].parent].world)

\* A traversal with the calls cs and at most n more to make.
Traversal(r, cs, n, due) ==
  /\ Due(r, cs, due)
  /\ CallsOn(r, cs, due)
  /\ n \in Nat /\ Cardinality(due) <= n
  /\ \A c \in DOMAIN r \ due : r[c].parent # None => Follows(r, c)

HierInv ==
  damage \subseteq {"map"} =>
    /\ rows \in [DOMAIN rows -> Rows]
    /\ Family(rows)
    /\ \E order : InOrder(rows, order)
    /\ Asked(rows, parentOf, added)
    /\ \E depth : Deeper(parentOf, depth)
    /\ \E due : Traversal(rows, calls, left, due)
    /\ ~hung
    /\ collecting => calls = <<>>
----------------------------------------------------------------------------
(* What set_parent and swap change, field by field.                        *)

Fields == {"entity", "local", "world", "parent", "first", "next", "prev"}

\* In s, field f of row j is v, and nothing else changed.
SetTo(r, s, j, f, v) ==
  /\ s \in [DOMAIN r -> Rows]
  /\ \A k \in DOMAIN r, g \in Fields : s[k][g] = IF k = j /\ g = f THEN v ELSE r[k][g]

\* A link may be set to any index.
LEMMA SetRow ==
  ASSUME NEW r, r \in [DOMAIN r -> Rows], NEW j \in DOMAIN r, NEW v
  PROVE  /\ v \in Int => SetTo(r, [r EXCEPT ![j].parent = v], j, "parent", v)
         /\ v \in Int => SetTo(r, [r EXCEPT ![j].first = v], j, "first", v)
         /\ v \in Int => SetTo(r, [r EXCEPT ![j].next = v], j, "next", v)
         /\ v \in Int => SetTo(r, [r EXCEPT ![j].prev = v], j, "prev", v)
         /\ v \in Matrices => SetTo(r, [r EXCEPT ![j].local = v], j, "local", v)
         /\ v \in Matrices => SetTo(r, [r EXCEPT ![j].world = v], j, "world", v)
  <1>1. ASSUME v \in Int
        PROVE  SetTo(r, [r EXCEPT ![j].parent = v], j, "parent", v)
    BY <1>1 DEF SetTo, Rows, Fields
  <1>2. ASSUME v \in Int
        PROVE  SetTo(r, [r EXCEPT ![j].first = v], j, "first", v)
    BY <1>2 DEF SetTo, Rows, Fields
  <1>3. ASSUME v \in Int
        PROVE  SetTo(r, [r EXCEPT ![j].next = v], j, "next", v)
    BY <1>3 DEF SetTo, Rows, Fields
  <1>4. ASSUME v \in Int
        PROVE  SetTo(r, [r EXCEPT ![j].prev = v], j, "prev", v)
    BY <1>4 DEF SetTo, Rows, Fields
  <1>5. ASSUME v \in Matrices
        PROVE  SetTo(r, [r EXCEPT ![j].local = v], j, "local", v)
    BY <1>5 DEF SetTo, Rows, Fields
  <1>6. ASSUME v \in Matrices
        PROVE  SetTo(r, [r EXCEPT ![j].world = v], j, "world", v)
    BY <1>6 DEF SetTo, Rows, Fields
  <1> QED
    BY <1>1, <1>2, <1>3, <1>4, <1>5, <1>6

\* Where a row of r leads to, or not.
LEMMA ValidLinks ==
  ASSUME Size \in Nat, NEW r, DOMAIN r = 0 .. Size - 1, NEW l, LinkOf(r, l)
  PROVE  l \in Int /\ (IsValid(l) <=> l # None) /\ (l # None => l \in DOMAIN r)
  BY DEF LinkOf, IsValid, None

LEMMA NoRowIsNone ==
  ASSUME Size \in Nat, NEW r, DOMAIN r = 0 .. Size - 1
  PROVE  None \notin DOMAIN r /\ ~IsValid(None) /\ None \in Int /\ DOMAIN r \subseteq Int
  BY DEF IsValid, None

\* set_parent, the first half, of a row that is the first child or has no parent.
LEMMA Unlinked ==
  ASSUME Size \in Nat, NEW r, r \in [DOMAIN r -> Rows], DOMAIN r = 0 .. Size - 1, Family(r),
         NEW i \in DOMAIN r, r[i].prev = None
  PROVE  LET s == Unlink(r, i)
             q == r[i].parent
             n == r[i].next
         IN  /\ s \in [DOMAIN r -> Rows]
             /\ \A k \in DOMAIN r, g \in Fields : s[k][g] =
                  IF q # None /\ k = q /\ g = "first" THEN n
                  ELSE IF q # None /\ k = n /\ g = "prev" THEN None ELSE r[k][g]
  <1> DEFINE q == r[i].parent
             n == r[i].next
             r1 == IF IsValid(n) THEN [r EXCEPT ![n].prev = None] ELSE r
             r2 == [r1 EXCEPT ![q].first = n]
  <1>1. None \notin DOMAIN r /\ ~IsValid(None) /\ None \in Int /\ DOMAIN r \subseteq Int
    BY NoRowIsNone
  <1>2. LinkOf(r, q) /\ (q # None => LinkOf(r, n))
    BY DEF Family
  <1>3. (IsValid(q) <=> q # None) /\ (q # None => q \in DOMAIN r)
    BY <1>2, ValidLinks
  <1>4. CASE q = None
    <2>1. Unlink(r, i) = r
      BY <1>3, <1>4 DEF Unlink
    <2> QED
      BY <1>4, <2>1
  <1>5. CASE q # None
    <2>1. Unlink(r, i) = r2
      BY <1>1, <1>3, <1>5 DEF Unlink
    <2>2. n \in Int /\ (IsValid(n) <=> n # None) /\ (n # None => n \in DOMAIN r)
      BY <1>2, <1>5, ValidLinks
    <2> HIDE DEF n, q
    <2>3. /\ r1 \in [DOMAIN r -> Rows]
          /\ \A k \in DOMAIN r, g \in Fields :
               r1[k][g] = IF k = n /\ g = "prev" THEN None ELSE r[k][g]
      <3>1. CASE n = None
        BY <1>1, <2>2, <3>1
      <3>2. CASE n # None
        <4>1. SetTo(r, r1, n, "prev", None)
          BY <1>1, <2>2, <3>2, SetRow
        <4> QED
          BY <4>1 DEF SetTo
      <3> QED
        BY <3>1, <3>2
    <2> HIDE DEF r1
    <2>4. r1 \in [DOMAIN r1 -> Rows] /\ DOMAIN r1 = DOMAIN r
      BY <2>3
    <2>5. SetTo(r1, r2, q, "first", n)
      BY <1>3, <1>5, <2>2, <2>4, SetRow
    <2> HIDE DEF r2
    <2>6. /\ r2 \in [DOMAIN r -> Rows]
          /\ \A k \in DOMAIN r, g \in Fields :
               r2[k][g] = IF k = q /\ g = "first" THEN n
                          ELSE IF k = n /\ g = "prev" THEN None ELSE r[k][g]
      BY <2>3, <2>4, <2>5 DEF SetTo
    <2> QED
      BY <1>5, <2>1, <2>6 DEF q, n
  <1> QED
    BY <1>4, <1>5

\* set_parent, the second half.
LEMMA LinkedFirst ==
  ASSUME Size \in Nat, NEW r, r \in [DOMAIN r -> Rows], DOMAIN r = 0 .. Size - 1,
         NEW i \in DOMAIN r, NEW p \in DOMAIN r, LinkOf(r, r[p].first), p # i, r[p].first # i
  PROVE  LET s == LinkFirst(r, i, p)
             f == r[p].first
         IN  /\ s \in [DOMAIN r -> Rows]
             /\ \A k \in DOMAIN r, g \in Fields : s[k][g] =
                  IF k = p /\ g = "first" THEN i
                  ELSE IF k = i /\ g = "next" THEN f
                  ELSE IF k = f /\ g = "prev" THEN i
                  ELSE IF k = i /\ g = "local" THEN Relative(r[p].world, r[i].world)
                  ELSE r[k][g]
  <1> DEFINE f == r[p].first
             r1 == [r EXCEPT ![p].first = i]
             q1 == [r1 EXCEPT ![i].next = f]
             q2 == [q1 EXCEPT ![f].prev = i]
             q3 == [r1 EXCEPT ![i].next = None]
             r2 == IF IsValid(f) THEN q2 ELSE q3
             w == Relative(r2[p].world, r2[i].world)
             r3 == [r2 EXCEPT ![i].local = w]
  <1>1. LinkFirst(r, i, p) = r3
    BY DEF LinkFirst
  <1>2. None \notin DOMAIN r /\ ~IsValid(None) /\ None \in Int /\ DOMAIN r \subseteq Int
    BY NoRowIsNone
  <1>3. f \in Int /\ (IsValid(f) <=> f # None) /\ (f # None => f \in DOMAIN r)
    BY ValidLinks
  <1>4. f # i
    OBVIOUS
  <1> HIDE DEF f
  <1>5. SetTo(r, r1, p, "first", i)
    BY <1>2, SetRow
  <1> HIDE DEF r1
  <1>6. r1 \in [DOMAIN r1 -> Rows] /\ DOMAIN r1 = DOMAIN r
    BY <1>5 DEF SetTo
  <1>7. SetTo(r1, q1, i, "next", f) /\ SetTo(r1, q3, i, "next", None)
    BY <1>2, <1>3, <1>6, SetRow
  <1> HIDE DEF q1, q3
  <1>8. q1 \in [DOMAIN q1 -> Rows] /\ DOMAIN q1 = DOMAIN r
    BY <1>6, <1>7 DEF SetTo
  <1>9. f # None => SetTo(q1, q2, f, "prev", i)
    BY <1>2, <1>3, <1>8, SetRow
  <1> HIDE DEF q2
  <1>10. /\ r2 \in [DOMAIN r -> Rows]
         /\ \A k \in DOMAIN r, g \in Fields : r2[k][g] =
              IF k = p /\ g = "first" THEN i
              ELSE IF k = i /\ g = "next" THEN f
              ELSE IF k = f /\ g = "prev" THEN i
              ELSE r[k][g]
    <2>1. CASE f = None
      <3>1. r2 = q3
        BY <1>2, <2>1
      <3> HIDE DEF r2
      <3> QED
        BY <1>2, <1>5, <1>6, <1>7, <2>1, <3>1 DEF SetTo
    <2>2. CASE f # None
      <3>1. r2 = q2
        BY <1>3, <2>2
      <3>2. \A k \in DOMAIN r, g \in Fields :
              r1[k][g] = IF k = p /\ g = "first" THEN i ELSE r[k][g]
        BY <1>5 DEF SetTo
      <3>3. \A k \in DOMAIN r, g \in Fields :
              q1[k][g] = IF k = i /\ g = "next" THEN f ELSE r1[k][g]
        BY <1>6, <1>7 DEF SetTo
      <3>4. /\ q2 \in [DOMAIN r -> Rows]
            /\ \A k \in DOMAIN r, g \in Fields :
              q2[k][g] = IF k = f /\ g = "prev" THEN i ELSE q1[k][g]
        BY <1>8, <1>9, <2>2 DEF SetTo
      <3> HIDE DEF r2
      <3>5. ASSUME NEW k \in DOMAIN r, NEW g \in Fields
            PROVE  r2[k][g] = IF k = p /\ g = "first" THEN i
                              ELSE IF k = i /\ g = "next" THEN f
                              ELSE IF k = f /\ g = "prev" THEN i
                              ELSE r[k][g]
        BY <3>1, <3>2, <3>3, <3>4
      <3> QED
        BY <3>1, <3>4, <3>5
    <2> QED
      BY <2>1, <2>2
  <1> HIDE DEF r2
  <1>11. r2[p].world = r[p].world /\ r2[i].world = r[i].world
    BY <1>10 DEF Fields
  <1>12. w = Relative(r[p].world, r[i].world)
    BY <1>11
  <1>13. w \in Matrices
    <2>1. r[p].world \in Int /\ r[i].world \in Int
      <3>1. r[p] \in Rows /\ r[i] \in Rows
        OBVIOUS
      <3> QED
        BY <3>1 DEF Rows, Matrices
    <2> QED
      BY <1>12, <2>1, TransformAssumption DEF Relative, Matrices
  <1> HIDE DEF w
  <1>14. r2 \in [DOMAIN r2 -> Rows] /\ DOMAIN r2 = DOMAIN r
    BY <1>10
  <1>15. SetTo(r2, r3, i, "local", w)
    BY <1>13, <1>14, SetRow
  <1> HIDE DEF r3
  <1>16. ASSUME NEW k \in DOMAIN r, NEW g \in Fields
         PROVE  r3[k][g] = IF k = i /\ g = "local" THEN w ELSE r2[k][g]
    BY <1>14, <1>15 DEF SetTo
  <1>17. r3 \in [DOMAIN r -> Rows]
    BY <1>14, <1>15 DEF SetTo
  <1> QED
    BY <1>1, <1>10, <1>12, <1>16, <1>17 DEF f

\* set_parent as a whole, of a row without a previous sibling: s is r after row i has
\* moved from its parent to p.
Moved(r, s, i, p) ==
  LET q == r[i].parent
      n == r[i].next
      f == r[p].first
  IN  /\ s \in [DOMAIN r -> Rows]
      /\ \A k \in DOMAIN r, g \in Fields : s[k][g] =
           IF k = i /\ g = "parent" THEN p
           ELSE IF p # None /\ k = p /\ g = "first" THEN i
           ELSE IF p # None /\ k = i /\ g = "next" THEN f
           ELSE IF p # None /\ k = f /\ g = "prev" THEN i
           ELSE IF p # None /\ k = i /\ g = "local" THEN Relative(r[p].world, r[i].world)
           ELSE IF q # None /\ k = q /\ g = "first" THEN n
           ELSE IF q # None /\ k = n /\ g = "prev" THEN None
           ELSE r[k][g]

LEMMA ReparentedMoves ==
  ASSUME Size \in Nat, NEW r, r \in [DOMAIN r -> Rows], DOMAIN r = 0 .. Size - 1, Family(r),
         NEW i \in DOMAIN r, r[i].prev = None,
         NEW p, LinkOf(r, p), p # i, r[i].parent # p
  PROVE  Moved(r, Reparented(r, i, p), i, p)
  <1> DEFINE q == r[i].parent
             n == r[i].next
             u == Unlink(r, i)
             r1 == [u EXCEPT ![i].parent = p]
             s == Reparented(r, i, p)
  <1>1. None \notin DOMAIN r /\ ~IsValid(None) /\ None \in Int /\ DOMAIN r \subseteq Int
    BY NoRowIsNone
  <1>2. p \in Int /\ (IsValid(p) <=> p # None) /\ (p # None => p \in DOMAIN r)
    BY ValidLinks
  <1>3. s = IF p # None THEN LinkFirst(r1, i, p) ELSE r1
    BY <1>2 DEF Reparented
  <1>4. /\ u \in [DOMAIN r -> Rows]
        /\ \A k \in DOMAIN r, g \in Fields : u[k][g] =
             IF q # None /\ k = q /\ g = "first" THEN n
             ELSE IF q # None /\ k = n /\ g = "prev" THEN None ELSE r[k][g]
    BY Unlinked
  <1> HIDE DEF u
  <1>5. u \in [DOMAIN u -> Rows] /\ DOMAIN u = DOMAIN r
    BY <1>4
  <1>6. SetTo(u, r1, i, "parent", p)
    BY <1>2, <1>5, SetRow
  <1> HIDE DEF r1
  <1>7. /\ r1 \in [DOMAIN r1 -> Rows] /\ DOMAIN r1 = DOMAIN r
        /\ \A k \in DOMAIN r, g \in Fields : r1[k][g] =
             IF k = i /\ g = "parent" THEN p
             ELSE IF q # None /\ k = q /\ g = "first" THEN n
             ELSE IF q # None /\ k = n /\ g = "prev" THEN None
             ELSE r[k][g]
    BY <1>4, <1>5, <1>6 DEF SetTo
  <1> HIDE DEF s
  <1>8. CASE p = None
    BY <1>3, <1>7, <1>8 DEF Moved, s
  <1>9. CASE p # None
    <2>1. p \in DOMAIN r /\ p # q
      BY <1>2, <1>9
    <2>2. /\ r1[p].first = r[p].first
          /\ r1[p].world = r[p].world /\ r1[i].world = r[i].world
      BY <1>7, <2>1 DEF Fields
    <2>3. LinkOf(r, r[p].first) /\ r[p].first # i
      <3>1. r[p].first # None => r[r[p].first].parent = p
        BY <2>1 DEF Family
      <3> QED
        BY <1>1, <2>1, <3>1 DEF Family
    <2>4. LinkOf(r1, r1[p].first)
      BY <1>7, <2>2, <2>3 DEF LinkOf
    <2>5. s = LinkFirst(r1, i, p)
      BY <1>3, <1>9
    <2>6. DOMAIN r1 = 0 .. Size - 1 /\ i \in DOMAIN r1 /\ p \in DOMAIN r1 /\ r1[p].first # i
      BY <1>7, <2>1, <2>2, <2>3
    <2>7. /\ s \in [DOMAIN r1 -> Rows]
          /\ \A k \in DOMAIN r1, g \in Fields : s[k][g] =
               IF k = p /\ g = "first" THEN i
               ELSE IF k = i /\ g = "next" THEN r1[p].first
               ELSE IF k = r1[p].first /\ g = "prev" THEN i
               ELSE IF k = i /\ g = "local" THEN Relative(r1[p].world, r1[i].world)
               ELSE r1[k][g]
      BY <1>7, <2>4, <2>5, <2>6, LinkedFirst
    <2>8. s \in [DOMAIN r -> Rows]
      BY <1>7, <2>7
    <2>9. ASSUME NEW k \in DOMAIN r, NEW g \in Fields
          PROVE  s[k][g] =
                   IF k = i /\ g = "parent" THEN p
                   ELSE IF k = p /\ g = "first" THEN i
                   ELSE IF k = i /\ g = "next" THEN r[p].first
                   ELSE IF k = r[p].first /\ g = "prev" THEN i
                   ELSE IF k = i /\ g = "local" THEN Relative(r[p].world, r[i].world)
                   ELSE IF q # None /\ k = q /\ g = "first" THEN n
                   ELSE IF q # None /\ k = n /\ g = "prev" THEN None
                   ELSE r[k][g]
      BY <1>7, <2>2, <2>7
    <2> QED
      BY <1>9, <2>8, <2>9 DEF Moved, s
  <1> QED
    BY <1>8, <1>9

\* The same by the names of the fields.
LEMMA MovedFields ==
  ASSUME NEW r, NEW s, NEW i, NEW p, Moved(r, s, i, p), NEW k \in DOMAIN r
  PROVE  LET q == r[i].parent
             n == r[i].next
             f == r[p].first
         IN  /\ s[k].entity = r[k].entity /\ s[k].world = r[k].world
             /\ s[k].parent = IF k = i THEN p ELSE r[k].parent
             /\ s[k].first = IF p # None /\ k = p THEN i
                             ELSE IF q # None /\ k = q THEN n ELSE r[k].first
             /\ s[k].next = IF p # None /\ k = i THEN f ELSE r[k].next
             /\ s[k].prev = IF p # None /\ k = f THEN i
                            ELSE IF q # None /\ k = n THEN None ELSE r[k].prev
             /\ s[k].local = IF p # None /\ k = i THEN Relative(r[p].world, r[i].world)
                             ELSE r[k].local
  BY DEF Moved, Fields

\* The lists of children stay linked both ways.
LEMMA MovedFamily ==
  ASSUME NEW r, None \notin DOMAIN r, Family(r), NEW i \in DOMAIN r, r[i].prev = None,
         NEW p, LinkOf(r, p), p # i, r[i].parent # p,
         NEW s, Moved(r, s, i, p)
  PROVE  Family(s)
  <1> DEFINE q == r[i].parent
             n == r[i].next
             f == r[p].first
  <1>1. DOMAIN s = DOMAIN r
    BY DEF Moved
  <1>2. /\ LinkOf(r, q) /\ LinkOf(r, r[i].first)
        /\ q # None => q \in DOMAIN r /\ r[q].first = i
        /\ q # None /\ n # None => n \in DOMAIN r /\ r[n].prev = i /\ r[n].parent = q
        /\ q # None => LinkOf(r, n)
    BY DEF Family, LinkOf
  <1>3. p # None => /\ p \in DOMAIN r /\ LinkOf(r, f)
                    /\ f # None => f \in DOMAIN r /\ r[f].parent = p /\ r[f].prev = None
    BY DEF Family, LinkOf
  <1> HIDE DEF q, n, f
  <1>4. q = r[i].parent /\ n = r[i].next /\ f = r[p].first
    BY DEF q, n, f
  <1>5. \A k \in DOMAIN r :
          /\ s[k].parent = IF k = i THEN p ELSE r[k].parent
          /\ s[k].first = IF p # None /\ k = p THEN i
                          ELSE IF q # None /\ k = q THEN n ELSE r[k].first
          /\ s[k].next = IF p # None /\ k = i THEN f ELSE r[k].next
          /\ s[k].prev = IF p # None /\ k = f THEN i
                         ELSE IF q # None /\ k = n THEN None ELSE r[k].prev
    BY MovedFields DEF q, n, f
  <1> SUFFICES ASSUME NEW c \in DOMAIN r
               PROVE  /\ LinkOf(r, s[c].parent) /\ LinkOf(r, s[c].first)
                      /\ s[c].first # None =>
                           s[s[c].first].parent = c /\ s[s[c].first].prev = None
                      /\ s[c].parent = None => s[c].prev = None
                      /\ s[c].parent # None =>
                           /\ LinkOf(r, s[c].next) /\ LinkOf(r, s[c].prev)
                           /\ s[c].prev = None => s[s[c].parent].first = c
                           /\ s[c].prev # None =>
                                s[s[c].prev].next = c /\ s[s[c].prev].parent = s[c].parent
                           /\ s[c].next # None =>
                                s[s[c].next].prev = c /\ s[s[c].next].parent = s[c].parent
    BY <1>1 DEF Family, LinkOf
  <1>6. /\ LinkOf(r, r[c].parent) /\ LinkOf(r, r[c].first)
        /\ r[c].first # None => /\ r[c].first \in DOMAIN r
                                /\ r[r[c].first].parent = c /\ r[r[c].first].prev = None
        /\ r[c].parent = None => r[c].prev = None
        /\ r[c].parent # None =>
             /\ LinkOf(r, r[c].next) /\ LinkOf(r, r[c].prev)
             /\ r[c].parent \in DOMAIN r
             /\ r[c].prev = None => r[r[c].parent].first = c
             /\ r[c].prev # None => /\ r[c].prev \in DOMAIN r /\ r[r[c].prev].next = c
                                    /\ r[r[c].prev].parent = r[c].parent
             /\ r[c].next # None => /\ r[c].next \in DOMAIN r /\ r[r[c].next].prev = c
                                    /\ r[r[c].next].parent = r[c].parent
    BY DEF Family, LinkOf
  <1>7. LinkOf(r, i) /\ LinkOf(r, None)
    BY DEF LinkOf
  <1>8. LinkOf(r, s[c].parent) /\ LinkOf(r, s[c].first)
    BY <1>2, <1>3, <1>5, <1>6, <1>7
  <1>9. s[c].first # None => s[s[c].first].parent = c /\ s[s[c].first].prev = None
    BY <1>2, <1>3, <1>4, <1>5, <1>6
  <1>10. s[c].parent = None => s[c].prev = None
    BY <1>2, <1>3, <1>4, <1>5, <1>6
  <1>11. ASSUME s[c].parent # None
         PROVE  /\ LinkOf(r, s[c].next) /\ LinkOf(r, s[c].prev)
                /\ s[c].prev = None => s[s[c].parent].first = c
    BY <1>2, <1>3, <1>4, <1>5, <1>6, <1>7, <1>11
  <1>12. ASSUME s[c].parent # None, s[c].prev # None
         PROVE  s[s[c].prev].next = c /\ s[s[c].prev].parent = s[c].parent
    BY <1>2, <1>3, <1>4, <1>5, <1>6, <1>12
  <1>13. ASSUME s[c].parent # None, s[c].next # None
         PROVE  s[s[c].next].prev = c /\ s[s[c].next].parent = s[c].parent
    BY <1>2, <1>3, <1>4, <1>5, <1>6, <1>13
  <1> QED
    BY <1>8, <1>9, <1>10, <1>11, <1>12, <1>13


----------------------------------------------------------------------------
(* What goes up for ever needs more than finitely many.                    *)

\* A walk through a finite set on which a measure grows is no longer than the set.
LEMMA NoLongClimb ==
  ASSUME NEW S, IsFiniteSet(S), NEW g \in [0 .. Cardinality(S) -> S], NEW m \in [S -> Int],
         \A k \in 0 .. Cardinality(S) - 1 : m[g[k]] < m[g[k + 1]]
  PROVE  FALSE
  <1> DEFINE n == Cardinality(S)
             T == {d \in Nat : \A a \in 0 .. n : a + d + 1 <= n => m[g[a]] < m[g[a + d + 1]]}
  <1>1. n \in Nat
    BY FS_CardinalityType
  <1> HIDE DEF n
  <1>2. /\ g \in [0 .. n -> S]
        /\ \A k \in 0 .. n - 1 : m[g[k]] < m[g[k + 1]]
    BY DEF n
  <1>3. 0 \in T
    <2> SUFFICES ASSUME NEW a \in 0 .. n, a + 0 + 1 <= n
                 PROVE  m[g[a]] < m[g[a + 0 + 1]]
      OBVIOUS
    <2>1. a \in 0 .. n - 1 /\ a + 0 + 1 = a + 1
      BY <1>1
    <2> QED
      BY <1>2, <2>1
  <1>4. ASSUME NEW d \in Nat, d \in T
        PROVE  d + 1 \in T
    <2> SUFFICES ASSUME NEW a \in 0 .. n, a + (d + 1) + 1 <= n
                 PROVE  m[g[a]] < m[g[a + (d + 1) + 1]]
      OBVIOUS
    <2> DEFINE b == a + d + 1
    <2>1. b \in 0 .. n - 1 /\ a + d + 1 <= n /\ a + (d + 1) + 1 = b + 1 /\ a \in 0 .. n
      BY <1>1
    <2>2. m[g[a]] < m[g[b]]
      BY <1>4, <2>1
    <2> HIDE DEF b
    <2>3. m[g[b]] < m[g[b + 1]]
      BY <1>2, <2>1
    <2>4. b \in 0 .. n /\ b + 1 \in 0 .. n
      BY <1>1, <2>1
    <2>5. m[g[a]] \in Int /\ m[g[b]] \in Int /\ m[g[b + 1]] \in Int
      BY <1>2, <2>4
    <2> QED
      BY <2>1, <2>2, <2>3, <2>5
  <1>5. Nat \subseteq T
    <2> HIDE DEF T
    <2> QED
      BY <1>3, <1>4, NumbersByStep
  <1>6. ASSUME NEW a \in 0 .. n, NEW b \in 0 .. n, a < b
        PROVE  g[a] # g[b]
    <2>1. b - a - 1 \in Nat /\ a + (b - a - 1) + 1 = b /\ b <= n
      BY <1>1, <1>6
    <2>2. m[g[a]] < m[g[b]]
      BY <1>5, <2>1
    <2>3. m[g[a]] \in Int /\ m[g[b]] \in Int
      BY <1>2
    <2> QED
      BY <2>2, <2>3
  <1>7. IsFiniteSet(0 .. n) /\ Cardinality(0 .. n) = n + 1
    BY <1>1, FS_Interval
  <1>8. PICK a, b \in 0 .. n : a # b /\ g[a] = g[b]
    <2>1. Cardinality(S) < Cardinality(0 .. n)
      BY <1>1, <1>7 DEF n
    <2> QED
      BY <1>2, <1>7, <2>1, FS_PigeonHole
  <1>9. a < b \/ b < a
    BY <1>1, <1>8
  <1> QED
    BY <1>6, <1>8, <1>9

----------------------------------------------------------------------------
(* The entities above one.                                                 *)

\* The nth entities above e.
Up(f, e) ==
  /\ f[0] = {e}
  /\ \A n \in Nat : f[n + 1] = {parentOf[x] : x \in f[n]} \ {NoEntity}

LEMMA AncestorsAreUp ==
  ASSUME parentOf \in [Entities -> Entities \union {NoEntity}], NEW e \in Entities
  PROVE  \E f \in [Nat -> SUBSET Entities] :
           /\ Up(f, e)
           /\ Ancestors(e) = UNION {f[n] : n \in 0 .. Cardinality(Entities)}
  <1> DEFINE S == SUBSET Entities
             step == [X \in S |-> {parentOf[x] : x \in X} \ {NoEntity}]
             next == [n \in Nat |-> step]
             up == CHOOSE up : up = [n \in Nat |->
                     IF n = 0 THEN {e} ELSE {parentOf[x] : x \in up[n - 1]} \ {NoEntity}]
  <1>1. {e} \in S
    OBVIOUS
  <1>2. \A X \in S : step[X] \in S
    OBVIOUS
  <1>3. next \in [Nat -> [S -> S]]
    BY <1>2
  <1>4. PICK f \in [Nat -> S] : Runs(f, {e}, next)
    <2> HIDE DEF next, S
    <2> QED
      BY <1>1, <1>3, RunExists
  <1>5. f[0] = {e} /\ \A n \in Nat : f[n + 1] = step[f[n]]
    BY <1>4 DEF Runs
  <1>6. \A n \in Nat : f[n + 1] = {parentOf[x] : x \in f[n]} \ {NoEntity}
    BY <1>5
  <1>7. f = [n \in Nat |-> IF n = 0 THEN {e} ELSE {parentOf[x] : x \in f[n - 1]} \ {NoEntity}]
    <2>1. ASSUME NEW n \in Nat, n # 0
          PROVE  f[n] = {parentOf[x] : x \in f[n - 1]} \ {NoEntity}
      <3>1. n - 1 \in Nat /\ (n - 1) + 1 = n
        BY <2>1
      <3> QED
        BY <1>6, <3>1
    <2> HIDE DEF S
    <2> QED
      BY <1>5, <2>1
  <1>8. up = [n \in Nat |-> IF n = 0 THEN {e} ELSE {parentOf[x] : x \in up[n - 1]} \ {NoEntity}]
    BY <1>7
  <1> HIDE DEF up
  <1>9. ASSUME NEW n \in Nat
        PROVE  up[n] = f[n]
    <2> DEFINE T == {k \in Nat : up[k] = f[k]}
    <2>1. 0 \in T
      BY <1>5, <1>8
    <2>2. ASSUME NEW k \in Nat, k \in T
          PROVE  k + 1 \in T
      <3>1. k + 1 \in Nat /\ k + 1 # 0 /\ (k + 1) - 1 = k
        OBVIOUS
      <3>2. up[k + 1] = {parentOf[x] : x \in up[k]} \ {NoEntity}
        BY <1>8, <3>1
      <3> QED
        BY <1>6, <2>2, <3>1, <3>2
    <2>3. Nat \subseteq T
      <3> HIDE DEF T
      <3> QED
        BY <2>1, <2>2, NumbersByStep
    <2> QED
      BY <2>3
  <1>10. Cardinality(Entities) \in Nat
    BY FS_CardinalityType, TransformAssumption
  <1>11. Ancestors(e) = UNION {up[n] : n \in 0 .. Cardinality(Entities)}
    BY DEF Ancestors, up
  <1>12. \A n \in 0 .. Cardinality(Entities) : up[n] = f[n]
    BY <1>9, <1>10
  <1>13. Ancestors(e) = UNION {f[n] : n \in 0 .. Cardinality(Entities)}
    BY <1>11, <1>12
  <1> QED
    BY <1>5, <1>6, <1>13 DEF Up

\* They include the parents of them all.
LEMMA AncestorsClosed ==
  ASSUME parentOf \in [Entities -> Entities \union {NoEntity}],
         NEW depth, Deeper(parentOf, depth), NEW e \in Entities
  PROVE  /\ e \in Ancestors(e) /\ Ancestors(e) \subseteq Entities
         /\ \A x \in Ancestors(e) : parentOf[x] # NoEntity => parentOf[x] \in Ancestors(e)
  <1> DEFINE N == Cardinality(Entities)
  <1>1. IsFiniteSet(Entities) /\ N \in Nat
    BY FS_CardinalityType, TransformAssumption
  <1>2. PICK f \in [Nat -> SUBSET Entities] :
          Up(f, e) /\ Ancestors(e) = UNION {f[n] : n \in 0 .. Cardinality(Entities)}
    BY AncestorsAreUp
  <1>3. Ancestors(e) = UNION {f[n] : n \in 0 .. N}
    BY <1>2
  <1> HIDE DEF N
  <1>4. f[0] = {e} /\ \A n \in Nat : f[n + 1] = {parentOf[x] : x \in f[n]} \ {NoEntity}
    BY <1>2 DEF Up
  <1>5. \A n \in Nat : f[n] = {} \/ \E x \in Entities : f[n] = {x}
    <2> DEFINE T == {n \in Nat : f[n] = {} \/ \E x \in Entities : f[n] = {x}}
    <2>1. 0 \in T
      BY <1>4
    <2>2. ASSUME NEW n \in Nat, n \in T
          PROVE  n + 1 \in T
      <3>1. CASE f[n] = {}
        BY <1>4, <3>1
      <3>2. ASSUME NEW x \in Entities, f[n] = {x}
            PROVE  n + 1 \in T
        <4>1. f[n + 1] = {parentOf[x]} \ {NoEntity}
          BY <1>4, <3>2
        <4> QED
          BY <4>1
      <3> QED
        BY <2>2, <3>1, <3>2
    <2>3. Nat \subseteq T
      <3> HIDE DEF T
      <3> QED
        BY <2>1, <2>2, NumbersByStep
    <2> QED
      BY <2>3
  <1>6. f[N] = {}
    <2> SUFFICES ASSUME f[N] # {}
                 PROVE  FALSE
      OBVIOUS
    <2>1. \A k \in 0 .. N : f[k] # {}
      <3> DEFINE T == {d \in Nat : d <= N => f[N - d] # {}}
      <3>1. 0 \in T
        BY <1>1
      <3>2. ASSUME NEW d \in Nat, d \in T
            PROVE  d + 1 \in T
        <4> SUFFICES ASSUME d + 1 <= N
                     PROVE  f[N - (d + 1)] # {}
          OBVIOUS
        <4>1. N - (d + 1) \in Nat /\ (N - (d + 1)) + 1 = N - d /\ d <= N
          BY <1>1
        <4>2. f[N - d] # {}
          BY <3>2, <4>1
        <4> QED
          BY <1>4, <4>1, <4>2
      <3>3. Nat \subseteq T
        <4> HIDE DEF T
        <4> QED
          BY <3>1, <3>2, NumbersByStep
      <3>4. ASSUME NEW k \in 0 .. N
            PROVE  f[k] # {}
        <4>1. N - k \in Nat /\ N - k <= N /\ N - (N - k) = k
          BY <1>1
        <4> QED
          BY <3>3, <4>1
      <3> QED
        BY <3>4
    <2> DEFINE g == [k \in 0 .. N |-> CHOOSE x \in Entities : f[k] = {x}]
               m == [x \in Entities |-> 0 - depth[x]]
    <2>2. \A k \in 0 .. N : g[k] \in Entities /\ f[k] = {g[k]}
      BY <1>1, <1>5, <2>1
    <2>3. g \in [0 .. N -> Entities]
      BY <2>2
    <2> HIDE DEF g
    <2>4. ASSUME NEW k \in 0 .. N - 1
          PROVE  depth[g[k + 1]] < depth[g[k]]
      <3>1. k \in Nat /\ k \in 0 .. N /\ k + 1 \in 0 .. N
        BY <1>1
      <3>2. f[k + 1] = {parentOf[g[k]]} \ {NoEntity}
        BY <1>4, <2>2, <3>1
      <3>3. parentOf[g[k]] = g[k + 1] /\ parentOf[g[k]] # NoEntity
        BY <2>2, <3>1, <3>2
      <3> QED
        BY <2>2, <3>1, <3>3 DEF Deeper
    <2>5. m \in [Entities -> Int] /\ \A x \in Entities : m[x] = 0 - depth[x] /\ depth[x] \in Nat
      BY DEF Deeper
    <2> HIDE DEF m
    <2>6. ASSUME NEW k \in 0 .. N - 1
          PROVE  m[g[k]] < m[g[k + 1]]
      <3>1. k \in 0 .. N /\ k + 1 \in 0 .. N
        BY <1>1
      <3>2. g[k] \in Entities /\ g[k + 1] \in Entities
        BY <2>2, <3>1
      <3> QED
        BY <2>4, <2>5, <3>2
    <2> QED
      BY <1>1, <2>3, <2>5, <2>6, NoLongClimb DEF N
  <1>7. ASSUME NEW x \in Ancestors(e), parentOf[x] # NoEntity
        PROVE  parentOf[x] \in Ancestors(e)
    <2>1. PICK n \in 0 .. N : x \in f[n]
      BY <1>3
    <2>2. n + 1 \in 0 .. N /\ n \in Nat
      BY <1>1, <1>6, <2>1
    <2>3. parentOf[x] \in f[n + 1]
      BY <1>4, <1>7, <2>1, <2>2
    <2> QED
      BY <1>3, <2>2, <2>3
  <1>8. e \in Ancestors(e)
    <2>1. 0 \in 0 .. N /\ e \in f[0]
      BY <1>1, <1>4
    <2> QED
      BY <1>3, <2>1
  <1>9. Ancestors(e) \subseteq Entities
    <2>1. \A n \in 0 .. N : f[n] \subseteq Entities
      BY <1>1
    <2> QED
      BY <1>3, <2>1
  <1> QED
    BY <1>7, <1>8, <1>9

----------------------------------------------------------------------------
(* The hierarchy: what set_parent does to it.                              *)

\* A row that becomes a first child comes before the others.
LEMMA MovedInOrder ==
  ASSUME NEW r, None \notin DOMAIN r, Family(r), NEW order, InOrder(r, order),
         NEW i \in DOMAIN r, r[i].prev = None,
         NEW p, LinkOf(r, p), p # i, r[i].parent # p,
         NEW s, Moved(r, s, i, p)
  PROVE  \E o : InOrder(s, o)
  <1> DEFINE o == [x \in DOMAIN r |-> IF x = i THEN 0 ELSE order[x] + 1]
  <1>1. DOMAIN s = DOMAIN r
    BY DEF Moved
  <1>2. \A x \in DOMAIN r : order[x] \in Nat
    BY DEF InOrder
  <1>3. o \in [DOMAIN s -> Nat]
    BY <1>1, <1>2
  <1>4. \A x \in DOMAIN r : o[x] = IF x = i THEN 0 ELSE order[x] + 1
    OBVIOUS
  <1> HIDE DEF o
  <1>5. ASSUME NEW c \in DOMAIN r, s[c].parent # None, s[c].next # None
        PROVE  o[c] < o[s[c].next]
    <2>1. CASE c = i
      <3>1. p # None /\ s[c].next = r[p].first
        BY <1>5, <2>1, MovedFields
      <3>2. p \in DOMAIN r /\ r[p].first # None
        BY <1>5, <3>1 DEF LinkOf
      <3>3. r[p].first \in DOMAIN r /\ r[p].first # i
        BY <3>2 DEF Family, LinkOf
      <3> QED
        BY <1>2, <1>4, <2>1, <3>1, <3>3
    <2>2. CASE c # i
      <3>1. s[c].next = r[c].next /\ s[c].parent = r[c].parent
        BY <2>2, MovedFields
      <3>2. r[c].next \in DOMAIN r /\ r[r[c].next].prev = c
        BY <1>5, <3>1 DEF Family, LinkOf
      <3>3. r[c].next # i
        BY <3>2
      <3>4. order[c] < order[r[c].next]
        BY <1>5, <3>1 DEF InOrder
      <3> QED
        BY <1>2, <1>4, <2>2, <3>1, <3>2, <3>3, <3>4
    <2> QED
      BY <2>1, <2>2
  <1> QED
    BY <1>1, <1>3, <1>5 DEF InOrder

\* What is given a parent below which it is not goes below it with all that is below it.
LEMMA GivenDeeper ==
  ASSUME parentOf \in [Entities -> Entities \union {NoEntity}],
         NEW depth, Deeper(parentOf, depth), NEW e \in Entities,
         NEW pe \in Entities \union {NoEntity}, pe # NoEntity => e \notin Ancestors(pe)
  PROVE  \E d : Deeper([parentOf EXCEPT ![e] = pe], d)
  <1> DEFINE of == [parentOf EXCEPT ![e] = pe]
  <1>1. \A x \in Entities : of[x] = IF x = e THEN pe ELSE parentOf[x]
    OBVIOUS
  <1> HIDE DEF of
  <1>2. \A x \in Entities :
          depth[x] \in Nat /\ (parentOf[x] # NoEntity => depth[parentOf[x]] < depth[x])
    BY DEF Deeper
  <1>3. CASE pe = NoEntity
    <2>1. Deeper(of, depth)
      BY <1>1, <1>3 DEF Deeper
    <2> QED
      BY <2>1 DEF of
  <1>4. CASE pe # NoEntity
    <2> DEFINE A == Ancestors(pe)
               d == [x \in Entities |-> IF x \in A THEN depth[x] ELSE depth[x] + depth[pe] + 1]
    <2>1. /\ pe \in Entities /\ pe \in A /\ A \subseteq Entities /\ e \notin A
          /\ \A x \in A : parentOf[x] # NoEntity => parentOf[x] \in A
      BY <1>4, AncestorsClosed
    <2> HIDE DEF A
    <2>2. d \in [Entities -> Nat]
      BY <1>2, <2>1
    <2>3. \A x \in Entities : d[x] = IF x \in A THEN depth[x] ELSE depth[x] + depth[pe] + 1
      OBVIOUS
    <2> HIDE DEF d
    <2>4. ASSUME NEW x \in Entities, of[x] # NoEntity
          PROVE  d[of[x]] < d[x]
      <3>1. CASE x = e
        <4>1. of[x] = pe /\ d[pe] = depth[pe] /\ d[x] = depth[x] + depth[pe] + 1
          BY <1>1, <2>1, <2>3, <3>1
        <4> QED
          BY <1>2, <2>1, <4>1
      <3>2. CASE x # e
        <4>1. of[x] = parentOf[x] /\ of[x] \in Entities /\ depth[of[x]] < depth[x]
          BY <1>1, <1>2, <2>4, <3>2
        <4>2. depth[of[x]] \in Nat /\ depth[x] \in Nat /\ depth[pe] \in Nat
          BY <1>2, <2>1, <4>1
        <4>3. x \in A => of[x] \in A
          BY <2>1, <2>4, <4>1
        <4> HIDE DEF A
        <4>4. d[of[x]] = IF of[x] \in A THEN depth[of[x]] ELSE depth[of[x]] + depth[pe] + 1
          BY <2>3, <4>1
        <4>5. d[x] = IF x \in A THEN depth[x] ELSE depth[x] + depth[pe] + 1
          BY <2>3
        <4> QED
          BY <4>1, <4>2, <4>3, <4>4, <4>5
      <3> QED
        BY <3>1, <3>2
    <2>5. Deeper(of, d)
      BY <2>2, <2>4 DEF Deeper
    <2> QED
      BY <2>5 DEF of
  <1> QED
    BY <1>3, <1>4

\* The local matrix of a moved row keeps its world matrix where it was.
LEMMA RelativeTimes ==
  ASSUME NEW w \in Matrices, NEW t \in Matrices
  PROVE  w = Times(Relative(t, w), t)
  <1>1. Order \in Nat /\ Order > 0
    BY TransformAssumption
  <1>2. w \in Int /\ t \in Int /\ 0 <= w /\ w < Order /\ 0 <= t /\ t < Order
    BY <1>1 DEF Matrices
  <1>3. CASE w >= t
    <2>1. (w - t) % Order = w - t
      BY <1>1, <1>2, <1>3
    <2>2. (w - t + t) % Order = w
      BY <1>1, <1>2
    <2> QED
      BY <2>1, <2>2 DEF Times, Relative
  <1>4. CASE w < t
    <2>1. (w - t) % Order = w - t + Order
      BY <1>1, <1>2, <1>4
    <2>2. (w - t + Order + t) % Order = w
      BY <1>1, <1>2
    <2> QED
      BY <2>1, <2>2 DEF Times, Relative
  <1> QED
    BY <1>2, <1>3, <1>4

LEMMA MovedFollows ==
  ASSUME NEW r, r \in [DOMAIN r -> Rows], None \notin DOMAIN r, Family(r),
         NEW i \in DOMAIN r, NEW p, LinkOf(r, p), p # i, r[i].parent # p,
         NEW s, Moved(r, s, i, p),
         NEW c \in DOMAIN r, s[c].parent # None,
         r[c].parent # None => Follows(r, c)
  PROVE  Follows(s, c)
  <1>1. CASE c = i
    <2>1. s[c].parent = p /\ p # None /\ p \in DOMAIN r
      BY <1>1, MovedFields DEF LinkOf
    <2>2. s[c].world = r[i].world /\ s[c].local = Relative(r[p].world, r[i].world)
      BY <1>1, <2>1, MovedFields
    <2>3. s[p].world = r[p].world
      BY <2>1, MovedFields
    <2>4. r[i].world \in Matrices /\ r[p].world \in Matrices
      <3>1. r[i] \in Rows /\ r[p] \in Rows
        BY <2>1
      <3> QED
        BY <3>1 DEF Rows
    <2> QED
      BY <2>1, <2>2, <2>3, <2>4, RelativeTimes DEF Follows
  <1>2. CASE c # i
    <2>1. s[c].parent = r[c].parent /\ s[c].world = r[c].world /\ s[c].local = r[c].local
      BY <1>2, MovedFields
    <2>2. r[c].parent \in DOMAIN r
      BY <2>1 DEF Family, LinkOf
    <2>3. s[r[c].parent].world = r[r[c].parent].world
      BY <2>2, MovedFields
    <2> QED
      BY <2>1, <2>3 DEF Follows
  <1> QED
    BY <1>1, <1>2

\* The parents of rows are as deep as those of their entities.
LEMMA RowsRise ==
  ASSUME NEW r, \A c \in DOMAIN r : r[c].entity \in Entities, Family(r),
         NEW of, NEW known, Asked(r, of, known), NEW depth, Deeper(of, depth)
  PROVE  \E rank : Rising(r, rank)
  <1> DEFINE rank == [c \in DOMAIN r |-> depth[r[c].entity]]
  <1>1. rank \in [DOMAIN r -> Nat]
    BY DEF Deeper
  <1>2. ASSUME NEW c \in DOMAIN r, r[c].parent # None
        PROVE  rank[r[c].parent] < rank[c]
    <2>1. r[c].parent \in DOMAIN r
      BY <1>2 DEF Family, LinkOf
    <2>2. of[r[c].entity] = r[r[c].parent].entity
      BY <1>2 DEF Asked
    <2>3. r[c].entity \in Entities /\ r[r[c].parent].entity \in Entities
      BY <2>1
    <2>4. of[r[c].entity] # NoEntity
      BY <2>2, <2>3, TransformAssumption
    <2> QED
      BY <2>1, <2>2, <2>3, <2>4 DEF Deeper
  <1>3. Rising(r, rank)
    BY <1>1, <1>2 DEF Rising
  <1> QED
    BY <1>3

\* When no call is pending, nothing is due: the first of what is due, by the rank of
\* the parent and then by the place in its list, would be called for by none.
LEMMA NothingLeft ==
  ASSUME NEW r, None \notin DOMAIN r, Family(r), NEW order, InOrder(r, order),
         NEW rank, Rising(r, rank),
         NEW due, Due(r, <<>>, due)
  PROVE  due = {}
  <1> SUFFICES ASSUME due # {}
               PROVE  FALSE
    OBVIOUS
  <1> DEFINE T == {rank[r[x].parent] : x \in due}
  <1>1. /\ due \subseteq DOMAIN r
        /\ \A x \in due : r[x].parent # None /\ r[x].parent \in DOMAIN r
        /\ \A x \in due : Caller(r, x) \in due
    <2>1. Pending(<<>>) = {}
      BY DEF Pending
    <2> QED
      BY <2>1 DEF Due, Family, LinkOf
  <1>2. T \subseteq Nat /\ T # {}
    BY <1>1 DEF Rising
  <1>3. PICK t \in T : \A v \in T : t <= v
    <2> HIDE DEF T
    <2> QED
      BY <1>2, LeastNumber
  <1> DEFINE D == {x \in due : rank[r[x].parent] = t}
             U == {order[x] : x \in D}
  <1>4. U \subseteq Nat /\ U # {}
    BY <1>1, <1>3 DEF InOrder
  <1>5. PICK u \in U : \A v \in U : u <= v
    <2> HIDE DEF U
    <2> QED
      BY <1>4, LeastNumber
  <1>6. PICK x \in D : order[x] = u
    BY <1>5
  <1> DEFINE y == Caller(r, x)
  <1>7. x \in due /\ rank[r[x].parent] = t /\ y \in due
    BY <1>1, <1>6
  <1>8. CASE r[x].prev # None
    <2>1. y = r[x].prev /\ r[y].next = x /\ r[y].parent = r[x].parent
      BY <1>1, <1>7, <1>8 DEF Caller, Family
    <2>2. y \in D
      BY <1>7, <2>1
    <2>3. order[y] < order[x]
      <3>1. x # None
        BY <1>1, <1>7
      <3> QED
        BY <1>1, <1>7, <2>1, <3>1 DEF InOrder
    <2>4. order[x] <= order[y]
      BY <1>5, <1>6, <2>2
    <2> QED
      BY <1>1, <1>7, <2>3, <2>4 DEF InOrder
  <1>9. CASE r[x].prev = None
    <2>1. y = r[x].parent
      BY <1>9 DEF Caller
    <2>2. rank[r[y].parent] < rank[y]
      BY <1>1, <1>7 DEF Rising
    <2>3. t <= rank[r[y].parent]
      BY <1>3, <1>7
    <2>4. rank[y] = t /\ rank[y] \in Nat /\ rank[r[y].parent] \in Nat
      BY <1>1, <1>7, <2>1 DEF Rising
    <2> QED
      BY <2>2, <2>3, <2>4
  <1> QED
    BY <1>8, <1>9

LEMMA NoneLeftDue ==
  ASSUME NEW r, None \notin DOMAIN r, \A c \in DOMAIN r : r[c].entity \in Entities, Family(r),
         NEW of, NEW known, Asked(r, of, known), NEW depth, Deeper(of, depth),
         NEW order, InOrder(r, order), NEW due, Due(r, <<>>, due)
  PROVE  due = {}
  BY RowsRise, NothingLeft

\* What the invariant says of the hierarchy while the links are whole.
Hierarchy ==
  /\ rows \in [DOMAIN rows -> Rows]
  /\ Family(rows)
  /\ \E order : InOrder(rows, order)
  /\ Asked(rows, parentOf, added)
  /\ \E depth : Deeper(parentOf, depth)

\* Without calls to make nothing need be due.
LEMMA NothingDue ==
  ASSUME NEW r, NEW n \in Nat, \A c \in DOMAIN r : r[c].parent # None => Follows(r, c)
  PROVE  Traversal(r, <<>>, n, {})
  <1>1. Cardinality({}) <= n
    BY FS_EmptySet
  <1>2. Due(r, <<>>, {})
    BY DEF Due
  <1>3. CallsOn(r, <<>>, {})
    BY DEF CallsOn
  <1> QED
    BY <1>1, <1>2, <1>3 DEF Traversal

\* lookup finds the row of a living entity that has one.
LEMMA LookupRow ==
  ASSUME Apart, MapInv, "map" \notin damage, NEW e \in alive \intersect added
  PROVE  Lookup(e) \in DOMAIN rows /\ rows[Lookup(e)].entity = e
  <1>1. PICK k \in DOMAIN rows : rows[k].entity = e
    BY DEF Apart
  <1>2. /\ Size \in Nat /\ DOMAIN rows = 0 .. Size - 1
        /\ \A j \in 0 .. Size - 1 : Column[j] = rows[j].entity
    BY ColumnOfRows
  <1>3. Inverts(map, Column, Size)
    BY DEF MapInv
  <1>4. e \in Nat
    BY TransformAssumption DEF Apart
  <1> HIDE DEF Size
  <1>5. /\ \A j \in 0 .. Size - 1 :
             Column[j] = e => HashHas(map, e) /\ HashGet(map, e, 0) = j
        /\ HashHas(map, e) => \E j \in 0 .. Size - 1 : Column[j] = e
    BY <1>2, <1>3, <1>4, InvertsFinds
  <1>6. HashGet(map, e, 0) = k
    BY <1>1, <1>2, <1>5
  <1> QED
    BY <1>1, <1>6 DEF Lookup

\* set_parent keeps the hierarchy, if the row has no sibling to leave.
LEMMA SetParentHier ==
  ASSUME Apart, MapInv, HierInv,
         NEW e \in Entities, NEW pe \in Entities \union {NoEntity}, SetParent(e, pe)
  PROVE  HierInv'
  <1> SUFFICES ASSUME damage' \subseteq {"map"}
               PROVE  Hierarchy' /\ (\E due : Traversal(rows, calls, left, due))'
                      /\ ~hung' /\ (collecting' => calls' = <<>>)
    BY DEF HierInv, Hierarchy
  <1> DEFINE i == Lookup(e)
             p == IF pe = NoEntity THEN None ELSE Lookup(pe)
  <1>1. /\ ~collecting /\ calls = <<>> /\ "map" \notin damage
        /\ e \in alive \intersect added /\ pe \in (alive \intersect added) \union {NoEntity}
        /\ pe # NoEntity => e \notin Ancestors(pe)
        /\ rows' = Reparented(rows, i, p)
        /\ parentOf' = [parentOf EXCEPT ![e] = pe]
        /\ damage' = damage \union (IF LeavesSibling(rows, i, p) THEN {"sibling"} ELSE {})
        /\ UNCHANGED <<collecting, calls, left, hung, added>>
    BY DEF SetParent, Editable, Ready, traversal
  <1>2. damage \subseteq {"map"} /\ ~LeavesSibling(rows, i, p)
    BY <1>1
  <1>3. Hierarchy /\ (\E due : Traversal(rows, calls, left, due)) /\ ~hung
    BY <1>2 DEF HierInv, Hierarchy
  <1>4. i \in DOMAIN rows /\ rows[i].entity = e
    BY <1>1, LookupRow
  <1>5. pe # NoEntity => p \in DOMAIN rows /\ rows[p].entity = pe
    BY <1>1, LookupRow
  <1>6. pe = NoEntity => p = None
    OBVIOUS
  <1>7. Size \in Nat /\ DOMAIN rows = 0 .. Size - 1 /\ None \notin DOMAIN rows
    BY ColumnOfRows, NoRowIsNone
  <1> HIDE DEF i, p, Size
  <1>8. /\ rows \in [DOMAIN rows -> Rows] /\ Family(rows)
        /\ Asked(rows, parentOf, added)
        /\ parentOf \in [Entities -> Entities \union {NoEntity}]
    BY <1>3 DEF Hierarchy, Asked
  <1>9. CASE rows[i].parent = p
    <2>1. rows' = rows
      BY <1>1, <1>9 DEF Reparented
    <2>2. parentOf[e] = pe
      <3>1. parentOf[e] = IF p = None THEN NoEntity ELSE rows[p].entity
        BY <1>4, <1>8, <1>9 DEF Asked
      <3> QED
        BY <1>5, <1>6, <1>7, <3>1
    <2>3. parentOf' = parentOf
      BY <1>1, <1>8, <2>2
    <2> QED
      BY <1>1, <1>3, <2>1, <2>3 DEF Hierarchy
  <1>10. CASE rows[i].parent # p
    <2> DEFINE s == rows'
    <2>1. LinkOf(rows, p) /\ p # i
      <3>1. CASE pe = NoEntity
        BY <1>4, <1>6, <1>7, <3>1 DEF LinkOf
      <3>2. CASE pe # NoEntity
        <4>1. PICK depth : Deeper(parentOf, depth)
          BY <1>3 DEF Hierarchy
        <4>2. pe \in Ancestors(pe)
          BY <1>8, <3>2, <4>1, AncestorsClosed
        <4> QED
          BY <1>1, <1>4, <1>5, <3>2, <4>2 DEF LinkOf
      <3> QED
        BY <3>1, <3>2
    <2>2. rows[i].prev = None
      <3>1. LinkOf(rows, rows[i].parent) /\ (rows[i].parent = None => rows[i].prev = None)
        BY <1>4, <1>8 DEF Family
      <3>2. rows[i].parent # None => LinkOf(rows, rows[i].prev)
        BY <1>4, <1>8 DEF Family
      <3>3. IsValid(rows[i].parent) <=> rows[i].parent # None
        BY <1>7, <3>1, ValidLinks
      <3>4. rows[i].parent # None => (IsValid(rows[i].prev) <=> rows[i].prev # None)
        BY <1>7, <3>2, ValidLinks
      <3> QED
        BY <1>2, <1>10, <3>1, <3>3, <3>4 DEF LeavesSibling
    <2>3. Moved(rows, s, i, p)
      BY <1>1, <1>4, <1>7, <1>8, <1>10, <2>1, <2>2, ReparentedMoves
    <2>4. s \in [DOMAIN s -> Rows] /\ DOMAIN s = DOMAIN rows
      BY <2>3 DEF Moved
    <2> HIDE DEF s
    <2>5. Family(s)
      BY <1>4, <1>7, <1>8, <1>10, <2>1, <2>2, <2>3, MovedFamily
    <2>6. \E order : InOrder(s, order)
      <3>1. PICK order : InOrder(rows, order)
        BY <1>3 DEF Hierarchy
      <3> QED
        BY <1>4, <1>7, <1>8, <1>10, <2>1, <2>2, <2>3, <3>1, MovedInOrder
    <2>7. \E depth : Deeper(parentOf', depth)
      <3>1. PICK depth : Deeper(parentOf, depth)
        BY <1>3 DEF Hierarchy
      <3> QED
        BY <1>1, <1>8, <3>1, GivenDeeper
    <2>8. Asked(s, parentOf', added')
      <3>1. parentOf' \in [Entities -> Entities \union {NoEntity}]
        BY <1>1, <1>8
      <3>2. \A x \in Entities : parentOf'[x] = IF x = e THEN pe ELSE parentOf[x]
        BY <1>1, <1>8
      <3>3. \A x \in Entities \ added' : parentOf'[x] = NoEntity
        BY <1>1, <1>8, <3>2 DEF Asked
      <3>4. ASSUME NEW c \in DOMAIN rows
            PROVE  parentOf'[s[c].entity] =
                     IF s[c].parent = None THEN NoEntity ELSE s[s[c].parent].entity
        <4>1. /\ s[c].entity = rows[c].entity /\ rows[c].entity \in Entities
              /\ s[c].parent = IF c = i THEN p ELSE rows[c].parent
          BY <2>3, MovedFields DEF Apart
        <4>2. LinkOf(rows, s[c].parent)
          BY <1>8, <2>1, <4>1 DEF Family
        <4>3. s[c].parent # None => s[s[c].parent].entity = rows[s[c].parent].entity
          BY <2>3, <4>2, MovedFields DEF LinkOf
        <4>4. CASE c = i
          <5>1. parentOf'[s[c].entity] = pe
            BY <1>4, <3>2, <4>1, <4>4
          <5> QED
            BY <1>5, <1>6, <1>7, <4>1, <4>3, <4>4, <5>1
        <4>5. CASE c # i
          <5>1. rows[c].entity # e
            BY <1>4, <4>5 DEF Apart
          <5>2. parentOf'[s[c].entity] = parentOf[rows[c].entity]
            BY <3>2, <4>1, <5>1
          <5> QED
            BY <1>8, <4>1, <4>3, <4>5, <5>2 DEF Asked
        <4> QED
          BY <4>4, <4>5
      <3> QED
        BY <2>4, <3>1, <3>3, <3>4 DEF Asked
    <2>9. \E due : Traversal(s, calls', left', due)
      <3>1. PICK due : Traversal(rows, calls, left, due)
        BY <1>3
      <3>2. \A c \in DOMAIN rows : rows[c].parent # None => Follows(rows, c)
        <4>1. PICK order, depth : InOrder(rows, order) /\ Deeper(parentOf, depth)
          BY <1>3 DEF Hierarchy
        <4>2. \A c \in DOMAIN rows : rows[c].entity \in Entities
          BY DEF Apart
        <4>3. due = {}
          BY <1>1, <1>7, <1>8, <3>1, <4>1, <4>2, NoneLeftDue DEF Traversal
        <4> QED
          BY <3>1, <4>3 DEF Traversal
      <3>3. \A c \in DOMAIN s : s[c].parent # None => Follows(s, c)
        BY <1>4, <1>7, <1>8, <1>10, <2>1, <2>3, <2>4, <3>2, MovedFollows
      <3>4. left' \in Nat /\ calls' = <<>>
        BY <1>1, <3>1 DEF Traversal
      <3> QED
        BY <3>3, <3>4, NothingDue
    <2> QED
      BY <1>1, <1>3, <2>4, <2>5, <2>6, <2>7, <2>8, <2>9 DEF Hierarchy, s
  <1> QED
    BY <1>9, <1>10

----------------------------------------------------------------------------
(* The hierarchy: what set_local and transform do to it.                   *)

\* s differs from r in its matrices only.
SameLinks(r, s) ==
  /\ DOMAIN s = DOMAIN r /\ s \in [DOMAIN s -> Rows]
  /\ \A k \in DOMAIN r :
       /\ s[k].entity = r[k].entity /\ s[k].parent = r[k].parent
       /\ s[k].first = r[k].first /\ s[k].next = r[k].next /\ s[k].prev = r[k].prev

LEMMA SameHierarchy ==
  ASSUME NEW r, NEW s, SameLinks(r, s), Family(r), NEW order, InOrder(r, order),
         NEW of, NEW known, Asked(r, of, known)
  PROVE  Family(s) /\ InOrder(s, order) /\ Asked(s, of, known)
  <1>1. \A c \in DOMAIN r :
          /\ LinkOf(r, r[c].parent) /\ LinkOf(r, r[c].first)
          /\ r[c].parent # None => LinkOf(r, r[c].next) /\ LinkOf(r, r[c].prev)
    BY DEF Family
  <1>2. DOMAIN s = DOMAIN r
    BY DEF SameLinks
  <1>3. Family(s)
    <2> SUFFICES ASSUME NEW c \in DOMAIN r
                 PROVE  /\ LinkOf(r, s[c].parent) /\ LinkOf(r, s[c].first)
                        /\ s[c].first # None =>
                             s[s[c].first].parent = c /\ s[s[c].first].prev = None
                        /\ s[c].parent = None => s[c].prev = None
                        /\ s[c].parent # None =>
                             /\ LinkOf(r, s[c].next) /\ LinkOf(r, s[c].prev)
                             /\ s[c].prev = None => s[s[c].parent].first = c
                             /\ s[c].prev # None =>
                                  s[s[c].prev].next = c /\ s[s[c].prev].parent = s[c].parent
                             /\ s[c].next # None =>
                                  s[s[c].next].prev = c /\ s[s[c].next].parent = s[c].parent
      BY <1>2 DEF Family, LinkOf
    <2>1. LinkOf(r, s[c].parent) /\ LinkOf(r, s[c].first)
      BY <1>1 DEF SameLinks
    <2>2. s[c].first # None => s[s[c].first].parent = c /\ s[s[c].first].prev = None
      BY <1>1 DEF SameLinks, Family, LinkOf
    <2>3. s[c].parent = None => s[c].prev = None
      BY DEF SameLinks, Family
    <2>4. ASSUME s[c].parent # None
          PROVE  /\ LinkOf(r, s[c].next) /\ LinkOf(r, s[c].prev)
                 /\ s[c].prev = None => s[s[c].parent].first = c
      BY <1>1, <2>4 DEF SameLinks, Family, LinkOf
    <2>5. ASSUME s[c].parent # None, s[c].prev # None
          PROVE  s[s[c].prev].next = c /\ s[s[c].prev].parent = s[c].parent
      BY <1>1, <2>5 DEF SameLinks, Family, LinkOf
    <2>6. ASSUME s[c].parent # None, s[c].next # None
          PROVE  s[s[c].next].prev = c /\ s[s[c].next].parent = s[c].parent
      BY <1>1, <2>6 DEF SameLinks, Family, LinkOf
    <2> QED
      BY <2>1, <2>2, <2>3, <2>4, <2>5, <2>6
  <1>4. InOrder(s, order)
    BY <1>2 DEF SameLinks, InOrder
  <1>5. Asked(s, of, known)
    BY <1>1, <1>2 DEF SameLinks, Asked, LinkOf
  <1> QED
    BY <1>3, <1>4, <1>5

\* The rows below row i.
Below(r, i) ==
  {x \in DOMAIN r : \A S \in SUBSET DOMAIN r :
     (\A c \in DOMAIN r : r[c].parent \in S \union {i} => c \in S) => x \in S}

LEMMA BelowFacts ==
  ASSUME NEW r, None \notin DOMAIN r, Family(r), NEW rank, Rising(r, rank),
         NEW i \in DOMAIN r
  PROVE  /\ Below(r, i) \subseteq DOMAIN r /\ i \notin Below(r, i)
         /\ \A c \in DOMAIN r : c \in Below(r, i) <=> r[c].parent \in Below(r, i) \union {i}
  <1> DEFINE D == Below(r, i)
             Closed(S) == \A c \in DOMAIN r : r[c].parent \in S \union {i} => c \in S
  <1>1. D \subseteq DOMAIN r
    BY DEF Below
  <1>2. \A S \in SUBSET DOMAIN r : Closed(S) => D \subseteq S
    BY DEF Below
  <1>3. \A x \in DOMAIN r : (\A S \in SUBSET DOMAIN r : Closed(S) => x \in S) => x \in D
    BY DEF Below
  <1> HIDE DEF D
  <1>4. Closed(D)
    <2> SUFFICES ASSUME NEW c \in DOMAIN r, r[c].parent \in D \union {i},
                        NEW S \in SUBSET DOMAIN r, Closed(S)
                 PROVE  c \in S
      BY <1>3
    <2>1. D \subseteq S
      BY <1>2
    <2> QED
      BY <2>1
  <1>5. ASSUME NEW x \in D
        PROVE  r[x].parent \in D \union {i}
    <2> DEFINE S == {c \in DOMAIN r : r[c].parent \in D \union {i}}
    <2>1. Closed(S)
      BY <1>4
    <2>2. D \subseteq S
      BY <1>2, <2>1
    <2> QED
      BY <2>2
  <1>6. i \notin D
    <2> DEFINE S == {c \in DOMAIN r : rank[i] < rank[c]}
    <2>1. Closed(S)
      <3> SUFFICES ASSUME NEW c \in DOMAIN r, r[c].parent \in S \union {i}
                   PROVE  rank[i] < rank[c]
        OBVIOUS
      <3>1. r[c].parent \in DOMAIN r /\ r[c].parent # None
        OBVIOUS
      <3>2. rank[r[c].parent] < rank[c]
        BY <3>1 DEF Rising
      <3>3. rank[i] \in Nat /\ rank[c] \in Nat /\ rank[r[c].parent] \in Nat
        BY <3>1 DEF Rising
      <3>4. r[c].parent = i \/ rank[i] < rank[r[c].parent]
        OBVIOUS
      <3> QED
        BY <3>2, <3>3, <3>4
    <2>2. D \subseteq S
      BY <1>2, <2>1
    <2>3. ~ (rank[i] < rank[i])
      BY DEF Rising
    <2> QED
      BY <2>2, <2>3
  <1>7. ASSUME NEW c \in DOMAIN r
        PROVE  c \in D <=> r[c].parent \in D \union {i}
    BY <1>4, <1>5
  <1> QED
    BY <1>1, <1>6, <1>7 DEF D

\* The one call that set_local makes leads to all of them.
LEMMA BelowIsDue ==
  ASSUME Size \in Nat, NEW r, DOMAIN r = 0 .. Size - 1, Family(r), NEW rank, Rising(r, rank),
         NEW i \in DOMAIN r
  PROVE  /\ Due(r, Call(r[i].first, i), Below(r, i))
         /\ CallsOn(r, Call(r[i].first, i), Below(r, i))
  <1> DEFINE D == Below(r, i)
             f == r[i].first
             cs == Call(f, i)
  <1>1. None \notin DOMAIN r
    BY NoRowIsNone
  <1>2. /\ D \subseteq DOMAIN r /\ i \notin D
        /\ \A c \in DOMAIN r : c \in D <=> r[c].parent \in D \union {i}
    BY <1>1, BelowFacts
  <1>3. LinkOf(r, f) /\ (f # None => f \in DOMAIN r /\ r[f].parent = i /\ r[f].prev = None)
    BY DEF Family, LinkOf
  <1>4. cs = IF f # None THEN <<[row |-> f, parent |-> i]>> ELSE <<>>
    <2>1. IsValid(f) <=> f # None
      BY <1>3, ValidLinks
    <2> QED
      BY <2>1 DEF Call
  <1> HIDE DEF D, f, cs
  <1>5. Pending(cs) = {f} \ {None}
    <2>1. CASE f = None
      BY <1>4, <2>1 DEF Pending
    <2>2. CASE f # None
      <3>1. DOMAIN cs = {1} /\ cs[1].row = f
        BY <1>4, <2>2
      <3> QED
        BY <2>2, <3>1 DEF Pending
    <2> QED
      BY <2>1, <2>2
  <1>6. ASSUME NEW x \in D
        PROVE  /\ r[x].parent # None
               /\ r[x].next # None => r[x].next \in D
               /\ x \in Pending(cs) <=> Caller(r, x) \notin D
    <2>1. x \in DOMAIN r /\ r[x].parent \in D \union {i} /\ r[x].parent \in DOMAIN r
      BY <1>2
    <2>2. r[x].parent # None
      BY <1>1, <2>1
    <2>3. r[x].next # None => r[x].next \in D
      <3>1. r[x].next # None => r[x].next \in DOMAIN r /\ r[r[x].next].parent = r[x].parent
        BY <2>1, <2>2 DEF Family, LinkOf
      <3> QED
        BY <1>2, <2>1, <3>1
    <2>4. CASE r[x].prev # None
      <3>1. r[x].prev \in DOMAIN r /\ r[r[x].prev].parent = r[x].parent
        BY <2>1, <2>2, <2>4 DEF Family, LinkOf
      <3>2. Caller(r, x) \in D
        BY <1>2, <2>1, <2>4, <3>1 DEF Caller
      <3>3. x # f
        BY <1>1, <1>3, <2>1, <2>4
      <3> QED
        BY <1>5, <2>2, <2>3, <3>2, <3>3
    <2>5. CASE r[x].prev = None
      <3>1. Caller(r, x) = r[x].parent /\ r[r[x].parent].first = x
        BY <2>1, <2>2, <2>5 DEF Caller, Family
      <3>2. x = f <=> r[x].parent = i
        <4>1. x # None
          BY <1>1, <2>1
        <4> QED
          BY <1>3, <3>1, <4>1 DEF f
      <3>3. x # None
        BY <1>1, <2>1
      <3> QED
        BY <1>2, <1>5, <2>1, <2>2, <2>3, <3>1, <3>2, <3>3
    <2> QED
      BY <2>4, <2>5
  <1>7. Due(r, cs, D)
    BY <1>2, <1>6 DEF Due
  <1>8. CallsOn(r, cs, D)
    <2>1. CASE f = None
      BY <1>4, <2>1 DEF CallsOn
    <2>2. CASE f # None
      <3>1. f \in D
        BY <1>2, <1>3, <2>2
      <3>2. [row |-> f, parent |-> i] \in [row : D, parent : DOMAIN r]
        BY <3>1
      <3>3. cs \in Seq([row : D, parent : DOMAIN r])
        BY <1>4, <2>2, <3>2
      <3>4. DOMAIN cs = {1} /\ cs[1].row = f /\ cs[1].parent = i
        BY <1>4, <2>2
      <3> QED
        BY <1>3, <2>2, <3>3, <3>4 DEF CallsOn
    <2> QED
      BY <2>1, <2>2
  <1> QED
    BY <1>7, <1>8 DEF D, f, cs

\* No set of rows has more than the bound of a traversal.
LEMMA BoundHolds ==
  ASSUME NEW S, IsFiniteSet(S), NEW D, D \subseteq S
  PROVE  2 ^ Cardinality(S) \in Nat /\ Cardinality(D) <= 2 ^ Cardinality(S)
  <1>1. IsFiniteSet(D) /\ Cardinality(D) <= Cardinality(S)
    BY FS_Subset
  <1>2. IsFiniteSet(SUBSET S) /\ Cardinality(SUBSET S) = 2 ^ Cardinality(S)
    BY FS_SUBSET
  <1> DEFINE f == [x \in D |-> {x}]
  <1>3. f \in Injection(D, SUBSET S)
    <2>1. f \in [D -> SUBSET S]
      OBVIOUS
    <2>2. \A x, y \in D : f[x] = f[y] => x = y
      OBVIOUS
    <2> QED
      BY <2>1, <2>2 DEF Injection, IsInjective
  <1> HIDE DEF f
  <1>4. Cardinality(D) <= Cardinality(SUBSET S)
    BY <1>2, <1>3, FS_Injection
  <1>5. Cardinality(SUBSET S) \in Nat
    BY <1>2, FS_CardinalityType
  <1> QED
    BY <1>2, <1>4, <1>5

LEMMA TimesMatrix ==
  ASSUME NEW a \in Matrices, NEW b \in Matrices
  PROVE  Times(a, b) \in Matrices
  <1>1. Order \in Nat /\ Order > 0 /\ a \in Int /\ b \in Int
    BY TransformAssumption DEF Matrices
  <1> QED
    BY <1>1 DEF Times, Matrices

\* set_local keeps the hierarchy: what is below the row is due, if there is anything.
LEMMA SetLocalHier ==
  ASSUME Apart, MapInv, HierInv, NEW e \in Entities, NEW m \in Matrices, SetLocal(e, m)
  PROVE  HierInv'
  <1> SUFFICES ASSUME damage' \subseteq {"map"}
               PROVE  Hierarchy' /\ (\E due : Traversal(rows, calls, left, due))'
                      /\ ~hung' /\ (collecting' => calls' = <<>>)
    BY DEF HierInv, Hierarchy
  <1> DEFINE i == Lookup(e)
             p == rows[i].parent
             w == IF IsValid(p) THEN rows[p].world ELSE Identity
             v == Times(m, w)
             s == rows'
  <1>1. /\ ~collecting /\ calls = <<>> /\ "map" \notin damage
        /\ e \in alive \intersect added
        /\ s = [rows EXCEPT ![i].local = m, ![i].world = v]
        /\ calls' = Call(rows[i].first, i)
        /\ left' = IF calls' = <<>> THEN 0 ELSE 2 ^ Size
        /\ UNCHANGED <<collecting, hung, added, parentOf, damage>>
    BY DEF SetLocal, Editable, Ready
  <1>2. Hierarchy /\ (\E due : Traversal(rows, calls, left, due)) /\ ~hung
    BY <1>1 DEF HierInv, Hierarchy
  <1>3. i \in DOMAIN rows
    BY <1>1, LookupRow
  <1>4. Size \in Nat /\ DOMAIN rows = 0 .. Size - 1 /\ None \notin DOMAIN rows
    BY ColumnOfRows, NoRowIsNone
  <1>5. 2 ^ Size \in Nat /\ \A D : D \subseteq DOMAIN rows => Cardinality(D) <= 2 ^ Size
    <2>1. IsFiniteSet(DOMAIN rows)
      BY <1>4, FS_Interval
    <2>2. ASSUME NEW D, D \subseteq DOMAIN rows
          PROVE  2 ^ Cardinality(DOMAIN rows) \in Nat
                 /\ Cardinality(D) <= 2 ^ Cardinality(DOMAIN rows)
      BY <2>1, <2>2, BoundHolds
    <2> QED
      BY <2>2 DEF Size
  <1>6. IsValid(p) <=> p # None
    <2>1. LinkOf(rows, p)
      BY <1>2, <1>3 DEF Hierarchy, Family
    <2> QED
      BY <1>4, <2>1, ValidLinks
  <1> HIDE DEF i, Size
  <1>7. PICK order, depth : InOrder(rows, order) /\ Deeper(parentOf, depth)
    BY <1>2 DEF Hierarchy
  <1>8. /\ rows \in [DOMAIN rows -> Rows] /\ Family(rows) /\ Asked(rows, parentOf, added)
        /\ \A c \in DOMAIN rows : rows[c].entity \in Entities
    BY <1>2 DEF Hierarchy, Apart
  <1>9. v \in Matrices
    <2>1. rows[i].parent # None => rows[i].parent \in DOMAIN rows
      BY <1>3, <1>8 DEF Family, LinkOf
    <2>2. Identity \in Matrices
      BY TransformAssumption DEF Identity, Matrices
    <2>3. p # None => rows[p].world \in Matrices
      <3>1. p # None => rows[p] \in Rows
        BY <1>8, <2>1
      <3> QED
        BY <3>1 DEF Rows
    <2>4. w \in Matrices
      BY <1>6, <2>2, <2>3
    <2> HIDE DEF w
    <2> QED
      BY <2>4, TimesMatrix
  <1> HIDE DEF v
  <1>10. /\ s \in [DOMAIN rows -> Rows]
         /\ \A k \in DOMAIN rows, g \in Fields :
              s[k][g] = IF k = i /\ g = "world" THEN v
                        ELSE IF k = i /\ g = "local" THEN m ELSE rows[k][g]
    <2> DEFINE r1 == [rows EXCEPT ![i].local = m]
    <2>1. s = [r1 EXCEPT ![i].world = v]
      BY <1>1
    <2>2. SetTo(rows, r1, i, "local", m)
      BY <1>3, <1>8, SetRow
    <2> HIDE DEF r1, s
    <2>3. r1 \in [DOMAIN r1 -> Rows] /\ DOMAIN r1 = DOMAIN rows
      BY <2>2 DEF SetTo
    <2>4. SetTo(r1, s, i, "world", v)
      BY <1>3, <1>9, <2>1, <2>3, SetRow
    <2> QED
      BY <2>2, <2>3, <2>4 DEF SetTo
  <1> HIDE DEF s
  <1>11. /\ \A k \in DOMAIN rows : k # i => s[k].world = rows[k].world /\ s[k].local = rows[k].local
         /\ s[i].world = v /\ s[i].local = m
         /\ SameLinks(rows, s)
    BY <1>3, <1>10 DEF Fields, SameLinks
  <1>12. Family(s) /\ InOrder(s, order) /\ Asked(s, parentOf, added)
    BY <1>7, <1>8, <1>11, SameHierarchy
  <1>13. DOMAIN s = DOMAIN rows /\ \A c \in DOMAIN s : s[c].entity \in Entities
    BY <1>8, <1>11 DEF SameLinks
  <1>14. PICK rank : Rising(s, rank)
    BY <1>7, <1>12, <1>13, RowsRise
  <1> DEFINE D == Below(s, i)
  <1>15. D \subseteq DOMAIN s /\ \A c \in DOMAIN s : c \in D <=> s[c].parent \in D \union {i}
    BY <1>3, <1>4, <1>12, <1>13, <1>14, BelowFacts
  <1>16. Due(s, calls', D) /\ CallsOn(s, calls', D)
    <2>1. calls' = Call(s[i].first, i)
      BY <1>1, <1>3, <1>11 DEF SameLinks
    <2> HIDE DEF D
    <2>2. Due(s, Call(s[i].first, i), Below(s, i)) /\ CallsOn(s, Call(s[i].first, i), Below(s, i))
      BY <1>3, <1>4, <1>12, <1>13, <1>14, BelowIsDue
    <2> QED
      BY <2>1, <2>2 DEF D
  <1> HIDE DEF D
  <1>17. left' \in Nat /\ Cardinality(D) <= left'
    <2>1. CASE calls' = <<>>
      <3>1. D = {}
        BY <1>4, <1>7, <1>12, <1>13, <1>14, <1>16, <2>1, NothingLeft
      <3> QED
        BY <1>1, <2>1, <3>1, FS_EmptySet
    <2>2. CASE calls' # <<>>
      BY <1>1, <1>5, <1>13, <1>15, <2>2
    <2> QED
      BY <2>1, <2>2
  <1>18. ASSUME NEW c \in DOMAIN s \ D, s[c].parent # None
         PROVE  Follows(s, c)
    <2>1. /\ c \in DOMAIN rows /\ rows[c].parent = s[c].parent /\ s[c].parent \in DOMAIN rows
          /\ s[c].parent \notin D \union {i}
      BY <1>8, <1>11, <1>13, <1>15, <1>18 DEF SameLinks, Family, LinkOf
    <2>2. s[s[c].parent].world = rows[rows[c].parent].world
      BY <1>11, <2>1
    <2>3. CASE c = i
      <3>1. s[c].world = Times(m, rows[p].world) /\ s[c].local = m
        BY <1>6, <1>11, <1>18, <2>1, <2>3 DEF v
      <3> QED
        BY <2>1, <2>2, <2>3, <3>1 DEF Follows
    <2>4. CASE c # i
      <3>1. PICK due : Traversal(rows, calls, left, due)
        BY <1>2
      <3>2. due = {}
        BY <1>1, <1>4, <1>7, <1>8, <3>1, NoneLeftDue DEF Traversal
      <3>3. Follows(rows, c)
        BY <1>18, <2>1, <3>1, <3>2 DEF Traversal
      <3> QED
        BY <1>11, <2>1, <2>2, <2>4, <3>3 DEF Follows
    <2> QED
      BY <2>3, <2>4
  <1>19. \E due : Traversal(s, calls', left', due)
    BY <1>16, <1>17, <1>18 DEF Traversal
  <1>20. s \in [DOMAIN s -> Rows]
    BY <1>11 DEF SameLinks
  <1>21. (\E o : InOrder(s, o)) /\ (\E d : Deeper(parentOf', d)) /\ Asked(s, parentOf', added')
    BY <1>1, <1>7, <1>12
  <1> QED
    BY <1>1, <1>2, <1>12, <1>19, <1>20, <1>21 DEF Hierarchy, s

\* The calls that are left when the first one is made.
LEMMA CallsTail ==
  ASSUME NEW r, NEW due, NEW cs, CallsOn(r, cs, due), cs # <<>>
  PROVE  LET k == Head(cs).row
         IN  /\ k \in due /\ k \in Pending(cs) /\ Head(cs).parent = r[k].parent
             /\ r[k].parent \in DOMAIN r
             /\ CallsOn(r, Tail(cs), due \ {k})
             /\ Pending(Tail(cs)) = Pending(cs) \ {k}
  <1> DEFINE k == Head(cs).row
             ts == Tail(cs)
             C == [row : due, parent : DOMAIN r]
  <1>1. /\ cs \in Seq(C)
        /\ \A n \in DOMAIN cs : cs[n].parent = r[cs[n].row].parent
        /\ \A m, n \in DOMAIN cs : cs[m].row = cs[n].row => m = n
    BY DEF CallsOn
  <1> HIDE DEF C
  <1>2. Len(cs) \in Nat /\ Len(cs) > 0 /\ DOMAIN cs = 1 .. Len(cs) /\ Head(cs) = cs[1]
    BY <1>1
  <1>3. 1 \in DOMAIN cs /\ cs[1] \in C
    BY <1>1, <1>2
  <1>4. k \in due /\ Head(cs).parent = r[k].parent /\ r[k].parent \in DOMAIN r
    BY <1>1, <1>2, <1>3 DEF C
  <1>5. /\ ts \in Seq(C) /\ DOMAIN ts = 1 .. Len(cs) - 1
        /\ \A n \in DOMAIN ts : n + 1 \in DOMAIN cs /\ n + 1 # 1 /\ ts[n] = cs[n + 1]
    BY <1>1, <1>2
  <1> HIDE DEF ts
  <1>6. \A n \in DOMAIN ts : ts[n].row # k
    BY <1>1, <1>2, <1>3, <1>5
  <1>7. ts \in Seq([row : due \ {k}, parent : DOMAIN r])
    <2>1. \A n \in 1 .. Len(ts) : ts[n] \in [row : due \ {k}, parent : DOMAIN r]
      <3> SUFFICES ASSUME NEW n \in 1 .. Len(ts)
                   PROVE  ts[n] \in [row : due \ {k}, parent : DOMAIN r]
        OBVIOUS
      <3>1. Len(ts) \in Nat /\ DOMAIN ts = 1 .. Len(ts)
        BY <1>5
      <3>2. n \in DOMAIN ts /\ ts[n] \in C
        BY <1>1, <1>5, <3>1
      <3> QED
        BY <1>6, <3>2 DEF C
    <2> DEFINE X == [row : due \ {k}, parent : DOMAIN r]
    <2> HIDE DEF X
    <2>2. \A n \in 1 .. Len(ts) : ts[n] \in X
      BY <2>1 DEF X
    <2>3. ts \in Seq(X)
      BY <1>5, <2>2
    <2> QED
      BY <2>3 DEF X
  <1>8. CallsOn(r, ts, due \ {k})
    <2>1. \A n \in DOMAIN ts : ts[n].parent = r[ts[n].row].parent
      BY <1>1, <1>5
    <2>2. ASSUME NEW m \in DOMAIN ts, NEW n \in DOMAIN ts, ts[m].row = ts[n].row
          PROVE  m = n
      <3>1. m + 1 = n + 1
        BY <1>1, <1>5, <2>2
      <3> QED
        BY <1>2, <1>5, <3>1
    <2> QED
      BY <1>7, <2>1, <2>2 DEF CallsOn
  <1>9. Pending(ts) = Pending(cs) \ {k}
    <2>1. Pending(ts) \subseteq Pending(cs) \ {k}
      BY <1>5, <1>6 DEF Pending
    <2>2. ASSUME NEW x \in Pending(cs), x # k
          PROVE  x \in Pending(ts)
      <3>1. PICK n \in DOMAIN cs : cs[n].row = x
        BY DEF Pending
      <3>2. n # 1
        BY <1>2, <2>2, <3>1
      <3>3. n - 1 \in DOMAIN ts /\ (n - 1) + 1 = n
        BY <1>2, <1>5, <3>1, <3>2
      <3>4. ts[n - 1].row = x
        BY <1>5, <3>1, <3>3
      <3> QED
        BY <3>3, <3>4 DEF Pending
    <2> QED
      BY <2>1, <2>2
  <1>10. k \in Pending(cs)
    BY <1>2, <1>3 DEF Pending
  <1> QED
    BY <1>4, <1>8, <1>9, <1>10 DEF ts

\* One more call before the others.
LEMMA CallAdded ==
  ASSUME Size \in Nat, NEW r, DOMAIN r = 0 .. Size - 1,
         NEW due, due \subseteq DOMAIN r, NEW cs, CallsOn(r, cs, due),
         NEW x, LinkOf(r, x), NEW p \in DOMAIN r,
         x # None => x \in due /\ r[x].parent = p /\ x \notin Pending(cs)
  PROVE  /\ CallsOn(r, Call(x, p) \o cs, due)
         /\ Pending(Call(x, p) \o cs) = Pending(cs) \union ({x} \ {None})
  <1> DEFINE C == [row : due, parent : DOMAIN r]
             c == [row |-> x, parent |-> p]
             ds == Call(x, p) \o cs
  <1>1. /\ cs \in Seq(C)
        /\ \A n \in DOMAIN cs : cs[n].parent = r[cs[n].row].parent
        /\ \A m, n \in DOMAIN cs : cs[m].row = cs[n].row => m = n
    BY DEF CallsOn
  <1>2. IsValid(x) <=> x # None
    BY ValidLinks
  <1>3. CASE x = None
    <2>1. ds = cs
      BY <1>1, <1>2, <1>3 DEF Call
    <2> HIDE DEF ds
    <2> QED
      BY <1>3, <2>1 DEF ds
  <1>4. CASE x # None
    <2>1. ds = <<c>> \o cs /\ c \in C /\ c.row = x /\ c.parent = p
      BY <1>2, <1>4 DEF Call
    <2> HIDE DEF c, ds
    <2>2. /\ ds \in Seq(C) /\ DOMAIN ds = 1 .. Len(cs) + 1 /\ Len(cs) \in Nat
          /\ DOMAIN cs = 1 .. Len(cs)
          /\ ds[1] = c
          /\ \A n \in DOMAIN ds : n # 1 => n - 1 \in DOMAIN cs /\ ds[n] = cs[n - 1]
      BY <1>1, <2>1
    <2>3. \A n \in DOMAIN cs : n + 1 \in DOMAIN ds /\ n + 1 # 1 /\ (n + 1) - 1 = n
      BY <2>2
    <2>4. \A n \in DOMAIN cs : cs[n].row # x
      BY <1>4 DEF Pending
    <2>5. \A n \in DOMAIN ds : ds[n].parent = r[ds[n].row].parent
      BY <1>1, <1>4, <2>1, <2>2
    <2>6. ASSUME NEW m \in DOMAIN ds, NEW n \in DOMAIN ds, ds[m].row = ds[n].row
          PROVE  m = n
      <3>1. CASE m = 1 \/ n = 1
        BY <2>1, <2>2, <2>4, <2>6, <3>1
      <3>2. CASE m # 1 /\ n # 1
        <4>1. /\ m - 1 \in DOMAIN cs /\ n - 1 \in DOMAIN cs
              /\ cs[m - 1].row = cs[n - 1].row
          BY <2>2, <2>6, <3>2
        <4>2. m - 1 = n - 1
          BY <1>1, <4>1
        <4>3. m \in Int /\ n \in Int
          BY <2>2
        <4> QED
          BY <4>2, <4>3
      <3> QED
        BY <3>1, <3>2
    <2>7. CallsOn(r, ds, due)
      BY <2>2, <2>5, <2>6 DEF CallsOn
    <2>8. Pending(ds) = Pending(cs) \union {x}
      <3>1. ASSUME NEW y \in Pending(ds)
            PROVE  y \in Pending(cs) \union {x}
        <4>1. PICK n \in DOMAIN ds : ds[n].row = y
          BY DEF Pending
        <4> QED
          BY <2>1, <2>2, <4>1 DEF Pending
      <3>2. x \in Pending(ds)
        <4>1. 1 \in DOMAIN ds /\ ds[1].row = x
          BY <2>1, <2>2
        <4> QED
          BY <4>1 DEF Pending
      <3>3. ASSUME NEW y \in Pending(cs)
            PROVE  y \in Pending(ds)
        <4>1. PICK n \in DOMAIN cs : cs[n].row = y
          BY DEF Pending
        <4>2. n + 1 \in DOMAIN ds /\ ds[n + 1].row = y
          BY <2>2, <2>3, <4>1
        <4> QED
          BY <4>2 DEF Pending
      <3> QED
        BY <3>1, <3>2, <3>3
    <2> QED
      BY <1>4, <2>7, <2>8 DEF ds
  <1> QED
    BY <1>3, <1>4

\* A call of transform for row k: what it calls for in turn is pending, and k is no
\* longer due.
LEMMA CallMade ==
  ASSUME Size \in Nat, NEW r, DOMAIN r = 0 .. Size - 1, Family(r),
         NEW order, InOrder(r, order), NEW rank, Rising(r, rank),
         NEW due, NEW cs, Due(r, cs, due), CallsOn(r, cs, due), cs # <<>>
  PROVE  LET k == Head(cs).row
             ds == Call(r[k].first, k) \o Call(r[k].next, r[k].parent) \o Tail(cs)
         IN  /\ Due(r, ds, due \ {k}) /\ CallsOn(r, ds, due \ {k})
             /\ r[k].parent \notin due
  <1> DEFINE k == Head(cs).row
             a == r[k].first
             b == r[k].next
             q == r[k].parent
             ts == Tail(cs)
             es == Call(b, q) \o ts
             ds == Call(a, k) \o es
             rest == due \ {k}
  <1>1. /\ k \in due /\ k \in Pending(cs) /\ q \in DOMAIN r
        /\ CallsOn(r, ts, rest) /\ Pending(ts) = Pending(cs) \ {k}
    BY CallsTail
  <1>2. None \notin DOMAIN r
    BY NoRowIsNone
  <1>3. /\ due \subseteq DOMAIN r
        /\ \A x \in due : r[x].parent # None
        /\ \A c \in DOMAIN r : r[c].parent \in due => c \in due
        /\ \A x \in due : r[x].next # None => r[x].next \in due
        /\ \A x \in due : x \in Pending(cs) <=> Caller(r, x) \notin due
    BY DEF Due
  <1>4. k \in DOMAIN r /\ k # None /\ q # None /\ Caller(r, k) \notin due
    BY <1>1, <1>2, <1>3
  <1>5. \A c \in DOMAIN r : r[c].parent # None => r[c].parent # c
    BY DEF Rising
  <1>6. LinkOf(r, a) /\ (a # None => a \in due /\ a # k /\ r[a].parent = k /\ r[a].prev = None)
    <2>1. LinkOf(r, a) /\ (a # None => a \in DOMAIN r /\ r[a].parent = k /\ r[a].prev = None)
      BY <1>4 DEF Family, LinkOf
    <2>2. a # None => a \in due /\ a # k
      BY <1>1, <1>3, <1>4, <1>5, <2>1
    <2> QED
      BY <2>1, <2>2
  <1>7. LinkOf(r, b) /\ (b # None => b \in due /\ b # k /\ r[b].parent = q /\ r[b].prev = k)
    <2>1. LinkOf(r, b) /\ (b # None => b \in DOMAIN r /\ r[b].parent = q /\ r[b].prev = k)
      BY <1>4 DEF Family, LinkOf
    <2>2. b # None => order[k] < order[b] /\ order[k] \in Nat
      BY <1>4 DEF InOrder
    <2> QED
      BY <1>1, <1>3, <2>1, <2>2
  <1>8. /\ a # None => Caller(r, a) = k
        /\ b # None => Caller(r, b) = k
    BY <1>4, <1>6, <1>7 DEF Caller
  <1>9. q \notin due /\ (r[k].prev # None => r[k].prev \notin due)
    <2>1. CASE r[k].prev # None
      <3>1. r[k].prev \in DOMAIN r /\ r[r[k].prev].parent = q
        BY <1>4, <2>1 DEF Family, LinkOf
      <3>2. r[k].prev \notin due
        BY <1>4, <2>1 DEF Caller
      <3> QED
        BY <1>3, <3>1, <3>2
    <2>2. CASE r[k].prev = None
      BY <1>4, <2>2 DEF Caller
    <2> QED
      BY <2>1, <2>2
  <1>10. (a # None => a \notin Pending(cs)) /\ (b # None => b \notin Pending(cs))
    BY <1>1, <1>3, <1>6, <1>7, <1>8
  <1> HIDE DEF k, a, b, q, ts
  <1>11. rest \subseteq DOMAIN r
    BY <1>3
  <1>12. b # None => b \in rest /\ r[b].parent = q /\ b \notin Pending(ts)
    BY <1>1, <1>7, <1>10
  <1>13. a # None => a \in rest /\ r[a].parent = k /\ a \notin Pending(ts) /\ a # b
    BY <1>1, <1>4, <1>5, <1>6, <1>7, <1>10 DEF q
  <1> HIDE DEF rest
  <1>14. CallsOn(r, es, rest) /\ Pending(es) = Pending(ts) \union ({b} \ {None})
    <2>1. CallsOn(r, ts, rest) /\ LinkOf(r, b) /\ q \in DOMAIN r
      BY <1>1, <1>7
    <2> QED
      BY <1>11, <1>12, <2>1, CallAdded
  <1> HIDE DEF es
  <1>15. CallsOn(r, ds, rest) /\ Pending(ds) = Pending(es) \union ({a} \ {None})
    <2>1. a # None => a \notin Pending(es)
      BY <1>13, <1>14
    <2> QED
      BY <1>4, <1>6, <1>11, <1>13, <1>14, <2>1, CallAdded
  <1> HIDE DEF ds
  <1>16. Pending(ds) = (Pending(cs) \ {k}) \union ({a, b} \ {None})
    BY <1>1, <1>14, <1>15
  <1>17. Due(r, ds, rest)
    <2>1. \A x \in rest : x \in due /\ x # k
      BY DEF rest
    <2>2. ASSUME NEW c \in DOMAIN r, r[c].parent \in rest
          PROVE  c \in rest
      <3>1. c \in due
        BY <1>3, <2>1, <2>2
      <3>2. c # k
        BY <1>9, <2>1, <2>2 DEF q
      <3> QED
        BY <3>1, <3>2 DEF rest
    <2>3. ASSUME NEW x \in rest, r[x].next # None
          PROVE  r[x].next \in rest
      <3>1. x \in DOMAIN r /\ r[x].parent # None /\ x # None /\ x \in due
        BY <1>2, <1>3, <2>1
      <3>2. r[r[x].next].prev = x
        BY <2>3, <3>1 DEF Family
      <3>3. r[x].next # k
        BY <1>9, <3>1, <3>2
      <3> QED
        BY <1>3, <2>3, <3>1, <3>3 DEF rest
    <2>4. ASSUME NEW x \in rest
          PROVE  x \in Pending(ds) <=> Caller(r, x) \notin rest
      <3>1. x \in due /\ x # k /\ x \in DOMAIN r /\ x # None /\ r[x].parent # None
        BY <1>2, <1>3, <2>1
      <3>2. CASE Caller(r, x) = k
        <4>1. CASE r[x].prev # None
          <5>1. r[x].prev = k /\ r[k].next = x
            BY <3>1, <3>2, <4>1 DEF Caller, Family
          <5> QED
            BY <1>16, <3>1, <3>2, <5>1 DEF b, rest
        <4>2. CASE r[x].prev = None
          <5>1. r[x].parent = k /\ r[k].first = x
            BY <3>1, <3>2, <4>2 DEF Caller, Family
          <5> QED
            BY <1>16, <3>1, <3>2, <5>1 DEF a, rest
        <4> QED
          BY <4>1, <4>2
      <3>3. CASE Caller(r, x) # k
        <4>1. x # a /\ x # b
          BY <1>8, <3>1, <3>3
        <4>2. x \in Pending(ds) <=> x \in Pending(cs)
          BY <1>16, <3>1, <4>1
        <4> QED
          BY <1>3, <3>1, <3>3, <4>2 DEF rest
      <3> QED
        BY <3>2, <3>3
    <2>5. \A x \in rest : r[x].parent # None
      BY <1>3, <2>1
    <2> QED
      BY <1>11, <2>2, <2>3, <2>4, <2>5 DEF Due
  <1>18. ds = Call(a, k) \o Call(b, q) \o ts
    BY DEF ds, es
  <1> QED
    BY <1>9, <1>15, <1>17, <1>18 DEF k, a, b, q, ts, rest

\* transform keeps the hierarchy: the row that it was called for follows its parent.
LEMMA TransformHier ==
  ASSUME Apart, HierInv, Transform
  PROVE  HierInv'
  <1> SUFFICES ASSUME damage' \subseteq {"map"}
               PROVE  Hierarchy' /\ (\E due : Traversal(rows, calls, left, due))'
                      /\ ~hung' /\ (collecting' => calls' = <<>>)
    BY DEF HierInv, Hierarchy
  <1> DEFINE k == Head(calls).row
             p == Head(calls).parent
             v == Times(rows[k].local, rows[p].world)
             s == rows'
  <1>1. /\ calls # <<>> /\ left > 0
        /\ s = [rows EXCEPT ![k].world = v]
        /\ calls' = Call(rows[k].first, k) \o Call(rows[k].next, p) \o Tail(calls)
        /\ left' = IF calls' = <<>> THEN 0 ELSE left - 1
        /\ hung' = (calls' # <<>> /\ left = 1)
        /\ UNCHANGED <<collecting, added, parentOf, damage>>
    BY DEF Transform
  <1>2. Hierarchy /\ (\E due : Traversal(rows, calls, left, due)) /\ ~collecting
    BY <1>1 DEF HierInv, Hierarchy
  <1>3. PICK order, depth : InOrder(rows, order) /\ Deeper(parentOf, depth)
    BY <1>2 DEF Hierarchy
  <1>4. PICK due : Traversal(rows, calls, left, due)
    BY <1>2
  <1>5. Size \in Nat /\ DOMAIN rows = 0 .. Size - 1 /\ None \notin DOMAIN rows
    BY ColumnOfRows, NoRowIsNone
  <1>6. /\ rows \in [DOMAIN rows -> Rows] /\ Family(rows) /\ Asked(rows, parentOf, added)
        /\ \A c \in DOMAIN rows : rows[c].entity \in Entities
    BY <1>2 DEF Hierarchy, Apart
  <1>7. /\ Due(rows, calls, due) /\ CallsOn(rows, calls, due)
        /\ left \in Nat /\ Cardinality(due) <= left
        /\ \A c \in DOMAIN rows \ due : rows[c].parent # None => Follows(rows, c)
    BY <1>4 DEF Traversal
  <1>8. PICK rank : Rising(rows, rank)
    BY <1>3, <1>6, RowsRise
  <1>9. k \in due /\ p = rows[k].parent /\ p \in DOMAIN rows
    BY <1>1, <1>7, CallsTail
  <1>10. due \subseteq DOMAIN rows /\ k \in DOMAIN rows
         /\ \A c \in DOMAIN rows : rows[c].parent \in due => c \in due
    BY <1>7, <1>9 DEF Due
  <1>11. p \notin due /\ Due(rows, calls', due \ {k}) /\ CallsOn(rows, calls', due \ {k})
    <2>1. calls' = Call(rows[k].first, k) \o Call(rows[k].next, rows[k].parent) \o Tail(calls)
      BY <1>1, <1>9
    <2> HIDE DEF Size
    <2> QED
      BY <1>1, <1>3, <1>5, <1>6, <1>7, <1>8, <1>9, <2>1, CallMade
  <1> HIDE DEF k, p, Size
  <1>12. v \in Matrices
    <2>1. rows[k] \in Rows /\ rows[p] \in Rows
      BY <1>6, <1>9, <1>10
    <2>2. rows[k].local \in Matrices /\ rows[p].world \in Matrices
      BY <2>1 DEF Rows
    <2> QED
      BY <2>2, TimesMatrix
  <1> HIDE DEF v
  <1>13. SetTo(rows, s, k, "world", v)
    BY <1>1, <1>6, <1>10, <1>12, SetRow
  <1> HIDE DEF s
  <1>14. /\ \A j \in DOMAIN rows : s[j].local = rows[j].local
                                   /\ s[j].world = IF j = k THEN v ELSE rows[j].world
         /\ SameLinks(rows, s)
    BY <1>13 DEF SetTo, Fields, SameLinks
  <1>15. Family(s) /\ InOrder(s, order) /\ Asked(s, parentOf, added)
    BY <1>3, <1>6, <1>14, SameHierarchy
  <1>16. DOMAIN s = DOMAIN rows /\ s \in [DOMAIN s -> Rows]
    BY <1>14 DEF SameLinks
  <1> DEFINE D == due \ {k}
  <1>17. Due(s, calls', D) /\ CallsOn(s, calls', D)
    <2>1. Due(rows, calls', D) /\ CallsOn(rows, calls', D)
      BY <1>11
    <2>2. D \subseteq DOMAIN rows
      BY <1>10
    <2> HIDE DEF D
    <2>3. Due(s, calls', D)
      <3>1. \A x \in DOMAIN rows : Caller(s, x) = Caller(rows, x)
        BY <1>14 DEF SameLinks, Caller
      <3> QED
        BY <1>14, <1>16, <2>1, <2>2, <3>1 DEF Due, SameLinks
    <2>4. CallsOn(s, calls', D)
      <3> DEFINE X == [row : D, parent : DOMAIN rows]
      <3> HIDE DEF X
      <3>1. calls' \in Seq(X)
        BY <2>1 DEF CallsOn, X
      <3>2. \A n \in DOMAIN calls' : calls'[n] \in X
        BY <3>1
      <3>3. \A n \in DOMAIN calls' : calls'[n].row \in D
        BY <3>2 DEF X
      <3> QED
        BY <1>14, <1>16, <2>1, <2>2, <3>3 DEF CallsOn, SameLinks
    <2> QED
      BY <2>3, <2>4
  <1>18. ASSUME NEW c \in DOMAIN s \ D, s[c].parent # None
         PROVE  Follows(s, c)
    <2>1. /\ c \in DOMAIN rows /\ s[c].parent = rows[c].parent /\ rows[c].parent \in DOMAIN rows
      BY <1>6, <1>14, <1>16, <1>18 DEF SameLinks, Family, LinkOf
    <2>2. rows[c].parent # k
      <3>1. CASE c = k
        BY <1>9, <1>11, <3>1
      <3>2. CASE c # k
        BY <1>9, <1>10, <1>18, <2>1, <3>2
      <3> QED
        BY <3>1, <3>2
    <2>3. s[rows[c].parent].world = rows[rows[c].parent].world
      BY <1>14, <2>1, <2>2
    <2>4. CASE c = k
      BY <1>9, <1>10, <1>14, <2>1, <2>3, <2>4 DEF Follows, v
    <2>5. CASE c # k
      <3>1. Follows(rows, c)
        BY <1>7, <1>18, <2>1, <2>5
      <3> QED
        BY <1>14, <2>1, <2>3, <2>5, <3>1 DEF Follows
    <2> QED
      BY <2>4, <2>5
  <1>19. Cardinality(D) \in Nat /\ Cardinality(D) <= left - 1 /\ IsFiniteSet(D)
    <2>1. IsFiniteSet(due)
      <3>1. IsFiniteSet(DOMAIN rows)
        BY <1>5, FS_Interval
      <3> QED
        BY <1>10, <3>1, FS_Subset
    <2>2. IsFiniteSet(D) /\ Cardinality(D) = Cardinality(due) - 1
      BY <1>9, <2>1, FS_RemoveElement
    <2>3. Cardinality(D) \in Nat /\ Cardinality(due) \in Nat
      BY <2>1, <2>2, FS_CardinalityType
    <2> QED
      BY <1>7, <2>2, <2>3
  <1>20. calls' = <<>> => D = {}
    <2>1. PICK r2 : Rising(s, r2)
      BY <1>3, <1>6, <1>14, <1>15, <1>16, RowsRise DEF SameLinks
    <2> HIDE DEF D
    <2> QED
      BY <1>3, <1>5, <1>15, <1>16, <1>17, <2>1, NothingLeft
  <1>21. calls' # <<>> => D # {}
    <2> HIDE DEF D
    <2> SUFFICES ASSUME calls' # <<>>
                 PROVE  D # {}
      OBVIOUS
    <2>1. Head(calls').row \in D
      BY <1>17, CallsTail
    <2> QED
      BY <2>1
  <1> HIDE DEF D
  <1>22. left' \in Nat /\ Cardinality(D) <= left' /\ ~hung'
    <2>1. CASE calls' = <<>>
      <3>1. Cardinality(D) = 0
        BY <1>20, <2>1, FS_EmptySet
      <3>2. left' = 0
        BY <1>1, <2>1
      <3>3. ~hung'
        BY <1>1, <2>1
      <3> QED
        BY <3>1, <3>2, <3>3
    <2>2. CASE calls' # <<>>
      <3>1. Cardinality(D) # 0
        BY <1>19, <1>21, <2>2, FS_EmptySet
      <3>2. left' = left - 1
        BY <1>1, <2>2
      <3>3. left # 1
        BY <1>19, <3>1
      <3>4. ~hung'
        BY <1>1, <3>3
      <3> QED
        BY <1>1, <1>7, <1>19, <3>2, <3>4
    <2> QED
      BY <2>1, <2>2
  <1>23. \E d : Traversal(s, calls', left', d)
    BY <1>17, <1>18, <1>22 DEF Traversal
  <1>24. (\E o : InOrder(s, o)) /\ (\E d : Deeper(parentOf', d)) /\ Asked(s, parentOf', added')
    BY <1>1, <1>3, <1>15
  <1> QED
    BY <1>1, <1>2, <1>15, <1>16, <1>22, <1>23, <1>24 DEF Hierarchy, s

----------------------------------------------------------------------------
(* The hierarchy: what add and destroy do to it.                           *)

LEMMA AddHier ==
  ASSUME Apart, HierInv, NEW e \in Entities, Add(e)
  PROVE  HierInv'
  <1> SUFFICES ASSUME damage' \subseteq {"map"}
               PROVE  Hierarchy' /\ (\E due : Traversal(rows, calls, left, due))'
                      /\ ~hung' /\ (collecting' => calls' = <<>>)
    BY DEF HierInv, Hierarchy
  <1> DEFINE i == Size
             s == rows'
  <1>1. /\ ~collecting /\ calls = <<>> /\ e \in alive \ added
        /\ s = [k \in 0 .. i |-> IF k = i THEN NewRow(e) ELSE rows[k]]
        /\ added' = added \union {e} /\ damage \subseteq damage'
        /\ UNCHANGED <<collecting, calls, left, hung, parentOf>>
    BY DEF Add, Ready, traversal
  <1>2. Hierarchy /\ (\E due : Traversal(rows, calls, left, due)) /\ ~hung
    BY <1>1 DEF HierInv, Hierarchy
  <1>3. PICK order, depth : InOrder(rows, order) /\ Deeper(parentOf, depth)
    BY <1>2 DEF Hierarchy
  <1>4. i \in Nat /\ DOMAIN rows = 0 .. i - 1 /\ None \notin DOMAIN rows
    BY ColumnOfRows, NoRowIsNone
  <1>5. /\ rows \in [DOMAIN rows -> Rows] /\ Family(rows) /\ Asked(rows, parentOf, added)
        /\ \A c \in DOMAIN rows : rows[c].entity \in Entities
    BY <1>2 DEF Hierarchy, Apart
  <1>6. \A c \in DOMAIN rows : rows[c].parent # None => Follows(rows, c)
    <2>1. PICK due : Traversal(rows, calls, left, due)
      BY <1>2
    <2>2. due = {}
      BY <1>1, <1>3, <1>4, <1>5, <2>1, NoneLeftDue DEF Traversal
    <2> QED
      BY <2>1, <2>2 DEF Traversal
  <1>7. NewRow(e) \in Rows
    <2>1. Identity \in Matrices /\ None \in Int
      BY TransformAssumption DEF Identity, Matrices, None
    <2> QED
      BY <2>1 DEF NewRow, Rows
  <1> HIDE DEF i
  <1>8. /\ DOMAIN s = DOMAIN rows \union {i} /\ i \notin DOMAIN rows /\ i # None
        /\ s[i] = NewRow(e) /\ \A k \in DOMAIN rows : s[k] = rows[k]
    BY <1>1, <1>4 DEF None
  <1>9. /\ s[i].entity = e /\ s[i].parent = None /\ s[i].first = None /\ s[i].prev = None
    BY <1>8 DEF NewRow
  <1> HIDE DEF s
  <1>10. s \in [DOMAIN s -> Rows]
    <2>1. s = [k \in 0 .. i |-> s[k]] /\ DOMAIN s = 0 .. i
      BY <1>1 DEF s
    <2>2. \A k \in DOMAIN s : s[k] \in Rows
      BY <1>5, <1>7, <1>8
    <2> QED
      BY <2>1, <2>2
  <1>11. Family(s)
    <2> SUFFICES ASSUME NEW c \in DOMAIN s
                 PROVE  /\ LinkOf(s, s[c].parent) /\ LinkOf(s, s[c].first)
                        /\ s[c].first # None =>
                             s[s[c].first].parent = c /\ s[s[c].first].prev = None
                        /\ s[c].parent = None => s[c].prev = None
                        /\ s[c].parent # None =>
                             /\ LinkOf(s, s[c].next) /\ LinkOf(s, s[c].prev)
                             /\ s[c].prev = None => s[s[c].parent].first = c
                             /\ s[c].prev # None =>
                                  s[s[c].prev].next = c /\ s[s[c].prev].parent = s[c].parent
                             /\ s[c].next # None =>
                                  s[s[c].next].prev = c /\ s[s[c].next].parent = s[c].parent
      BY DEF Family
    <2>1. CASE c = i
      BY <1>9, <2>1 DEF LinkOf
    <2>2. CASE c # i
      <3>1. c \in DOMAIN rows /\ s[c] = rows[c]
        BY <1>8, <2>2
      <3>2. /\ LinkOf(rows, s[c].parent) /\ LinkOf(rows, s[c].first)
            /\ s[c].first # None =>
                 rows[s[c].first].parent = c /\ rows[s[c].first].prev = None
            /\ s[c].parent = None => s[c].prev = None
            /\ s[c].parent # None =>
                 /\ LinkOf(rows, s[c].next) /\ LinkOf(rows, s[c].prev)
                 /\ s[c].prev = None => rows[s[c].parent].first = c
                 /\ s[c].prev # None =>
                      rows[s[c].prev].next = c /\ rows[s[c].prev].parent = s[c].parent
                 /\ s[c].next # None =>
                      rows[s[c].next].prev = c /\ rows[s[c].next].parent = s[c].parent
        BY <1>5, <3>1 DEF Family
      <3>3. \A l : LinkOf(rows, l) => LinkOf(s, l) /\ (l # None => s[l] = rows[l])
        BY <1>8 DEF LinkOf
      <3> QED
        BY <3>2, <3>3
    <2> QED
      BY <2>1, <2>2
  <1>12. \E o : InOrder(s, o)
    <2> DEFINE o == [c \in DOMAIN s |-> IF c = i THEN 0 ELSE order[c]]
    <2>1. o \in [DOMAIN s -> Nat]
      BY <1>3, <1>8 DEF InOrder
    <2>2. ASSUME NEW c \in DOMAIN s, s[c].parent # None, s[c].next # None
          PROVE  o[c] < o[s[c].next]
      <3>1. c \in DOMAIN rows /\ s[c] = rows[c] /\ c # i
        BY <1>8, <1>9, <2>2
      <3>2. rows[c].next \in DOMAIN rows /\ rows[c].next # i /\ rows[c].next \in DOMAIN s
        BY <1>5, <1>8, <2>2, <3>1 DEF Family, LinkOf
      <3>3. order[c] < order[rows[c].next]
        BY <1>3, <2>2, <3>1 DEF InOrder
      <3> QED
        BY <3>1, <3>2, <3>3
    <2>3. InOrder(s, o)
      BY <2>1, <2>2 DEF InOrder
    <2> QED
      BY <2>3
  <1>13. Asked(s, parentOf, added')
    <2>1. /\ parentOf \in [Entities -> Entities \union {NoEntity}]
          /\ \A x \in Entities \ added : parentOf[x] = NoEntity
          /\ \A c \in DOMAIN rows :
               parentOf[rows[c].entity] = IF rows[c].parent = None THEN NoEntity
                                          ELSE rows[rows[c].parent].entity
      BY <1>5 DEF Asked
    <2>2. \A x \in Entities \ added' : parentOf[x] = NoEntity
      BY <1>1, <2>1
    <2>3. ASSUME NEW c \in DOMAIN s
          PROVE  parentOf[s[c].entity] =
                   IF s[c].parent = None THEN NoEntity ELSE s[s[c].parent].entity
      <3>1. CASE c = i
        BY <1>1, <1>9, <2>1, <3>1
      <3>2. CASE c # i
        <4>1. c \in DOMAIN rows /\ s[c] = rows[c]
          BY <1>8, <3>2
        <4>2. rows[c].parent # None =>
                rows[c].parent \in DOMAIN rows /\ s[rows[c].parent] = rows[rows[c].parent]
          BY <1>5, <1>8, <4>1 DEF Family, LinkOf
        <4> QED
          BY <2>1, <4>1, <4>2
      <3> QED
        BY <3>1, <3>2
    <2> QED
      BY <2>1, <2>2, <2>3 DEF Asked
  <1>14. \E due : Traversal(s, calls', left', due)
    <2>1. ASSUME NEW c \in DOMAIN s, s[c].parent # None
          PROVE  Follows(s, c)
      <3>1. c \in DOMAIN rows /\ s[c] = rows[c]
        BY <1>8, <1>9, <2>1
      <3>2. rows[c].parent \in DOMAIN rows /\ s[rows[c].parent] = rows[rows[c].parent]
        BY <1>5, <1>8, <2>1, <3>1 DEF Family, LinkOf
      <3>3. Follows(rows, c)
        BY <1>6, <2>1, <3>1
      <3> QED
        BY <3>1, <3>2, <3>3 DEF Follows
    <2>2. calls' = <<>> /\ left' \in Nat
      BY <1>1, <1>2 DEF Traversal
    <2> QED
      BY <2>1, <2>2, NothingDue
  <1> QED
    BY <1>1, <1>2, <1>3, <1>10, <1>11, <1>12, <1>13, <1>14 DEF Hierarchy, s

\* A row without a first child has no child: the first of them would be it.
LEMMA NoFirstNoChild ==
  ASSUME NEW r, None \notin DOMAIN r, Family(r), NEW order, InOrder(r, order),
         NEW i \in DOMAIN r, r[i].first = None, NEW c \in DOMAIN r
  PROVE  r[c].parent # i
  <1> SUFFICES ASSUME r[c].parent = i
               PROVE  FALSE
    OBVIOUS
  <1> DEFINE D == {x \in DOMAIN r : r[x].parent = i}
             T == {order[x] : x \in D}
  <1>1. T \subseteq Nat /\ T # {}
    BY DEF InOrder
  <1>2. PICK t \in T : \A v \in T : t <= v
    <2> HIDE DEF T
    <2> QED
      BY <1>1, LeastNumber
  <1>3. PICK x \in D : order[x] = t
    BY <1>2
  <1>4. x \in DOMAIN r /\ r[x].parent = i /\ i # None /\ x # None
    BY <1>3
  <1>5. r[x].prev # None
    BY <1>4 DEF Family
  <1>6. r[x].prev \in DOMAIN r /\ r[r[x].prev].next = x /\ r[r[x].prev].parent = i
    BY <1>4, <1>5 DEF Family, LinkOf
  <1>7. order[r[x].prev] < order[x] /\ order[r[x].prev] \in Nat /\ order[x] \in Nat
    BY <1>4, <1>6 DEF InOrder
  <1>8. order[x] <= order[r[x].prev]
    BY <1>2, <1>3, <1>6
  <1> QED
    BY <1>7, <1>8

\* Nothing leads to a row without links.
LEMMA Unreached ==
  ASSUME NEW r, None \notin DOMAIN r, Family(r), NEW order, InOrder(r, order),
         NEW i \in DOMAIN r, r[i].parent = None, r[i].first = None, NEW c \in DOMAIN r
  PROVE  /\ r[c].parent # i /\ r[c].first # i
         /\ r[c].parent # None => r[c].next # i /\ r[c].prev # i
  <1>1. r[c].parent # i
    BY NoFirstNoChild
  <1>2. i # None /\ c # None
    OBVIOUS
  <1>3. r[c].first # i
    BY <1>2 DEF Family
  <1>4. r[c].parent # None => r[c].next # i /\ r[c].prev # i
    BY <1>2 DEF Family
  <1> QED
    BY <1>1, <1>3, <1>4

\* What destroy leaves when neither row i nor the last one has links: the last row's
\* entity is in row i, which has no links either.
LEMMA SwappedOut ==
  ASSUME Size \in Nat, NEW r, r \in [DOMAIN r -> Rows], DOMAIN r = 0 .. Size - 1,
         NEW i \in DOMAIN r, ~IsValid(r[i].parent), ~IsValid(r[Size - 1].parent),
         NEW k \in 0 .. Size - 2
  PROVE  LET s == Swap(r, i, Size - 1)
         IN  /\ k # i => s[k] = r[k]
             /\ k = i => /\ s[k] \in Rows
                         /\ s[k].entity = r[Size - 1].entity
                         /\ s[k].parent = r[Size - 1].parent
                         /\ s[k].first = r[Size - 1].first
                         /\ s[k].prev = r[i].prev
  <1> DEFINE last == Size - 1
             n == Size
             r1 == Copied(r, i, n)
             r2 == Copied(r1, last, i)
             r3 == Copied(r2, n, last)
  <1>1. /\ n \notin DOMAIN r /\ last \in DOMAIN r /\ last # n /\ k \in DOMAIN r /\ k # last
        /\ k # n /\ i # n
    OBVIOUS
  <1>2. IsValid(r[i].parent) = FALSE /\ IsValid(r[last].parent) = FALSE
    BY DEF IsValid
  <1> HIDE DEF n, last
  <1>3. Move(r, i, n) = r1
    BY <1>2 DEF Move
  <1>4. /\ DOMAIN r1 = DOMAIN r \union {n}
        /\ \A j \in DOMAIN r : r1[j] = r[j]
        /\ r1[n] = [r[i] EXCEPT !.next = None, !.prev = None]
    BY <1>1 DEF Copied
  <1>5. r1[n].parent = r[i].parent
    <2>1. r[i] \in Rows
      OBVIOUS
    <2> QED
      BY <1>4, <2>1 DEF Rows
  <1> HIDE DEF r1
  <1>6. Move(r1, last, i) = r2
    BY <1>1, <1>2, <1>4 DEF Move
  <1>7. /\ DOMAIN r2 = DOMAIN r \union {n}
        /\ \A j \in DOMAIN r1 : j # i => r2[j] = r1[j]
        /\ r2[i] = [r[last] EXCEPT !.next = r[i].next, !.prev = r[i].prev]
    BY <1>1, <1>4 DEF Copied
  <1> HIDE DEF r2
  <1>8. r2[n].parent = r[i].parent
    BY <1>1, <1>4, <1>5, <1>7
  <1>9. Move(r2, n, last) = r3
    BY <1>2, <1>8 DEF Move
  <1>10. r3[k] = r2[k]
    BY <1>1, <1>7 DEF Copied
  <1> HIDE DEF r3
  <1>11. Swap(r, i, last) = r3
    BY <1>3, <1>6, <1>9 DEF Swap, n
  <1>12. k # i => r3[k] = r[k]
    BY <1>1, <1>4, <1>7, <1>10
  <1>13. k = i => /\ r3[k] \in Rows
                  /\ r3[k].entity = r[last].entity
                  /\ r3[k].parent = r[last].parent
                  /\ r3[k].first = r[last].first
                  /\ r3[k].prev = r[i].prev
    <2>1. r[last] \in Rows /\ r[i] \in Rows
      BY <1>1
    <2>2. r[i].next \in Int /\ r[i].prev \in Int
      BY <2>1 DEF Rows
    <2> QED
      BY <1>7, <1>10, <2>1, <2>2 DEF Rows
  <1> QED
    BY <1>11, <1>12, <1>13 DEF last

\* destroy keeps the hierarchy, if the rows that change places have no links.
LEMMA CollectRowHier ==
  ASSUME Apart, HierInv, NEW i \in DOMAIN rows, CollectRow(i)
  PROVE  HierInv'
  <1> SUFFICES ASSUME damage' \subseteq {"map"}
               PROVE  Hierarchy' /\ (\E due : Traversal(rows, calls, left, due))'
                      /\ ~hung' /\ (collecting' => calls' = <<>>)
    BY DEF HierInv, Hierarchy
  <1> DEFINE last == Size - 1
             s == rows'
  <1>1. /\ collecting
        /\ s = [k \in 0 .. last - 1 |-> Swap(rows, i, last)[k]]
        /\ damage \subseteq damage' /\ ~HasLinks(i) /\ ~HasLinks(last)
        /\ UNCHANGED <<collecting, calls, left, hung, added, parentOf>>
    BY DEF CollectRow, Destroy, traversal
  <1>2. Hierarchy /\ (\E due : Traversal(rows, calls, left, due)) /\ ~hung /\ calls = <<>>
    BY <1>1 DEF HierInv, Hierarchy
  <1>3. PICK order, depth : InOrder(rows, order) /\ Deeper(parentOf, depth)
    BY <1>2 DEF Hierarchy
  <1>4. Size \in Nat /\ DOMAIN rows = 0 .. Size - 1 /\ None \notin DOMAIN rows
    BY ColumnOfRows, NoRowIsNone
  <1>5. /\ rows \in [DOMAIN rows -> Rows] /\ Family(rows) /\ Asked(rows, parentOf, added)
        /\ \A c \in DOMAIN rows : rows[c].entity \in Entities
    BY <1>2 DEF Hierarchy, Apart
  <1>6. \A c \in DOMAIN rows : rows[c].parent # None => Follows(rows, c)
    <2>1. PICK due : Traversal(rows, calls, left, due)
      BY <1>2
    <2>2. due = {}
      BY <1>2, <1>3, <1>4, <1>5, <2>1, NoneLeftDue DEF Traversal
    <2> QED
      BY <2>1, <2>2 DEF Traversal
  <1>7. last \in DOMAIN rows
    BY <1>4
  <1>8. ASSUME NEW k \in {i, last}
        PROVE  /\ k \in DOMAIN rows /\ rows[k].parent = None /\ rows[k].first = None
               /\ rows[k].prev = None /\ ~IsValid(rows[k].parent)
    <2>1. k \in DOMAIN rows /\ ~IsValid(rows[k].parent) /\ ~IsValid(rows[k].first)
      BY <1>1, <1>7 DEF HasLinks
    <2>2. LinkOf(rows, rows[k].parent) /\ LinkOf(rows, rows[k].first)
      BY <1>5, <2>1 DEF Family
    <2>3. rows[k].parent = None /\ rows[k].first = None
      BY <1>4, <2>1, <2>2, ValidLinks
    <2> QED
      BY <1>5, <2>1, <2>3 DEF Family
  <1>9. ASSUME NEW k \in DOMAIN s
        PROVE  /\ k \in DOMAIN rows /\ k # last
               /\ k # i => s[k] = rows[k]
               /\ k = i => /\ s[k] \in Rows /\ s[k].entity = rows[last].entity
                           /\ s[k].parent = None /\ s[k].first = None /\ s[k].prev = None
    <2>1. k \in 0 .. Size - 2 /\ s[k] = Swap(rows, i, Size - 1)[k]
      BY <1>1, <1>4
    <2>2. ~IsValid(rows[i].parent) /\ ~IsValid(rows[Size - 1].parent)
      BY <1>8
    <2>3. k \in DOMAIN rows /\ k # last
      BY <1>4, <2>1
    <2> DEFINE w == Swap(rows, i, Size - 1)
    <2>4. /\ k # i => w[k] = rows[k]
          /\ k = i => /\ w[k] \in Rows /\ w[k].entity = rows[Size - 1].entity
                      /\ w[k].parent = rows[Size - 1].parent
                      /\ w[k].first = rows[Size - 1].first
                      /\ w[k].prev = rows[i].prev
      BY <1>4, <1>5, <2>1, <2>2, SwappedOut
    <2>5. s[k] = w[k]
      BY <2>1
    <2> HIDE DEF w
    <2>6. /\ rows[last].parent = None /\ rows[last].first = None /\ rows[i].prev = None
      BY <1>8
    <2> QED
      BY <2>3, <2>4, <2>5, <2>6
  <1>10. DOMAIN s = DOMAIN rows \ {last}
    BY <1>1, <1>4
  <1>11. ASSUME NEW c \in DOMAIN rows
         PROVE  /\ rows[c].parent \notin {i, last} /\ rows[c].first \notin {i, last}
                /\ rows[c].parent # None =>
                     rows[c].next \notin {i, last} /\ rows[c].prev \notin {i, last}
    BY <1>3, <1>4, <1>5, <1>8, Unreached
  <1> HIDE DEF last, s, Size
  <1>12. \A l : LinkOf(rows, l) /\ l \notin {i, last} =>
           LinkOf(s, l) /\ (l # None => l \in DOMAIN s /\ s[l] = rows[l])
    BY <1>9, <1>10 DEF LinkOf
  <1>13. s \in [DOMAIN s -> Rows]
    <2>1. s = [k \in DOMAIN s |-> s[k]]
      BY <1>1 DEF s
    <2>2. \A k \in DOMAIN s : s[k] \in Rows
      BY <1>5, <1>9
    <2> QED
      BY <2>1, <2>2
  <1>14. Family(s)
    <2> SUFFICES ASSUME NEW c \in DOMAIN s
                 PROVE  /\ LinkOf(s, s[c].parent) /\ LinkOf(s, s[c].first)
                        /\ s[c].first # None =>
                             s[s[c].first].parent = c /\ s[s[c].first].prev = None
                        /\ s[c].parent = None => s[c].prev = None
                        /\ s[c].parent # None =>
                             /\ LinkOf(s, s[c].next) /\ LinkOf(s, s[c].prev)
                             /\ s[c].prev = None => s[s[c].parent].first = c
                             /\ s[c].prev # None =>
                                  s[s[c].prev].next = c /\ s[s[c].prev].parent = s[c].parent
                             /\ s[c].next # None =>
                                  s[s[c].next].prev = c /\ s[s[c].next].parent = s[c].parent
      BY DEF Family
    <2>1. CASE c = i
      BY <1>9, <2>1 DEF LinkOf
    <2>2. CASE c # i
      <3>1. c \in DOMAIN rows /\ s[c] = rows[c]
        BY <1>9, <2>2
      <3>2. /\ LinkOf(rows, s[c].parent) /\ LinkOf(rows, s[c].first)
            /\ s[c].first # None =>
                 rows[s[c].first].parent = c /\ rows[s[c].first].prev = None
            /\ s[c].parent = None => s[c].prev = None
            /\ s[c].parent # None =>
                 /\ LinkOf(rows, s[c].next) /\ LinkOf(rows, s[c].prev)
                 /\ s[c].prev = None => rows[s[c].parent].first = c
                 /\ s[c].prev # None =>
                      rows[s[c].prev].next = c /\ rows[s[c].prev].parent = s[c].parent
                 /\ s[c].next # None =>
                      rows[s[c].next].prev = c /\ rows[s[c].next].parent = s[c].parent
        BY <1>5, <3>1 DEF Family
      <3>3. /\ s[c].parent \notin {i, last} /\ s[c].first \notin {i, last}
            /\ s[c].parent # None =>
                 s[c].next \notin {i, last} /\ s[c].prev \notin {i, last}
        BY <1>11, <3>1
      <3> QED
        BY <1>12, <3>2, <3>3
    <2> QED
      BY <2>1, <2>2
  <1>15. \E o : InOrder(s, o)
    <2> DEFINE o == [c \in DOMAIN s |-> order[c]]
    <2>1. o \in [DOMAIN s -> Nat]
      BY <1>3, <1>10 DEF InOrder
    <2>2. ASSUME NEW c \in DOMAIN s, s[c].parent # None, s[c].next # None
          PROVE  o[c] < o[s[c].next]
      <3>1. c \in DOMAIN rows /\ s[c] = rows[c]
        BY <1>9, <2>2
      <3>2. LinkOf(s, s[c].next)
        BY <1>14, <2>2 DEF Family
      <3>3. order[c] < order[s[c].next]
        BY <1>3, <2>2, <3>1 DEF InOrder
      <3> QED
        BY <2>2, <3>2, <3>3 DEF LinkOf
    <2>3. InOrder(s, o)
      BY <2>1, <2>2 DEF InOrder
    <2> QED
      BY <2>3
  <1>16. Asked(s, parentOf, added)
    <2>1. /\ parentOf \in [Entities -> Entities \union {NoEntity}]
          /\ \A x \in Entities \ added : parentOf[x] = NoEntity
          /\ \A c \in DOMAIN rows :
               parentOf[rows[c].entity] = IF rows[c].parent = None THEN NoEntity
                                          ELSE rows[rows[c].parent].entity
      BY <1>5 DEF Asked
    <2>2. ASSUME NEW c \in DOMAIN s
          PROVE  parentOf[s[c].entity] =
                   IF s[c].parent = None THEN NoEntity ELSE s[s[c].parent].entity
      <3>1. CASE c = i
        <4>1. s[c].entity = rows[last].entity /\ s[c].parent = None
          BY <1>9, <3>1
        <4>2. rows[last].parent = None /\ last \in DOMAIN rows
          BY <1>8
        <4> QED
          BY <2>1, <4>1, <4>2
      <3>2. CASE c # i
        <4>1. c \in DOMAIN rows /\ s[c] = rows[c]
          BY <1>9, <3>2
        <4>2. LinkOf(rows, rows[c].parent) /\ rows[c].parent \notin {i, last}
          BY <1>5, <1>11, <4>1 DEF Family
        <4>3. rows[c].parent # None => s[rows[c].parent] = rows[rows[c].parent]
          BY <1>12, <4>2
        <4> QED
          BY <2>1, <4>1, <4>3
      <3> QED
        BY <3>1, <3>2
    <2> QED
      BY <2>1, <2>2 DEF Asked
  <1>17. \E due : Traversal(s, calls', left', due)
    <2>1. ASSUME NEW c \in DOMAIN s, s[c].parent # None
          PROVE  Follows(s, c)
      <3>1. c \in DOMAIN rows /\ s[c] = rows[c]
        BY <1>9, <2>1
      <3>2. LinkOf(rows, rows[c].parent) /\ rows[c].parent \notin {i, last}
        BY <1>5, <1>11, <3>1 DEF Family
      <3>3. s[rows[c].parent] = rows[rows[c].parent]
        BY <1>12, <2>1, <3>1, <3>2
      <3>4. Follows(rows, c)
        BY <1>6, <2>1, <3>1
      <3> QED
        BY <3>1, <3>3, <3>4 DEF Follows
    <2>2. calls' = <<>> /\ left' \in Nat
      BY <1>1, <1>2 DEF Traversal
    <2> QED
      BY <2>1, <2>2, NothingDue
  <1> QED
    BY <1>1, <1>2, <1>3, <1>13, <1>14, <1>15, <1>16, <1>17 DEF Hierarchy, s

----------------------------------------------------------------------------
(* The invariant of the hierarchy.                                         *)

LEMMA HierAtFirst == Init => HierInv
  <1> SUFFICES ASSUME Init
               PROVE  HierInv
    OBVIOUS
  <1>1. /\ DOMAIN rows = {} /\ rows = [i \in {} |-> NewRow(0)] /\ calls = <<>> /\ left = 0
        /\ hung = FALSE
        /\ parentOf = [e \in Entities |-> NoEntity]
    BY DEF Init
  <1>2. rows \in [DOMAIN rows -> Rows] /\ Family(rows)
    BY <1>1 DEF Family
  <1>3. InOrder(rows, [c \in DOMAIN rows |-> 0])
    BY <1>1 DEF InOrder
  <1>4. Asked(rows, parentOf, added)
    BY <1>1 DEF Asked
  <1>5. Deeper(parentOf, [e \in Entities |-> 0])
    BY <1>1 DEF Deeper
  <1>6. Traversal(rows, calls, left, {})
    BY <1>1, NothingDue
  <1> QED
    BY <1>1, <1>2, <1>3, <1>4, <1>5, <1>6 DEF HierInv

LEMMA HierInductive == HierInv /\ MapInv /\ Apart /\ [Next]_vars => HierInv'
  <1> SUFFICES ASSUME HierInv, MapInv, Apart, [Next]_vars
               PROVE  HierInv'
    OBVIOUS
  <1>1. ASSUME NEW e \in Entities, CreateEntity(e) \/ DestroyEntity(e) \/ Add(e)
        PROVE  HierInv'
    <2>1. CASE CreateEntity(e) \/ DestroyEntity(e)
      BY <2>1 DEF CreateEntity, DestroyEntity, traversal, HierInv
    <2>2. CASE Add(e)
      BY <2>2, AddHier
    <2> QED
      BY <1>1, <2>1, <2>2
  <1>2. ASSUME NEW e \in Entities, NEW pe \in Entities \union {NoEntity}, SetParent(e, pe)
        PROVE  HierInv'
    BY <1>2, SetParentHier
  <1>3. ASSUME NEW e \in Entities, NEW m \in Matrices, SetLocal(e, m)
        PROVE  HierInv'
    BY <1>3, SetLocalHier
  <1>4. CASE Transform
    BY <1>4, TransformHier
  <1>5. ASSUME NEW i \in DOMAIN rows, CollectRow(i)
        PROVE  HierInv'
    BY <1>5, CollectRowHier
  <1>6. CASE CollectBegin \/ CollectEnd \/ UNCHANGED vars
    BY <1>6 DEF CollectBegin, CollectEnd, Ready, vars, traversal, HierInv
  <1> QED
    BY <1>1, <1>2, <1>3, <1>4, <1>5, <1>6 DEF Next

----------------------------------------------------------------------------
(* What the invariant says of the lists.                                   *)

\* The rows with parent i.
ChildrenOf(i) == {c \in DOMAIN rows : rows[c].parent = i}

\* f is the list of the children of i, going on for ever at None.
ListOf(f, i) ==
  /\ f[0] = rows[i].first
  /\ \A n \in Nat : f[n + 1] = IF f[n] = None THEN None ELSE rows[f[n]].next

LEMMA ChildrenListed ==
  ASSUME Size \in Nat, DOMAIN rows = 0 .. Size - 1, Family(rows), NEW i \in DOMAIN rows
  PROVE  \E f \in [Nat -> ChildrenOf(i) \union {None}] :
           ListOf(f, i) /\ Children(i) = {f[n] : n \in 0 .. Size} \ {None}
  <1> DEFINE S == ChildrenOf(i) \union {None}
             first == rows[i].first
             step == [v \in S |-> IF v = None THEN None ELSE rows[v].next]
             next == [n \in Nat |-> step]
             node == CHOOSE node : node = [n \in Nat |->
                       IF n = 0 THEN rows[i].first
                       ELSE IF IsValid(node[n - 1]) THEN rows[node[n - 1]].next ELSE None]
  <1>1. None \notin DOMAIN rows
    BY NoRowIsNone
  <1>2. first \in S
    BY DEF Family, LinkOf, ChildrenOf
  <1>3. \A v \in S : step[v] \in S
    <2> SUFFICES ASSUME NEW v \in S, v # None
                 PROVE  rows[v].next \in S
      OBVIOUS
    <2>1. v \in DOMAIN rows /\ rows[v].parent = i /\ i # None
      BY <1>1 DEF ChildrenOf
    <2> QED
      BY <2>1 DEF Family, LinkOf, ChildrenOf
  <1>4. next \in [Nat -> [S -> S]]
    BY <1>3
  <1>5. PICK f \in [Nat -> S] : Runs(f, first, next)
    <2> HIDE DEF next, S, first
    <2> QED
      BY <1>2, <1>4, RunExists
  <1>6. f[0] = first /\ \A n \in Nat : f[n + 1] = step[f[n]]
    BY <1>5 DEF Runs
  <1>7. \A n \in Nat : f[n + 1] = IF f[n] = None THEN None ELSE rows[f[n]].next
    BY <1>6
  <1>8. \A n \in Nat : IsValid(f[n]) <=> f[n] # None
    <2> SUFFICES ASSUME NEW n \in Nat
                 PROVE  IsValid(f[n]) <=> f[n] # None
      OBVIOUS
    <2>1. LinkOf(rows, f[n])
      BY DEF LinkOf, ChildrenOf
    <2> QED
      BY <2>1, ValidLinks
  <1>9. f = [n \in Nat |-> IF n = 0 THEN rows[i].first
                           ELSE IF IsValid(f[n - 1]) THEN rows[f[n - 1]].next ELSE None]
    <2>1. ASSUME NEW n \in Nat, n # 0
          PROVE  f[n] = IF IsValid(f[n - 1]) THEN rows[f[n - 1]].next ELSE None
      <3>1. n - 1 \in Nat /\ (n - 1) + 1 = n
        BY <2>1
      <3>2. f[n] = IF f[n - 1] = None THEN None ELSE rows[f[n - 1]].next
        BY <1>7, <3>1
      <3> QED
        BY <1>8, <3>1, <3>2
    <2> HIDE DEF S
    <2> QED
      BY <1>6, <2>1
  <1>10. node = [n \in Nat |-> IF n = 0 THEN rows[i].first
                 ELSE IF IsValid(node[n - 1]) THEN rows[node[n - 1]].next ELSE None]
    BY <1>9
  <1> HIDE DEF node, S
  <1>11. ASSUME NEW n \in Nat
         PROVE  node[n] = f[n]
    <2> DEFINE T == {k \in Nat : node[k] = f[k]}
    <2>1. 0 \in T
      BY <1>6, <1>10
    <2>2. ASSUME NEW k \in Nat, k \in T
          PROVE  k + 1 \in T
      <3>1. k + 1 \in Nat /\ k + 1 # 0 /\ (k + 1) - 1 = k
        OBVIOUS
      <3>2. node[k + 1] = IF IsValid(node[k]) THEN rows[node[k]].next ELSE None
        BY <1>10, <3>1
      <3> QED
        BY <1>7, <1>8, <2>2, <3>1, <3>2
    <2>3. Nat \subseteq T
      <3> HIDE DEF T
      <3> QED
        BY <2>1, <2>2, NumbersByStep
    <2> QED
      BY <2>3
  <1>12. Children(i) = {node[n] : n \in 0 .. Size} \ {None}
    BY DEF Children, node
  <1>13. \A n \in 0 .. Size : node[n] = f[n]
    BY <1>11
  <1>14. Children(i) = {f[n] : n \in 0 .. Size} \ {None}
    BY <1>12, <1>13
  <1> QED
    BY <1>6, <1>7, <1>14 DEF ListOf, S

\* The list of a row has all its children and no other row.
LEMMA ListsComplete ==
  ASSUME Size \in Nat, DOMAIN rows = 0 .. Size - 1, Family(rows),
         NEW order, InOrder(rows, order), NEW i \in DOMAIN rows
  PROVE  Children(i) = ChildrenOf(i)
  <1>1. PICK f \in [Nat -> ChildrenOf(i) \union {None}] :
          ListOf(f, i) /\ Children(i) = {f[n] : n \in 0 .. Size} \ {None}
    BY ChildrenListed
  <1>2. /\ f[0] = rows[i].first
        /\ \A n \in Nat : f[n + 1] = IF f[n] = None THEN None ELSE rows[f[n]].next
    BY <1>1 DEF ListOf
  <1>3. None \notin DOMAIN rows /\ i # None
    BY NoRowIsNone
  <1>4. \A n \in Nat : f[n] # None => f[n] \in DOMAIN rows /\ rows[f[n]].parent = i
    BY DEF ChildrenOf
  <1>5. Cardinality(DOMAIN rows) = Size /\ IsFiniteSet(DOMAIN rows)
    BY FS_Interval DEF Size
  <1> HIDE DEF Size
  <1>6. f[Size] = None
    <2> SUFFICES ASSUME f[Size] # None
                 PROVE  FALSE
      OBVIOUS
    <2>1. \A k \in 0 .. Size : f[k] # None
      <3> DEFINE T == {d \in Nat : d <= Size => f[Size - d] # None}
      <3>1. 0 \in T
        OBVIOUS
      <3>2. ASSUME NEW d \in Nat, d \in T
            PROVE  d + 1 \in T
        <4> SUFFICES ASSUME d + 1 <= Size
                     PROVE  f[Size - (d + 1)] # None
          OBVIOUS
        <4>1. Size - (d + 1) \in Nat /\ (Size - (d + 1)) + 1 = Size - d /\ d <= Size
          OBVIOUS
        <4>2. f[Size - d] # None
          BY <3>2, <4>1
        <4> QED
          BY <1>2, <4>1, <4>2
      <3>3. Nat \subseteq T
        <4> HIDE DEF T
        <4> QED
          BY <3>1, <3>2, NumbersByStep
      <3>4. ASSUME NEW k \in 0 .. Size
            PROVE  f[k] # None
        <4>1. Size - k \in Nat /\ Size - k <= Size /\ Size - (Size - k) = k
          OBVIOUS
        <4> QED
          BY <3>3, <4>1
      <3> QED
        BY <3>4
    <2> DEFINE g == [k \in 0 .. Size |-> f[k]]
    <2>2. g \in [0 .. Size -> DOMAIN rows] /\ \A k \in 0 .. Size : g[k] = f[k]
      BY <1>4, <2>1
    <2>3. ASSUME NEW k \in 0 .. Size - 1
          PROVE  order[f[k]] < order[f[k + 1]]
      <3>1. k \in Nat /\ k \in 0 .. Size /\ k + 1 \in 0 .. Size /\ k + 1 \in Nat
        OBVIOUS
      <3>2. f[k] # None /\ f[k + 1] # None
        BY <2>1, <3>1
      <3>3. f[k] \in DOMAIN rows /\ rows[f[k]].parent = i /\ f[k + 1] = rows[f[k]].next
        BY <1>2, <1>4, <3>1, <3>2
      <3> QED
        BY <1>3, <3>2, <3>3 DEF InOrder
    <2>4. order \in [DOMAIN rows -> Int]
      BY DEF InOrder
    <2> HIDE DEF g
    <2>5. ASSUME NEW k \in 0 .. Size - 1
          PROVE  order[g[k]] < order[g[k + 1]]
      <3>1. k \in 0 .. Size /\ k + 1 \in 0 .. Size
        OBVIOUS
      <3> QED
        BY <2>2, <2>3, <3>1
    <2> QED
      BY <1>5, <2>2, <2>4, <2>5, NoLongClimb
  <1>7. Children(i) \subseteq ChildrenOf(i)
    BY <1>1
  <1>8. ASSUME ChildrenOf(i) \ Children(i) # {}
        PROVE  FALSE
    <2> DEFINE D == ChildrenOf(i) \ Children(i)
               T == {order[x] : x \in D}
    <2>1. T \subseteq Nat /\ T # {}
      BY <1>8 DEF InOrder, ChildrenOf
    <2>2. PICK t \in T : \A v \in T : t <= v
      <3> HIDE DEF T
      <3> QED
        BY <2>1, LeastNumber
    <2>3. PICK x \in D : order[x] = t
      BY <2>2
    <2>4. x \in DOMAIN rows /\ rows[x].parent = i /\ x \notin Children(i) /\ x # None
      BY <1>3, <2>3 DEF ChildrenOf
    <2>5. CASE rows[x].prev = None
      <3>1. f[0] = x
        BY <1>2, <1>3, <2>4, <2>5 DEF Family
      <3>2. 0 \in 0 .. Size
        OBVIOUS
      <3> QED
        BY <1>1, <2>4, <3>1, <3>2
    <2>6. CASE rows[x].prev # None
      <3> DEFINE y == rows[x].prev
      <3>1. y \in DOMAIN rows /\ rows[y].next = x /\ rows[y].parent = i
        BY <1>3, <2>4, <2>6 DEF Family, LinkOf
      <3>2. order[y] < order[x] /\ order[y] \in Nat /\ order[x] \in Nat
        BY <1>3, <2>4, <3>1 DEF InOrder
      <3>3. y \in Children(i)
        <4> SUFFICES ASSUME y \notin Children(i)
                     PROVE  FALSE
          OBVIOUS
        <4>1. y \in D
          BY <3>1 DEF ChildrenOf
        <4>2. order[x] <= order[y]
          BY <2>2, <2>3, <4>1
        <4> QED
          BY <3>2, <4>2
      <3>4. PICK n \in 0 .. Size : f[n] = y
        BY <1>1, <3>3
      <3>5. n \in Nat /\ n + 1 \in 0 .. Size
        BY <1>3, <1>6, <3>1, <3>4
      <3>6. f[n + 1] = x
        BY <1>2, <1>3, <3>1, <3>4, <3>5
      <3> QED
        BY <1>1, <2>4, <3>5, <3>6
    <2> QED
      BY <2>5, <2>6
  <1> QED
    BY <1>7, <1>8

\* So the invariant is what HierarchySound says.
LEMMA HierSound == HierInv /\ Apart => HierarchySound
  <1> SUFFICES ASSUME HierInv, Apart, damage \subseteq {"map"}
               PROVE  /\ ~hung
                      /\ calls = <<>> => \A i \in DOMAIN rows :
                           /\ Children(i) = {c \in DOMAIN rows :
                                               parentOf[rows[c].entity] = rows[i].entity}
                           /\ \A c \in Children(i) :
                                /\ rows[c].parent = i
                                /\ rows[c].world = Times(rows[c].local, rows[i].world)
                                /\ IF rows[i].first = c THEN rows[c].prev = None
                                   ELSE IsValid(rows[c].prev) /\ rows[rows[c].prev].next = c
    BY DEF HierarchySound
  <1>1. Hierarchy /\ (\E due : Traversal(rows, calls, left, due)) /\ ~hung
    BY DEF HierInv, Hierarchy
  <1>2. PICK order, depth : InOrder(rows, order) /\ Deeper(parentOf, depth)
    BY <1>1 DEF Hierarchy
  <1>3. Size \in Nat /\ DOMAIN rows = 0 .. Size - 1 /\ None \notin DOMAIN rows
    BY ColumnOfRows, NoRowIsNone
  <1>4. /\ Family(rows) /\ Asked(rows, parentOf, added)
        /\ \A c \in DOMAIN rows : rows[c].entity \in Entities
        /\ \A c, j \in DOMAIN rows : rows[c].entity = rows[j].entity => c = j
    BY <1>1 DEF Hierarchy, Apart
  <1> SUFFICES ASSUME calls = <<>>, NEW i \in DOMAIN rows
               PROVE  /\ Children(i) = {c \in DOMAIN rows :
                                          parentOf[rows[c].entity] = rows[i].entity}
                      /\ \A c \in Children(i) :
                           /\ rows[c].parent = i
                           /\ rows[c].world = Times(rows[c].local, rows[i].world)
                           /\ IF rows[i].first = c THEN rows[c].prev = None
                              ELSE IsValid(rows[c].prev) /\ rows[rows[c].prev].next = c
    BY <1>1
  <1>5. Children(i) = ChildrenOf(i)
    BY <1>2, <1>3, <1>4, ListsComplete
  <1>6. ASSUME NEW c \in DOMAIN rows
        PROVE  rows[c].parent = i <=> parentOf[rows[c].entity] = rows[i].entity
    <2>1. parentOf[rows[c].entity] = IF rows[c].parent = None THEN NoEntity
                                     ELSE rows[rows[c].parent].entity
      BY <1>4 DEF Asked
    <2>2. rows[i].entity # NoEntity /\ i # None
      BY <1>3, <1>4, TransformAssumption
    <2>3. rows[c].parent # None => rows[c].parent \in DOMAIN rows
      BY <1>4 DEF Family, LinkOf
    <2> QED
      BY <1>4, <2>1, <2>2, <2>3
  <1>7. ASSUME NEW c \in Children(i)
        PROVE  /\ rows[c].parent = i
               /\ rows[c].world = Times(rows[c].local, rows[i].world)
               /\ IF rows[i].first = c THEN rows[c].prev = None
                  ELSE IsValid(rows[c].prev) /\ rows[rows[c].prev].next = c
    <2>1. c \in DOMAIN rows /\ rows[c].parent = i /\ i # None /\ c # None
      BY <1>3, <1>5 DEF ChildrenOf
    <2>2. rows[c].world = Times(rows[c].local, rows[i].world)
      <3>1. PICK due : Traversal(rows, calls, left, due)
        BY <1>1
      <3>2. due = {}
        BY <1>2, <1>3, <1>4, <3>1, NoneLeftDue DEF Traversal
      <3>3. Follows(rows, c)
        BY <2>1, <3>1, <3>2 DEF Traversal
      <3> QED
        BY <2>1, <3>3 DEF Follows
    <2>3. rows[i].first = c => rows[c].prev = None
      BY <1>4, <2>1 DEF Family
    <2>4. ASSUME rows[i].first # c
          PROVE  IsValid(rows[c].prev) /\ rows[rows[c].prev].next = c
      <3>1. rows[c].prev # None /\ LinkOf(rows, rows[c].prev)
        BY <1>4, <2>1, <2>4 DEF Family
      <3>2. rows[rows[c].prev].next = c
        BY <1>4, <2>1, <3>1 DEF Family
      <3> QED
        BY <1>3, <3>1, <3>2, ValidLinks
    <2> QED
      BY <2>1, <2>2, <2>3, <2>4
  <1> QED
    BY <1>5, <1>6, <1>7 DEF ChildrenOf

----------------------------------------------------------------------------
\* While the subject is one component, every step is one of its own.
LEMMA ComponentsApart ==
  SceneNext \/ UNCHANGED sceneVars => [Next]_vars /\ [MeshMap!Next]_meshVars
  BY DEF SceneNext, IsSubject, sceneVars

\* Whatever is added, destroyed, collected and re-parented, and whatever the
\* hash table answers: swap's place past the last row lies inside the arrays,
\* no entity has two transforms, and none loses its transform while it lives.
THEOREM RowsStayApart == SceneSpec => []RowsKeptApart
  <1>1. Apart => RowsKeptApart
    BY SizeOfRows DEF Apart, RowsKeptApart
  <1>2. SceneInit => Apart
    BY ApartAtFirst DEF SceneInit
  <1>3. Apart /\ [SceneNext]_sceneVars => Apart'
    BY ApartInductive, ComponentsApart
  <1> QED
    BY <1>1, <1>2, <1>3, PTL DEF SceneSpec

\* lookup finds the transform of every entity that has one and of no other, in any
\* order of additions and collections and however the table grows, until a growth
\* or a removal links an entry again that erase left behind (hash.h:127).
THEOREM MapStaysInverse == SceneSpec => []MapIsInverse
  <1>1. Apart /\ MapInv => MapIsInverse
    <2> SUFFICES ASSUME Apart, MapInv, "map" \notin damage, NEW e \in Entities
                 PROVE  /\ \A i \in DOMAIN rows :
                             rows[i].entity = e => HashHas(map, e) /\ HashGet(map, e, 0) = i
                        /\ HashHas(map, e) => \E i \in DOMAIN rows : rows[i].entity = e
      BY DEF MapIsInverse, Lookup
    <2>1. Inverts(map, Column, Size)
      BY DEF MapInv
    <2>2. /\ Size \in Nat /\ DOMAIN rows = 0 .. Size - 1
          /\ \A k \in 0 .. Size - 1 : Column[k] = rows[k].entity
      BY ColumnOfRows
    <2>3. e \in Nat
      BY TransformAssumption
    <2> HIDE DEF Size
    <2>4. /\ \A k \in 0 .. Size - 1 :
               Column[k] = e => HashHas(map, e) /\ HashGet(map, e, 0) = k
          /\ HashHas(map, e) => \E k \in 0 .. Size - 1 : Column[k] = e
      BY <2>1, <2>2, <2>3, InvertsFinds
    <2> QED
      BY <2>2, <2>4
  <1>2. SceneInit => Apart /\ MapInv
    BY ApartAtFirst, MapAtFirst DEF SceneInit
  <1>3. Apart /\ MapInv /\ [SceneNext]_sceneVars => Apart' /\ MapInv'
    BY ApartInductive, MapInductive, ComponentsApart
  <1> QED
    BY <1>1, <1>2, <1>3, PTL DEF SceneSpec

\* As long as no row with links was moved and no row left a previous sibling behind:
\* for every number of entities, every sequence of additions, re-parentings, matrices
\* and collections leaves sibling lists that are linked both ways and hold exactly
\* the children that were asked for; transform reaches every one of them, so that
\* each child's world matrix is its local one times its parent's; and it ends.
THEOREM HierarchyStaysSound == SceneSpec => []HierarchySound
  <1>1. SceneInit => Apart /\ MapInv /\ HierInv
    BY ApartAtFirst, MapAtFirst, HierAtFirst DEF SceneInit
  <1>2. Apart /\ MapInv /\ HierInv /\ [SceneNext]_sceneVars => Apart' /\ MapInv' /\ HierInv'
    BY ApartInductive, MapInductive, HierInductive, ComponentsApart
  <1> QED
    BY <1>1, <1>2, HierSound, PTL DEF SceneSpec

\* An entity that was given one mesh keeps it through all the moves of destroy, and
\* lookup finds it exactly where it is.
THEOREM MeshesStay == SceneSpec => []MeshesKept
  <1>1. MeshInv => MeshesKept
    BY MeshesAreFound DEF MeshesKept
  <1>2. SceneInit => MeshInv
    BY MeshAtFirst DEF SceneInit
  <1>3. MeshInv /\ [SceneNext]_sceneVars => MeshInv'
    BY MeshInductive, ComponentsApart
  <1> QED
    BY <1>1, <1>2, <1>3, PTL DEF SceneSpec

============================================================================

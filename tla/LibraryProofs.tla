---------------------------- MODULE LibraryProofs ----------------------------
(***************************************************************************)
(* Proofs about the containers and tools of Library, for every value of    *)
(* their parameters: one inductive invariant of LibraryInvariants for each.*)
(***************************************************************************)
EXTENDS LibraryInvariants, FiniteSetTheorems, WellFoundedInduction, TLAPS

----------------------------------------------------------------------------
(* Numbers: induction, and definitions by it.                              *)

\* A set of numbers that is not empty has a least one.
LEMMA LeastNumber ==
  ASSUME NEW T, T \subseteq Nat, T # {}
  PROVE  \E x \in T : \A y \in T : x <= y
  <1>1. PICK x \in T : \A y \in T : ~ (<<y, x>> \in OpToRel(<, Nat))
    BY NatLessThanWellFounded, WFMin
  <1>2. ASSUME NEW y \in T
        PROVE  x <= y
    <2>1. ~ (<<y, x>> \in OpToRel(<, Nat)) BY <1>1
    <2>2. ~ (y < x) BY <2>1 DEF OpToRel
    <2> QED BY <2>2
  <1> QED BY <1>2

\* What holds of 0 and of the successors of what it holds of holds of them all.
LEMMA NumbersByStep ==
  ASSUME NEW T, 0 \in T, \A n \in Nat : n \in T => n + 1 \in T
  PROVE  Nat \subseteq T
  <1> DEFINE U == Nat \ T
  <1>1. SUFFICES ASSUME U # {}
                 PROVE  FALSE
    OBVIOUS
  <1>2. PICK n \in U : \A m \in U : n <= m
    <2> HIDE DEF U
    <2>1. U \subseteq Nat BY DEF U
    <2> QED BY <1>1, <2>1, LeastNumber
  <1>3. n - 1 \in Nat /\ (n - 1) + 1 = n /\ n - 1 \notin U BY <1>2
  <1> QED BY <1>2, <1>3

\* next is what the nth of the numbers of a run are followed by.
Runs(f, first, next) ==
  /\ f[0] = first
  /\ \A n \in Nat : f[n + 1] = next[n][f[n]]

\* The runs of n + 1 members of S.
RunsTo(n, S, first, next) ==
  {p \in [0 .. n -> S] : p[0] = first /\ \A k \in 0 .. n - 1 : p[k + 1] = next[k][p[k]]}

\* There is a run of every length.
LEMMA RunOfEveryLength ==
  ASSUME NEW S, NEW first \in S, NEW next \in [Nat -> [S -> S]], NEW n \in Nat
  PROVE  RunsTo(n, S, first, next) # {}
  <1> DEFINE T == {k \in Nat : RunsTo(k, S, first, next) = {}}
  <1>1. SUFFICES ASSUME T # {}
                 PROVE  FALSE
    OBVIOUS
  <1>2. PICK m \in T : \A k \in T : m <= k
    <2> HIDE DEF T
    <2>1. T \subseteq Nat BY DEF T
    <2> QED BY <1>1, <2>1, LeastNumber
  <1>3. m # 0
    <2>1. [k \in 0 .. 0 |-> first] \in RunsTo(0, S, first, next) BY DEF RunsTo
    <2> QED BY <2>1
  <1>4. PICK p : p \in RunsTo(m - 1, S, first, next)
    <2>1. m - 1 \in Nat /\ m - 1 \notin T BY <1>2, <1>3
    <2> QED BY <2>1
  <1> DEFINE q == [k \in 0 .. m |-> IF k = m THEN next[m - 1][p[m - 1]] ELSE p[k]]
  <1>5. q \in RunsTo(m, S, first, next)
    <2>1. m \in Nat /\ m - 1 \in Nat BY <1>3
    <2>2. /\ p \in [0 .. m - 1 -> S] /\ p[0] = first
          /\ \A k \in 0 .. (m - 1) - 1 : p[k + 1] = next[k][p[k]]
      BY <1>4 DEF RunsTo
    <2>3. q \in [0 .. m -> S] BY <2>1, <2>2
    <2>4. q[0] = first BY <1>3, <2>1, <2>2
    <2>5. ASSUME NEW k \in 0 .. m - 1
          PROVE  q[k + 1] = next[k][q[k]]
      <3>1. CASE k = m - 1 BY <2>1, <3>1
      <3>2. CASE k # m - 1 BY <2>1, <2>2, <3>2
      <3> QED BY <3>1, <3>2
    <2> QED BY <2>3, <2>4, <2>5 DEF RunsTo
  <1> QED BY <1>5

\* Two runs agree as far as both go.
LEMMA RunsAgree ==
  ASSUME NEW S, NEW first, NEW next, NEW n \in Nat, NEW m \in Nat,
         NEW p \in RunsTo(n, S, first, next), NEW q \in RunsTo(m, S, first, next)
  PROVE  \A k \in 0 .. n : k <= m => p[k] = q[k]
  <1> DEFINE T == {k \in 0 .. n : k <= m /\ p[k] # q[k]}
  <1>1. SUFFICES ASSUME T # {}
                 PROVE  FALSE
    OBVIOUS
  <1>2. PICK k \in T : \A j \in T : k <= j
    <2> HIDE DEF T
    <2>1. T \subseteq Nat BY DEF T
    <2> QED BY <1>1, <2>1, LeastNumber
  <1>3. k # 0 BY DEF RunsTo
  <1>4. k - 1 \in 0 .. n - 1 /\ k - 1 \in 0 .. m - 1 /\ (k - 1) + 1 = k BY <1>3
  <1>5. p[k - 1] = q[k - 1] BY <1>2, <1>4
  <1>6. p[k] = next[k - 1][p[k - 1]] /\ q[k] = next[k - 1][q[k - 1]]
    BY <1>4 DEF RunsTo
  <1> QED BY <1>5, <1>6

\* So a function on the numbers may be defined by a first value and the step from
\* each to the next.
LEMMA RunExists ==
  ASSUME NEW S, NEW first \in S, NEW next \in [Nat -> [S -> S]]
  PROVE  \E f \in [Nat -> S] : Runs(f, first, next)
  <1> DEFINE run(n) == CHOOSE p : p \in RunsTo(n, S, first, next)
             f == [n \in Nat |-> run(n)[n]]
  <1>1. \A n \in Nat : run(n) \in RunsTo(n, S, first, next) BY RunOfEveryLength
  <1> HIDE DEF run
  <1>2. \A n \in Nat : run(n) \in [0 .. n -> S] BY <1>1 DEF RunsTo
  <1>3. f \in [Nat -> S] BY <1>2
  <1>4. f[0] = first BY <1>1 DEF RunsTo
  <1>5. ASSUME NEW n \in Nat
        PROVE  f[n + 1] = next[n][f[n]]
    <2>1. run(n + 1) \in RunsTo(n + 1, S, first, next) /\ run(n) \in RunsTo(n, S, first, next)
      BY <1>1
    <2>2. run(n)[n] = run(n + 1)[n] BY <2>1, RunsAgree
    <2>3. run(n + 1)[n + 1] = next[n][run(n + 1)[n]] BY <2>1 DEF RunsTo
    <2> QED BY <2>2, <2>3
  <1> QED BY <1>3, <1>4, <1>5 DEF Runs

----------------------------------------------------------------------------
(* SlotMap: every chunk size and every width of the index and version fields. *)

\* What a bit field keeps of a number.
LEMMA Truncation ==
  ASSUME NEW a \in Nat, NEW n \in Nat \ {0}
  PROVE  /\ a % n \in 0 .. n - 1
         /\ a % n <= a
         /\ a < n => a % n = a
  OBVIOUS

\* The slots of n chunks, and of one more.
LEMMA ChunkSlots ==
  ASSUME NEW n \in Nat
  PROVE  /\ n * ChunkSize \in Nat
         /\ (n + 1) * ChunkSize = n * ChunkSize + ChunkSize
         /\ SlotsOf(n) \subseteq Nat
         /\ \A s \in Int : s \in SlotsOf(n) <=> 0 <= s /\ s < n * ChunkSize
         /\ \A s \in Int : s \in SlotsOf(n + 1) <=> 0 <= s /\ s < n * ChunkSize + ChunkSize
         /\ n > 0 => 0 \in SlotsOf(n)
  <1>1. n * ChunkSize \in Nat /\ (n + 1) * ChunkSize = n * ChunkSize + ChunkSize
    BY SlotMapAssumption
  <1>2. n > 0 => n * ChunkSize > 0 BY SlotMapAssumption
  <1> QED BY <1>1, <1>2, SlotMapAssumption DEF SlotsOf

----------------------------------------------------------------------------
(* Types.                                                                  *)

\* Every slot that is issued has the id that create stores in it.
LEMMA IssueTypes ==
  ASSUME TypeOK, IndicesBelow,
         NEW n \in Nat, NEW s \in SlotsOf(n), NEW stored \in [SlotsOf(n) -> Ids],
         \A r \in SlotsOf(n) : stored[r].index <= r,
         Issue(s, stored), chunks' = n
  PROVE  /\ object' \in [SlotsOf(chunks') -> Ids]
         /\ live' \in SUBSET Ids
         /\ issued' \in SUBSET Ids
         /\ exhausted' \in BOOLEAN
         /\ IndicesBelow'
         /\ Id(s % Indices, stored[s].version) \in Ids
  <1> DEFINE id == Id(s % Indices, stored[s].version)
  <1>1. s \in Nat /\ s % Indices \in 0 .. Indices - 1 /\ s % Indices <= s
    BY ChunkSlots, Truncation, SlotMapAssumption
  <1>2. id \in Ids /\ id.index <= s BY <1>1 DEF Id, Ids
  <1>3. object' = [stored EXCEPT ![s] = id] BY DEF Issue
  <1>4. object' \in [SlotsOf(n) -> Ids] /\ \A r \in SlotsOf(n) : object'[r].index <= r
    BY <1>2, <1>3
  <1>5. live' = live \union {id} /\ issued' = issued \union {id} /\ exhausted' \in BOOLEAN
    BY DEF Issue
  <1> QED BY <1>2, <1>4, <1>5 DEF TypeOK, IndicesBelow

\* The storage after a chunk was added.
LEMMA NewChunk ==
  ASSUME TypeOK, IndicesBelow
  PROVE  /\ WithNewChunk \in [SlotsOf(chunks + 1) -> Ids]
         /\ \A r \in SlotsOf(chunks + 1) : WithNewChunk[r].index <= r
         /\ \A r \in SlotsOf(chunks) : r \in SlotsOf(chunks + 1) /\ WithNewChunk[r] = object[r]
         /\ SlotCount \in SlotsOf(chunks + 1)
         /\ chunks = 0 => WithNewChunk[0] = Id(0, 1)
  <1>1. chunks \in Nat /\ SlotCount \in Nat BY ChunkSlots DEF TypeOK, SlotCount
  <1>2. ASSUME NEW r \in SlotsOf(chunks)
        PROVE  r < SlotCount /\ r \in SlotsOf(chunks + 1)
    BY <1>1, ChunkSlots, SlotMapAssumption DEF SlotCount
  <1>3. ASSUME NEW r \in SlotsOf(chunks + 1), ~(r < SlotCount)
        PROVE  r \in Nat /\ r \notin SlotsOf(chunks)
    BY <1>1, <1>3, ChunkSlots DEF SlotCount
  <1>4. Id(0, 1) \in Ids /\ NullId \in Ids
    BY SlotMapAssumption DEF Id, NullId, Ids
  <1>5. ASSUME NEW r \in SlotsOf(chunks + 1)
        PROVE  /\ r < SlotCount => r \in SlotsOf(chunks) /\ WithNewChunk[r] = object[r]
               /\ ~(r < SlotCount) => WithNewChunk[r] \in {Id(0, 1), NullId}
    BY <1>1, ChunkSlots DEF WithNewChunk, SlotCount
  <1>6. WithNewChunk \in [SlotsOf(chunks + 1) -> Ids]
    <2>1. ASSUME NEW r \in SlotsOf(chunks + 1)
          PROVE  WithNewChunk[r] \in Ids
      BY <1>4, <1>5 DEF TypeOK
    <2> QED BY <2>1 DEF WithNewChunk
  <1>7. ASSUME NEW r \in SlotsOf(chunks + 1)
        PROVE  WithNewChunk[r].index <= r
    <2>1. CASE r < SlotCount BY <2>1, <1>5 DEF IndicesBelow
    <2>2. CASE ~(r < SlotCount) BY <2>2, <1>3, <1>5 DEF Id, NullId
    <2> QED BY <2>1, <2>2
  <1>8. SlotCount \in SlotsOf(chunks + 1)
    BY <1>1, ChunkSlots, SlotMapAssumption DEF SlotCount
  <1>9. chunks = 0 => WithNewChunk[0] = Id(0, 1)
    BY <1>1, <1>8, ChunkSlots, SlotMapAssumption DEF WithNewChunk, SlotCount
  <1> QED BY <1>2, <1>5, <1>6, <1>7, <1>8, <1>9

\* Every value fits the field it is stored in, every slot on the free list
\* exists, and no object stores an index beyond its own slot, whatever program
\* calls create and destroy (the chunk lookup of line 78 stays in bounds).
LEMMA TypesKept == TypeOK /\ IndicesBelow /\ [Next]_vars => (TypeOK /\ IndicesBelow)'
  <1> SUFFICES ASSUME TypeOK, IndicesBelow, [Next]_vars
               PROVE  (TypeOK /\ IndicesBelow)'
    OBVIOUS
  <1>0. chunks \in Nat /\ SlotCount \in Nat BY ChunkSlots DEF TypeOK, SlotCount
  <1>1. CASE CreateFromFreeList
    <2> DEFINE s == freeList[Len(freeList)]
    <2>1. s \in SlotsOf(chunks) /\ freeList' \in Seq(SlotsOf(chunks))
      BY <1>1 DEF CreateFromFreeList, TypeOK
    <2>2. /\ object' \in [SlotsOf(chunks') -> Ids]
          /\ live' \in SUBSET Ids /\ issued' \in SUBSET Ids
          /\ exhausted' \in BOOLEAN
          /\ IndicesBelow'
      BY <1>0, <1>1, <2>1, IssueTypes DEF CreateFromFreeList, TypeOK, IndicesBelow
    <2> QED BY <1>1, <2>1, <2>2 DEF CreateFromFreeList, TypeOK
  <1>2. CASE CreateFromNewChunk
    <2>1. /\ object' \in [SlotsOf(chunks') -> Ids]
          /\ live' \in SUBSET Ids /\ issued' \in SUBSET Ids
          /\ exhausted' \in BOOLEAN
          /\ IndicesBelow'
      BY <1>0, <1>2, NewChunk, IssueTypes DEF CreateFromNewChunk
    <2>2. \A k \in 1 .. ChunkSize - 1 : SlotCount + ChunkSize - k \in SlotsOf(chunks + 1)
      BY <1>0, ChunkSlots, SlotMapAssumption DEF SlotCount
    <2>3. freeList' \in Seq(SlotsOf(chunks'))
      BY <1>2, <2>2, SlotMapAssumption DEF CreateFromNewChunk
    <2> QED BY <1>0, <1>2, <2>1, <2>3 DEF CreateFromNewChunk, TypeOK
  <1>3. ASSUME NEW id \in issued, Destroy(id)
        PROVE  (TypeOK /\ IndicesBelow)'
    <2>1. CASE Alive(id)
      <3>1. id \in Ids /\ id.index \in SlotsOf(chunks) /\ object[id.index] = id
        BY <1>0, <2>1, ChunkSlots DEF Alive, TypeOK, Ids, SlotCount
      <3>2. (id.version + 1) % Versions \in 0 .. Versions - 1
        <4>1. id.version + 1 \in Nat /\ Versions \in Nat \ {0}
          BY <3>1, SlotMapAssumption DEF Ids
        <4> QED BY <4>1, Truncation
      <3> DEFINE freed == Id(id.index, (id.version + 1) % Versions)
      <3>3. freed \in Ids /\ freed.index = id.index BY <3>1, <3>2 DEF Id, Ids
      <3>4. object' = [object EXCEPT ![id.index] = freed]
        BY <1>3, <2>1, <3>1 DEF Destroy
      <3>6. /\ object' \in [SlotsOf(chunks) -> Ids]
            /\ \A r \in SlotsOf(chunks) : object'[r].index = object[r].index
        BY <3>1, <3>3, <3>4 DEF TypeOK
      <3>5. freeList' \in Seq(SlotsOf(chunks))
        BY <1>3, <2>1, <3>1 DEF Destroy, TypeOK
      <3> QED BY <1>3, <2>1, <3>5, <3>6 DEF Destroy, TypeOK, IndicesBelow
    <2>2. CASE ~Alive(id) BY <1>3, <2>2 DEF Destroy, TypeOK, IndicesBelow
    <2> QED BY <2>1, <2>2
  <1>4. CASE UNCHANGED vars BY <1>4 DEF vars, TypeOK, IndicesBelow
  <1> QED BY <1>1, <1>2, <1>3, <1>4 DEF Next, Create

----------------------------------------------------------------------------
(* Soundness, while no field is exhausted.                                 *)

\* Issuing a slot of which no id is live.
LEMMA IssueSound ==
  ASSUME TypeOK, IndicesBelow,
         NEW n \in Nat, NEW s \in SlotsOf(n), NEW stored \in [SlotsOf(n) -> Ids],
         \A r \in SlotsOf(n) : stored[r].index <= r,
         \A id \in issued :
           /\ id.index \in SlotsOf(n)
           /\ id.version <= stored[id.index].version
           /\ id \notin live => id.version < stored[id.index].version,
         \A id \in live :
           id \in issued /\ id.index \in SlotsOf(n) /\ stored[id.index] = id,
         stored[0].version > 0,
         \A id \in live : id.index # s,
         Issue(s, stored), chunks' = n, ~exhausted'
  PROVE  /\ IssuedOlder' /\ LiveStored' /\ NullReserved'
         /\ live' = live \union {Id(s, stored[s].version)}
         /\ issued' = issued \union {Id(s, stored[s].version)}
         /\ Id(s, stored[s].version) \in Ids \ (issued \union {NullId})
  <1> DEFINE new == Id(s, stored[s].version)
  <1>0. s \in Nat /\ ~(s >= Indices)
    <2>1. ~(s >= Indices) BY Zenon DEF Issue
    <2> QED BY <2>1, ChunkSlots
  <1>1. s \in Nat /\ s < Indices /\ s % Indices = s
    <2>1. Indices \in Nat \ {0} /\ s < Indices BY <1>0, SlotMapAssumption
    <2> QED BY <1>0, <2>1, Truncation
  <1>2. new \in Ids /\ new.index = s /\ new.version = stored[s].version
    BY <1>1, SlotMapAssumption DEF Id, Ids
  <1>3. new \notin issued BY <1>2 DEF TypeOK, Ids
  <1>4. new # NullId BY <1>2 DEF Id, NullId
  <1>5. /\ object' = [stored EXCEPT ![s] = new]
        /\ live' = live \union {new}
        /\ issued' = issued \union {new}
    BY <1>1 DEF Issue
  <1>6. \A r \in SlotsOf(n) : object'[r].version = stored[r].version
    BY <1>2, <1>5
  <1>7. IssuedOlder' BY <1>2, <1>5, <1>6, SlotMapAssumption DEF IssuedOlder, Ids
  <1>8. LiveStored' BY <1>2, <1>5 DEF LiveStored
  <1>9. NullReserved' BY <1>6, ChunkSlots DEF NullReserved
  <1> QED BY <1>2, <1>3, <1>4, <1>5, <1>7, <1>8, <1>9

\* Creating an id from the free list,
LEMMA FromFreeListSound ==
  ASSUME TypeOK, IndicesBelow, Sound, CreateFromFreeList, ~exhausted'
  PROVE  Sound' /\ \E id : Created(id)
  <1> DEFINE s == freeList[Len(freeList)]
             new == Id(s, object[s].version)
  <1>0. chunks \in Nat /\ s \in SlotsOf(chunks) /\ IsFree(s) /\ chunks > 0
    <2>1. chunks \in Nat /\ s \in SlotsOf(chunks) /\ IsFree(s)
      BY DEF CreateFromFreeList, TypeOK, IsFree
    <2> QED BY <2>1, SlotMapAssumption DEF SlotsOf
  <1>1. \A id \in live : id.index # s BY <1>0 DEF Sound, FreeOrLive
  <1>2. /\ IssuedOlder' /\ LiveStored' /\ NullReserved'
        /\ live' = live \union {new}
        /\ issued' = issued \union {new}
        /\ new \in Ids \ (issued \union {NullId})
    BY <1>0, <1>1, IssueSound
    DEF CreateFromFreeList, Sound, TypeOK, IndicesBelow, IssuedOlder, LiveStored, NullReserved
  <1>3. /\ Len(freeList) \in Nat \ {0}
        /\ DOMAIN freeList' = 1 .. Len(freeList) - 1
        /\ \A k \in 1 .. Len(freeList) - 1 : freeList'[k] = freeList[k]
        /\ chunks' = chunks
    BY DEF CreateFromFreeList, TypeOK
  <1>4. DOMAIN freeList = 1 .. Len(freeList) BY DEF TypeOK
  <1>5. FreeOnce' BY <1>3, <1>4 DEF Sound, FreeOnce
  <1>6. ASSUME NEW r \in SlotsOf(chunks)
        PROVE  IsFree(r)' <=> IsFree(r) /\ r # s
    BY <1>3, <1>4 DEF Sound, FreeOnce, IsFree
  <1>7. new.index = s BY DEF Id
  <1>8. FreeOrLive' BY <1>2, <1>3, <1>6, <1>7 DEF Sound, FreeOrLive
  <1> QED BY <1>2, <1>5, <1>8 DEF Sound, Created

\* and from a new chunk, keeps the slots sound.
LEMMA FromNewChunkSound ==
  ASSUME TypeOK, IndicesBelow, Sound, CreateFromNewChunk, ~exhausted'
  PROVE  Sound' /\ \E id : Created(id)
  <1> DEFINE new == Id(SlotCount, WithNewChunk[SlotCount].version)
  <1>0. chunks \in Nat /\ SlotCount \in Nat /\ SlotsOf(chunks) \subseteq Nat
    BY ChunkSlots DEF TypeOK, SlotCount
  <1>1. \A r \in SlotsOf(chunks) : r # SlotCount /\ ~IsFree(r)
    BY <1>0, ChunkSlots DEF CreateFromNewChunk, IsFree, SlotCount
  <1>2. \A id \in live : id.index \in SlotsOf(chunks) /\ id.index # SlotCount
    BY <1>1 DEF Sound, LiveStored
  <1>3. WithNewChunk[0].version > 0
    <2>1. CASE chunks = 0 BY <2>1, NewChunk DEF Id
    <2>2. CASE chunks > 0
      BY <1>0, <2>2, NewChunk, ChunkSlots DEF Sound, NullReserved
    <2> QED BY <1>0, <2>1, <2>2
  <1>4. /\ IssuedOlder' /\ LiveStored' /\ NullReserved'
        /\ live' = live \union {new}
        /\ issued' = issued \union {new}
        /\ new \in Ids \ (issued \union {NullId})
    <2>1. chunks + 1 \in Nat /\ chunks' = chunks + 1 /\ Issue(SlotCount, WithNewChunk)
      BY <1>0 DEF CreateFromNewChunk
    <2>2. \A id \in issued :
            /\ id.index \in SlotsOf(chunks + 1)
            /\ id.version <= WithNewChunk[id.index].version
            /\ id \notin live => id.version < WithNewChunk[id.index].version
      BY NewChunk DEF Sound, IssuedOlder
    <2>3. \A id \in live :
            id \in issued /\ id.index \in SlotsOf(chunks + 1) /\ WithNewChunk[id.index] = id
      BY NewChunk DEF Sound, LiveStored
    <2> QED BY <1>2, <1>3, <2>1, <2>2, <2>3, NewChunk, IssueSound
  <1>5. /\ DOMAIN freeList' = 1 .. ChunkSize - 1
        /\ \A k \in 1 .. ChunkSize - 1 : freeList'[k] = SlotCount + ChunkSize - k
        /\ chunks' = chunks + 1
    BY DEF CreateFromNewChunk
  <1>6. FreeOnce' BY <1>0, <1>5, SlotMapAssumption DEF FreeOnce
  <1>7. ASSUME NEW r \in SlotsOf(chunks + 1)
        PROVE  IsFree(r)' <=> r > SlotCount
    <2>1. r \in Nat /\ r < SlotCount + ChunkSize
      BY <1>0, ChunkSlots DEF SlotCount
    <2>2. ASSUME r > SlotCount
          PROVE  IsFree(r)'
      <3>1. SlotCount + ChunkSize - r \in 1 .. ChunkSize - 1
        BY <1>0, <2>1, <2>2, SlotMapAssumption
      <3>2. freeList'[SlotCount + ChunkSize - r] = r
        BY <1>0, <1>5, <2>1, <3>1, SlotMapAssumption
      <3> QED BY <1>5, <3>1, <3>2 DEF IsFree
    <2>3. ASSUME IsFree(r)'
          PROVE  r > SlotCount
      BY <1>0, <1>5, <2>3, SlotMapAssumption DEF IsFree
    <2> QED BY <2>2, <2>3
  <1>8. new.index = SlotCount BY DEF Id
  <1>9. FreeOrLive'
    <2>1. ASSUME NEW r \in SlotsOf(chunks + 1)
          PROVE  r > SlotCount <=> ~\E id \in live' : id.index = r
      <3>1. r \in Nat /\ (r < SlotCount => r \in SlotsOf(chunks))
        BY <1>0, ChunkSlots DEF SlotCount
      <3>2. CASE r < SlotCount
        BY <1>0, <1>1, <1>4, <3>1, <3>2 DEF Sound, FreeOrLive
      <3>3. CASE r = SlotCount BY <1>0, <1>4, <1>8, <3>3
      <3>4. CASE r > SlotCount
        <4>1. r \notin SlotsOf(chunks)
          BY <1>0, <3>1, <3>4, ChunkSlots DEF SlotCount
        <4> QED BY <1>0, <1>2, <1>4, <1>8, <3>4, <4>1
      <3> QED BY <1>0, <3>1, <3>2, <3>3, <3>4
    <2> QED BY <1>5, <1>7, <2>1 DEF FreeOrLive
  <1> QED BY <1>4, <1>6, <1>9 DEF Sound, Created

\* An id that resolves is live, and destroying it is all that happens.
LEMMA DestroySound ==
  ASSUME TypeOK, IndicesBelow, Sound, NEW id \in issued, Destroy(id), ~exhausted'
  PROVE  /\ Sound'
         /\ \/ id \in live /\ live' = live \ {id} /\ issued' = issued
            \/ live' = live /\ issued' = issued
  <1>0. chunks \in Nat /\ SlotsOf(chunks) \subseteq Nat BY ChunkSlots DEF TypeOK
  <1>1. CASE Alive(id)
    <2>1. id \in Ids /\ id.index \in SlotsOf(chunks) /\ object[id.index] = id /\ id \in live
      BY <1>1 DEF Alive, TypeOK, Sound, IssuedOlder, Ids
    <2>2. ~(id.version + 1 = Versions) BY <1>1, Zenon DEF Destroy
    <2>3. (id.version + 1) % Versions = id.version + 1
      <3>1. id.version + 1 \in Nat /\ Versions \in Nat \ {0} /\ id.version + 1 < Versions
        BY <2>1, <2>2, SlotMapAssumption DEF Ids
      <3> QED BY <3>1, Truncation
    <2> DEFINE freed == Id(id.index, id.version + 1)
    <2>4. /\ chunks' = chunks
          /\ object' = [object EXCEPT ![id.index] = freed]
          /\ freeList' = Append(freeList, id.index)
          /\ live' = live \ {id}
          /\ issued' = issued
      BY <1>1, <2>1, <2>3 DEF Destroy
    <2>5. freed.index = id.index /\ freed.version = id.version + 1 BY DEF Id
    <2>6. \A other \in live : other.index = id.index => other = id
      BY <2>1 DEF Sound, LiveStored
    <2>7. IssuedOlder'
      <3>1. ASSUME NEW old \in issued
            PROVE  /\ old.version <= object'[old.index].version
                   /\ old \notin live' => old.version < object'[old.index].version
        <4>0. /\ old \in Ids
              /\ old.index \in SlotsOf(chunks)
              /\ old.version <= object[old.index].version
              /\ old \notin live => old.version < object[old.index].version
              /\ object \in [SlotsOf(chunks) -> Ids]
          BY DEF Sound, IssuedOlder, TypeOK
        <4>1. CASE old.index = id.index BY <2>1, <2>4, <2>5, <4>0, <4>1 DEF Ids
        <4>2. CASE old.index # id.index BY <2>1, <2>4, <4>0, <4>2
        <4> QED BY <4>1, <4>2
      <3> QED BY <2>4, <3>1 DEF Sound, IssuedOlder
    <2>8. LiveStored' BY <2>1, <2>4, <2>6 DEF Sound, LiveStored, TypeOK
    <2>9. NullReserved'
      <3>1. CASE chunks > 0 /\ id.index = 0
        BY <2>1, <2>4, <2>5, <3>1 DEF NullReserved, TypeOK, Ids
      <3>2. CASE chunks > 0 /\ id.index # 0
        BY <1>0, <2>1, <2>4, <3>2, ChunkSlots DEF Sound, NullReserved, TypeOK
      <3> QED BY <2>4, <3>1, <3>2 DEF NullReserved
    <2>10. ~IsFree(id.index) BY <2>1 DEF Sound, FreeOrLive
    <2>11. /\ Len(freeList) \in Nat
           /\ DOMAIN freeList = 1 .. Len(freeList)
           /\ DOMAIN freeList' = 1 .. Len(freeList) + 1
           /\ \A k \in 1 .. Len(freeList) : freeList'[k] = freeList[k]
           /\ freeList'[Len(freeList) + 1] = id.index
      BY <2>1, <2>4 DEF TypeOK
    <2>12. FreeOnce' BY <2>10, <2>11 DEF Sound, FreeOnce, IsFree
    <2>13. \A r \in SlotsOf(chunks) : IsFree(r)' <=> IsFree(r) \/ r = id.index
      BY <2>11 DEF IsFree
    <2>14. FreeOrLive' BY <2>4, <2>6, <2>13 DEF Sound, FreeOrLive
    <2> QED BY <2>1, <2>4, <2>7, <2>8, <2>9, <2>12, <2>14 DEF Sound
  <1>2. CASE ~Alive(id)
    <2>1. UNCHANGED <<chunks, object, freeList, live, issued>>
      BY <1>2 DEF Destroy
    <2> QED
      BY <2>1 DEF Sound, IssuedOlder, LiveStored, NullReserved, FreeOnce, FreeOrLive, IsFree
  <1> QED BY <1>1, <1>2

\* A field that was exhausted stays so.
LEMMA ExhaustedForGood == TypeOK /\ exhausted /\ [Next]_vars => exhausted'
  <1> SUFFICES ASSUME exhausted, [Next]_vars PROVE exhausted' OBVIOUS
  <1>1. CASE Create
    BY <1>1, Zenon DEF Create, CreateFromFreeList, CreateFromNewChunk, Issue
  <1>2. ASSUME NEW id \in issued, Destroy(id)
        PROVE  exhausted'
    BY <1>2, Zenon DEF Destroy
  <1>3. CASE UNCHANGED vars BY <1>3 DEF vars
  <1> QED BY <1>1, <1>2, <1>3 DEF Next

\* The invariant is inductive,
LEMMA SlotsKept == SlotsInv /\ [Next]_vars => SlotsInv'
  <1> SUFFICES ASSUME SlotsInv, [Next]_vars
               PROVE  SlotsInv'
    OBVIOUS
  <1>1. (TypeOK /\ IndicesBelow)' BY TypesKept DEF SlotsInv
  <1>2. ASSUME ~exhausted'
        PROVE  Sound'
    <2>1. TypeOK /\ IndicesBelow /\ Sound BY <1>2, ExhaustedForGood DEF SlotsInv
    <2>2. CASE Create
      BY <1>2, <2>1, <2>2, FromFreeListSound, FromNewChunkSound DEF Create
    <2>3. CASE \E id \in issued : Destroy(id) BY <1>2, <2>1, <2>3, DestroySound
    <2>4. CASE UNCHANGED vars
      BY <2>1, <2>4
      DEF vars, Sound, IssuedOlder, LiveStored, NullReserved, FreeOnce, FreeOrLive, IsFree
    <2> QED BY <2>2, <2>3, <2>4 DEF Next
  <1> QED BY <1>1, <1>2 DEF SlotsInv

\* so it always holds.
LEMMA SlotsInvariant == Spec => []SlotsInv
  <1>1. Init => SlotsInv
    <2> SUFFICES ASSUME Init PROVE SlotsInv OBVIOUS
    <2>1. SlotsOf(0) = {} BY SlotMapAssumption DEF SlotsOf
    <2>2. object \in [SlotsOf(chunks) -> Ids] /\ IndicesBelow
      BY <2>1 DEF Init, IndicesBelow
    <2>3. freeList \in Seq(SlotsOf(chunks)) /\ chunks \in Nat BY DEF Init
    <2>4. TypeOK BY <2>2, <2>3 DEF Init, TypeOK
    <2>5. FreeOnce /\ NullReserved BY DEF Init, FreeOnce, NullReserved
    <2>6. IssuedOlder /\ LiveStored /\ FreeOrLive
      BY <2>1 DEF Init, IssuedOlder, LiveStored, FreeOrLive
    <2> QED BY <2>2, <2>4, <2>5, <2>6 DEF SlotsInv, Sound
  <1> QED BY <1>1, SlotsKept, PTL DEF Spec

\* Whatever program calls create and destroy, the fields keep their widths and
\* the free list holds existing slots only.
THEOREM TypeCorrect == Spec => []TypeOK
  BY SlotsInvariant, PTL DEF SlotsInv

\* Until a field is exhausted, get and alive accept exactly the live ids among
\* all ids ever returned (lines 73-87): a stale id never resolves to the object
\* that reuses its slot.
THEOREM StaleIdsRejected == Spec => []AliveIsLive
  <1>1. SlotsInv => AliveIsLive
    <2> SUFFICES ASSUME TypeOK, Sound, NEW id \in issued
                 PROVE  Alive(id) <=> id \in live
      BY DEF SlotsInv, AliveIsLive
    <2>1. Alive(id) => id \in live
      <3>1. id \in Ids /\ (id \notin live => id.version < object[id.index].version)
        BY DEF Sound, IssuedOlder, TypeOK
      <3> QED BY <3>1 DEF Alive, Ids
    <2>2. id \in live => Alive(id)
      BY ChunkSlots DEF Alive, Sound, LiveStored, TypeOK, Ids, SlotCount
    <2> QED BY <2>1, <2>2
  <1> QED BY <1>1, SlotsInvariant, PTL

\* Until then every slot is either on the free list, once, or the slot of one
\* live id: none leaks and none is handed out twice.
THEOREM NoSlotLeaks == Spec => []SlotsAccounted
  <1>1. SlotsInv => SlotsAccounted
    BY DEF SlotsInv, Sound, FreeOnce, FreeOrLive, LiveStored, IsFree, SlotsAccounted
  <1> QED BY <1>1, SlotsInvariant, PTL

\* The slot map implements the allocator of unique ids: until a field is
\* exhausted, create returns an id that was never returned before and is not
\* null, and destroy ends the life of that id only.
THEOREM UniqueIds == Spec => ImplementsAllocator
  <1>1. Init => Allocator!Init BY DEF Init, Allocator!Init
  <1>2. SlotsInv /\ [Next]_vars => [Allocator!Next]_(Allocator!allocatorVars)
    <2> SUFFICES ASSUME SlotsInv, [Next]_vars
                 PROVE  Allocator!Next \/ UNCHANGED <<live, issued, exhausted>>
      BY DEF Allocator!allocatorVars
    <2>1. CASE exhausted' BY <2>1 DEF Allocator!Next, Allocator!Exhaust
    <2>2. CASE ~exhausted'
      <3>1. TypeOK /\ IndicesBelow /\ Sound /\ ~exhausted
        BY <2>2, ExhaustedForGood DEF SlotsInv
      <3>2. exhausted' = exhausted BY <2>2, <3>1, SlotsKept DEF SlotsInv, TypeOK
      <3>3. CASE Create
        <4>1. \E id : Created(id)
          BY <2>2, <3>1, <3>3, FromFreeListSound, FromNewChunkSound DEF Create
        <4> QED
          BY <3>1, <3>2, <4>1 DEF Created, Allocator!Next, Allocator!Create
      <3>4. ASSUME NEW id \in issued, Destroy(id)
            PROVE  Allocator!Next \/ UNCHANGED <<live, issued, exhausted>>
        BY <2>2, <3>1, <3>2, <3>4, DestroySound
        DEF Allocator!Next, Allocator!Destroy, TypeOK
      <3>5. CASE UNCHANGED vars BY <3>5 DEF vars
      <3> QED BY <3>3, <3>4, <3>5 DEF Next
    <2> QED BY <2>1, <2>2
  <1> QED
    BY <1>1, <1>2, SlotsInvariant, PTL DEF Spec, ImplementsAllocator, Allocator!Spec

----------------------------------------------------------------------------
(* TypeErasure: any containers, values and number of objects.              *)

\* Making an object changes no other.
LEMMA ObjectMade ==
  ASSUME NEW S, NEW s \in Seq(S), NEW e \in S
  PROVE  /\ Append(s, e) \in Seq(S) /\ Len(Append(s, e)) = Len(s) + 1
         /\ Len(s) \in Nat
         /\ \A i \in 1 .. Len(s) : Append(s, e)[i] = s[i] /\ s[i] \in S /\ i # Len(s) + 1
         /\ Append(s, e)[Len(s) + 1] = e
  OBVIOUS

\* Neither does changing one.
LEMMA ObjectChanged ==
  ASSUME NEW S, NEW s \in Seq(S), NEW o \in 1 .. Len(s), NEW e \in S,
         NEW r, r = [s EXCEPT ![o] = e]
  PROVE  /\ r \in Seq(S) /\ Len(r) = Len(s) /\ r[o] = e
         /\ \A i \in 1 .. Len(s) : i # o => r[i] = s[i]
  OBVIOUS

\* A container comes to hold a new object of its own, or one that goes with the
\* temporary that made it.
LEMMA FreshKept ==
  ASSUME ErasureInv, NEW c \in Containers, NEW v \in ErasedValues, NEW big \in BOOLEAN,
         Erasure!MakeNew(c, v, big),
         tSelf' = [tSelf EXCEPT ![c] = Erasure!Fresh],
         tLive' = tLive \union {c},
         tMeant' = [tMeant EXCEPT ![c] = v],
         \/ tGone' = tGone /\ tAstray' \in {tAstray, tAstray \ {c}}
         \/ tGone' = tGone \union {Erasure!Fresh} /\ tAstray' = tAstray \union {c}
  PROVE  ErasureInv'
  <1> DEFINE e == [value |-> v, by |-> c, big |-> big]
             n == Len(tObjects)
  <1>1. e \in ErasedObject /\ e.value = v /\ e.by = c BY DEF ErasedObject
  <1>2. tObjects' = Append(tObjects, e) /\ Erasure!Fresh = n + 1
    BY DEF Erasure!MakeNew, Erasure!Fresh
  <1> HIDE DEF e, n
  <1>3. /\ tObjects' \in Seq(ErasedObject) /\ Len(tObjects') = n + 1 /\ n \in Nat
        /\ \A i \in 1 .. n : tObjects'[i] = tObjects[i] /\ i # n + 1
        /\ tObjects'[n + 1] = e
    BY <1>1, <1>2, ObjectMade DEF ErasureInv, n
  <1>4. /\ tSelf' \in [Containers -> Nat] /\ tSelf'[c] = n + 1
        /\ \A d \in Containers : d # c => tSelf'[d] = tSelf[d]
    BY <1>2, <1>3 DEF ErasureInv
  <1>5. /\ tMeant' \in [Containers -> ErasedValues \union {0}] /\ tMeant'[c] = v
        /\ \A d \in Containers : d # c => tMeant'[d] = tMeant[d]
    BY DEF ErasureInv
  <1>6. /\ tLive \subseteq Containers /\ tGone \subseteq 1 .. n
        /\ \A d \in tLive : tSelf[d] \in 1 .. n
    BY DEF ErasureInv, n
  <1>7. 1 .. n \subseteq 1 .. n + 1 /\ n + 1 \in 1 .. n + 1 /\ n + 1 \notin tGone
    BY <1>3, <1>6
  <1>8. tGone' \subseteq 1 .. Len(tObjects') BY <1>2, <1>3, <1>6, <1>7
  <1>9. \A d \in tLive' : tSelf'[d] \in 1 .. Len(tObjects')
    BY <1>3, <1>4, <1>6, <1>7
  <1>10. OwnObjects'
    <2> SUFFICES ASSUME NEW d \in tLive' \ tAstray'
                 PROVE  tObjects'[tSelf'[d]].by = d /\ tSelf'[d] \notin tGone'
      BY DEF OwnObjects
    <2>1. CASE d = c BY <1>1, <1>3, <1>4, <1>7, <2>1
    <2>2. CASE d # c
      <3>1. d \in tLive \ tAstray /\ d \in Containers BY <1>6, <2>2
      <3>2. tObjects[tSelf[d]].by = d /\ tSelf[d] \notin tGone /\ tSelf[d] \in 1 .. n
        BY <1>6, <3>1 DEF ErasureInv, OwnObjects
      <3> QED BY <1>2, <1>3, <1>4, <2>2, <3>1, <3>2
    <2> QED BY <2>1, <2>2
  <1>11. (Erasure!CopiesApart)'
    <2> SUFFICES ASSUME NEW d \in tLive', tSelf'[d] \notin tGone'
                 PROVE  tObjects'[tSelf'[d]].value = tMeant'[d]
      BY DEF Erasure!CopiesApart
    <2>1. CASE d = c BY <1>1, <1>3, <1>4, <1>5, <2>1
    <2>2. CASE d # c
      <3>1. d \in tLive /\ d \in Containers /\ tSelf[d] \in 1 .. n /\ tSelf[d] \notin tGone
        BY <1>4, <1>6, <2>2
      <3>2. tObjects[tSelf[d]].value = tMeant[d]
        BY <3>1 DEF ErasureInv, Erasure!CopiesApart
      <3> QED BY <1>3, <1>4, <1>5, <2>2, <3>1, <3>2
    <2> QED BY <2>1, <2>2
  <1> QED BY <1>3, <1>4, <1>5, <1>6, <1>8, <1>9, <1>10, <1>11 DEF ErasureInv

\* A mutation of an object that nobody shares is seen by its container alone.
LEMMA UniqueWriteKept ==
  ASSUME ErasureInv, NEW c \in Containers, NEW v \in ErasedValues,
         c \in tLive, tSelf[c] \notin tGone, Erasure!Unique(c),
         tObjects' = [tObjects EXCEPT ![tSelf[c]].value = v],
         tMeant' = [tMeant EXCEPT ![c] = v],
         UNCHANGED <<tLive, tGone, tSelf, tAstray>>
  PROVE  ErasureInv'
  <1> DEFINE n == Len(tObjects)
             o == tSelf[c]
  <1>1. tLive \subseteq Containers /\ \A d \in tLive : tSelf[d] \in 1 .. n
    BY DEF ErasureInv
  <1>2. /\ tObjects' \in Seq(ErasedObject) /\ Len(tObjects') = n
        /\ \A i \in 1 .. n : i # o => tObjects'[i] = tObjects[i]
        /\ tObjects'[o].value = v /\ tObjects'[o].by = tObjects[o].by
    <2>1. tObjects \in Seq(ErasedObject) /\ o \in 1 .. n BY <1>1 DEF ErasureInv
    <2>2. tObjects[o] \in ErasedObject BY <2>1
    <2>3. [tObjects[o] EXCEPT !.value = v] \in ErasedObject
      BY <2>2 DEF ErasedObject
    <2>4. /\ [tObjects[o] EXCEPT !.value = v].value = v
          /\ [tObjects[o] EXCEPT !.value = v].by = tObjects[o].by
      BY <2>2 DEF ErasedObject
    <2>5. tObjects' = [tObjects EXCEPT ![o] = [tObjects[o] EXCEPT !.value = v]]
      OBVIOUS
    <2> QED BY <2>1, <2>3, <2>4, <2>5, ObjectChanged
  <1>3. /\ tMeant' \in [Containers -> ErasedValues \union {0}] /\ tMeant'[c] = v
        /\ \A d \in Containers : d # c => tMeant'[d] = tMeant[d]
    BY DEF ErasureInv
  <1>4. \A d \in tLive : d # c => tSelf[d] # o BY DEF Erasure!Unique
  <1> HIDE DEF n, o
  <1>5. OwnObjects'
    <2>1. \A d \in tLive : tObjects'[tSelf[d]].by = tObjects[tSelf[d]].by
      BY <1>1, <1>2, <1>4
    <2> QED BY <2>1 DEF ErasureInv, OwnObjects
  <1>6. (Erasure!CopiesApart)'
    <2> SUFFICES ASSUME NEW d \in tLive, tSelf[d] \notin tGone
                 PROVE  tObjects'[tSelf[d]].value = tMeant'[d]
      BY DEF Erasure!CopiesApart
    <2>1. CASE d = c BY <1>2, <1>3, <2>1 DEF o
    <2>2. CASE d # c
      <3>1. tObjects[tSelf[d]].value = tMeant[d]
        BY DEF ErasureInv, Erasure!CopiesApart
      <3> QED BY <1>1, <1>2, <1>3, <1>4, <2>2, <3>1
    <2> QED BY <2>1, <2>2
  <1> QED BY <1>1, <1>2, <1>3, <1>5, <1>6 DEF ErasureInv, n

\* Every step of the containers keeps their invariant.
LEMMA ErasureKept == ErasureInv /\ [Erasure!Next]_eraseVars => ErasureInv'
  <1> SUFFICES ASSUME ErasureInv, [Erasure!Next]_eraseVars
               PROVE  ErasureInv'
    OBVIOUS
  <1>0. /\ tLive \subseteq Containers
        /\ tObjects \in Seq(ErasedObject)
        /\ \A c \in tLive : tSelf[c] \in 1 .. Len(tObjects)
    BY DEF ErasureInv
  <1>10. \A c \in tLive : tObjects[tSelf[c]].value \in ErasedValues
                          /\ tObjects[tSelf[c]].big \in BOOLEAN
    <2>1. \A i \in 1 .. Len(tObjects) : tObjects[i] \in ErasedObject BY <1>0
    <2> QED BY <1>0, <2>1 DEF ErasedObject
  <1>1. ASSUME NEW c \in Containers, NEW v \in ErasedValues, NEW big \in BOOLEAN,
               Erasure!Construct(c, v, big)
        PROVE  ErasureInv'
    BY <1>1, FreshKept DEF Erasure!Construct
  <1>2. ASSUME NEW c \in Containers, NEW v \in ErasedValues, NEW big \in BOOLEAN,
               Erasure!Assign(c, v, big)
        PROVE  ErasureInv'
    <2>1. tLive' = tLive \union {c} BY <1>2 DEF Erasure!Assign
    <2> QED BY <1>2, <2>1, FreshKept DEF Erasure!Assign
  <1>3. ASSUME NEW c \in Containers, NEW other \in Containers, Erasure!Copy(c, other)
        PROVE  ErasureInv'
    <2> DEFINE v == tObjects[tSelf[other]].value
    <2>1. other \in tLive /\ tSelf[other] \notin tGone /\ v = tMeant[other] /\ v \in ErasedValues
      BY <1>3, <1>10 DEF Erasure!Copy, ErasureInv, Erasure!CopiesApart
    <2>2. CASE Erasure!IsHeapAllocated(other)
      <3>1. /\ tLive' = tLive \union {c} /\ tMeant' = [tMeant EXCEPT ![c] = tMeant[other]]
            /\ tSelf' = [tSelf EXCEPT ![c] = tSelf[other]]
            /\ tAstray' = tAstray \union {c} /\ UNCHANGED <<tObjects, tGone>>
        BY <1>3, <2>2 DEF Erasure!Copy
      <3>2. /\ tSelf'[c] = tSelf[other] /\ tMeant'[c] = tMeant[other]
            /\ \A d \in Containers : d # c => tSelf'[d] = tSelf[d] /\ tMeant'[d] = tMeant[d]
            /\ tSelf' \in [Containers -> Nat]
            /\ tMeant' \in [Containers -> ErasedValues \union {0}]
        BY <3>1 DEF ErasureInv
      <3>3. \A d \in tLive' \ tAstray' : d # c /\ d \in tLive \ tAstray BY <3>1
      <3>4. OwnObjects' BY <1>0, <3>1, <3>2, <3>3 DEF ErasureInv, OwnObjects
      <3>5. (Erasure!CopiesApart)'
        BY <1>0, <2>1, <3>1, <3>2 DEF ErasureInv, Erasure!CopiesApart
      <3>6. \A d \in tLive' : tSelf'[d] \in 1 .. Len(tObjects')
        BY <1>0, <2>1, <3>1, <3>2
      <3> QED BY <1>0, <3>1, <3>2, <3>4, <3>5, <3>6 DEF ErasureInv
    <2>3. CASE ~Erasure!IsHeapAllocated(other)
      <3>1. /\ Erasure!MakeNew(c, v, FALSE) /\ tLive' = tLive \union {c}
            /\ tSelf' = [tSelf EXCEPT ![c] = Erasure!Fresh]
            /\ tMeant' = [tMeant EXCEPT ![c] = v]
            /\ tGone' = tGone /\ tAstray' = tAstray
        BY <1>3, <2>1, <2>3 DEF Erasure!Copy
      <3> QED BY <2>1, <3>1, FreshKept
    <2> QED BY <2>2, <2>3
  <1>4. ASSUME NEW c \in Containers, NEW v \in ErasedValues, Erasure!Write(c, v)
        PROVE  ErasureInv'
    <2>1. CASE Erasure!Unique(c)
      BY <1>4, <2>1, UniqueWriteKept DEF Erasure!Write
    <2>2. CASE ~Erasure!Unique(c)
      <3>1. c \in tLive /\ tLive' = tLive \union {c} BY <1>4 DEF Erasure!Write
      <3>2. /\ Erasure!MakeNew(c, v, tObjects[tSelf[c]].big)
            /\ tSelf' = [tSelf EXCEPT ![c] = Erasure!Fresh]
            /\ tMeant' = [tMeant EXCEPT ![c] = v]
            /\ tGone' = tGone /\ tAstray' = tAstray \ {c}
        BY <1>4, <2>2 DEF Erasure!Write
      <3> QED BY <1>10, <3>1, <3>2, FreshKept
    <2> QED BY <2>1, <2>2
  <1>5. ASSUME NEW c \in Containers, Erasure!Destroy(c)
        PROVE  ErasureInv'
    <2>1. /\ tLive' = tLive \ {c} /\ tGone' = tGone \union Erasure!GoneWith(c)
          /\ tSelf' = [tSelf EXCEPT ![c] = 0]
          /\ tAstray' = tAstray \ {c} /\ UNCHANGED <<tObjects, tMeant>>
      BY <1>5 DEF Erasure!Destroy
    <2>2. /\ tSelf' \in [Containers -> Nat]
          /\ \A d \in Containers : d # c => tSelf'[d] = tSelf[d]
      BY <2>1 DEF ErasureInv
    <2>3. Erasure!GoneWith(c) = {o \in 1 .. Len(tObjects) : tObjects[o].by = c}
      BY <1>0 DEF Erasure!GoneWith
    <2>4. OwnObjects' BY <1>0, <2>1, <2>2, <2>3 DEF ErasureInv, OwnObjects
    <2>5. (Erasure!CopiesApart)'
      BY <1>0, <2>1, <2>2 DEF ErasureInv, Erasure!CopiesApart
    <2>6. tGone' \subseteq 1 .. Len(tObjects') BY <2>1, <2>3 DEF ErasureInv
    <2> QED BY <1>0, <2>1, <2>2, <2>4, <2>5, <2>6 DEF ErasureInv
  <1>6. CASE UNCHANGED eraseVars
    BY <1>6 DEF eraseVars, ErasureInv, OwnObjects, Erasure!CopiesApart
  <1> QED BY <1>1, <1>2, <1>3, <1>4, <1>5, <1>6 DEF Erasure!Next

\* What is made and copied stays what its container was given.
THEOREM CopiesKeepValues == LibrarySpec => []ValuesApart
  <1>1. LibraryInit => ErasureInv
    BY DEF LibraryInit, LibraryStart, Erasure!Init, ErasureInv, OwnObjects, Erasure!CopiesApart
  <1>2. [LibraryNext]_libraryVars => [Erasure!Next]_eraseVars
    BY DEF LibraryNext, libraryVars, eraseVars
  <1>3. ErasureInv => ValuesApart
    BY DEF ErasureInv, OwnObjects, ValuesApart, Erasure!ValuesKept, Erasure!CopiesApart
  <1> QED BY <1>1, <1>2, <1>3, ErasureKept, PTL DEF LibrarySpec

----------------------------------------------------------------------------
(* BitSpan: any width of a block and any number of bits.                   *)

\* The block of a bit.
LEMMA BlockOfBit ==
  ASSUME NEW w \in Nat \ {0}, NEW q \in Nat, NEW r \in 0 .. w - 1
  PROVE  (w * q + r) \div w = q
  OBVIOUS

\* What a number of bits has of whole blocks, and what is left.
LEMMA WholeBlocks ==
  ASSUME NEW w \in Nat \ {0}, NEW c \in Nat
  PROVE  /\ c \div w \in Nat /\ c % w \in 0 .. w - 1 /\ w * (c \div w) \in Nat
         /\ c = w * (c \div w) + (c % w)
  <1>1. c \div w \in Nat OBVIOUS
  <1>2. c % w \in 0 .. w - 1 OBVIOUS
  <1>3. c = w * (c \div w) + (c % w) OBVIOUS
  <1>4. w * (c \div w) \in Nat BY <1>1
  <1> QED BY <1>1, <1>2, <1>3, <1>4

\* Blocks add up.
LEMMA Distribute ==
  ASSUME NEW w \in Nat, NEW a \in Nat, NEW b \in Nat
  PROVE  w * (a + b) = w * a + w * b /\ w * (a + b) \in Nat /\ w * (a + 1) = w * a + w
  OBVIOUS

\* The blocks of a span are its bits and those that are not in use.
LEMMA BlocksAreBits ==
  ASSUME NEW s \in Bits!Spans
  PROVE  /\ Bits!BitsOf(s) \subseteq Bits!BlocksOf(s)
         /\ Bits!Unused(s) = Bits!BlocksOf(s) \ Bits!BitsOf(s)
         /\ Bits!BlocksOf(s) \subseteq Int
         /\ Bits!Alone(s) => /\ \A b \in Bits!BitsOf(s) : b < BitCount
                             /\ \A b \in Bits!Unused(s) : b >= BitCount
  <1> DEFINE c == s.count
             F == Width * s.offset
             q == c \div Width
             r == c % Width
  <1>0. /\ Width \in Nat \ {0} /\ BitCount \in Nat \ {0} /\ c \in Nat \ {0} /\ s.offset \in Nat
    BY LibraryAssumption DEF Bits!BitSpanAssumption, Bits!Spans, Bits!Whole
  <1>1. /\ q \in Nat /\ r \in 0 .. Width - 1 /\ Width * q \in Nat /\ c = Width * q + r
    BY <1>0, WholeBlocks
  <1>2. F \in Nat /\ Bits!First(s) = F BY <1>0 DEF Bits!First
  <1>3. /\ Bits!CalculateBlockCount(c) = q + (IF r # 0 THEN 1 ELSE 0)
        /\ Bits!BlocksOf(s) = F .. F + Width * Bits!CalculateBlockCount(c) - 1
        /\ Bits!BitsOf(s) = F .. F + c - 1
    BY DEF Bits!CalculateBlockCount, Bits!BlocksOf, Bits!BitsOf, Bits!First
  <1>4. Bits!Alone(s) => F + c <= BitCount /\ (r = 0 \/ F + c = BitCount)
    BY DEF Bits!Alone, Bits!First
  <1>5. r = 0 => Bits!Unused(s) = {} BY DEF Bits!Unused
  <1>6. r # 0 => Bits!Unused(s) = Bits!LastBlock(s) \ Bits!BitsOf(s)
    BY DEF Bits!Unused
  <1>7. Bits!LastBlock(s) = {b \in Bits!BlocksOf(s) : b \div Width = (F + c - 1) \div Width}
    BY DEF Bits!LastBlock, Bits!First
  <1>8. F + Width * q = Width * (s.offset + q) /\ Width * (q + 1) = Width * q + Width
    <2>1. Width \in Nat /\ s.offset \in Nat /\ q \in Nat BY <1>0, <1>1
    <2> HIDE DEF q
    <2>2. /\ Width * (s.offset + q) = Width * s.offset + Width * q
          /\ Width * (q + 1) = Width * q + Width
      BY <2>1, Distribute
    <2> QED BY <2>2
  <1> DEFINE L == F + Width * q
  <1>9. L \in Nat /\ F <= L /\ F + c = L + r BY <1>1, <1>2
  <1> HIDE DEF q, r, F, c
  <1>10. CASE r = 0
    <2>1. Bits!BlocksOf(s) = F .. F + c - 1 BY <1>1, <1>3, <1>10
    <2>2. Bits!Alone(s) => \A b \in F .. F + c - 1 : b < BitCount
      BY <1>0, <1>2, <1>4 DEF c
    <2>3. F .. F + c - 1 \subseteq Int BY <1>0, <1>2 DEF c
    <2> QED BY <1>3, <1>5, <1>10, <2>1, <2>2, <2>3
  <1>11. CASE r # 0
    <2>1. Bits!BlocksOf(s) = F .. L + Width - 1
      <3> DEFINE M == Width * Bits!CalculateBlockCount(c)
      <3>1. Bits!CalculateBlockCount(c) = q + 1 BY <1>3, <1>11
      <3>2. M = Width * q + Width BY <1>8, <3>1, Zenon
      <3>3. Bits!BlocksOf(s) = F .. F + M - 1 BY <1>3, Zenon
      <3>4. F + M = L + Width /\ M \in Nat BY <1>0, <1>1, <1>2, <3>2
      <3> HIDE DEF L, M
      <3>5. F + M - 1 = L + Width - 1 BY <1>0, <1>2, <1>9, <3>4
      <3> QED BY <3>3, <3>5, Zenon
    <2>2. \A b \in L .. L + Width - 1 : b \div Width = s.offset + q
      <3> SUFFICES ASSUME NEW b \in L .. L + Width - 1
                   PROVE  b \div Width = s.offset + q
        OBVIOUS
      <3>1. b - L \in 0 .. Width - 1 /\ b = L + (b - L) BY <1>0, <1>9
      <3>2. s.offset + q \in Nat BY <1>0, <1>1
      <3>3. (Width * (s.offset + q) + (b - L)) \div Width = s.offset + q
        BY <1>0, <3>1, <3>2, BlockOfBit
      <3> QED BY <1>8, <3>1, <3>3
    <2> DEFINE last == F + c - 1
    <2> HIDE DEF L
    <2>3. last \in L .. L + Width - 1 /\ last + 1 = F + c
      BY <1>0, <1>1, <1>2, <1>9, <1>11
    <2>4. last \div Width = s.offset + q BY <2>2, <2>3
    <2> HIDE DEF last
    <2>5. Bits!BitsOf(s) = F .. last BY <1>3 DEF last
    <2>6. Bits!LastBlock(s) = {b \in F .. L + Width - 1 : b \div Width = last \div Width}
      BY <1>7, <2>1 DEF last
    <2>7. \A b \in (F .. L + Width - 1) \ (F .. last) : b \in L .. L + Width - 1 /\ b > last
      BY <1>0, <1>2, <1>9, <2>3
    <2>8. Bits!Unused(s) = (F .. L + Width - 1) \ (F .. last)
      BY <1>6, <1>11, <2>2, <2>4, <2>5, <2>6, <2>7
    <2>9. Bits!Alone(s) => last + 1 = BitCount BY <1>4, <1>11, <2>3
    <2>10. (F .. last) \subseteq (F .. L + Width - 1) BY <1>0, <1>2, <1>9, <2>3
    <2> QED BY <1>0, <1>2, <1>9, <2>1, <2>3, <2>5, <2>7, <2>8, <2>9, <2>10
  <1> QED BY <1>10, <1>11

\* Every operation keeps the bits behind the last one zero.
LEMMA BitsKept == BitsInv /\ [Bits!Next]_bitVars => BitsInv'
  <1> SUFFICES ASSUME BitsInv, [Bits!Next]_bitVars
               PROVE  BitsInv'
    OBVIOUS
  <1>1. ASSUME NEW s \in Bits!Spans, Bits!ChangeAll(s)
        PROVE  BitsInv'
    <2> DEFINE bits == Bits!BitsOf(s)
               blocks == Bits!BlocksOf(s)
               unused == Bits!Unused(s)
    <2>0. /\ bits \subseteq blocks /\ unused = blocks \ bits /\ blocks \subseteq Int
          /\ Bits!Alone(s) => /\ \A b \in bits : b < BitCount
                              /\ \A b \in unused : b >= BitCount
      BY BlocksAreBits
    <2>1. sSpilled' = (sSpilled \/ ~Bits!Alone(s)) BY <1>1 DEF Bits!ChangeAll
    <2>2. \/ /\ sMemory' = (sMemory \union blocks) \ unused
             /\ sIdeal' = sIdeal \union bits
          \/ /\ sMemory' = sMemory \ blocks
             /\ sIdeal' = sIdeal \ bits
          \/ /\ sMemory' = ((sMemory \ blocks) \union (blocks \ sMemory)) \ unused
             /\ sIdeal' = (sIdeal \ bits) \union (bits \ sIdeal)
      BY <1>1 DEF Bits!ChangeAll, Bits!SetAll, Bits!ResetAll, Bits!FlipAll, Bits!ZeroUnusedBits
    <2> HIDE DEF bits, blocks, unused
    <2>3. sMemory' \subseteq Int BY <2>0, <2>2 DEF BitsInv
    <2>4. ASSUME ~sSpilled, Bits!Alone(s)
          PROVE  sMemory' = sIdeal' /\ \A b \in sMemory' : b < BitCount
      <3>1. \A b \in Int : b < BitCount => ~(b >= BitCount)
        BY LibraryAssumption DEF Bits!BitSpanAssumption
      <3>2. \A b \in sMemory : b \notin unused BY <2>0, <2>4, <3>1 DEF BitsInv
      <3>3. sMemory = sIdeal /\ (\A b \in sMemory : b < BitCount) /\ \A b \in bits : b < BitCount
        BY <2>0, <2>4 DEF BitsInv
      <3>4. sMemory' = sIdeal' BY <2>0, <2>2, <3>2, <3>3
      <3>5. \A b \in sIdeal' : b \in sMemory \union bits BY <2>2, <3>3
      <3> QED BY <3>3, <3>4, <3>5
    <2> QED BY <2>1, <2>3, <2>4 DEF BitsInv
  <1>2. ASSUME NEW s \in Bits!Spans, NEW p \in 0 .. s.count - 1, Bits!ChangeBit(s, p)
        PROVE  BitsInv'
    <2> DEFINE b == Bits!First(s) + p
    <2>1. b \in Int /\ (Bits!Alone(s) => b < BitCount)
      <3>1. /\ Width \in Nat \ {0} /\ BitCount \in Nat \ {0} /\ s.count \in Nat \ {0}
            /\ s.offset \in Nat
        BY LibraryAssumption DEF Bits!BitSpanAssumption, Bits!Spans, Bits!Whole
      <3>2. Bits!First(s) \in Nat BY <3>1 DEF Bits!First
      <3> QED BY <3>1, <3>2 DEF Bits!Alone
    <2>2. sSpilled' = (sSpilled \/ ~Bits!Alone(s)) BY <1>2 DEF Bits!ChangeBit
    <2>3. \/ sMemory' = sMemory \union {b} /\ sIdeal' = sIdeal \union {b}
          \/ sMemory' = sMemory \ {b} /\ sIdeal' = sIdeal \ {b}
          \/ /\ sMemory' = IF b \in sMemory THEN sMemory \ {b} ELSE sMemory \union {b}
             /\ sIdeal' = IF b \in sIdeal THEN sIdeal \ {b} ELSE sIdeal \union {b}
      BY <1>2 DEF Bits!ChangeBit, Bits!Toggle
    <2> HIDE DEF b
    <2> QED BY <2>1, <2>2, <2>3 DEF BitsInv
  <1>3. CASE UNCHANGED bitVars BY <1>3 DEF bitVars, BitsInv
  <1> QED BY <1>1, <1>2, <1>3 DEF Bits!Next

\* all, any and none see the bits of such a span.
LEMMA QueriesSee == BitsInv => Bits!QueriesExact
  <1> SUFFICES ASSUME BitsInv, ~sSpilled, NEW s \in Bits!Spans, Bits!Alone(s)
               PROVE  /\ Bits!All(s) <=> Bits!BitsOf(s) \subseteq sMemory
                      /\ Bits!None(s) <=> Bits!BitsOf(s) \intersect sMemory = {}
    BY DEF Bits!QueriesExact
  <1>1. /\ Bits!BitsOf(s) \subseteq Bits!BlocksOf(s)
        /\ Bits!Unused(s) = Bits!BlocksOf(s) \ Bits!BitsOf(s)
        /\ Bits!BlocksOf(s) \subseteq Int
        /\ \A b \in Bits!Unused(s) : b >= BitCount
    BY BlocksAreBits
  <1>2. \A b \in Bits!Unused(s) : b \notin sMemory
    <2>1. \A b \in Int : b < BitCount => ~(b >= BitCount)
      BY LibraryAssumption DEF Bits!BitSpanAssumption
    <2> QED BY <1>1, <2>1 DEF BitsInv
  <1>3. Bits!BlocksOf(s) \ Bits!Unused(s) = Bits!BitsOf(s) BY <1>1
  <1>4. Bits!All(s) <=> Bits!BitsOf(s) \subseteq sMemory
    BY <1>2, <1>3 DEF Bits!All
  <1>5. (\E b \in Bits!BlocksOf(s) : b \in sMemory) <=> \E b \in Bits!BitsOf(s) : b \in sMemory
    BY <1>1, <1>2
  <1>6. Bits!None(s) <=> Bits!BitsOf(s) \intersect sMemory = {}
    BY <1>5 DEF Bits!None, Bits!Any
  <1> QED BY <1>4, <1>6

\* For any block width and length: operations on spans that share no block, in
\* any order, change the bits they are asked to and no others, and the queries,
\* which look at whole blocks, tell what the bits are.
THEOREM SpansAreExact == LibrarySpec => []BitsExact
  <1>1. LibraryInit => BitsInv
    BY DEF LibraryInit, LibraryStart, Bits!Init, BitsInv
  <1>2. [LibraryNext]_libraryVars => [Bits!Next]_bitVars
    BY DEF LibraryNext, libraryVars, bitVars
  <1>3. BitsInv => BitsExact
    BY QueriesSee DEF BitsInv, BitsExact, Bits!BitsAsAsked
  <1> QED BY <1>1, <1>2, <1>3, BitsKept, PTL DEF LibrarySpec

----------------------------------------------------------------------------
(* DependencyInjection: any types and factories, in any order of the search. *)

\* A sequence with another element before it, ...
LEMMA Prepended ==
  ASSUME NEW S, NEW s \in Seq(S), NEW f \in S, NEW r, r = <<f>> \o s
  PROVE  /\ r \in Seq(S) /\ Len(r) = Len(s) + 1 /\ Len(s) \in Nat /\ r[1] = f
         /\ \A i \in 2 .. Len(r) : r[i] = s[i - 1] /\ i - 1 \in 1 .. Len(s)
         /\ \A i \in 1 .. Len(s) : r[i + 1] = s[i] /\ i + 1 \in 2 .. Len(r)
  OBVIOUS

\* ... whose head is replaced ...
LEMMA HeadReplaced ==
  ASSUME NEW S, NEW s \in Seq(S), s # <<>>, NEW f \in S, NEW r, r = <<f>> \o Tail(s)
  PROVE  /\ r \in Seq(S) /\ Len(r) = Len(s) /\ Len(s) \in Nat \ {0} /\ r[1] = f
         /\ \A i \in 2 .. Len(s) : r[i] = s[i]
  OBVIOUS

\* ... or dropped.
LEMMA HeadDropped ==
  ASSUME NEW S, NEW s \in Seq(S), s # <<>>, NEW r, r = Tail(s)
  PROVE  /\ r \in Seq(S) /\ Len(r) = Len(s) - 1 /\ Len(s) \in Nat \ {0}
         /\ s[1] = Head(s) /\ Head(s) \in S
         /\ \A i \in 1 .. Len(r) : r[i] = s[i + 1] /\ i + 1 \in 2 .. Len(s)
         /\ \A i \in 2 .. Len(s) : s[i] = r[i - 1] /\ i - 1 \in 1 .. Len(r)
  OBVIOUS

\* A dependent that is being visited closes a cycle.
LEMMA CycleMet ==
  ASSUME InjectorTypes, Chained(dPath), OnPath(dPath, dMark), dPath # <<>>,
         NEW d \in Types, d \in dDependents[dPath[1].node], dMark[d] = "temp"
  PROVE  Injector!Cyclic
  <1>1. PICK k \in 1 .. Len(dPath) : dPath[k].node = d BY DEF OnPath
  <1> DEFINE S == {dPath[i].node : i \in 1 .. k}
  <1>2. Len(dPath) \in Nat /\ \A i \in 1 .. Len(dPath) : dPath[i] \in VisitCall
    BY DEF InjectorTypes
  <1>3. S \subseteq Types /\ d \in S BY <1>1, <1>2 DEF VisitCall
  <1>4. ASSUME NEW t \in S
        PROVE  dDependents[t] \intersect S # {}
    <2>1. PICK i \in 1 .. k : t = dPath[i].node OBVIOUS
    <2>2. CASE i = 1 BY <1>3, <2>1, <2>2
    <2>3. CASE i > 1
      <3>1. dPath[i - 1].node \in dDependents[t] BY <1>2, <2>1, <2>3 DEF Chained
      <3>2. i - 1 \in 1 .. k BY <1>2, <2>3
      <3> QED BY <3>1, <3>2
    <2> QED BY <1>2, <2>2, <2>3
  <1> QED BY <1>3, <1>4 DEF Injector!Cyclic

\* A factory added: its edges are new ones among nodes that nobody visited.
LEMMA AddKept ==
  ASSUME InjectorInv, NEW t \in Types, NEW deps \in SUBSET Types, Injector!Add(t, deps)
  PROVE  InjectorInv'
  <1>1. /\ dPhase = "config" /\ UNCHANGED <<dDevelopment, dPhase, dPath, dOutput, dInstances>>
        /\ dNeeds' = [dNeeds EXCEPT ![t] = deps] /\ dProvided' = dProvided \union {t}
        /\ dDependents' = [u \in Types |-> dDependents[u] \union {x \in {t} : u \in deps}]
        /\ dMark' = [u \in Types |-> IF u \in deps \union {t} THEN "unmarked" ELSE dMark[u]]
    BY DEF Injector!Add
  <1>2. InjectorTypes' BY <1>1 DEF InjectorInv, InjectorTypes, Marks
  <1>3. Edges' BY <1>1 DEF InjectorInv, InjectorTypes, Edges
  <1>4. Untouched' BY <1>1 DEF InjectorInv, Untouched
  <1> QED
    BY <1>1, <1>2, <1>3, <1>4
    DEF InjectorInv, Injector!BuildsInOrder, Injector!CycleReported

\* The search begins with nothing visited.
LEMMA BuildKept == InjectorInv /\ Injector!BuildInjector => InjectorInv'
  <1> SUFFICES ASSUME InjectorInv, Injector!BuildInjector
               PROVE  InjectorInv'
    OBVIOUS
  <1>1. /\ dPhase = "config" /\ dPhase' = "visit" /\ Untouched /\ InjectorTypes /\ Edges
        /\ UNCHANGED <<dDevelopment, dNeeds, dDependents, dProvided, dMark, dPath, dOutput,
                       dInstances>>
    BY DEF InjectorInv, Injector!BuildInjector, Injector!configVars
  <1>2. (InjectorTypes /\ Edges /\ dInstances = {})'
    BY <1>1 DEF InjectorTypes, Edges, Untouched
  <1>3. dPath' = <<>> /\ dOutput' = <<>> /\ \A n \in Types : dMark'[n] # "temp" /\ dMark'[n] # "perm"
    BY <1>1 DEF Untouched
  <1>4. (Chained(dPath) /\ OnPath(dPath, dMark) /\ Behind(dPath, dMark))'
    BY <1>3 DEF Chained, OnPath, Behind
  <1>5. (Closed(dMark) /\ Acyclic(dMark))' BY <1>3 DEF Closed, Acyclic
  <1>6. (Found(dOutput, dMark) /\ Ordered(dOutput, dMark))'
    BY <1>3 DEF Found, Ordered
  <1> QED
    BY <1>1, <1>2, <1>4, <1>5, <1>6
    DEF InjectorInv, Injector!BuildsInOrder, Injector!CycleReported

\* Whatever follows from the graph of edges does in a step of the search.
LEMMA SearchSame ==
  ASSUME SearchStep
  PROVE  /\ Injector!Cyclic' <=> Injector!Cyclic
         /\ Injector!Satisfied' <=> Injector!Satisfied
         /\ Calm' <=> Calm
         /\ Good' <=> Good
  BY DEF SearchStep, Injector!Cyclic, Injector!Satisfied, Calm, Good

\* A node entered from the calls: they are those of the path, where the node is
\* no longer to be visited by the innermost one.
LEMMA VisitKept ==
  ASSUME InjectorInv, SearchStep, NEW n \in Types, NEW calls \in Seq(VisitCall),
         Injector!Visit(n, calls), Chained(calls), OnPath(calls, dMark),
         calls # <<>> => n \in dDependents[calls[1].node],
         Calm => \A i \in 1 .. Len(calls) : \A d \in dDependents[calls[i].node] :
                   \/ d \in calls[i].todo \/ dMark[d] = "perm"
                   \/ i > 1 /\ d = calls[i - 1].node
                   \/ i = 1 /\ d = n
  PROVE  InjectorInv'
  <1> DEFINE f == [node |-> n, todo |-> dDependents[n]]
  <1>1. /\ dMark[n] = "unmarked" /\ dMark' = [dMark EXCEPT ![n] = "temp"]
        /\ dPath' = <<f>> \o calls /\ dPhase' = "visit" /\ dOutput' = dOutput
    BY DEF Injector!Visit, SearchStep
  <1>2. InjectorTypes /\ Edges BY DEF InjectorInv
  <1>3. f \in VisitCall /\ f.node = n /\ f.todo = dDependents[n]
    BY <1>2 DEF InjectorTypes, VisitCall
  <1> HIDE DEF f
  <1>4. /\ dPath' \in Seq(VisitCall) /\ Len(dPath') = Len(calls) + 1 /\ Len(calls) \in Nat
        /\ dPath'[1] = f
        /\ \A i \in 2 .. Len(dPath') : dPath'[i] = calls[i - 1] /\ i - 1 \in 1 .. Len(calls)
        /\ \A i \in 1 .. Len(calls) : dPath'[i + 1] = calls[i] /\ i + 1 \in 2 .. Len(dPath')
    BY <1>1, <1>3, Prepended
  <1>5. /\ dMark' \in [Types -> Marks] /\ dMark'[n] = "temp"
        /\ \A u \in Types : u # n => dMark'[u] = dMark[u]
        /\ \A u \in Types : dMark'[u] = "perm" <=> dMark[u] = "perm"
        /\ \A u \in Types : dMark'[u] = "none" <=> dMark[u] = "none"
    BY <1>1, <1>2 DEF InjectorTypes, Marks
  <1>6. InjectorTypes' BY <1>1, <1>2, <1>4, <1>5 DEF InjectorTypes, SearchStep
  <1>7. Edges' BY <1>2, <1>5 DEF Edges, SearchStep, InjectorTypes
  <1>8. \A i \in 1 .. Len(dPath') : i = 1 \/ i \in 2 .. Len(dPath') BY <1>4
  <1>9. Chained(dPath)'
    <2> SUFFICES ASSUME NEW i \in 1 .. Len(dPath')
                 PROVE  /\ dPath'[i].todo \subseteq dDependents[dPath'[i].node]
                        /\ i > 1 => dPath'[i - 1].node \in dDependents[dPath'[i].node]
      BY DEF Chained, SearchStep
    <2>1. CASE i = 1 BY <1>3, <1>4, <2>1
    <2>2. CASE i \in 2 .. Len(dPath')
      <3>1. dPath'[i] = calls[i - 1] /\ i - 1 \in 1 .. Len(calls) BY <1>4, <2>2
      <3>2. CASE i = 2 BY <1>3, <1>4, <3>1, <3>2 DEF Chained
      <3>3. CASE i > 2
        <4>1. i - 1 \in 2 .. Len(dPath') /\ i - 1 > 1 BY <1>4, <2>2, <3>3
        <4>2. dPath'[i - 1] = calls[i - 1 - 1] BY <1>4, <4>1
        <4> QED BY <3>1, <4>1, <4>2 DEF Chained
      <3> QED BY <2>2, <3>2, <3>3, <1>4
    <2> QED BY <1>8, <2>1, <2>2
  <1>10. OnPath(dPath, dMark)'
    <2>1. \A i \in 1 .. Len(calls) : calls[i].node # n BY <1>1 DEF OnPath
    <2>2. ASSUME NEW u \in Types
          PROVE  dMark'[u] = "temp" <=> \E i \in 1 .. Len(dPath') : dPath'[i].node = u
      <3>1. CASE u = n
        <4>1. 1 \in 1 .. Len(dPath') /\ dPath'[1].node = n BY <1>3, <1>4
        <4> QED BY <1>5, <3>1, <4>1
      <3>2. CASE u # n
        <4>1. dMark'[u] = "temp" <=> \E i \in 1 .. Len(calls) : calls[i].node = u
          BY <1>5, <3>2 DEF OnPath
        <4>2. (\E i \in 1 .. Len(calls) : calls[i].node = u)
                <=> \E i \in 2 .. Len(dPath') : dPath'[i].node = u
          <5>1. ASSUME NEW i \in 1 .. Len(calls), calls[i].node = u
                PROVE  \E j \in 2 .. Len(dPath') : dPath'[j].node = u
            BY <1>4, <5>1
          <5>2. ASSUME NEW i \in 2 .. Len(dPath'), dPath'[i].node = u
                PROVE  \E j \in 1 .. Len(calls) : calls[j].node = u
            BY <1>4, <5>2
          <5> QED BY <5>1, <5>2
        <4>3. (\E i \in 2 .. Len(dPath') : dPath'[i].node = u)
                <=> \E i \in 1 .. Len(dPath') : dPath'[i].node = u
          BY <1>3, <1>4, <1>8, <3>2
        <4> QED BY <4>1, <4>2, <4>3
      <3> QED BY <3>1, <3>2
    <2>3. ASSUME NEW i \in 1 .. Len(dPath'), NEW j \in 1 .. Len(dPath'),
                 dPath'[i].node = dPath'[j].node
          PROVE  i = j
      <3>1. i = 1 <=> j = 1 BY <1>3, <1>4, <1>8, <2>1, <2>3
      <3>2. CASE i \in 2 .. Len(dPath') /\ j \in 2 .. Len(dPath')
        <4>1. /\ i - 1 \in 1 .. Len(calls) /\ j - 1 \in 1 .. Len(calls)
              /\ calls[i - 1].node = calls[j - 1].node
          BY <1>4, <2>3, <3>2
        <4>2. i - 1 = j - 1 BY <4>1 DEF OnPath
        <4> QED BY <1>4, <3>2, <4>2
      <3> QED BY <1>8, <3>1, <3>2
    <2> QED BY <2>2, <2>3 DEF OnPath
  <1>11. ASSUME Calm
         PROVE  Behind(dPath, dMark)'
    <2> SUFFICES ASSUME NEW i \in 1 .. Len(dPath'), NEW d \in dDependents[dPath'[i].node]
                 PROVE  \/ d \in dPath'[i].todo \/ dMark'[d] = "perm"
                        \/ i > 1 /\ d = dPath'[i - 1].node
      BY DEF Behind, SearchStep
    <2>1. CASE i = 1 BY <1>3, <1>4, <2>1
    <2>2. CASE i \in 2 .. Len(dPath')
      <3>1. dPath'[i] = calls[i - 1] /\ i - 1 \in 1 .. Len(calls) BY <1>4, <2>2
      <3>2. calls[i - 1].node \in Types /\ d \in Types
        <4>1. calls[i - 1] \in VisitCall BY <3>1
        <4>2. calls[i - 1].node \in Types BY <4>1 DEF VisitCall
        <4> QED BY <1>2, <3>1, <4>2 DEF InjectorTypes
      <3>3. \/ d \in calls[i - 1].todo \/ dMark[d] = "perm"
            \/ i - 1 > 1 /\ d = calls[i - 1 - 1].node
            \/ i - 1 = 1 /\ d = n
        BY <1>11, <3>1
      <3>4. CASE i - 1 > 1 /\ d = calls[i - 1 - 1].node
        <4>1. i - 1 \in 2 .. Len(dPath') BY <1>4, <2>2, <3>4
        <4> QED BY <1>4, <3>4, <4>1
      <3>5. CASE i - 1 = 1 /\ d = n BY <1>3, <1>4, <2>2, <3>5
      <3> QED BY <1>5, <3>1, <3>2, <3>3, <3>4, <3>5
    <2> QED BY <1>8, <2>1, <2>2
  <1>12. ASSUME Calm
         PROVE  (Closed(dMark) /\ Acyclic(dMark))'
    <2>1. Closed(dMark) /\ Acyclic(dMark) BY <1>12 DEF InjectorInv, SearchStep
    <2>2. {t \in Types : dMark'[t] = "perm"} = {t \in Types : dMark[t] = "perm"}
      BY <1>5
    <2>3. \A t \in Types : dDependents[t] \subseteq Types
      BY <1>2 DEF InjectorTypes
    <2> QED BY <1>5, <2>1, <2>2, <2>3 DEF Closed, Acyclic, SearchStep
  <1>13. ASSUME Good
         PROVE  (Found(dOutput, dMark) /\ Ordered(dOutput, dMark))'
    <2>1. Found(dOutput, dMark) /\ Ordered(dOutput, dMark)
      BY <1>13 DEF InjectorInv, SearchStep
    <2>2. \A i \in 1 .. Len(dOutput) : dNeeds[dOutput[i]] \subseteq Types
      BY <1>2 DEF InjectorTypes
    <2> QED BY <1>1, <1>5, <2>1, <2>2 DEF Found, Ordered, SearchStep
  <1> QED
    BY <1>1, <1>6, <1>7, <1>9, <1>10, <1>11, <1>12, <1>13, SearchSame
    DEF InjectorInv, SearchStep, Injector!BuildsInOrder, Injector!CycleReported

\* The search goes on from another node.
LEMMA RootKept == InjectorInv /\ Injector!VisitRoot => InjectorInv'
  <1> SUFFICES ASSUME InjectorInv, Injector!VisitRoot
               PROVE  InjectorInv'
    OBVIOUS
  <1>1. PICK n \in Types : Injector!Visit(n, <<>>) BY DEF Injector!VisitRoot
  <1>2. SearchStep /\ dPath = <<>>
    BY DEF Injector!VisitRoot, Injector!configVars, SearchStep
  <1>3. <<>> \in Seq(VisitCall) /\ Chained(<<>>) BY DEF Chained
  <1>4. OnPath(<<>>, dMark) BY <1>2 DEF InjectorInv, SearchStep
  <1>5. \A i \in 1 .. Len(<<>>) : FALSE OBVIOUS
  <1> QED BY <1>1, <1>2, <1>3, <1>4, <1>5, VisitKept

\* The call for a dependent: it is visited already, or its own visit begins;
\* that it is being visited means a cycle, which a development build reports.
LEMMA DependentKept == InjectorInv /\ Injector!VisitDependent => InjectorInv'
  <1> SUFFICES ASSUME InjectorInv, Injector!VisitDependent
               PROVE  InjectorInv'
    OBVIOUS
  <1> DEFINE h == dPath[1]
  <1>0. SearchStep /\ dPath # <<>> /\ InjectorTypes /\ Edges
    BY DEF InjectorInv, Injector!VisitDependent, Injector!configVars, SearchStep
  <1>1. /\ Len(dPath) \in Nat \ {0} /\ h = Head(dPath) /\ h \in VisitCall /\ 1 \in 1 .. Len(dPath)
    BY <1>0 DEF InjectorTypes
  <1>2. PICK d \in h.todo : Injector!Enter(d, <<[h EXCEPT !.todo = @ \ {d}]>> \o Tail(dPath))
    BY <1>1 DEF Injector!VisitDependent
  <1> DEFINE g == [h EXCEPT !.todo = @ \ {d}]
             calls == <<g>> \o Tail(dPath)
  <1>3. g \in VisitCall /\ g.node = h.node /\ g.todo = h.todo \ {d}
    BY <1>1 DEF VisitCall
  <1>4. d \in Types /\ d \in dDependents[h.node]
    BY <1>0, <1>1 DEF VisitCall, InjectorInv, SearchStep, Chained
  <1>5. Chained(dPath) /\ OnPath(dPath, dMark) /\ (Calm => Behind(dPath, dMark))
    BY <1>0 DEF InjectorInv, SearchStep
  <1>6. dMark[d] = "temp" => Injector!Cyclic BY <1>0, <1>4, <1>5, CycleMet
  <1>7. /\ calls \in Seq(VisitCall) /\ Len(calls) = Len(dPath) /\ calls[1] = g
        /\ \A i \in 2 .. Len(dPath) : calls[i] = dPath[i]
    <2> HIDE DEF g
    <2>1. dPath \in Seq(VisitCall) BY <1>0 DEF InjectorTypes
    <2> QED BY <1>0, <1>3, <2>1, HeadReplaced
  <1>8. Injector!Enter(d, calls) BY <1>2
  <1> HIDE DEF calls, g
  <1>9. \A i \in 1 .. Len(dPath) :
          /\ i = 1 \/ i \in 2 .. Len(dPath)
          /\ calls[i].node = dPath[i].node /\ calls[i].todo \subseteq dPath[i].todo
          /\ \A x \in dPath[i].todo \ calls[i].todo : i = 1 /\ x = d
    BY <1>1, <1>3, <1>7
  <1> HIDE DEF h
  <1>10. \A i \in 1 .. Len(dPath) : i > 1 => i - 1 \in 1 .. Len(dPath) BY <1>1
  <1>11. Chained(calls) BY <1>5, <1>7, <1>9, <1>10 DEF Chained
  <1>12. OnPath(calls, dMark)
    <2>1. \A n \in Types : (\E i \in 1 .. Len(calls) : calls[i].node = n)
                             <=> \E i \in 1 .. Len(dPath) : dPath[i].node = n
      BY <1>7, <1>9
    <2>2. \A i, j \in 1 .. Len(calls) : calls[i].node = calls[j].node => i = j
      BY <1>5, <1>7, <1>9 DEF OnPath
    <2> QED BY <1>5, <2>1, <2>2 DEF OnPath
  <1>13. Calm => \A i \in 1 .. Len(calls) : \A x \in dDependents[calls[i].node] :
           \/ x \in calls[i].todo \/ dMark[x] = "perm"
           \/ i > 1 /\ x = calls[i - 1].node
           \/ i = 1 /\ x = d
    BY <1>5, <1>7, <1>9, <1>10 DEF Behind
  <1>14. CASE dMark[d] = "temp" /\ dDevelopment /\ dPhase' = "aborted"
              /\ UNCHANGED <<dMark, dPath, dOutput>>
    <2>1. Injector!Cyclic' BY <1>0, <1>6, <1>14, SearchSame
    <2>2. InjectorTypes' /\ Edges'
      BY <1>0, <1>14 DEF InjectorTypes, Edges, SearchStep
    <2> QED
      BY <1>14, <2>1, <2>2, SearchSame
      DEF InjectorInv, Injector!BuildsInOrder, Injector!CycleReported
  <1>15. CASE /\ dMark[d] = "perm" \/ (dMark[d] = "temp" /\ ~dDevelopment)
              /\ dPath' = calls /\ UNCHANGED <<dPhase, dMark, dOutput>>
    <2>1. InjectorTypes' /\ Edges'
      BY <1>0, <1>7, <1>15 DEF InjectorTypes, Edges, SearchStep
    <2>2. (Chained(dPath) /\ OnPath(dPath, dMark))'
      BY <1>0, <1>11, <1>12, <1>15 DEF Chained, OnPath, SearchStep
    <2>3. Calm => Behind(dPath, dMark)'
      BY <1>0, <1>6, <1>13, <1>15 DEF Behind, Calm, SearchStep
    <2>4. Calm => (Closed(dMark) /\ Acyclic(dMark))'
      BY <1>0, <1>15 DEF InjectorInv, Closed, Acyclic, SearchStep
    <2>5. Good => (Found(dOutput, dMark) /\ Ordered(dOutput, dMark))'
      BY <1>0, <1>15 DEF InjectorInv, Found, Ordered, SearchStep
    <2>6. dPhase' = "visit" /\ dInstances' = {}
      BY <1>0, <1>15 DEF InjectorInv, SearchStep
    <2> QED
      BY <1>0, <2>1, <2>2, <2>3, <2>4, <2>5, <2>6, SearchSame
      DEF InjectorInv, Injector!BuildsInOrder, Injector!CycleReported
  <1>16. CASE Injector!Visit(d, calls)
    <2>1. calls # <<>> => d \in dDependents[calls[1].node]
      BY <1>1, <1>4, <1>9 DEF h
    <2> QED BY <1>0, <1>4, <1>7, <1>11, <1>12, <1>13, <1>16, <2>1, VisitKept
  <1> QED BY <1>8, <1>14, <1>15, <1>16 DEF Injector!Enter

\* A node all of whose dependents are visited is so itself, and its initializer
\* is put before theirs.
LEMMA LeaveKept == InjectorInv /\ Injector!Leave => InjectorInv'
  <1> SUFFICES ASSUME InjectorInv, Injector!Leave
               PROVE  InjectorInv'
    OBVIOUS
  <1> DEFINE n == dPath[1].node
  <1>0. SearchStep /\ dPath # <<>> /\ InjectorTypes /\ Edges /\ dPhase' = "visit"
    BY DEF InjectorInv, Injector!Leave, Injector!configVars, SearchStep
  <1>1. /\ Len(dPath) \in Nat \ {0} /\ dPath[1] = Head(dPath) /\ dPath[1] \in VisitCall
        /\ n \in Types /\ 1 \in 1 .. Len(dPath)
    <2>1. /\ Len(dPath) \in Nat \ {0} /\ dPath[1] = Head(dPath) /\ dPath[1] \in VisitCall
          /\ 1 \in 1 .. Len(dPath)
      BY <1>0 DEF InjectorTypes
    <2> QED BY <2>1 DEF VisitCall
  <1>2. /\ dPath[1].todo = {} /\ dMark' = [dMark EXCEPT ![n] = "perm"] /\ dPath' = Tail(dPath)
        /\ dOutput' = IF n \in dProvided THEN <<n>> \o dOutput ELSE dOutput
    BY <1>1 DEF Injector!Leave
  <1>3. Chained(dPath) /\ OnPath(dPath, dMark)
    BY <1>0 DEF InjectorInv, SearchStep
  <1>4. dMark[n] = "temp" BY <1>1, <1>3 DEF OnPath
  <1>5. /\ dMark' \in [Types -> Marks] /\ dMark'[n] = "perm"
        /\ \A u \in Types : u # n => dMark'[u] = dMark[u]
        /\ \A u \in Types : dMark'[u] = "none" <=> dMark[u] = "none"
    BY <1>0, <1>1, <1>2, <1>4 DEF InjectorTypes, Marks
  <1>6. /\ dPath' \in Seq(VisitCall) /\ Len(dPath') = Len(dPath) - 1
        /\ \A i \in 1 .. Len(dPath') : dPath'[i] = dPath[i + 1] /\ i + 1 \in 2 .. Len(dPath)
        /\ \A i \in 2 .. Len(dPath) : dPath[i] = dPath'[i - 1] /\ i - 1 \in 1 .. Len(dPath')
    BY <1>0, <1>2, HeadDropped DEF InjectorTypes
  <1>7. \A u \in Types : dDependents[u] \subseteq Types /\ dNeeds[u] \subseteq Types
    BY <1>0 DEF InjectorTypes
  <1> HIDE DEF n
  <1>8. dOutput' \in Seq(Types) BY <1>0, <1>1, <1>2 DEF InjectorTypes
  <1>9. InjectorTypes' BY <1>0, <1>5, <1>6, <1>8 DEF InjectorTypes, SearchStep
  <1>10. Edges'
    <2>1. \A u \in Types : \A t \in dDependents[u] : t \in Types BY <1>7
    <2>2. \A t \in dProvided : t \in Types BY <1>0 DEF InjectorTypes
    <2> QED BY <1>0, <1>5, <2>1, <2>2 DEF Edges, SearchStep
  <1>11. \A i \in 1 .. Len(dPath') : i + 1 \in 1 .. Len(dPath) /\ i + 1 > 1 /\ i + 1 - 1 = i
    BY <1>1, <1>6
  <1>12. \A i \in 1 .. Len(dPath') : i > 1 => i - 1 \in 1 .. Len(dPath') /\ dPath'[i - 1] = dPath[i]
    BY <1>6
  <1>13. Chained(dPath)'
    BY <1>0, <1>3, <1>6, <1>11, <1>12 DEF Chained, SearchStep
  <1>14. \A i \in 2 .. Len(dPath) : dPath[i].node # n
    BY <1>1, <1>3 DEF OnPath, n
  <1>15. OnPath(dPath, dMark)'
    <2>1. ASSUME NEW u \in Types
          PROVE  dMark'[u] = "temp" <=> \E i \in 1 .. Len(dPath') : dPath'[i].node = u
      <3>1. (\E i \in 1 .. Len(dPath') : dPath'[i].node = u)
              <=> \E i \in 2 .. Len(dPath) : dPath[i].node = u
        <4>1. ASSUME NEW i \in 1 .. Len(dPath'), dPath'[i].node = u
              PROVE  \E j \in 2 .. Len(dPath) : dPath[j].node = u
          BY <1>6, <4>1
        <4>2. ASSUME NEW i \in 2 .. Len(dPath), dPath[i].node = u
              PROVE  \E j \in 1 .. Len(dPath') : dPath'[j].node = u
          BY <1>6, <4>2
        <4> QED BY <4>1, <4>2
      <3>2. CASE u = n BY <1>5, <1>14, <3>1, <3>2
      <3>3. CASE u # n
        <4>1. \A i \in 1 .. Len(dPath) : dPath[i].node = u => i \in 2 .. Len(dPath)
          BY <1>1, <3>3 DEF n
        <4>2. dMark[u] = "temp" <=> \E i \in 2 .. Len(dPath) : dPath[i].node = u
          BY <1>1, <1>3, <4>1 DEF OnPath
        <4> QED BY <1>5, <3>1, <3>3, <4>2
      <3> QED BY <3>2, <3>3
    <2>2. ASSUME NEW i \in 1 .. Len(dPath'), NEW j \in 1 .. Len(dPath'),
                 dPath'[i].node = dPath'[j].node
          PROVE  i = j
      <3>1. dPath[i + 1].node = dPath[j + 1].node BY <1>6, <2>2
      <3>2. i + 1 = j + 1 BY <1>3, <1>11, <3>1 DEF OnPath
      <3> QED BY <3>2
    <2> QED BY <2>1, <2>2 DEF OnPath
  <1>16. ASSUME Calm
         PROVE  Behind(dPath, dMark) /\ Closed(dMark) /\ Acyclic(dMark)
    BY <1>0, <1>16 DEF InjectorInv, SearchStep
  <1>17. ASSUME Calm
         PROVE  /\ n \notin dDependents[n]
                /\ \A d \in dDependents[n] : dMark[d] = "perm"
    <2>1. \A d \in dDependents[n] : dMark[d] = "perm"
      BY <1>1, <1>2, <1>16, <1>17 DEF Behind, n
    <2> QED BY <1>4, <2>1
  <1>18. ASSUME Calm
         PROVE  Behind(dPath, dMark)'
    <2> SUFFICES ASSUME NEW i \in 1 .. Len(dPath'), NEW d \in dDependents[dPath'[i].node]
                 PROVE  \/ d \in dPath'[i].todo \/ dMark'[d] = "perm"
                        \/ i > 1 /\ d = dPath'[i - 1].node
      BY <1>0 DEF Behind, SearchStep
    <2>1. dPath'[i] = dPath[i + 1] /\ i + 1 \in 1 .. Len(dPath) BY <1>6, <1>11
    <2>2. d \in dPath'[i].todo \/ dMark[d] = "perm" \/ d = dPath[i].node
      BY <1>11, <1>16, <1>18, <2>1 DEF Behind
    <2>3. CASE dMark[d] = "perm"
      <3>1. dPath'[i].node \in Types /\ d \in Types
        <4>1. dPath'[i] \in VisitCall BY <1>6
        <4> QED BY <1>7, <4>1 DEF VisitCall
      <3> QED BY <1>5, <2>3, <3>1
    <2>4. CASE d = dPath[i].node
      <3>1. CASE i = 1 BY <1>5, <2>4, <3>1 DEF n
      <3>2. CASE i > 1 BY <1>12, <2>4, <3>2
      <3> QED BY <1>6, <3>1, <3>2
    <2> QED BY <2>2, <2>3, <2>4
  <1>19. ASSUME Calm
         PROVE  Closed(dMark)'
    BY <1>0, <1>5, <1>7, <1>16, <1>17, <1>19 DEF Closed, SearchStep
  <1>20. ASSUME Calm
         PROVE  Acyclic(dMark)'
    <2> DEFINE Visited == {t \in Types : dMark[t] = "perm"}
    <2> SUFFICES ASSUME NEW S, S \subseteq {t \in Types : dMark'[t] = "perm"}, S # {}
                 PROVE  \E t \in S : dDependents[t] \intersect S = {}
      BY <1>0 DEF Acyclic, SearchStep
    <2>1. S \ {n} \subseteq Visited BY <1>5
    <2>2. n \notin Visited /\ \A t \in Visited : dDependents[t] \subseteq Visited
      BY <1>4, <1>7, <1>16, <1>20 DEF Closed
    <2>3. CASE S \ {n} = {}
      <3>1. S = {n} BY <2>3
      <3> QED BY <1>17, <1>20, <3>1
    <2>4. CASE S \ {n} # {}
      <3>1. PICK t \in S \ {n} : dDependents[t] \intersect (S \ {n}) = {}
        BY <1>16, <1>20, <2>1, <2>4 DEF Acyclic
      <3>2. n \notin dDependents[t] BY <2>1, <2>2
      <3> QED BY <3>1, <3>2
    <2> QED BY <2>3, <2>4
  <1>21. ASSUME Good
         PROVE  (Found(dOutput, dMark) /\ Ordered(dOutput, dMark))'
    <2>1. Found(dOutput, dMark) /\ Ordered(dOutput, dMark) /\ Calm
      BY <1>0, <1>21 DEF InjectorInv, SearchStep, Calm, Good
    <2>2. \A t \in Types : n \in dNeeds[t] => t \in dDependents[n]
      BY <1>0, <1>1 DEF Edges
    <2>3. \A t \in Types : \A u \in dNeeds[t] : t \in dDependents[u]
      BY <1>0 DEF Edges
    <2>4. dOutput \in Seq(Types) BY <1>0 DEF InjectorTypes
    <2>5. \A u \in dNeeds[n] : u # n /\ dMark'[u] # "perm"
      <3> SUFFICES ASSUME NEW u \in dNeeds[n]
                   PROVE  u # n /\ dMark'[u] # "perm"
        OBVIOUS
      <3>1. u \in Types /\ n \in dDependents[u] BY <1>1, <1>7, <2>3
      <3>2. u # n BY <1>17, <2>1, <3>1
      <3>3. dMark[u] # "perm" BY <1>4, <1>16, <2>1, <3>1 DEF Closed
      <3> QED BY <1>5, <3>1, <3>2, <3>3
    <2>6. CASE n \notin dProvided
      <3>1. dOutput' = dOutput BY <1>2, <2>6
      <3>2. \A i \in 1 .. Len(dOutput) : dOutput[i] \in Types /\ dOutput[i] \in dProvided
        BY <2>1, <2>4 DEF Found
      <3>3. \A i \in 1 .. Len(dOutput) : n \notin dNeeds[dOutput[i]]
        BY <1>21, <2>6, <3>2 DEF Good, Injector!Satisfied
      <3>4. Found(dOutput, dMark)'
        BY <1>0, <1>5, <2>1, <2>6, <3>1 DEF Found, SearchStep
      <3>5. Ordered(dOutput, dMark)'
        BY <1>0, <1>5, <1>7, <2>1, <3>1, <3>2, <3>3 DEF Ordered, SearchStep
      <3> QED BY <3>4, <3>5
    <2>7. CASE n \in dProvided
      <3>1. /\ Len(dOutput') = Len(dOutput) + 1 /\ Len(dOutput) \in Nat /\ dOutput'[1] = n
            /\ \A i \in 2 .. Len(dOutput') :
                 dOutput'[i] = dOutput[i - 1] /\ i - 1 \in 1 .. Len(dOutput)
            /\ \A i \in 1 .. Len(dOutput) :
                 dOutput'[i + 1] = dOutput[i] /\ i + 1 \in 2 .. Len(dOutput')
        <4>1. dOutput' = <<n>> \o dOutput BY <1>2, <2>7
        <4> QED BY <1>1, <2>4, <4>1, Prepended
      <3>2. ASSUME NEW t \in Types
            PROVE  t \in dProvided /\ dMark'[t] = "perm"
                     <=> \E i \in 1 .. Len(dOutput') : dOutput'[i] = t
        <4>1. CASE t = n
          <5>1. 1 \in 1 .. Len(dOutput') BY <3>1
          <5> QED BY <1>5, <2>7, <3>1, <4>1, <5>1
        <4>2. CASE t # n
          <5>1. t \in dProvided /\ dMark'[t] = "perm"
                  <=> \E i \in 1 .. Len(dOutput) : dOutput[i] = t
            BY <1>5, <2>1, <4>2 DEF Found
          <5>2. ASSUME NEW i \in 1 .. Len(dOutput), dOutput[i] = t
                PROVE  \E j \in 1 .. Len(dOutput') : dOutput'[j] = t
            <6>1. i + 1 \in 1 .. Len(dOutput') /\ dOutput'[i + 1] = t
              BY <3>1, <5>2
            <6> QED BY <6>1
          <5>3. ASSUME NEW i \in 1 .. Len(dOutput'), dOutput'[i] = t
                PROVE  \E j \in 1 .. Len(dOutput) : dOutput[j] = t
            <6>1. i \in 2 .. Len(dOutput') BY <3>1, <4>2, <5>3
            <6> QED BY <3>1, <5>3, <6>1
          <5> QED BY <5>1, <5>2, <5>3
        <4> QED BY <4>1, <4>2
      <3>3. ASSUME NEW i \in 1 .. Len(dOutput'), NEW u \in dNeeds[dOutput'[i]],
                   dMark'[u] = "perm"
            PROVE  \E j \in 1 .. i - 1 : dOutput'[j] = u
        <4>1. i \in 2 .. Len(dOutput') BY <2>5, <3>1, <3>3
        <4>2. dOutput'[i] = dOutput[i - 1] /\ i - 1 \in 1 .. Len(dOutput)
          BY <3>1, <4>1
        <4>3. CASE u = n
          <5>1. 1 \in 1 .. i - 1 BY <4>1, <3>1
          <5> QED BY <3>1, <4>3, <5>1
        <4>4. CASE u # n
          <5>1. dOutput[i - 1] \in Types BY <2>4, <4>2
          <5>2. dMark[u] = "perm" BY <1>5, <1>7, <3>3, <4>2, <4>4, <5>1
          <5>3. PICK j \in 1 .. (i - 1) - 1 : dOutput[j] = u
            BY <2>1, <4>2, <5>2 DEF Ordered
          <5>4. j + 1 \in 1 .. i - 1 /\ j \in 1 .. Len(dOutput) BY <3>1, <4>1
          <5> QED BY <3>1, <5>3, <5>4
        <4> QED BY <4>3, <4>4
      <3> QED BY <1>0, <3>2, <3>3 DEF Found, Ordered, SearchStep
    <2> QED BY <2>6, <2>7
  <1>22. dInstances' = {} BY <1>0 DEF InjectorInv, SearchStep
  <1> QED
    BY <1>0, <1>9, <1>10, <1>13, <1>15, <1>18, <1>19, <1>20, <1>21, <1>22, SearchSame
    DEF InjectorInv, Injector!BuildsInOrder, Injector!CycleReported

\* The search ends with every node visited: no cycle was there, or a build
\* that does not report it went on.
LEMMA EndKept == InjectorInv /\ Injector!EndVisits => InjectorInv'
  <1> SUFFICES ASSUME InjectorInv, Injector!EndVisits
               PROVE  InjectorInv'
    OBVIOUS
  <1>0. /\ SearchStep /\ dPath = <<>> /\ InjectorTypes /\ Edges /\ dPhase' = "run"
        /\ UNCHANGED <<dMark, dPath, dOutput>> /\ \A n \in Types : dMark[n] # "unmarked"
    BY DEF InjectorInv, Injector!EndVisits, Injector!configVars, SearchStep
  <1>1. \A n \in Types : dMark[n] \in {"none", "perm"}
    <2>1. \A n \in Types : dMark[n] \in Marks BY <1>0 DEF InjectorTypes
    <2>2. \A n \in Types : dMark[n] # "temp"
      BY <1>0 DEF InjectorInv, SearchStep, OnPath
    <2> QED BY <1>0, <2>1, <2>2 DEF Marks
  <1>2. InjectorTypes' /\ Edges' BY <1>0 DEF InjectorTypes, Edges, SearchStep
  <1>3. ~(Injector!Cyclic /\ dDevelopment)
    <2> SUFFICES ASSUME dDevelopment, NEW S \in SUBSET Types, S # {},
                        \A t \in S : dDependents[t] \intersect S # {}
                 PROVE  FALSE
      BY DEF Injector!Cyclic
    <2>1. Acyclic(dMark) BY <1>0 DEF InjectorInv, SearchStep, Calm
    <2>2. \A t \in S : dMark[t] # "none" BY <1>0 DEF Edges
    <2>3. S \subseteq {t \in Types : dMark[t] = "perm"} BY <1>1, <2>2
    <2> QED BY <2>1, <2>3 DEF Acyclic
  <1>4. ASSUME Good
        PROVE  Runnable(dOutput, dInstances)'
    <2>1. Found(dOutput, dMark) /\ Ordered(dOutput, dMark) /\ dInstances = {}
      BY <1>0, <1>4 DEF InjectorInv, SearchStep
    <2>2. \A t \in dProvided : dMark[t] = "perm"
      BY <1>0, <1>1 DEF Edges, InjectorTypes
    <2>3. \A i \in 1 .. Len(dOutput) : dOutput[i] \in Types
      BY <1>0 DEF InjectorTypes
    <2>4. \A t \in Types : \A u \in dNeeds[t] : u \in Types /\ dMark[u] = "perm"
      BY <1>0, <1>1 DEF Edges, InjectorTypes
    <2> QED
      BY <1>0, <2>1, <2>2, <2>3, <2>4 DEF Found, Ordered, Runnable, SearchStep
  <1>5. (Injector!BuildsInOrder /\ Injector!CycleReported)'
    BY <1>0, <1>3, SearchSame DEF SearchStep, Injector!BuildsInOrder, Injector!CycleReported
  <1>6. Good' <=> Good BY <1>0, SearchSame
  <1> QED BY <1>0, <1>2, <1>4, <1>5, <1>6 DEF InjectorInv

\* An initializer runs: what it needs has been made.
LEMMA RunKept == InjectorInv /\ Injector!RunInitializer => InjectorInv'
  <1> SUFFICES ASSUME InjectorInv, Injector!RunInitializer
               PROVE  InjectorInv'
    OBVIOUS
  <1> DEFINE t == dOutput[1]
  <1>0. /\ dPhase = "run" /\ dOutput # <<>> /\ InjectorTypes /\ Edges
        /\ UNCHANGED <<dDevelopment, dNeeds, dDependents, dProvided, dMark, dPath>>
    BY DEF InjectorInv, Injector!RunInitializer, Injector!configVars
  <1>1. /\ dOutput' \in Seq(Types) /\ Len(dOutput') = Len(dOutput) - 1
        /\ Len(dOutput) \in Nat \ {0} /\ t = Head(dOutput) /\ t \in Types
        /\ \A i \in 1 .. Len(dOutput') : dOutput'[i] = dOutput[i + 1] /\ i + 1 \in 2 .. Len(dOutput)
        /\ \A i \in 2 .. Len(dOutput) : dOutput[i] = dOutput'[i - 1] /\ i - 1 \in 1 .. Len(dOutput')
    <2>1. dOutput \in Seq(Types) /\ dOutput' = Tail(dOutput)
      BY <1>0 DEF InjectorTypes, Injector!RunInitializer
    <2> QED BY <1>0, <2>1, HeadDropped
  <1>2. \/ /\ dNeeds[t] \subseteq dInstances
           /\ dInstances' = dInstances \union {t} /\ dPhase' = dPhase
        \/ /\ ~(dNeeds[t] \subseteq dInstances)
           /\ dPhase' = (IF dDevelopment THEN "aborted" ELSE "undefined")
           /\ dInstances' = dInstances
    BY <1>1 DEF Injector!RunInitializer
  <1> HIDE DEF t
  <1>3. InjectorTypes' /\ Edges' BY <1>0, <1>1, <1>2 DEF InjectorTypes, Edges
  <1>4. Good' <=> Good BY <1>0 DEF Good, Injector!Cyclic, Injector!Satisfied
  <1>5. Injector!CycleReported'
    BY <1>0, <1>2 DEF InjectorInv, Injector!CycleReported, Injector!Cyclic
  <1>6. ASSUME Good
        PROVE  dPhase' = "run" /\ Runnable(dOutput, dInstances)'
    <2>1. Runnable(dOutput, dInstances) BY <1>0, <1>6 DEF InjectorInv
    <2>2. 1 \in 1 .. Len(dOutput) BY <1>1
    <2>3. dNeeds[t] \subseteq dInstances BY <2>1, <2>2 DEF Runnable, t
    <2>4. dInstances' = dInstances \union {t} /\ dPhase' = "run"
      BY <1>0, <1>2, <2>3
    <2>5. ASSUME NEW u \in Types
          PROVE  u \in dProvided
                   <=> u \in dInstances' \/ \E i \in 1 .. Len(dOutput') : dOutput'[i] = u
      <3>1. u \in dProvided <=> u \in dInstances \/ \E i \in 1 .. Len(dOutput) : dOutput[i] = u
        BY <2>1 DEF Runnable
      <3>2. ASSUME NEW i \in 1 .. Len(dOutput), dOutput[i] = u
            PROVE  u = t \/ \E j \in 1 .. Len(dOutput') : dOutput'[j] = u
        <4>1. i = 1 \/ i \in 2 .. Len(dOutput) BY <1>1
        <4> QED BY <1>1, <3>2, <4>1 DEF t
      <3>3. ASSUME NEW i \in 1 .. Len(dOutput'), dOutput'[i] = u
            PROVE  \E j \in 1 .. Len(dOutput) : dOutput[j] = u
        <4>1. i + 1 \in 1 .. Len(dOutput) BY <1>1
        <4> QED BY <1>1, <3>3, <4>1
      <3> QED BY <2>2, <2>4, <3>1, <3>2, <3>3 DEF t
    <2>6. ASSUME NEW i \in 1 .. Len(dOutput'), NEW u \in dNeeds[dOutput'[i]]
          PROVE  u \in dInstances' \/ \E j \in 1 .. i - 1 : dOutput'[j] = u
      <3>1. dOutput'[i] = dOutput[i + 1] /\ i + 1 \in 1 .. Len(dOutput) BY <1>1
      <3>2. u \in dInstances \/ \E j \in 1 .. (i + 1) - 1 : dOutput[j] = u
        BY <2>1, <3>1 DEF Runnable
      <3>3. ASSUME NEW j \in 1 .. (i + 1) - 1, dOutput[j] = u
            PROVE  u = t \/ \E k \in 1 .. i - 1 : dOutput'[k] = u
        <4>1. CASE j = 1 BY <3>3, <4>1 DEF t
        <4>2. CASE j # 1
          <5>1. j \in 2 .. Len(dOutput) /\ j - 1 \in 1 .. i - 1 BY <1>1, <4>2
          <5> QED BY <1>1, <3>3, <5>1
        <4> QED BY <4>1, <4>2
      <3> QED BY <2>4, <3>2, <3>3
    <2> QED BY <1>0, <2>4, <2>5, <2>6 DEF Runnable
  <1>7. Injector!BuildsInOrder'
    BY <1>2, <1>0, <1>4, <1>6 DEF Good, Injector!BuildsInOrder
  <1>8. dPhase' \in {"run", "aborted", "undefined"} BY <1>0, <1>2
  <1> QED BY <1>3, <1>4, <1>5, <1>6, <1>7, <1>8 DEF InjectorInv

\* Every initializer has run.
LEMMA BuiltKept == InjectorInv /\ Injector!EndRun => InjectorInv'
  <1> SUFFICES ASSUME InjectorInv, Injector!EndRun
               PROVE  InjectorInv'
    OBVIOUS
  <1>0. /\ dPhase = "run" /\ dPhase' = "built" /\ dOutput = <<>> /\ InjectorTypes /\ Edges
        /\ UNCHANGED <<dDevelopment, dNeeds, dDependents, dProvided, dMark, dPath, dOutput,
                       dInstances>>
    BY DEF InjectorInv, Injector!EndRun, Injector!configVars
  <1>1. InjectorTypes' /\ Edges' BY <1>0 DEF InjectorTypes, Edges
  <1>2. Good => dInstances = dProvided
    <2>1. \A i : i \notin 1 .. Len(dOutput) BY <1>0
    <2>2. dInstances \subseteq Types /\ dProvided \subseteq Types
      BY <1>0 DEF InjectorTypes
    <2>3. Good => \A t \in Types : t \in dProvided <=> t \in dInstances
      BY <1>0, <2>1 DEF InjectorInv, Runnable
    <2> QED BY <2>2, <2>3
  <1>3. Injector!BuildsInOrder'
    BY <1>0, <1>2 DEF Good, Injector!BuildsInOrder, Injector!Cyclic, Injector!Satisfied
  <1>4. Injector!CycleReported'
    BY <1>0 DEF InjectorInv, Injector!CycleReported, Injector!Cyclic
  <1> QED BY <1>0, <1>1, <1>3, <1>4 DEF InjectorInv

\* Every step of the injector keeps its invariant.
LEMMA InjectorKept == InjectorInv /\ [Injector!Next]_injectVars => InjectorInv'
  <1>1. ASSUME InjectorInv, UNCHANGED injectVars
        PROVE  InjectorInv'
    <2>1. UNCHANGED <<dDevelopment, dPhase, dNeeds, dDependents, dMark, dProvided, dPath,
                      dOutput, dInstances>>
      BY <1>1 DEF injectVars
    <2>2. InjectorTypes' /\ Edges'
      BY <1>1, <2>1 DEF InjectorInv, InjectorTypes, Edges
    <2>3. /\ Injector!Cyclic' <=> Injector!Cyclic
          /\ Injector!Satisfied' <=> Injector!Satisfied
      BY <2>1 DEF Injector!Cyclic, Injector!Satisfied
    <2>4. (Calm' <=> Calm) /\ (Good' <=> Good) BY <2>1, <2>3 DEF Calm, Good
    <2>5. dPhase = "config" => Untouched'
      BY <1>1, <2>1 DEF InjectorInv, Untouched
    <2>6. dPhase = "visit" => (dInstances = {} /\ Chained(dPath) /\ OnPath(dPath, dMark))'
      BY <1>1, <2>1 DEF InjectorInv, Chained, OnPath
    <2>7. dPhase = "visit" /\ Calm => (Behind(dPath, dMark) /\ Closed(dMark) /\ Acyclic(dMark))'
      BY <1>1, <2>1 DEF InjectorInv, Behind, Closed, Acyclic
    <2>8. dPhase = "visit" /\ Good => (Found(dOutput, dMark) /\ Ordered(dOutput, dMark))'
      BY <1>1, <2>1 DEF InjectorInv, Found, Ordered
    <2>9. dPhase = "run" /\ Good => Runnable(dOutput, dInstances)'
      BY <1>1, <2>1 DEF InjectorInv, Runnable
    <2>10. Injector!BuildsInOrder' /\ Injector!CycleReported'
      BY <1>1, <2>1, <2>3 DEF InjectorInv, Injector!BuildsInOrder, Injector!CycleReported
    <2> QED
      BY <2>1, <2>2, <2>4, <2>5, <2>6, <2>7, <2>8, <2>9, <2>10 DEF InjectorInv
  <1> QED
    BY <1>1, AddKept, BuildKept, RootKept, DependentKept, LeaveKept, EndKept, RunKept, BuiltKept
    DEF Injector!Next

\* For any types, factories and order of the search: factories that need only
\* what others provide, without a cycle, are all run, each after those that make
\* its parameters; and a development build reports a cycle before any has run.
THEOREM DependenciesComeFirst == LibrarySpec => []DependenciesFirst
  <1>1. LibraryInit => InjectorInv
    BY DEF LibraryInit, LibraryStart, Injector!Init, InjectorInv, InjectorTypes, Marks, Edges,
       Untouched, Injector!BuildsInOrder, Injector!CycleReported
  <1>2. [LibraryNext]_libraryVars => [Injector!Next]_injectVars
    BY DEF LibraryNext, libraryVars, injectVars
  <1>3. InjectorInv => DependenciesFirst BY DEF InjectorInv, DependenciesFirst
  <1> QED BY <1>1, <1>2, <1>3, InjectorKept, PTL DEF LibrarySpec

----------------------------------------------------------------------------
(* PriorityQueue: items of any order among the integers, and any length.   *)

\* Where parents and children are.
LEMMA Kin ==
  ASSUME NEW i \in Nat
  PROVE  /\ Heap!Parent(i) \in 0 .. i
         /\ Heap!Parent(0) = 0
         /\ i # 0 => /\ Heap!Parent(i) \in 0 .. i - 1
                     /\ i = Heap!Left(Heap!Parent(i)) \/ i = Heap!Right(Heap!Parent(i))
         /\ Heap!Left(i) \in Nat /\ Heap!Right(i) \in Nat
         /\ Heap!Left(i) > i /\ Heap!Right(i) > i
         /\ Heap!Parent(Heap!Left(i)) = i /\ Heap!Parent(Heap!Right(i)) = i
  BY DEF Heap!Parent, Heap!Left, Heap!Right

\* The instance counts as we do.
LEMMA InstanceCounts == \A S : Heap!Cardinality(S) = Cardinality(S)
  BY DEF Heap!Cardinality, Cardinality

\* A range of n items.
LEMMA RangeFacts ==
  ASSUME NEW n \in Nat, NEW h \in RangesOf(n)
  PROVE  /\ DOMAIN h = 0 .. n - 1 /\ Heap!Length(h) = n
         /\ HeapItems \subseteq Int
         /\ \A i \in 0 .. n - 1 : h[i] \in Int /\ h[i] \in HeapItems
         /\ \A i \in 0 .. n - 1 : i \in Nat /\ Heap!Parent(i) \in 0 .. n - 1
  <1>1. HeapItems \subseteq Int
    BY LibraryAssumption DEF Heap!PriorityQueueAssumption
  <1>2. DOMAIN h = 0 .. n - 1 /\ \A i \in 0 .. n - 1 : h[i] \in HeapItems
    BY DEF RangesOf
  <1>3. Cardinality(0 .. n - 1) = n
    <2>1. 0 \in Int /\ n - 1 \in Int OBVIOUS
    <2>2. Cardinality(0 .. n - 1) = IF 0 > n - 1 THEN 0 ELSE (n - 1) - 0 + 1
      BY <2>1, FS_Interval
    <2> QED BY <2>2
  <1>4. \A i \in 0 .. n - 1 : i \in Nat /\ Heap!Parent(i) \in 0 .. n - 1
    <2> SUFFICES ASSUME NEW i \in 0 .. n - 1
                 PROVE  i \in Nat /\ Heap!Parent(i) \in 0 .. n - 1
      OBVIOUS
    <2>1. i \in Nat /\ Heap!Parent(i) \in 0 .. i BY Kin
    <2> QED BY <2>1
  <1>5. Heap!Length(h) = n BY <1>2, <1>3, InstanceCounts DEF Heap!Length
  <1>6. \A i \in 0 .. n - 1 : h[i] \in Int BY <1>1, <1>2
  <1> QED BY <1>1, <1>2, <1>4, <1>5, <1>6

\* The same items as those of a range with the same ones.
LEMMA SameSame ==
  ASSUME NEW f, NEW g, NEW h, SameItems(f, g), SameItems(g, h)
  PROVE  SameItems(f, h)
  BY DEF SameItems

\* An exchange.
LEMMA Exchanged ==
  ASSUME NEW n \in Nat, NEW h \in RangesOf(n), NEW a \in 0 .. n - 1, NEW b \in 0 .. n - 1,
         NEW g, g = Heap!Exchange(h, a, b)
  PROVE  /\ g \in RangesOf(n) /\ g[a] = h[b] /\ g[b] = h[a]
         /\ \A i \in 0 .. n - 1 : i # a /\ i # b => g[i] = h[i]
         /\ SameItems(g, h)
  <1>1. /\ g \in RangesOf(n) /\ g[a] = h[b] /\ g[b] = h[a]
        /\ \A i \in 0 .. n - 1 : i # a /\ i # b => g[i] = h[i]
    BY DEF RangesOf, Heap!Exchange
  <1>2. DOMAIN g = 0 .. n - 1 /\ DOMAIN h = 0 .. n - 1 BY <1>1 DEF RangesOf
  <1>3. ASSUME NEW x \in HeapItems
        PROVE  Cardinality(PlacesOf(g, x)) = Cardinality(PlacesOf(h, x))
    <2> DEFINE G == PlacesOf(g, x)
               H == PlacesOf(h, x)
               f == [i \in H |-> IF i = a THEN b ELSE IF i = b THEN a ELSE i]
    <2>1. /\ \A i : i \in G <=> i \in 0 .. n - 1 /\ g[i] = x
          /\ \A i : i \in H <=> i \in 0 .. n - 1 /\ h[i] = x
      BY <1>2 DEF PlacesOf
    <2> HIDE DEF G, H
    <2>2. IsFiniteSet(H)
      <3>1. 0 \in Int /\ n - 1 \in Int OBVIOUS
      <3>2. IsFiniteSet(0 .. n - 1) BY <3>1, FS_Interval
      <3>3. H \subseteq 0 .. n - 1 BY <2>1
      <3> QED BY <3>2, <3>3, FS_Subset
    <2>3. \A i \in H : f[i] \in G BY <1>1, <2>1
    <2>4. \A i, j \in H : f[i] = f[j] => i = j OBVIOUS
    <2>5. \A k \in G : \E i \in H : f[i] = k
      <3> SUFFICES ASSUME NEW k \in G
                   PROVE  \E i \in H : f[i] = k
        OBVIOUS
      <3> DEFINE i == IF k = a THEN b ELSE IF k = b THEN a ELSE k
      <3>1. i \in H BY <1>1, <2>1
      <3>2. f[i] = k BY <3>1
      <3> QED BY <3>1, <3>2
    <2>6. f \in Bijection(H, G)
      BY <2>3, <2>4, <2>5 DEF Bijection, Injection, Surjection, IsInjective
    <2>7. Cardinality(G) = Cardinality(H)
      BY <2>2, <2>6, FS_Bijection DEF ExistsBijection
    <2> QED BY <2>7 DEF G, H
  <1> QED BY <1>1, <1>3 DEF SameItems

\* is_valid, which looks at the nodes that have children, tells whether all are in order.
LEMMA ValidIsHeap ==
  ASSUME NEW n \in Nat, NEW h \in RangesOf(n)
  PROVE  Heap!IsValid(h) <=> HeapFrom(h, 0)
  <1>1. DOMAIN h = 0 .. n - 1 /\ Heap!Length(h) = n BY RangeFacts
  <1>2. ASSUME Heap!IsValid(h), NEW c \in 0 .. n - 1, c # 0
        PROVE  h[c] <= h[Heap!Parent(c)]
    <2> DEFINE p == Heap!Parent(c)
    <2>1. c \in Nat /\ p \in Nat /\ (c = Heap!Left(p) \/ c = Heap!Right(p))
      BY <1>2, Kin
    <2>2. p \in 0 .. n \div 2 - 1 BY <1>2 DEF Heap!Parent
    <2> HIDE DEF p
    <2>3. c \in {Heap!Left(p), Heap!Right(p)} \intersect DOMAIN h BY <1>1, <2>1
    <2>4. h[c] <= h[p] BY <1>1, <1>2, <2>2, <2>3 DEF Heap!IsValid
    <2> QED BY <2>4 DEF p
  <1>3. ASSUME HeapFrom(h, 0), NEW i \in 0 .. n \div 2 - 1,
               NEW c \in {Heap!Left(i), Heap!Right(i)} \intersect DOMAIN h
        PROVE  h[c] <= h[i]
    <2>1. i \in Nat OBVIOUS
    <2>2. Heap!Parent(c) = i /\ c # 0 BY <2>1, Kin
    <2> QED BY <1>3, <2>1, <2>2 DEF HeapFrom
  <1> QED BY <1>1, <1>2, <1>3 DEF Heap!IsValid, HeapFrom

\* The first of a range in order is the largest of it.
LEMMA TopOfHeap ==
  ASSUME NEW n \in Nat, NEW h \in RangesOf(n), HeapFrom(h, 0), NEW i \in 0 .. n - 1
  PROVE  h[i] <= h[0]
  <1> DEFINE T == {j \in 0 .. n - 1 : ~ (h[j] <= h[0])}
  <1>1. SUFFICES ASSUME T # {}
                 PROVE  FALSE
    OBVIOUS
  <1>2. PICK j \in T : \A k \in T : j <= k
    <2> HIDE DEF T
    <2>1. T \subseteq Nat BY DEF T
    <2> QED BY <1>1, <2>1, LeastNumber
  <1>3. /\ DOMAIN h = 0 .. n - 1 /\ j \in 0 .. n - 1 /\ j \in Nat /\ 0 \in 0 .. n - 1
        /\ \A k \in 0 .. n - 1 : h[k] \in Int
    <2>1. DOMAIN h = 0 .. n - 1 /\ \A k \in 0 .. n - 1 : h[k] \in Int
      BY RangeFacts
    <2>2. j \in 0 .. n - 1 /\ j \in Nat /\ 0 \in 0 .. n - 1 BY <1>2
    <2> QED BY <2>1, <2>2
  <1>4. j # 0 BY <1>2, <1>3
  <1> DEFINE p == Heap!Parent(j)
  <1>5. p \in 0 .. j - 1 BY <1>3, <1>4, Kin
  <1> HIDE DEF p
  <1>6. p \in 0 .. n - 1 /\ p < j BY <1>3, <1>5
  <1>7. p \notin T BY <1>2, <1>3, <1>6
  <1>8. h[p] <= h[0] BY <1>6, <1>7
  <1>9. h[j] <= h[p] BY <1>3, <1>4, <1>6 DEF HeapFrom, p
  <1> QED BY <1>2, <1>3, <1>6, <1>8, <1>9

\* One step up.
LEMMA RisenKeeps ==
  ASSUME NEW n \in Nat, NEW s \in Steps(n), NEW t, t = Heap!Risen(s)
  PROVE  /\ t \in Steps(n)
         /\ SameItems(t.range, s.range)
         /\ Rising(s.range, s.at) => Rising(t.range, t.at)
         /\ (t = s /\ s.range[s.at] <= s.range[Heap!Parent(s.at)]) \/ t.at < s.at
  <1> DEFINE h == s.range
             a == s.at
             p == Heap!Parent(a)
             g == Heap!Exchange(h, a, p)
  <1>1. h \in RangesOf(n) /\ a \in 0 .. n - 1 /\ a \in Nat BY DEF Steps
  <1>2. p \in 0 .. n - 1 /\ (a = 0 => p = 0) /\ (a # 0 => p < a)
    <2>1. p \in 0 .. a /\ (a = 0 => p = 0) /\ (a # 0 => p \in 0 .. a - 1)
      BY <1>1, Kin
    <2> HIDE DEF p, a
    <2> QED BY <1>1, <2>1
  <1>3. t = IF h[p] < h[a] THEN [range |-> g, at |-> p] ELSE s BY DEF Heap!Risen
  <1> HIDE DEF h, a, p, g
  <1>4. DOMAIN h = 0 .. n - 1 /\ \A i \in 0 .. n - 1 : h[i] \in Int
    BY <1>1, RangeFacts
  <1>5. CASE ~ (h[p] < h[a])
    <2>1. t = s /\ h[a] <= h[p] BY <1>1, <1>2, <1>3, <1>4, <1>5
    <2> QED BY <2>1 DEF SameItems, h, a, p
  <1>6. CASE h[p] < h[a]
    <2>1. t = [range |-> g, at |-> p] /\ t.range = g /\ t.at = p BY <1>3, <1>6
    <2>2. a # 0 /\ p < a BY <1>1, <1>2, <1>4, <1>6
    <2>3. /\ g \in RangesOf(n) /\ g[a] = h[p] /\ g[p] = h[a]
          /\ \A i \in 0 .. n - 1 : i # a /\ i # p => g[i] = h[i]
          /\ SameItems(g, h)
      BY <1>1, <1>2, Exchanged DEF g
    <2>4. t \in Steps(n) BY <1>2, <2>1, <2>3 DEF Steps
    <2>5. ASSUME Rising(h, a)
          PROVE  Rising(g, p)
      <3>1. DOMAIN g = 0 .. n - 1 BY <2>3, RangeFacts
      <3>2. \A c \in 0 .. n - 1 : c # 0 /\ c # a => h[c] <= h[Heap!Parent(c)]
        BY <1>4, <2>5 DEF Rising
      <3>3. \A c \in 0 .. n - 1 : c # 0 /\ Heap!Parent(c) = a => h[c] <= h[p]
        BY <1>4, <2>2, <2>5 DEF Rising, p
      <3>4. \A c \in 0 .. n - 1 : Heap!Parent(c) \in 0 .. n - 1 /\ c \in Nat
        BY <1>1, RangeFacts
      <3>5. ASSUME NEW c \in 0 .. n - 1, c # 0, c # p
            PROVE  g[c] <= g[Heap!Parent(c)]
        <4>1. CASE c = a
          <5>1. Heap!Parent(c) = p BY <4>1 DEF p
          <5> QED BY <1>1, <1>2, <1>4, <1>6, <2>3, <4>1, <5>1
        <4>2. CASE c # a /\ Heap!Parent(c) = a
          BY <1>1, <1>2, <1>4, <2>3, <3>3, <3>5, <4>2
        <4>3. CASE c # a /\ Heap!Parent(c) = p
          BY <1>1, <1>2, <1>4, <1>6, <2>3, <3>2, <3>5, <4>3
        <4>4. CASE c # a /\ Heap!Parent(c) # a /\ Heap!Parent(c) # p
          BY <2>3, <3>2, <3>4, <3>5, <4>4
        <4> QED BY <4>1, <4>2, <4>3, <4>4
      <3>6. ASSUME NEW c \in 0 .. n - 1, c # 0, p # 0, Heap!Parent(c) = p
            PROVE  g[c] <= g[Heap!Parent(p)]
        <4> DEFINE q == Heap!Parent(p)
        <4>1. p \in Nat /\ q \in 0 .. p - 1 BY <1>2, <3>6, Kin
        <4> HIDE DEF q
        <4>2. q \in 0 .. n - 1 /\ q # p /\ q # a BY <1>1, <1>2, <2>2, <4>1
        <4>3. h[p] <= h[q] BY <1>2, <2>2, <3>2, <3>6 DEF q
        <4>4. g[q] = h[q] BY <2>3, <4>2
        <4>5. c # p BY <3>4, <3>6, Kin
        <4>6. CASE c = a BY <2>3, <4>3, <4>4, <4>6 DEF q
        <4>7. CASE c # a
          <5>1. h[c] <= h[p] /\ g[c] = h[c] BY <2>3, <3>2, <3>6, <4>5, <4>7
          <5> QED BY <1>2, <1>4, <4>2, <4>3, <4>4, <5>1 DEF q
        <4> QED BY <4>6, <4>7
      <3> QED BY <3>1, <3>5, <3>6 DEF Rising
    <2> QED BY <2>1, <2>2, <2>3, <2>4, <2>5 DEF h, a
  <1> QED BY <1>5, <1>6

\* up_heap puts an item that may be too large for its place in order.
LEMMA UpHeapKeeps ==
  ASSUME NEW n \in Nat, NEW h \in RangesOf(n), NEW i \in 0 .. n - 1, Rising(h, i)
  PROVE  /\ Heap!UpHeap(h, i) \in RangesOf(n)
         /\ SameItems(Heap!UpHeap(h, i), h)
         /\ HeapFrom(Heap!UpHeap(h, i), 0)
  <1> DEFINE S == Steps(n)
             first == [range |-> h, at |-> i]
             next == [k \in Nat |-> [s \in S |-> Heap!Risen(s)]]
             up == CHOOSE up : up = [k \in Nat |->
                     IF k = 0 THEN [range |-> h, at |-> i] ELSE Heap!Risen(up[k - 1])]
  <1>1. first \in S BY DEF Steps
  <1>2. \A s \in S : Heap!Risen(s) \in S BY RisenKeeps
  <1>3. next \in [Nat -> [S -> S]]
    <2> HIDE DEF S
    <2> QED BY <1>2
  <1>4. PICK f \in [Nat -> S] : Runs(f, first, next)
    <2> HIDE DEF next, S, first
    <2> QED BY <1>1, <1>3, RunExists
  <1>5. f[0] = first /\ \A k \in Nat : f[k + 1] = Heap!Risen(f[k])
    <2> HIDE DEF S, first
    <2> QED BY <1>4 DEF Runs
  <1>6. f = [k \in Nat |-> IF k = 0 THEN [range |-> h, at |-> i] ELSE Heap!Risen(f[k - 1])]
    <2>1. ASSUME NEW k \in Nat, k # 0
          PROVE  f[k] = Heap!Risen(f[k - 1])
      <3>1. k - 1 \in Nat /\ (k - 1) + 1 = k BY <2>1
      <3> QED BY <1>5, <3>1
    <2> HIDE DEF S
    <2> QED BY <1>5, <2>1
  <1>7. up = [k \in Nat |-> IF k = 0 THEN [range |-> h, at |-> i] ELSE Heap!Risen(up[k - 1])]
    BY <1>6
  <1>8. Heap!UpHeap(h, i) = up[i].range BY DEF Heap!UpHeap
  <1> HIDE DEF up, S, next
  <1>9. up[0] = first /\ \A k \in Nat : up[k + 1] = Heap!Risen(up[k])
    <2>1. \A k \in Nat : k + 1 \in Nat /\ k + 1 # 0 /\ (k + 1) - 1 = k OBVIOUS
    <2> QED BY <1>7, <2>1
  <1> DEFINE T == {k \in Nat :
                     /\ up[k] \in S
                     /\ SameItems(up[k].range, h)
                     /\ Rising(up[k].range, up[k].at)
                     /\ \/ up[k].at + k <= i
                        \/ up[k].range[up[k].at] <= up[k].range[Heap!Parent(up[k].at)]}
  <1>10. 0 \in T
    <2>1. up[0].range = h /\ up[0].at = i /\ i + 0 <= i BY <1>9
    <2> QED BY <1>1, <1>9, <2>1 DEF SameItems
  <1>11. ASSUME NEW k \in Nat, k \in T
         PROVE  k + 1 \in T
    <2> DEFINE s == up[k]
               t == up[k + 1]
    <2>1. s \in Steps(n) /\ t = Heap!Risen(s) BY <1>9, <1>11 DEF S
    <2> HIDE DEF s, t
    <2>2. /\ t \in Steps(n)
          /\ SameItems(t.range, s.range)
          /\ Rising(s.range, s.at) => Rising(t.range, t.at)
          /\ (t = s /\ s.range[s.at] <= s.range[Heap!Parent(s.at)]) \/ t.at < s.at
      BY <2>1, RisenKeeps
    <2>3. /\ SameItems(s.range, h)
          /\ Rising(s.range, s.at)
          /\ s.at + k <= i \/ s.range[s.at] <= s.range[Heap!Parent(s.at)]
      BY <1>11 DEF s
    <2>4. SameItems(t.range, h) /\ Rising(t.range, t.at) BY <2>2, <2>3, SameSame
    <2>5. \/ t.at + (k + 1) <= i
          \/ t.range[t.at] <= t.range[Heap!Parent(t.at)]
      <3>1. CASE t = s /\ s.range[s.at] <= s.range[Heap!Parent(s.at)] BY <3>1
      <3>2. CASE t.at < s.at /\ s.at + k <= i
        <4>1. t.at \in Int /\ s.at \in Int BY <2>1, <2>2 DEF Steps
        <4> QED BY <3>2, <4>1
      <3>3. CASE s.range[s.at] <= s.range[Heap!Parent(s.at)]
        <4>1. t = s
          <5>1. s.range \in RangesOf(n) /\ s.at \in 0 .. n - 1 BY <2>1 DEF Steps
          <5>2. ~ (s.range[Heap!Parent(s.at)] < s.range[s.at])
            BY <3>3, <5>1, RangeFacts
          <5> QED BY <2>1, <5>2 DEF Heap!Risen
        <4> QED BY <3>3, <4>1
      <3> QED BY <2>2, <2>3, <3>1, <3>2, <3>3
    <2> QED BY <2>2, <2>4, <2>5 DEF t, S
  <1>12. i \in T
    <2> HIDE DEF T
    <2> QED BY <1>10, <1>11, NumbersByStep
  <1> DEFINE s == up[i]
  <1>13. /\ s \in Steps(n) /\ SameItems(s.range, h) /\ Rising(s.range, s.at)
         /\ s.at + i <= i \/ s.range[s.at] <= s.range[Heap!Parent(s.at)]
    BY <1>12 DEF S
  <1> HIDE DEF s, T
  <1>14. s.range \in RangesOf(n) /\ s.at \in 0 .. n - 1 BY <1>13 DEF Steps
  <1>15. s.at = 0 \/ s.range[s.at] <= s.range[Heap!Parent(s.at)] BY <1>13, <1>14
  <1>16. HeapFrom(s.range, 0) BY <1>13, <1>15 DEF HeapFrom, Rising
  <1> QED BY <1>8, <1>13, <1>14, <1>16 DEF s

\* The largest of a node and its children.
LEMMA LargestFacts ==
  ASSUME NEW n \in Nat, NEW h \in RangesOf(n), NEW i \in 0 .. n - 1,
         NEW l, l = Heap!Largest(h, i)
  PROVE  /\ l \in 0 .. n - 1
         /\ l = i \/ (l > i /\ Heap!Parent(l) = i)
         /\ h[i] <= h[l]
         /\ \A c \in 0 .. n - 1 : c # 0 /\ Heap!Parent(c) = i => h[c] <= h[l]
  <1>1. DOMAIN h = 0 .. n - 1 /\ \A j \in 0 .. n - 1 : h[j] \in Int
    BY RangeFacts
  <1> DEFINE a == Heap!Left(i)
             b == Heap!Right(i)
             m == IF a \in DOMAIN h /\ h[i] < h[a] THEN a ELSE i
  <1>2. /\ a \in Nat /\ b \in Nat /\ a > i /\ b > i
        /\ Heap!Parent(a) = i /\ Heap!Parent(b) = i
    BY Kin
  <1>3. \A c \in 0 .. n - 1 : c # 0 /\ Heap!Parent(c) = i => c = a \/ c = b
    BY Kin
  <1>4. l = IF b \in DOMAIN h /\ h[m] < h[b] THEN b ELSE m BY DEF Heap!Largest
  <1> HIDE DEF a, b
  <1>5. /\ m \in 0 .. n - 1 /\ (m = i \/ m = a) /\ h[i] <= h[m]
        /\ a \in 0 .. n - 1 => h[a] <= h[m]
    BY <1>1, <1>2
  <1> HIDE DEF m
  <1>6. /\ l \in 0 .. n - 1 /\ (l = m \/ l = b) /\ h[m] <= h[l]
        /\ b \in 0 .. n - 1 => h[b] <= h[l]
    BY <1>1, <1>4, <1>5
  <1>7. h[i] <= h[l] /\ (a \in 0 .. n - 1 => h[a] <= h[l]) BY <1>1, <1>5, <1>6
  <1>8. l = i \/ (l > i /\ Heap!Parent(l) = i)
    <2>1. l = i \/ l = a \/ l = b BY <1>5, <1>6
    <2>2. CASE l = a BY <1>2, <2>2
    <2>3. CASE l = b BY <1>2, <2>3
    <2> QED BY <2>1, <2>2, <2>3
  <1>9. \A c \in 0 .. n - 1 : c # 0 /\ Heap!Parent(c) = i => h[c] <= h[l]
    BY <1>3, <1>6, <1>7
  <1> QED BY <1>6, <1>7, <1>8, <1>9

\* One step down.
LEMMA SunkKeeps ==
  ASSUME NEW n \in Nat, NEW s \in Steps(n), NEW t, t = Heap!Sunk(s)
  PROVE  /\ t \in Steps(n)
         /\ SameItems(t.range, s.range)
         /\ t = s \/ t.at > s.at
         /\ \A lo \in Nat : lo <= s.at /\ Sinking(s.range, lo, s.at) =>
              /\ Sinking(t.range, lo, t.at)
              /\ t = s => HeapFrom(s.range, lo)
  <1> DEFINE h == s.range
             a == s.at
             l == Heap!Largest(h, a)
             g == Heap!Exchange(h, a, l)
  <1>1. h \in RangesOf(n) /\ a \in 0 .. n - 1 /\ a \in Nat BY DEF Steps
  <1>2. t = [range |-> g, at |-> l] /\ t.range = g /\ t.at = l BY DEF Heap!Sunk
  <1>3. s = [range |-> h, at |-> a] BY DEF Steps
  <1> HIDE DEF h, a
  <1>4. /\ l \in 0 .. n - 1
        /\ l = a \/ (l > a /\ Heap!Parent(l) = a)
        /\ h[a] <= h[l]
        /\ \A c \in 0 .. n - 1 : c # 0 /\ Heap!Parent(c) = a => h[c] <= h[l]
    BY <1>1, LargestFacts
  <1>5. DOMAIN h = 0 .. n - 1 /\ \A i \in 0 .. n - 1 : h[i] \in Int
    BY <1>1, RangeFacts
  <1> HIDE DEF l
  <1>6. /\ g \in RangesOf(n) /\ g[a] = h[l] /\ g[l] = h[a]
        /\ \A i \in 0 .. n - 1 : i # a /\ i # l => g[i] = h[i]
        /\ SameItems(g, h)
    BY <1>1, <1>4, Exchanged
  <1>7. t \in Steps(n) BY <1>2, <1>4, <1>6 DEF Steps
  <1>8. CASE l = a
    <2>1. g = h BY <1>1, <1>8 DEF RangesOf, Heap!Exchange
    <2>2. t = s BY <1>2, <1>3, <1>8, <2>1
    <2>3. ASSUME NEW lo \in Nat, Sinking(h, lo, a)
          PROVE  HeapFrom(h, lo)
      BY <1>4, <1>5, <1>8, <2>3 DEF Sinking, HeapFrom
    <2> QED BY <1>6, <1>7, <2>1, <2>2, <2>3 DEF h, a
  <1>9. CASE l # a
    <2>1. l > a /\ Heap!Parent(l) = a /\ l # 0 BY <1>1, <1>4, <1>9
    <2>2. t # s /\ t.at > s.at BY <1>2, <1>3, <1>9, <2>1 DEF a
    <2> HIDE DEF g
    <2>3. ASSUME NEW lo \in Nat, lo <= a, Sinking(h, lo, a)
          PROVE  Sinking(g, lo, l)
      <3>1. DOMAIN g = 0 .. n - 1 BY <1>6, RangeFacts
      <3>2. \A c \in 0 .. n - 1 : c # 0 /\ Heap!Parent(c) >= lo /\ Heap!Parent(c) # a =>
              h[c] <= h[Heap!Parent(c)]
        BY <1>5, <2>3 DEF Sinking
      <3>3. \A c \in 0 .. n - 1 : c # 0 /\ a # 0 /\ Heap!Parent(c) = a /\ Heap!Parent(a) >= lo =>
              h[c] <= h[Heap!Parent(a)]
        BY <1>5, <2>3 DEF Sinking
      <3>4. \A c \in 0 .. n - 1 : Heap!Parent(c) \in 0 .. n - 1
        BY <1>1, RangeFacts
      <3>5. ASSUME NEW c \in 0 .. n - 1, c # 0, Heap!Parent(c) >= lo, Heap!Parent(c) # l
            PROVE  g[c] <= g[Heap!Parent(c)]
        <4> DEFINE p == Heap!Parent(c)
        <4>0. p \in 0 .. n - 1 /\ p >= lo /\ p # l BY <3>4, <3>5
        <4>1. CASE p = a /\ c = l BY <1>4, <1>6, <4>1
        <4>2. CASE p = a /\ c # l
          <5>1. c # a
            <6>1. c \in Nat /\ p \in 0 .. c - 1 BY <3>5, Kin
            <6> QED BY <4>2, <6>1
          <5>2. h[c] <= h[l] /\ g[c] = h[c] BY <1>4, <1>6, <3>5, <4>2, <5>1
          <5> QED BY <1>6, <4>2, <5>2
        <4>3. CASE p # a /\ c = a
          <5>1. h[l] <= h[p] BY <1>4, <2>1, <3>3, <3>5, <4>3
          <5>2. g[p] = h[p] /\ g[c] = h[l] BY <1>6, <4>0, <4>3
          <5> QED BY <5>1, <5>2
        <4>4. CASE p # a /\ c # a
          <5>1. c # l BY <2>1, <4>4
          <5>2. h[c] <= h[p] BY <3>2, <3>5, <4>4
          <5>3. g[p] = h[p] /\ g[c] = h[c] BY <1>6, <4>0, <4>4, <5>1
          <5> QED BY <5>2, <5>3
        <4> QED BY <4>1, <4>2, <4>3, <4>4
      <3>6. ASSUME NEW c \in 0 .. n - 1, c # 0, Heap!Parent(c) = l
            PROVE  g[c] <= g[Heap!Parent(l)]
        <4>1. c \in Nat /\ l \in 0 .. c - 1 BY <3>6, Kin
        <4>2. c # l /\ c # a /\ l >= lo BY <1>1, <1>4, <2>1, <2>3, <4>1
        <4>3. h[c] <= h[l] BY <1>4, <2>1, <3>2, <3>6, <4>2
        <4> QED BY <1>6, <2>1, <4>2, <4>3
      <3> QED BY <3>1, <3>5, <3>6 DEF Sinking
    <2> QED BY <1>2, <1>6, <1>7, <2>2, <2>3 DEF h, a
  <1> QED BY <1>8, <1>9

\* down_heap puts an item that may be too small for its place in order.
LEMMA DownHeapKeeps ==
  ASSUME NEW n \in Nat, NEW h \in RangesOf(n), NEW i \in 0 .. n - 1
  PROVE  /\ Heap!DownHeap(h, i) \in RangesOf(n)
         /\ SameItems(Heap!DownHeap(h, i), h)
         /\ \A lo \in 0 .. i : Sinking(h, lo, i) => HeapFrom(Heap!DownHeap(h, i), lo)
  <1> DEFINE S == Steps(n)
             first == [range |-> h, at |-> i]
             next == [k \in Nat |-> [s \in S |-> Heap!Sunk(s)]]
             down == CHOOSE down : down = [k \in Nat |->
                       IF k = 0 THEN [range |-> h, at |-> i] ELSE Heap!Sunk(down[k - 1])]
  <1>1. first \in S BY DEF Steps
  <1>2. \A s \in S : Heap!Sunk(s) \in S BY SunkKeeps
  <1>3. next \in [Nat -> [S -> S]]
    <2> HIDE DEF S
    <2> QED BY <1>2
  <1>4. PICK f \in [Nat -> S] : Runs(f, first, next)
    <2> HIDE DEF next, S, first
    <2> QED BY <1>1, <1>3, RunExists
  <1>5. f[0] = first /\ \A k \in Nat : f[k + 1] = Heap!Sunk(f[k])
    <2> HIDE DEF S, first
    <2> QED BY <1>4 DEF Runs
  <1>6. f = [k \in Nat |-> IF k = 0 THEN [range |-> h, at |-> i] ELSE Heap!Sunk(f[k - 1])]
    <2>1. ASSUME NEW k \in Nat, k # 0
          PROVE  f[k] = Heap!Sunk(f[k - 1])
      <3>1. k - 1 \in Nat /\ (k - 1) + 1 = k BY <2>1
      <3> QED BY <1>5, <3>1
    <2> HIDE DEF S
    <2> QED BY <1>5, <2>1
  <1>7. down = [k \in Nat |-> IF k = 0 THEN [range |-> h, at |-> i] ELSE Heap!Sunk(down[k - 1])]
    BY <1>6
  <1>8. Heap!DownHeap(h, i) = down[n].range
    <2>1. Heap!Length(h) = n BY RangeFacts
    <2>2. Heap!DownHeap(h, i) = down[Heap!Length(h)].range BY DEF Heap!DownHeap
    <2> HIDE DEF down
    <2> QED BY <2>1, <2>2
  <1> HIDE DEF down, S, next
  <1>9. down[0] = first /\ \A k \in Nat : down[k + 1] = Heap!Sunk(down[k])
    <2>1. \A k \in Nat : k + 1 \in Nat /\ k + 1 # 0 /\ (k + 1) - 1 = k OBVIOUS
    <2> QED BY <1>7, <2>1
  <1>10. down[0].range = h /\ down[0].at = i /\ down[0] \in Steps(n)
    BY <1>1, <1>9 DEF S
  <1> DEFINE T == {k \in Nat :
                     /\ down[k] \in S
                     /\ SameItems(down[k].range, h)
                     /\ down[k].at >= i
                     /\ down[k].at >= i + k \/ Heap!Sunk(down[k]) = down[k]
                     /\ \A lo \in 0 .. i : Sinking(h, lo, i) =>
                          Sinking(down[k].range, lo, down[k].at)}
  <1>11. 0 \in T BY <1>10 DEF SameItems, S
  <1>12. ASSUME NEW k \in Nat, k \in T
         PROVE  k + 1 \in T
    <2> DEFINE s == down[k]
               t == down[k + 1]
    <2>1. s \in Steps(n) /\ t = Heap!Sunk(s) BY <1>9, <1>12 DEF S
    <2>2. /\ SameItems(s.range, h)
          /\ s.at >= i
          /\ s.at >= i + k \/ t = s
          /\ \A lo \in 0 .. i : Sinking(h, lo, i) => Sinking(s.range, lo, s.at)
      BY <1>12, <2>1
    <2> HIDE DEF s, t
    <2>3. /\ t \in Steps(n)
          /\ SameItems(t.range, s.range)
          /\ t = s \/ t.at > s.at
          /\ \A lo \in Nat : lo <= s.at /\ Sinking(s.range, lo, s.at) =>
               Sinking(t.range, lo, t.at)
      BY <2>1, SunkKeeps
    <2>4. s.at \in Nat /\ t.at \in Nat BY <2>1, <2>3 DEF Steps
    <2>5. SameItems(t.range, h) BY <2>2, <2>3, SameSame
    <2>6. t.at >= i /\ (t.at >= i + (k + 1) \/ Heap!Sunk(t) = t)
      <3>1. CASE t = s BY <2>1, <2>2, <3>1
      <3>2. CASE t # s BY <2>2, <2>3, <2>4, <3>2
      <3> QED BY <3>1, <3>2
    <2>7. \A lo \in 0 .. i : Sinking(h, lo, i) => Sinking(t.range, lo, t.at)
      <3>1. \A lo \in 0 .. i : lo \in Nat /\ lo <= s.at BY <2>2, <2>4
      <3> QED BY <2>2, <2>3, <3>1
    <2> QED BY <2>3, <2>5, <2>6, <2>7 DEF t, S
  <1>13. n \in T
    <2> HIDE DEF T
    <2> QED BY <1>11, <1>12, NumbersByStep
  <1> DEFINE s == down[n]
  <1>14. /\ s \in Steps(n) /\ SameItems(s.range, h) /\ s.at >= i
         /\ s.at >= i + n \/ Heap!Sunk(s) = s
         /\ \A lo \in 0 .. i : Sinking(h, lo, i) => Sinking(s.range, lo, s.at)
    BY <1>13 DEF S
  <1> HIDE DEF s, T
  <1>15. s.range \in RangesOf(n) /\ s.at \in 0 .. n - 1 /\ s.at \in Nat
    BY <1>14 DEF Steps
  <1>16. Heap!Sunk(s) = s BY <1>14, <1>15
  <1>17. ASSUME NEW lo \in 0 .. i, Sinking(h, lo, i)
         PROVE  HeapFrom(s.range, lo)
    <2>1. lo \in Nat /\ lo <= s.at /\ Sinking(s.range, lo, s.at)
      BY <1>14, <1>15, <1>17
    <2> QED BY <1>14, <1>16, <2>1, SunkKeeps
  <1> QED BY <1>8, <1>14, <1>15, <1>17 DEF s

\* build puts any range in order.
LEMMA BuildKeeps ==
  ASSUME NEW n \in Nat, NEW h \in RangesOf(n)
  PROVE  /\ Heap!Build(h) \in RangesOf(n)
         /\ SameItems(Heap!Build(h), h)
         /\ HeapFrom(Heap!Build(h), 0)
  <1> DEFINE half == n \div 2
             S == RangesOf(n)
             next == [k \in Nat |->
                        [g \in S |-> IF k < half THEN Heap!DownHeap(g, half - (k + 1)) ELSE g]]
             sifted == CHOOSE sifted : sifted = [k \in 0 .. half |->
                         IF k = 0 THEN h ELSE Heap!DownHeap(sifted[k - 1], half - k)]
  <1>1. half \in Nat /\ \A k \in Nat : k < half => half - (k + 1) \in 0 .. n - 1
    OBVIOUS
  <1>2. half <= n OBVIOUS
  <1>3. Heap!Build(h) = sifted[half]
    <2>1. Heap!Length(h) = n BY RangeFacts
    <2> QED BY <2>1 DEF Heap!Build
  <1>5. HeapFrom(h, half)
    <2>1. \A c \in DOMAIN h : c \in 0 .. n - 1 BY RangeFacts
    <2>2. \A c \in 0 .. n - 1 : c # 0 => ~ (Heap!Parent(c) >= half)
      BY DEF Heap!Parent
    <2> QED BY <2>1, <2>2 DEF HeapFrom
  <1> HIDE DEF half
  <1>6. next \in [Nat -> [S -> S]]
    <2>1. \A k \in Nat, g \in S : k < half => Heap!DownHeap(g, half - (k + 1)) \in S
      BY <1>1, DownHeapKeeps
    <2> HIDE DEF S
    <2> QED BY <2>1
  <1>7. PICK f \in [Nat -> S] : Runs(f, h, next)
    <2> HIDE DEF next, S
    <2>1. h \in S BY DEF S
    <2> QED BY <1>6, <2>1, RunExists
  <1>8. f[0] = h /\ \A k \in Nat : k < half => f[k + 1] = Heap!DownHeap(f[k], half - (k + 1))
    <2> HIDE DEF S
    <2> QED BY <1>7 DEF Runs
  <1> DEFINE F == [k \in 0 .. half |-> f[k]]
  <1>9. F = [k \in 0 .. half |-> IF k = 0 THEN h ELSE Heap!DownHeap(F[k - 1], half - k)]
    <2>1. ASSUME NEW k \in 0 .. half, k # 0
          PROVE  f[k] = Heap!DownHeap(F[k - 1], half - k)
      <3>1. k - 1 \in Nat /\ (k - 1) + 1 = k /\ k - 1 \in 0 .. half /\ k - 1 < half
        BY <1>1, <2>1
      <3> QED BY <1>8, <3>1
    <2> HIDE DEF S
    <2> QED BY <1>8, <2>1
  <1>10. sifted = [k \in 0 .. half |->
                     IF k = 0 THEN h ELSE Heap!DownHeap(sifted[k - 1], half - k)]
    <2> HIDE DEF F
    <2> QED BY <1>9
  <1> HIDE DEF sifted, S, next
  <1>11. /\ sifted[0] = h
         /\ \A k \in Nat : k < half => sifted[k + 1] = Heap!DownHeap(sifted[k], half - (k + 1))
    <2>1. \A k \in Nat : k < half => k + 1 \in 0 .. half /\ k + 1 # 0 /\ (k + 1) - 1 = k
      BY <1>1
    <2>2. 0 \in 0 .. half BY <1>1
    <2> QED BY <1>10, <2>1, <2>2
  <1> DEFINE T == {k \in Nat : k <= half =>
                     /\ sifted[k] \in RangesOf(n)
                     /\ SameItems(sifted[k], h)
                     /\ HeapFrom(sifted[k], half - k)}
  <1>12. 0 \in T
    <2>1. half - 0 = half BY <1>1
    <2> QED BY <1>5, <1>11, <2>1 DEF SameItems
  <1>13. ASSUME NEW k \in Nat, k \in T
         PROVE  k + 1 \in T
    <2> SUFFICES ASSUME k + 1 <= half
                 PROVE  /\ sifted[k + 1] \in RangesOf(n)
                        /\ SameItems(sifted[k + 1], h)
                        /\ HeapFrom(sifted[k + 1], half - (k + 1))
      BY <1>1
    <2> DEFINE g == sifted[k]
               i == half - (k + 1)
    <2>1. /\ k <= half /\ k < half /\ i \in 0 .. n - 1 /\ i \in Nat /\ half - k = i + 1
          /\ i \in 0 .. i
      BY <1>1
    <2>2. g \in RangesOf(n) /\ SameItems(g, h) /\ HeapFrom(g, i + 1)
      BY <1>13, <2>1
    <2>3. sifted[k + 1] = Heap!DownHeap(g, i) BY <1>11, <2>1
    <2> HIDE DEF g, i
    <2>4. Sinking(g, i, i)
      <3>1. \A c \in DOMAIN g : c \in Nat /\ Heap!Parent(c) \in 0 .. n - 1
        BY <2>2, RangeFacts
      <3>2. i # 0 => Heap!Parent(i) < i BY <2>1, Kin
      <3>3. i # 0 => ~ (Heap!Parent(i) >= i)
        <4>1. Heap!Parent(i) \in 0 .. i BY <2>1, Kin
        <4> QED BY <2>1, <3>2, <4>1
      <3>4. \A c \in DOMAIN g : Heap!Parent(c) >= i /\ Heap!Parent(c) # i =>
              Heap!Parent(c) >= i + 1
        BY <2>1, <3>1
      <3> QED BY <2>2, <3>3, <3>4 DEF Sinking, HeapFrom
    <2> QED BY <2>1, <2>2, <2>3, <2>4, DownHeapKeeps, SameSame DEF i
  <1>14. half \in T
    <2> HIDE DEF T
    <2> QED BY <1>1, <1>12, <1>13, NumbersByStep
  <1>15. half - half = 0 /\ half <= half BY <1>1
  <1> QED BY <1>3, <1>14, <1>15

\* The nodes above node i are its parent and theirs.
LEMMA AboveFacts ==
  ASSUME NEW n \in Nat, NEW h \in RangesOf(n), NEW i \in 0 .. n - 1
  PROVE  /\ i # 0 => Heap!Parent(i) \in Heap!Above(i)
         /\ HeapFrom(h, 0) => \A j \in Heap!Above(i) : h[i] <= h[j]
  <1> DEFINE S == 0 .. n - 1
             next == [k \in Nat |-> [j \in S |-> Heap!Parent(j)]]
             up == CHOOSE up : up = [k \in Nat |-> IF k = 0 THEN i ELSE Heap!Parent(up[k - 1])]
  <1>1. \A j \in S : Heap!Parent(j) \in S BY RangeFacts
  <1>2. next \in [Nat -> [S -> S]]
    <2> HIDE DEF S
    <2> QED BY <1>1
  <1>3. PICK f \in [Nat -> S] : Runs(f, i, next)
    <2> HIDE DEF next
    <2> QED BY <1>2, RunExists
  <1>4. f[0] = i /\ \A k \in Nat : f[k + 1] = Heap!Parent(f[k])
    <2> HIDE DEF S
    <2> QED BY <1>3 DEF Runs
  <1>5. f = [k \in Nat |-> IF k = 0 THEN i ELSE Heap!Parent(f[k - 1])]
    <2>1. ASSUME NEW k \in Nat, k # 0
          PROVE  f[k] = Heap!Parent(f[k - 1])
      <3>1. k - 1 \in Nat /\ (k - 1) + 1 = k BY <2>1
      <3> QED BY <1>4, <3>1
    <2> HIDE DEF S
    <2> QED BY <1>4, <2>1
  <1>6. up = [k \in Nat |-> IF k = 0 THEN i ELSE Heap!Parent(up[k - 1])] BY <1>5
  <1>7. Heap!Above(i) = {up[k] : k \in 1 .. i} BY DEF Heap!Above
  <1> HIDE DEF up, next
  <1>8. up[0] = i /\ \A k \in Nat : up[k + 1] = Heap!Parent(up[k])
    <2>1. \A k \in Nat : k + 1 \in Nat /\ k + 1 # 0 /\ (k + 1) - 1 = k OBVIOUS
    <2> QED BY <1>6, <2>1
  <1>9. i # 0 => Heap!Parent(i) \in Heap!Above(i)
    <2> SUFFICES ASSUME i # 0
                 PROVE  Heap!Parent(i) \in Heap!Above(i)
      OBVIOUS
    <2>1. 1 \in 1 .. i /\ 0 \in Nat /\ 0 + 1 = 1 OBVIOUS
    <2>2. up[1] = Heap!Parent(i) BY <1>8, <2>1
    <2> QED BY <1>7, <2>1, <2>2
  <1>10. ASSUME HeapFrom(h, 0)
         PROVE  \A j \in Heap!Above(i) : h[i] <= h[j]
    <2> DEFINE T == {k \in Nat : up[k] \in 0 .. n - 1 /\ h[i] <= h[up[k]]}
    <2>0. DOMAIN h = 0 .. n - 1 /\ \A j \in 0 .. n - 1 : h[j] \in Int /\ j \in Nat
      BY RangeFacts
    <2>1. 0 \in T
      <3>1. h[i] <= h[i] BY <2>0
      <3> QED BY <1>8, <3>1
    <2>2. ASSUME NEW k \in Nat, k \in T
          PROVE  k + 1 \in T
      <3> DEFINE p == Heap!Parent(up[k])
      <3>1. up[k] \in 0 .. n - 1 /\ h[i] <= h[up[k]] /\ p \in 0 .. n - 1
        BY <1>1, <2>2
      <3>2. up[k + 1] = p BY <1>8
      <3>3. h[up[k]] <= h[p]
        <4>1. CASE up[k] = 0
          <5>1. p = 0 BY <4>1, Kin
          <5> QED BY <2>0, <3>1, <4>1, <5>1
        <4>2. CASE up[k] # 0
          <5>1. p >= 0 BY <3>1
          <5> QED BY <1>10, <2>0, <3>1, <4>2, <5>1 DEF HeapFrom
        <4> QED BY <4>1, <4>2
      <3> HIDE DEF p
      <3>4. h[i] <= h[p]
        <4>1. h[i] \in Int /\ h[up[k]] \in Int /\ h[p] \in Int BY <2>0, <3>1
        <4> QED BY <3>1, <3>3, <4>1
      <3> QED BY <3>1, <3>2, <3>4
    <2>3. \A k \in Nat : k \in T
      <3> HIDE DEF T
      <3> QED BY <2>1, <2>2, NumbersByStep
    <2>4. \A k \in 1 .. i : k \in Nat OBVIOUS
    <2> QED BY <1>7, <2>3, <2>4
  <1> QED BY <1>9, <1>10

\* There is a finite number of places.
LEMMA PlacesFinite ==
  ASSUME NEW n \in Nat, NEW h \in RangesOf(n), NEW x
  PROVE  /\ PlacesOf(h, x) = {i \in 0 .. n - 1 : h[i] = x}
         /\ IsFiniteSet(PlacesOf(h, x)) /\ Cardinality(PlacesOf(h, x)) \in Nat
  <1>1. PlacesOf(h, x) = {i \in 0 .. n - 1 : h[i] = x}
    BY RangeFacts DEF PlacesOf
  <1>2. 0 \in Int /\ n - 1 \in Int OBVIOUS
  <1>3. IsFiniteSet(0 .. n - 1) BY <1>2, FS_Interval
  <1>4. PlacesOf(h, x) \subseteq 0 .. n - 1 BY <1>1
  <1>5. IsFiniteSet(PlacesOf(h, x)) BY <1>3, <1>4, FS_Subset
  <1> QED BY <1>1, <1>5, FS_CardinalityType

\* Each initial range is counted.
LEMMA HeapStarts == LibraryInit => HeapInv
  <1> SUFFICES ASSUME Heap!Init
               PROVE  HeapInv
    BY DEF LibraryInit, LibraryStart
  <1>1. pBuilt = FALSE /\ pData \in Heap!Ranges BY DEF Heap!Init
  <1>2. PICK n \in 0 .. HeapLength : pData \in [0 .. n - 1 -> HeapItems]
    BY <1>1 DEF Heap!Ranges
  <1>3. n \in Nat /\ pData \in RangesOf(n)
    BY <1>2, LibraryAssumption DEF Heap!PriorityQueueAssumption, RangesOf
  <1>4. pHeld = [x \in HeapItems |-> Cardinality(PlacesOf(pData, x))]
    BY InstanceCounts DEF Heap!Init, PlacesOf
  <1>5. \A x \in HeapItems : Cardinality(PlacesOf(pData, x)) \in Int
    BY <1>3, PlacesFinite
  <1> QED BY <1>1, <1>3, <1>4, <1>5 DEF HeapInv

\* The constructors.
LEMMA ConstructKept == HeapInv /\ Heap!Construct => HeapInv'
  <1> SUFFICES ASSUME HeapInv, Heap!Construct
               PROVE  HeapInv'
    OBVIOUS
  <1>1. PICK n \in Nat : pData \in RangesOf(n) BY DEF HeapInv
  <1>2. pData' = Heap!Build(pData) /\ pBuilt' = TRUE /\ pHeld' = pHeld
    BY DEF Heap!Construct
  <1>3. pData' \in RangesOf(n) /\ SameItems(pData', pData) /\ HeapFrom(pData', 0)
    BY <1>1, <1>2, BuildKeeps
  <1> QED BY <1>2, <1>3 DEF HeapInv, SameItems

\* push and emplace.
LEMMA PushKept == ASSUME NEW x \in HeapItems, HeapInv, Heap!Push(x) PROVE HeapInv'
  <1>1. PICK n \in Nat : pData \in RangesOf(n) BY DEF HeapInv
  <1> DEFINE g == [i \in 0 .. n |-> IF i = n THEN x ELSE pData[i]]
  <1>2. Heap!Length(pData) = n /\ DOMAIN pData = 0 .. n - 1 BY <1>1, RangeFacts
  <1>3. /\ pBuilt /\ pBuilt' = pBuilt
        /\ pData' = Heap!UpHeap(g, n)
        /\ pHeld' = [pHeld EXCEPT ![x] = @ + 1]
    BY <1>2 DEF Heap!Push
  <1>4. n + 1 \in Nat /\ g \in RangesOf(n + 1) /\ n \in 0 .. (n + 1) - 1
    <2>1. (n + 1) - 1 = n OBVIOUS
    <2>2. \A i \in 0 .. n : i # n => i \in 0 .. n - 1 OBVIOUS
    <2>3. \A i \in 0 .. n - 1 : pData[i] \in HeapItems BY <1>1, RangeFacts
    <2>4. g \in [0 .. n -> HeapItems] BY <2>2, <2>3
    <2> QED BY <2>1, <2>4 DEF RangesOf
  <1>5. /\ DOMAIN g = 0 .. n /\ g[n] = x
        /\ \A i \in 0 .. n - 1 : g[i] = pData[i] /\ i \in 0 .. n /\ i # n
    OBVIOUS
  <1> HIDE DEF g
  <1>6. \A c \in 0 .. n : c # 0 => Heap!Parent(c) \in 0 .. c - 1
    <2>1. \A c \in 0 .. n : c \in Nat OBVIOUS
    <2> QED BY <2>1, Kin
  <1>7. Rising(g, n)
    <2>1. ASSUME NEW c \in 0 .. n, c # 0, c # n
          PROVE  g[c] <= g[Heap!Parent(c)]
      <3> DEFINE p == Heap!Parent(c)
      <3>1. p \in 0 .. c - 1 BY <1>6, <2>1
      <3> HIDE DEF p
      <3>2. c \in 0 .. n - 1 /\ p \in 0 .. n - 1 /\ p >= 0 BY <2>1, <3>1
      <3>3. pData[c] <= pData[p]
        BY <1>2, <1>3, <2>1, <3>2 DEF HeapInv, HeapFrom, p
      <3> QED BY <1>5, <3>2, <3>3 DEF p
    <2>2. ASSUME NEW c \in 0 .. n, c # 0
          PROVE  Heap!Parent(c) # n
      BY <1>6, <2>2
    <2> QED BY <1>5, <2>1, <2>2 DEF Rising
  <1>8. pData' \in RangesOf(n + 1) /\ SameItems(pData', g) /\ HeapFrom(pData', 0)
    BY <1>3, <1>4, <1>7, UpHeapKeeps
  <1>9. pHeld' \in [HeapItems -> Int] BY <1>3 DEF HeapInv
  <1>10. ASSUME NEW y \in HeapItems
         PROVE  pHeld'[y] = Cardinality(PlacesOf(pData', y))
    <2>1. pHeld[y] = Cardinality(PlacesOf(pData, y)) BY DEF HeapInv
    <2>2. Cardinality(PlacesOf(pData', y)) = Cardinality(PlacesOf(g, y))
      BY <1>8 DEF SameItems
    <2>3. /\ PlacesOf(pData, y) = {i \in 0 .. n - 1 : pData[i] = y}
          /\ IsFiniteSet(PlacesOf(pData, y))
      BY <1>1, PlacesFinite
    <2>4. PlacesOf(g, y) = {i \in 0 .. n : g[i] = y} BY <1>5 DEF PlacesOf
    <2>5. \A i : i \in 0 .. n <=> i \in 0 .. n - 1 \/ i = n OBVIOUS
    <2>6. CASE y = x
      <3>1. PlacesOf(g, y) = PlacesOf(pData, y) \union {n}
        BY <1>5, <2>3, <2>4, <2>5, <2>6
      <3>2. n \notin PlacesOf(pData, y) BY <2>3
      <3>3. Cardinality(PlacesOf(g, y)) = Cardinality(PlacesOf(pData, y)) + 1
        BY <2>3, <3>1, <3>2, FS_AddElement
      <3>4. pHeld'[y] = pHeld[y] + 1 BY <1>3, <2>6 DEF HeapInv
      <3> QED BY <2>1, <2>2, <3>3, <3>4
    <2>7. CASE y # x
      <3>1. PlacesOf(g, y) = PlacesOf(pData, y) BY <1>5, <2>3, <2>4, <2>5, <2>7
      <3>2. pHeld'[y] = pHeld[y] BY <1>3, <2>7 DEF HeapInv
      <3> QED BY <2>1, <2>2, <3>1, <3>2
    <2> QED BY <2>6, <2>7
  <1> QED BY <1>3, <1>4, <1>8, <1>9, <1>10 DEF HeapInv

\* pop.
LEMMA PopKept == HeapInv /\ Heap!Pop => HeapInv'
  <1> SUFFICES ASSUME HeapInv, Heap!Pop
               PROVE  HeapInv'
    OBVIOUS
  <1>1. PICK n \in Nat : pData \in RangesOf(n) BY DEF HeapInv
  <1>2. /\ Heap!Length(pData) = n /\ DOMAIN pData = 0 .. n - 1
        /\ \A i \in 0 .. n - 1 : pData[i] \in Int /\ pData[i] \in HeapItems
    BY <1>1, RangeFacts
  <1> DEFINE last == n - 1
             e == Heap!Exchange(pData, 0, last)
             rest == [i \in 0 .. last - 1 |-> e[i]]
             top == pData[0]
  <1>3. /\ pBuilt /\ pBuilt' = pBuilt /\ n > 0
        /\ pData' = IF last = 0 THEN rest ELSE Heap!DownHeap(rest, 0)
        /\ pHeld' = [pHeld EXCEPT ![top] = @ - 1]
    BY <1>2 DEF Heap!Pop
  <1>4. /\ last \in Nat /\ last \in 0 .. n - 1 /\ 0 \in 0 .. n - 1
        /\ \A i : i \in 0 .. n - 1 <=> i \in 0 .. last - 1 \/ i = last
        /\ last \notin 0 .. last - 1
    BY <1>3
  <1>5. top \in HeapItems BY <1>2, <1>4
  <1> HIDE DEF last
  <1>6. /\ e \in RangesOf(n) /\ e[last] = top /\ e[0] = pData[last]
        /\ \A i \in 0 .. n - 1 : i # 0 /\ i # last => e[i] = pData[i]
        /\ SameItems(e, pData)
    BY <1>1, <1>4, Exchanged
  <1>7. \A i \in 0 .. n - 1 : e[i] \in HeapItems BY <1>6, RangeFacts
  <1> HIDE DEF e, top
  <1>8. /\ rest \in RangesOf(last) /\ DOMAIN rest = 0 .. last - 1
        /\ \A i \in 0 .. last - 1 : rest[i] = e[i]
    BY <1>4, <1>7 DEF RangesOf
  <1> HIDE DEF rest
  <1>9. HeapFrom(pData, 0) BY <1>3 DEF HeapInv
  <1>10. /\ pData' \in RangesOf(last) /\ SameItems(pData', rest)
         /\ HeapFrom(pData', 0)
    <2>1. CASE last = 0
      <3>1. pData' = rest BY <1>3, <2>1
      <3>2. \A c : c \notin 0 .. last - 1 BY <2>1
      <3> QED BY <1>8, <3>1, <3>2 DEF HeapFrom, SameItems
    <2>2. CASE last # 0
      <3>1. 0 \in 0 .. last - 1 /\ 0 \in 0 .. 0 BY <1>4, <2>2
      <3>2. Sinking(rest, 0, 0)
        <4> SUFFICES ASSUME NEW c \in 0 .. last - 1, c # 0, Heap!Parent(c) # 0
                     PROVE  rest[c] <= rest[Heap!Parent(c)]
          BY <1>8 DEF Sinking
        <4> DEFINE p == Heap!Parent(c)
        <4>1. c \in Nat /\ c \in 0 .. n - 1 /\ c # last BY <1>4
        <4>2. p \in 0 .. c - 1 BY <4>1, Kin
        <4> HIDE DEF p
        <4>3. p \in 0 .. last - 1 /\ p >= 0 BY <1>4, <4>2
        <4>4. p \in 0 .. n - 1 /\ p # last BY <1>4, <4>3
        <4>5. pData[c] <= pData[p] BY <1>2, <1>9, <4>1, <4>3 DEF HeapFrom, p
        <4>6. rest[c] = pData[c] BY <1>6, <1>8, <4>1
        <4>7. rest[p] = pData[p] BY <1>6, <1>8, <4>3, <4>4 DEF p
        <4> QED BY <4>5, <4>6, <4>7 DEF p
      <3> QED BY <1>3, <1>4, <1>8, <2>2, <3>1, <3>2, DownHeapKeeps
    <2> QED BY <2>1, <2>2
  <1>11. pHeld' \in [HeapItems -> Int] BY <1>3, <1>5 DEF HeapInv
  <1>12. ASSUME NEW y \in HeapItems
         PROVE  pHeld'[y] = Cardinality(PlacesOf(pData', y))
    <2>1. pHeld[y] = Cardinality(PlacesOf(e, y)) BY <1>6 DEF HeapInv, SameItems
    <2>2. Cardinality(PlacesOf(pData', y)) = Cardinality(PlacesOf(rest, y))
      BY <1>10 DEF SameItems
    <2>3. /\ PlacesOf(e, y) = {i \in 0 .. n - 1 : e[i] = y}
          /\ IsFiniteSet(PlacesOf(e, y)) /\ Cardinality(PlacesOf(e, y)) \in Nat
      BY <1>6, PlacesFinite
    <2>4. PlacesOf(rest, y) = {i \in 0 .. last - 1 : e[i] = y}
      BY <1>8 DEF PlacesOf
    <2>5. CASE y = top
      <3>1. PlacesOf(rest, y) = PlacesOf(e, y) \ {last} /\ last \in PlacesOf(e, y)
        BY <1>4, <1>6, <2>3, <2>4, <2>5
      <3>2. Cardinality(PlacesOf(rest, y)) = Cardinality(PlacesOf(e, y)) - 1
        BY <2>3, <3>1, FS_RemoveElement
      <3>3. pHeld'[y] = pHeld[y] - 1 BY <1>3, <2>5 DEF HeapInv
      <3> QED BY <2>1, <2>2, <3>2, <3>3
    <2>6. CASE y # top
      <3>1. PlacesOf(rest, y) = PlacesOf(e, y) BY <1>4, <1>6, <2>3, <2>4, <2>6
      <3>2. pHeld'[y] = pHeld[y] BY <1>3, <2>6 DEF HeapInv
      <3> QED BY <2>1, <2>2, <3>1, <3>2
    <2> QED BY <2>5, <2>6
  <1> QED BY <1>3, <1>4, <1>10, <1>11, <1>12 DEF HeapInv

\* Every step of the queue keeps its invariant.
LEMMA HeapKept == HeapInv /\ [Heap!Next]_heapVars => HeapInv'
  <1>1. ASSUME HeapInv, UNCHANGED heapVars
        PROVE  HeapInv'
    BY <1>1 DEF heapVars, HeapInv
  <1> QED BY <1>1, ConstructKept, PushKept, PopKept DEF Heap!Next

\* For items of any order among the integers and a queue of any length: after any
\* pushes and pops the queue has what was pushed and not popped, its top is the
\* largest, and is_valid tells exactly the ranges in which nothing is above
\* a larger item.
THEOREM QueueIsOrdered == LibrarySpec => []HeapOrdered
  <1>1. [LibraryNext]_libraryVars => [Heap!Next]_heapVars
    BY DEF LibraryNext, libraryVars, heapVars
  <1>2. ASSUME HeapInv
        PROVE  HeapOrdered
    <2>1. PICK n \in Nat : pData \in RangesOf(n) BY <1>2 DEF HeapInv
    <2>2. DOMAIN pData = 0 .. n - 1 /\ \A i \in 0 .. n - 1 : i \in Nat
      BY <2>1, RangeFacts
    <2>3. Heap!TopIsLargest
      BY <1>2, <2>1, <2>2, TopOfHeap, InstanceCounts DEF Heap!TopIsLargest, HeapInv, PlacesOf
    <2>4. ASSUME HeapFrom(pData, 0), NEW i \in DOMAIN pData, NEW j \in Heap!Above(i)
          PROVE  pData[i] <= pData[j]
      BY <2>1, <2>2, <2>4, AboveFacts
    <2>5. ASSUME \A i \in DOMAIN pData : \A j \in Heap!Above(i) : pData[i] <= pData[j]
          PROVE  HeapFrom(pData, 0)
      <3> SUFFICES ASSUME NEW c \in 0 .. n - 1, c # 0
                   PROVE  pData[c] <= pData[Heap!Parent(c)]
        BY <2>2 DEF HeapFrom
      <3>1. Heap!Parent(c) \in Heap!Above(c) BY <2>1, AboveFacts
      <3> QED BY <2>2, <2>5, <3>1
    <2>6. Heap!ValidIsOrdered
      BY <2>1, <2>4, <2>5, ValidIsHeap DEF Heap!ValidIsOrdered
    <2> QED BY <2>3, <2>6 DEF HeapOrdered
  <1> QED BY <1>1, <1>2, HeapStarts, HeapKept, PTL DEF LibrarySpec

----------------------------------------------------------------------------
(* MemoryBlock: any number of arrays, of any sizes and alignments.         *)

\* What is assumed of the arrays.
LEMMA ArrayFacts ==
  /\ Count \in Nat /\ Count >= 1 /\ Memory!Arrays = 1 .. Count
  /\ \A i \in 1 .. Count : ArraySizes[i] \in Nat /\ ArraySizes[i] > 0
  /\ \A i \in 1 .. Count : ArrayAligns[i] \in Nat /\ ArrayAligns[i] > 0
  /\ MaxCapacity \in Nat
  <1>1. /\ ArraySizes \in Seq(Nat \ {0}) /\ ArrayAligns \in Seq(Nat \ {0})
        /\ Len(ArrayAligns) = Len(ArraySizes) /\ ArraySizes # <<>> /\ MaxCapacity \in Nat
    BY LibraryAssumption DEF Memory!BlockAssumption
  <1>2. Count \in Nat /\ Memory!Arrays = 1 .. Count /\ Count >= 1
    BY <1>1 DEF Count, Memory!Arrays
  <1>3. \A i \in 1 .. Count : ArraySizes[i] \in Nat \ {0} /\ ArrayAligns[i] \in Nat \ {0}
    BY <1>1 DEF Count
  <1> QED BY <1>1, <1>2, <1>3

\* The next multiple.
LEMMA AlignedUp ==
  ASSUME NEW x \in Nat, NEW a \in Nat, a > 0, NEW y, y = Memory!AlignForward(x, a)
  PROVE  y \in Nat /\ y >= x /\ y % a = 0
  <1> DEFINE q == (x + a - 1) \div a
             r == (x + a - 1) % a
  <1>1. x + a - 1 \in Nat /\ a \in Nat \ {0} OBVIOUS
  <1>2. q \in Nat /\ r \in 0 .. a - 1 /\ a * q \in Nat /\ x + a - 1 = a * q + r
    BY <1>1, WholeBlocks
  <1>3. y = q * a BY DEF Memory!AlignForward
  <1> HIDE DEF q, r
  <1>4. q * a = a * q BY <1>2
  <1>5. (a * q) % a = 0
    <2> DEFINE z == a * q
    <2>1. z \in Nat /\ z \div a \in Nat /\ z % a \in 0 .. a - 1 /\ z = a * (z \div a) + (z % a)
      BY <1>1, <1>2, WholeBlocks
    <2>2. (a * q + 0) \div a = q BY <1>1, <1>2, BlockOfBit
    <2>3. z \div a = q BY <1>2, <2>2
    <2> HIDE DEF z
    <2>4. z = a * q + (z % a) BY <2>1, <2>3
    <2>5. z % a = 0 BY <1>2, <2>1, <2>4 DEF z
    <2> QED BY <2>5 DEF z
  <1> QED BY <1>2, <1>3, <1>4, <1>5

\* Where array i begins, and behind the last one the length of the block.
LEMMA LayoutFacts ==
  ASSUME NEW cap \in Nat, NEW at, at = Memory!Layout(cap)
  PROVE  /\ \A i \in 1 .. Count + 1 : at[i] \in Nat
         /\ \A i \in 1 .. Count : at[i] + cap * ArraySizes[i] <= at[i + 1]
         /\ \A i \in 1 .. Count : at[i] % ArrayAligns[i] = 0
  <1> DEFINE N == Count
             place(i, end) == IF i = N + 1 THEN end ELSE Memory!AlignForward(end, ArrayAligns[i])
             next == [k \in Nat |-> [v \in Nat |->
                        IF k < N THEN place(k + 2, v + cap * ArraySizes[k + 1]) ELSE v]]
             layout == CHOOSE layout : layout = [i \in 1 .. N + 1 |->
                         LET end == IF i = 1 THEN 0 ELSE layout[i - 1] + cap * ArraySizes[i - 1]
                         IN  IF i = N + 1 THEN end
                             ELSE Memory!AlignForward(end, ArrayAligns[i])]
  <1>0. /\ N \in Nat /\ N >= 1
        /\ \A i \in 1 .. N : ArraySizes[i] \in Nat
        /\ \A i \in 1 .. N : ArrayAligns[i] \in Nat /\ ArrayAligns[i] > 0
    BY ArrayFacts
  <1>1. at = layout BY DEF Memory!Layout, Count
  <1> HIDE DEF N
  <1>2. ASSUME NEW i \in 1 .. N + 1, NEW end \in Nat
        PROVE  /\ place(i, end) \in Nat /\ place(i, end) >= end
               /\ i # N + 1 => place(i, end) % ArrayAligns[i] = 0
    <2>1. CASE i = N + 1 BY <2>1
    <2>2. CASE i # N + 1
      <3>1. i \in 1 .. N BY <1>0, <2>2
      <3> QED BY <1>0, <2>2, <3>1, AlignedUp
    <2> QED BY <2>1, <2>2
  <1>3. \A k \in Nat : k < N => k + 1 \in 1 .. N /\ k + 2 \in 1 .. N + 1 /\ k + 2 # 1
    BY <1>0
  <1>4. 1 \in 1 .. N + 1 /\ 1 \in 1 .. N BY <1>0
  <1> HIDE DEF place
  <1>5. \A i \in 1 .. N : cap * ArraySizes[i] \in Nat BY <1>0
  <1>6. next \in [Nat -> [Nat -> Nat]]
    <2>1. ASSUME NEW k \in Nat, NEW v \in Nat, k < N
          PROVE  place(k + 2, v + cap * ArraySizes[k + 1]) \in Nat
      <3>1. k + 1 \in 1 .. N /\ k + 2 \in 1 .. N + 1 BY <1>3, <2>1
      <3>2. v + cap * ArraySizes[k + 1] \in Nat BY <1>5, <3>1
      <3> QED BY <1>2, <3>1, <3>2
    <2> QED BY <2>1
  <1>7. place(1, 0) \in Nat BY <1>2, <1>4
  <1>8. PICK f \in [Nat -> Nat] : Runs(f, place(1, 0), next)
    <2> HIDE DEF next
    <2> QED BY <1>6, <1>7, RunExists
  <1>9. /\ f[0] = place(1, 0)
        /\ \A k \in Nat : k < N => f[k + 1] = place(k + 2, f[k] + cap * ArraySizes[k + 1])
    BY <1>8 DEF Runs
  <1> DEFINE F == [i \in 1 .. N + 1 |-> f[i - 1]]
  <1>10. F = [i \in 1 .. N + 1 |->
                LET end == IF i = 1 THEN 0 ELSE F[i - 1] + cap * ArraySizes[i - 1]
                IN  IF i = N + 1 THEN end ELSE Memory!AlignForward(end, ArrayAligns[i])]
    <2>1. ASSUME NEW i \in 1 .. N + 1
          PROVE  f[i - 1] = place(i, IF i = 1 THEN 0 ELSE F[i - 1] + cap * ArraySizes[i - 1])
      <3>1. CASE i = 1 BY <1>9, <3>1
      <3>2. CASE i # 1
        <4>1. /\ i - 2 \in Nat /\ i - 2 < N /\ (i - 2) + 1 = i - 1 /\ (i - 2) + 2 = i
              /\ i - 1 \in 1 .. N + 1 /\ (i - 1) - 1 = i - 2
          BY <1>0, <3>2
        <4>2. F[i - 1] = f[i - 2] BY <4>1
        <4>3. f[i - 1] = place(i, f[i - 2] + cap * ArraySizes[i - 1])
          BY <1>9, <4>1
        <4> QED BY <3>2, <4>2, <4>3
      <3> QED BY <3>1, <3>2
    <2>2. \A i \in 1 .. N + 1 : F[i] = f[i - 1] OBVIOUS
    <2> HIDE DEF F
    <2>3. F = [i \in 1 .. N + 1 |->
                place(i, IF i = 1 THEN 0 ELSE F[i - 1] + cap * ArraySizes[i - 1])]
      BY <2>1, <2>2 DEF F
    <2> QED BY <2>3 DEF place
  <1>11. layout = [i \in 1 .. N + 1 |->
                     LET end == IF i = 1 THEN 0 ELSE layout[i - 1] + cap * ArraySizes[i - 1]
                     IN  IF i = N + 1 THEN end
                         ELSE Memory!AlignForward(end, ArrayAligns[i])]
    <2> HIDE DEF F
    <2> QED BY <1>10
  <1> HIDE DEF layout
  <1>12. \A i \in 1 .. N + 1 :
           layout[i] = place(i, IF i = 1 THEN 0 ELSE layout[i - 1] + cap * ArraySizes[i - 1])
    BY <1>11 DEF place
  <1>13. \A i \in 1 .. N : layout[i + 1] = place(i + 1, layout[i] + cap * ArraySizes[i])
    <2>1. \A i \in 1 .. N : i + 1 \in 1 .. N + 1 /\ i + 1 # 1 /\ (i + 1) - 1 = i
      BY <1>0
    <2> QED BY <1>12, <2>1
  <1> DEFINE T == {k \in Nat : k <= N => layout[k + 1] \in Nat}
  <1>14. 0 \in T BY <1>4, <1>7, <1>12
  <1>15. ASSUME NEW k \in Nat, k \in T
         PROVE  k + 1 \in T
    <2> SUFFICES ASSUME k + 1 <= N
                 PROVE  layout[(k + 1) + 1] \in Nat
      OBVIOUS
    <2>1. k + 1 \in 1 .. N /\ (k + 1) + 1 \in 1 .. N + 1 /\ k <= N BY <1>0
    <2>2. layout[k + 1] + cap * ArraySizes[k + 1] \in Nat BY <1>5, <1>15, <2>1
    <2> QED BY <1>2, <1>13, <2>1, <2>2
  <1>16. \A k \in Nat : k \in T
    <2> HIDE DEF T
    <2> QED BY <1>14, <1>15, NumbersByStep
  <1>17. \A i \in 1 .. N + 1 : layout[i] \in Nat
    <2> SUFFICES ASSUME NEW i \in 1 .. N + 1
                 PROVE  layout[i] \in Nat
      OBVIOUS
    <2>1. i - 1 \in Nat /\ i - 1 <= N /\ (i - 1) + 1 = i BY <1>0
    <2> QED BY <1>16, <2>1
  <1> HIDE DEF T
  <1>18. ASSUME NEW i \in 1 .. N
         PROVE  layout[i] + cap * ArraySizes[i] <= layout[i + 1]
    <2>1. i \in 1 .. N + 1 /\ i + 1 \in 1 .. N + 1 BY <1>0
    <2>2. layout[i] + cap * ArraySizes[i] \in Nat BY <1>5, <1>17, <2>1
    <2>3. place(i + 1, layout[i] + cap * ArraySizes[i]) >= layout[i] + cap * ArraySizes[i]
      BY <1>2, <2>1, <2>2
    <2>4. layout[i + 1] \in Nat /\ layout[i + 1] >= layout[i] + cap * ArraySizes[i]
      BY <1>13, <1>17, <2>1, <2>3
    <2> QED BY <2>2, <2>4
  <1>19. ASSUME NEW i \in 1 .. N
         PROVE  layout[i] % ArrayAligns[i] = 0
    <2> DEFINE end == IF i = 1 THEN 0 ELSE layout[i - 1] + cap * ArraySizes[i - 1]
    <2>1. i \in 1 .. N + 1 /\ i # N + 1 BY <1>0
    <2>2. end \in Nat
      <3>1. CASE i = 1 BY <3>1
      <3>2. CASE i # 1
        <4>1. i - 1 \in 1 .. N + 1 /\ i - 1 \in 1 .. N BY <1>0, <3>2
        <4> QED BY <1>5, <1>17, <3>2, <4>1
      <3> QED BY <3>1, <3>2
    <2>3. layout[i] = place(i, end) BY <1>12, <2>1
    <2> HIDE DEF end
    <2> QED BY <1>2, <2>1, <2>2, <2>3
  <1> QED BY <1>1, <1>17, <1>18, <1>19 DEF N

\* The bytes before element k of i are below those before a later one.
LEMMA Stretch ==
  ASSUME NEW k \in Nat, NEW m \in Nat, k <= m, NEW s \in Nat
  PROVE  /\ k * s \in Nat /\ m * s \in Nat /\ k * s <= m * s
         /\ (k + 1) * s = k * s + s
  OBVIOUS

\* Arrays lie in the order in which they are given.
LEMMA ArraysRise ==
  ASSUME NEW cap \in Nat, NEW at, at = Memory!Layout(cap),
         NEW i \in 1 .. Count, NEW j \in 1 .. Count + 1, i < j
  PROVE  at[i] + cap * ArraySizes[i] <= at[j]
  <1>0. /\ Count \in Nat
        /\ \A k \in 1 .. Count : ArraySizes[k] \in Nat
    BY ArrayFacts
  <1>1. /\ \A k \in 1 .. Count + 1 : at[k] \in Nat
        /\ \A k \in 1 .. Count : at[k] + cap * ArraySizes[k] <= at[k + 1]
    BY LayoutFacts
  <1>2. \A k \in 1 .. Count : cap * ArraySizes[k] \in Nat BY <1>0
  <1> DEFINE e == at[i] + cap * ArraySizes[i]
             T == {k \in Nat : i + 1 + k <= Count + 1 => e <= at[i + 1 + k]}
  <1>3. i \in 1 .. Count + 1 /\ e \in Nat BY <1>0, <1>1, <1>2
  <1>4. 0 \in T BY <1>1
  <1> HIDE DEF e
  <1>5. ASSUME NEW k \in Nat, k \in T
        PROVE  k + 1 \in T
    <2> SUFFICES ASSUME i + 1 + (k + 1) <= Count + 1
                 PROVE  e <= at[i + 1 + (k + 1)]
      OBVIOUS
    <2> DEFINE p == i + 1 + k
    <2>1. /\ p \in 1 .. Count /\ p + 1 = i + 1 + (k + 1) /\ p + 1 \in 1 .. Count + 1
          /\ p \in 1 .. Count + 1 /\ i + 1 + k <= Count + 1
      BY <1>0
    <2>2. e <= at[p] BY <1>5, <2>1
    <2> HIDE DEF p
    <2>3. at[p] + cap * ArraySizes[p] <= at[p + 1] BY <1>1, <2>1
    <2>4. at[p] \in Nat /\ at[p + 1] \in Nat /\ cap * ArraySizes[p] \in Nat
      BY <1>1, <1>2, <2>1
    <2>5. e <= at[p + 1] BY <1>3, <2>2, <2>3, <2>4
    <2> QED BY <2>1, <2>5
  <1>6. \A k \in Nat : k \in T
    <2> HIDE DEF T
    <2> QED BY <1>4, <1>5, NumbersByStep
  <1>7. j - (i + 1) \in Nat /\ i + 1 + (j - (i + 1)) = j /\ j <= Count + 1
    BY <1>0
  <1> QED BY <1>6, <1>7 DEF e

\* Nobody's byte is another's, and all are in the block.
LEMMA ArraysApart ==
  ASSUME NEW cap \in Nat, NEW at, at = Memory!Layout(cap)
  PROVE  /\ \A i, j \in 1 .. Count : \A b \in Int :
              b \in BytesOfArray(at, cap, i) /\ b \in BytesOfArray(at, cap, j) => i = j
         /\ at[Count + 1] \in Nat
         /\ \A i \in 1 .. Count : /\ at[i] \in Nat
                                  /\ BytesOfArray(at, cap, i) \subseteq 0 .. at[Count + 1] - 1
                                  /\ at[i] + cap * ArraySizes[i] <= at[Count + 1]
  <1>0. Count \in Nat /\ Count + 1 \in 1 .. Count + 1 BY ArrayFacts
  <1>1. \A i \in 1 .. Count + 1 : at[i] \in Nat BY LayoutFacts
  <1>2. \A i \in 1 .. Count : cap * ArraySizes[i] \in Nat /\ i \in 1 .. Count + 1
    BY <1>0, ArrayFacts
  <1>3. ASSUME NEW i \in 1 .. Count, NEW j \in 1 .. Count, i < j,
               NEW b \in Int, b \in BytesOfArray(at, cap, i), b \in BytesOfArray(at, cap, j)
        PROVE  FALSE
    <2>1. at[i] + cap * ArraySizes[i] <= at[j] BY <1>2, <1>3, ArraysRise
    <2>2. at[i] \in Nat /\ at[j] \in Nat /\ cap * ArraySizes[i] \in Nat /\ cap * ArraySizes[j] \in Nat
      BY <1>1, <1>2
    <2> QED BY <1>3, <2>1, <2>2 DEF BytesOfArray
  <1>4. \A i, j \in 1 .. Count : \A b \in Int :
          b \in BytesOfArray(at, cap, i) /\ b \in BytesOfArray(at, cap, j) => i = j
    <2>1. \A i, j \in 1 .. Count : i < j \/ j < i \/ i = j BY <1>0
    <2> QED BY <1>3, <2>1
  <1>5. ASSUME NEW i \in 1 .. Count
        PROVE  /\ BytesOfArray(at, cap, i) \subseteq 0 .. at[Count + 1] - 1
               /\ at[i] + cap * ArraySizes[i] <= at[Count + 1]
    <2>1. i < Count + 1 BY <1>0
    <2>2. at[i] + cap * ArraySizes[i] <= at[Count + 1] BY <1>0, <2>1, ArraysRise
    <2>3. at[i] \in Nat /\ at[Count + 1] \in Nat /\ cap * ArraySizes[i] \in Nat
      BY <1>0, <1>1, <1>2
    <2> QED BY <2>2, <2>3 DEF BytesOfArray
  <1> QED BY <1>0, <1>1, <1>2, <1>4, <1>5

\* Elements are within their arrays, and apart.
LEMMA ElementsApart ==
  ASSUME NEW cap \in Nat, NEW at, at = Memory!Layout(cap),
         NEW i \in 1 .. Count, NEW j \in 1 .. Count, NEW k \in 1 .. cap, NEW m \in 1 .. cap,
         NEW b \in ElementOf(at, i, k)
  PROVE  /\ b \in BytesOfArray(at, cap, i) /\ b \in Int
         /\ b \in ElementOf(at, j, m) => i = j /\ k = m
  <1>0. at[i] \in Nat /\ ArraySizes[i] \in Nat /\ at[j] \in Nat /\ ArraySizes[j] \in Nat
    BY ArraysApart, ArrayFacts
  <1>1. ASSUME NEW l \in 1 .. Count, NEW n \in 1 .. cap, NEW c \in ElementOf(at, l, n),
               at[l] \in Nat, ArraySizes[l] \in Nat
        PROVE  c \in BytesOfArray(at, cap, l) /\ c \in Int
    <2> DEFINE s == ArraySizes[l]
    <2>1. /\ n - 1 \in Nat /\ n \in Nat /\ n <= cap OBVIOUS
    <2>2. n * s \in Nat /\ cap * s \in Nat /\ n * s <= cap * s /\ (n - 1) * s \in Nat
      BY <1>1, <2>1, Stretch
    <2>3. c \in at[l] + (n - 1) * s .. at[l] + n * s - 1 BY <1>1 DEF ElementOf
    <2> QED BY <1>1, <2>2, <2>3 DEF BytesOfArray
  <1>2. b \in BytesOfArray(at, cap, i) /\ b \in Int BY <1>0, <1>1
  <1>3. ASSUME b \in ElementOf(at, j, m)
        PROVE  i = j /\ k = m
    <2>1. b \in BytesOfArray(at, cap, j) BY <1>0, <1>1, <1>3
    <2>2. i = j BY <1>2, <2>1, ArraysApart
    <2> DEFINE s == ArraySizes[i]
    <2>3. /\ b \in at[i] + (k - 1) * s .. at[i] + k * s - 1
          /\ b \in at[i] + (m - 1) * s .. at[i] + m * s - 1
      BY <1>3, <2>2 DEF ElementOf
    <2>4. ASSUME NEW p \in 1 .. cap, NEW q \in 1 .. cap, p < q
          PROVE  p * s <= (q - 1) * s /\ p * s \in Nat /\ (q - 1) * s \in Nat
      <3>1. p \in Nat /\ q - 1 \in Nat /\ p <= q - 1 BY <2>4
      <3> QED BY <1>0, <3>1, Stretch
    <2>5. ~ (k < m) BY <1>0, <1>2, <2>3, <2>4
    <2>6. ~ (m < k) BY <1>0, <1>2, <2>3, <2>4
    <2> QED BY <2>2, <2>5, <2>6
  <1> QED BY <1>2, <1>3

\* Where elements are in the block of a capacity that is not zero.
LEMMA ElementsOfBlock ==
  ASSUME MemoryInv, kCapacity > 0, NEW i \in 1 .. Count, NEW k
  PROVE  /\ Memory!ElementBytes(i, k) = ElementOf(Memory!Layout(kCapacity), i, k)
         /\ kPointer[i] = Memory!Layout(kCapacity)[i]
  BY DEF MemoryInv, Placed, Memory!ElementBytes, ElementOf

\* grow_contiguous: what is in the block before is in the new one, at the same
\* place of the same array.
LEMMA GrowKept == ASSUME MemoryInv, NEW cap \in 1 .. MaxCapacity, Memory!Grow(cap)
                  PROVE  MemoryInv'
  <1> DEFINE to == Memory!Layout(cap)
             from == Memory!Layout(kCapacity)
  <1>1. /\ Count \in Nat /\ Memory!Arrays = 1 .. Count
        /\ \A i \in 1 .. Count : ArraySizes[i] \in Nat
        /\ MaxCapacity \in Nat
    BY ArrayFacts
  <1>2. /\ kCapacity \in Nat /\ kCapacity <= cap /\ cap \in Nat /\ cap > 0
        /\ kCapacity' = cap /\ kContents' = kContents
    BY <1>1 DEF MemoryInv, Memory!Grow
  <1>3. kPointer' = [i \in 1 .. Count |-> to[i]] BY <1>1 DEF Memory!Grow
  <1> DEFINE into(b) == {i \in 1 .. Count : b >= kPointer'[i] /\ b < kPointer'[i] + kCapacity * ArraySizes[i]}
             first(b) == CHOOSE i \in into(b) : \A j \in into(b) : i <= j
  <1>4. kBlock' = [b \in 0 .. to[Count + 1] - 1 |->
                     IF into(b) = {} THEN Junk
                     ELSE kBlock[kPointer[first(b)] + b - kPointer'[first(b)]]]
    <2>1. Memory!Total(cap) = to[Count + 1] BY DEF Memory!Total, Count
    <2>2. \A i : Memory!Copied(i) = kCapacity * ArraySizes[i]
      BY DEF Memory!Copied
    <2>3. kBlock' = [b \in 0 .. Memory!Total(cap) - 1 |->
            LET in == {i \in Memory!Arrays : b >= kPointer'[i] /\ b < kPointer'[i] + Memory!Copied(i)}
                f == CHOOSE i \in in : \A j \in in : i <= j
            IN  IF in = {} THEN Junk ELSE kBlock[kPointer[f] + b - kPointer'[f]]]
      BY DEF Memory!Grow
    <2>4. \A b : {i \in Memory!Arrays : b >= kPointer'[i] /\ b < kPointer'[i] + Memory!Copied(i)}
                = into(b)
      BY <1>1, <2>2
    <2> HIDE DEF to, into
    <2> QED BY <2>1, <2>3, <2>4
  <1>5. PICK n \in 0 .. kCapacity : \A i \in 1 .. Count :
          kContents[i] \in Seq(ArrayValues) /\ Len(kContents[i]) = n
    BY DEF MemoryInv
  <1>6. (Placed(Memory!Layout(kCapacity)))'
    <2>1. (Memory!Layout(kCapacity))' = to BY <1>2 DEF Memory!Layout
    <2>2. DOMAIN kBlock' = 0 .. to[Count + 1] - 1 BY <1>4
    <2> HIDE DEF to
    <2> QED BY <1>3, <2>1, <2>2 DEF Placed
  <1> HIDE DEF to, from, into, first
  <1>7. ASSUME NEW i \in 1 .. Count, NEW k \in DOMAIN kContents[i],
               NEW b \in ElementOf(to, i, k)
        PROVE  b \in DOMAIN kBlock' /\ kBlock'[b] = kContents[i][k]
    <2>1. k \in 1 .. n /\ k \in 1 .. kCapacity /\ k \in 1 .. cap /\ kCapacity > 0
      BY <1>2, <1>5, <1>7
    <2>2. b \in BytesOfArray(to, cap, i) /\ b \in Int
      BY <1>2, <2>1, <1>7, ElementsApart DEF to
    <2>3. b \in 0 .. to[Count + 1] - 1 BY <1>2, <2>2, ArraysApart DEF to
    <2> DEFINE s == ArraySizes[i]
    <2>4. /\ to[i] \in Nat /\ from[i] \in Nat /\ s \in Nat
      BY <1>1, <1>2, ArraysApart DEF to, from
    <2>5. /\ k - 1 \in Nat /\ (k - 1) * s \in Nat /\ k * s \in Nat
          /\ kCapacity * s \in Nat /\ k * s <= kCapacity * s
      <3>1. k - 1 \in Nat /\ k \in Nat /\ k - 1 <= k /\ k <= kCapacity
        BY <1>2, <2>1
      <3> QED BY <1>2, <2>4, <3>1, Stretch
    <2>6. b >= to[i] + (k - 1) * s /\ b <= to[i] + k * s - 1
      BY <1>7, <2>2, <2>4, <2>5 DEF ElementOf
    <2>7. i \in into(b)
      <3>1. b >= to[i] /\ b < to[i] + kCapacity * s BY <2>2, <2>4, <2>5, <2>6
      <3>2. kPointer'[i] = to[i] BY <1>3
      <3> QED BY <3>1, <3>2 DEF into
    <2>8. ASSUME NEW j \in into(b)
          PROVE  j = i
      <3>1. /\ j \in 1 .. Count /\ b >= to[j] /\ b < to[j] + kCapacity * ArraySizes[j]
        BY <1>3 DEF into
      <3>2. to[j] \in Nat /\ ArraySizes[j] \in Nat
        BY <1>1, <1>2, <3>1, ArraysApart DEF to
      <3>3. /\ kCapacity * ArraySizes[j] \in Nat /\ cap * ArraySizes[j] \in Nat
            /\ kCapacity * ArraySizes[j] <= cap * ArraySizes[j]
        BY <1>2, <3>2, Stretch
      <3>4. b \in BytesOfArray(to, cap, j)
        BY <2>2, <3>1, <3>2, <3>3 DEF BytesOfArray
      <3> QED BY <1>2, <2>2, <3>1, <3>4, ArraysApart DEF to
    <2>9. into(b) = {i} BY <2>7, <2>8
    <2>10. first(b) = i BY <1>1, <2>9 DEF first
    <2>11. kPointer[i] = from[i] /\ Memory!ElementBytes(i, k) = ElementOf(from, i, k)
      BY <2>1, ElementsOfBlock DEF from
    <2>12. kBlock'[b] = kBlock[from[i] + b - to[i]]
      <3>1. kPointer'[i] = to[i] BY <1>3
      <3> QED BY <1>4, <2>3, <2>9, <2>10, <2>11, <3>1
    <2> DEFINE c == from[i] + b - to[i]
    <2>13. c \in ElementOf(from, i, k) BY <2>2, <2>4, <2>5, <2>6 DEF ElementOf
    <2>14. kBlock[c] = kContents[i][k]
      BY <1>1, <1>7, <2>11, <2>13 DEF MemoryInv, Memory!ContentsKept
    <2> QED BY <1>4, <2>3, <2>12, <2>14
  <1>8. Memory!ContentsKept'
    <2> SUFFICES ASSUME NEW i \in 1 .. Count, NEW k \in DOMAIN kContents[i],
                        NEW b \in (Memory!ElementBytes(i, k))'
                 PROVE  b \in DOMAIN kBlock' /\ kBlock'[b] = kContents[i][k]
      BY <1>1, <1>2 DEF Memory!ContentsKept, Memory!Arrays
    <2>1. kPointer'[i] = to[i] BY <1>3
    <2>2. b \in ElementOf(to, i, k) BY <2>1 DEF Memory!ElementBytes, ElementOf
    <2> QED BY <1>7, <2>2
  <1>9. n \in 0 .. cap BY <1>2, <1>5
  <1>10. DOMAIN kContents = 1 .. Count BY DEF MemoryInv
  <1> QED BY <1>2, <1>5, <1>6, <1>8, <1>9, <1>10 DEF MemoryInv

\* Bytes are written: those of element k of the arrays in W.
LEMMA WriteKept ==
  ASSUME MemoryInv, kCapacity > 0, UNCHANGED <<kCapacity, kPointer>>,
         NEW W \in SUBSET (1 .. Count), NEW k \in 1 .. kCapacity, NEW v \in ArrayValues,
         kBlock' = [b \in DOMAIN kBlock |->
                      IF \E i \in W : b \in Memory!ElementBytes(i, k) THEN v ELSE kBlock[b]],
         DOMAIN kContents' = 1 .. Count,
         NEW n \in 0 .. kCapacity,
         \A i \in 1 .. Count : kContents'[i] \in Seq(ArrayValues) /\ Len(kContents'[i]) = n,
         \A i \in 1 .. Count : \A m \in DOMAIN kContents'[i] :
           IF i \in W /\ m = k THEN kContents'[i][m] = v
           ELSE m \in DOMAIN kContents[i] /\ kContents'[i][m] = kContents[i][m]
  PROVE  MemoryInv'
  <1> DEFINE at == Memory!Layout(kCapacity)
  <1>1. Memory!Arrays = 1 .. Count /\ Count \in Nat BY ArrayFacts
  <1>2. kCapacity \in Nat BY DEF MemoryInv
  <1>3. Placed(at) /\ DOMAIN kBlock' = DOMAIN kBlock BY DEF MemoryInv
  <1>4. \A i \in 1 .. Count, m \in Nat :
          /\ Memory!ElementBytes(i, m) = ElementOf(at, i, m)
          /\ (Memory!ElementBytes(i, m))' = ElementOf(at, i, m)
    BY ElementsOfBlock DEF Memory!ElementBytes
  <1>5. (Placed(Memory!Layout(kCapacity)))'
    <2>1. (Memory!Layout(kCapacity))' = at BY DEF Memory!Layout
    <2> HIDE DEF at
    <2> QED BY <1>3, <2>1 DEF Placed
  <1> HIDE DEF at
  <1>6. ASSUME NEW i \in 1 .. Count, NEW m \in DOMAIN kContents'[i], NEW b \in ElementOf(at, i, m)
        PROVE  b \in DOMAIN kBlock' /\ kBlock'[b] = kContents'[i][m]
    <2>1. m \in 1 .. n /\ m \in 1 .. kCapacity /\ m \in Nat BY <1>2, <1>6
    <2>2. b \in BytesOfArray(at, kCapacity, i) /\ b \in Int
      BY <1>2, <1>6, <2>1, ElementsApart DEF at
    <2>3. b \in DOMAIN kBlock BY <1>2, <1>3, <2>2, ArraysApart DEF at, Placed
    <2>4. CASE i \in W /\ m = k
      <3>1. b \in Memory!ElementBytes(i, k) BY <1>4, <1>6, <2>1, <2>4
      <3>2. kBlock'[b] = v BY <2>3, <2>4, <3>1
      <3> QED BY <1>3, <2>3, <2>4, <3>2
    <2>5. CASE ~ (i \in W /\ m = k)
      <3>1. m \in DOMAIN kContents[i] /\ kContents'[i][m] = kContents[i][m]
        BY <1>6, <2>5
      <3>2. kBlock[b] = kContents[i][m]
        BY <1>1, <1>4, <1>6, <2>1, <3>1 DEF MemoryInv, Memory!ContentsKept
      <3>3. ASSUME NEW j \in W, b \in Memory!ElementBytes(j, k)
            PROVE  FALSE
        <4>1. k \in Nat /\ j \in 1 .. Count BY <1>2
        <4>2. b \in ElementOf(at, j, k) BY <1>4, <3>3, <4>1
        <4>3. i = j /\ m = k
          BY <1>2, <1>6, <2>1, <4>1, <4>2, ElementsApart DEF at
        <4> QED BY <2>5, <4>3
      <3>4. kBlock'[b] = kBlock[b] BY <2>3, <3>3
      <3> QED BY <1>3, <2>3, <3>1, <3>2, <3>4
    <2> QED BY <2>4, <2>5
  <1>7. Memory!ContentsKept'
    <2> SUFFICES ASSUME NEW i \in 1 .. Count, NEW m \in DOMAIN kContents'[i],
                        NEW b \in (Memory!ElementBytes(i, m))'
                 PROVE  b \in DOMAIN kBlock' /\ kBlock'[b] = kContents'[i][m]
      BY <1>1 DEF Memory!ContentsKept, Memory!Arrays
    <2>1. m \in Nat
      <3>1. DOMAIN kContents'[i] = 1 .. n OBVIOUS
      <3> QED BY <3>1
    <2>2. (Memory!ElementBytes(i, m))' = ElementOf(at, i, m) BY <1>4, <2>1
    <2>3. b \in ElementOf(at, i, m) BY <2>2
    <2> QED BY <1>6, <2>3
  <1> QED BY <1>2, <1>5, <1>7 DEF MemoryInv

\* The client appends to every array.
LEMMA AppendKept == ASSUME MemoryInv, NEW v \in ArrayValues, Memory!Add(v) PROVE MemoryInv'
  <1>1. Memory!Arrays = 1 .. Count /\ Count \in Nat /\ 1 \in 1 .. Count
    BY ArrayFacts
  <1>2. PICK n \in 0 .. kCapacity : \A i \in 1 .. Count :
          kContents[i] \in Seq(ArrayValues) /\ Len(kContents[i]) = n
    BY DEF MemoryInv
  <1>3. kCapacity \in Nat /\ Len(kContents[1]) = n /\ n < kCapacity
    BY <1>1, <1>2 DEF MemoryInv, Memory!Add
  <1>4. /\ kContents' = [i \in 1 .. Count |-> Append(kContents[i], v)]
        /\ kBlock' = [b \in DOMAIN kBlock |->
             IF \E i \in 1 .. Count : b \in Memory!ElementBytes(i, n + 1) THEN v ELSE kBlock[b]]
        /\ UNCHANGED <<kCapacity, kPointer>>
    BY <1>1, <1>3 DEF Memory!Add
  <1>5. n + 1 \in 1 .. kCapacity /\ n + 1 \in 0 .. kCapacity /\ kCapacity > 0
    BY <1>3
  <1>6. ASSUME NEW i \in 1 .. Count
        PROVE  /\ kContents'[i] \in Seq(ArrayValues) /\ Len(kContents'[i]) = n + 1
               /\ \A m \in DOMAIN kContents'[i] :
                    IF m = n + 1 THEN kContents'[i][m] = v
                    ELSE m \in DOMAIN kContents[i] /\ kContents'[i][m] = kContents[i][m]
    <2> DEFINE s == kContents[i]
    <2>1. s \in Seq(ArrayValues) /\ Len(s) = n BY <1>2
    <2>2. kContents'[i] = Append(s, v) BY <1>4
    <2> HIDE DEF s
    <2>3. /\ Append(s, v) \in Seq(ArrayValues) /\ Len(Append(s, v)) = n + 1
          /\ \A m \in 1 .. n : Append(s, v)[m] = s[m]
          /\ Append(s, v)[n + 1] = v
          /\ DOMAIN s = 1 .. n /\ DOMAIN Append(s, v) = 1 .. n + 1
      BY <2>1
    <2>4. \A m \in 1 .. n + 1 : m = n + 1 \/ m \in 1 .. n BY <1>3
    <2> QED BY <2>2, <2>3, <2>4 DEF s
  <1>7. DOMAIN kContents' = 1 .. Count BY <1>4
  <1>8. \A i \in 1 .. Count : \A m \in DOMAIN kContents'[i] :
          IF i \in 1 .. Count /\ m = n + 1 THEN kContents'[i][m] = v
          ELSE m \in DOMAIN kContents[i] /\ kContents'[i][m] = kContents[i][m]
    BY <1>6
  <1> DEFINE W == 1 .. Count
             k == n + 1
  <1>9. W \in SUBSET (1 .. Count) /\ k \in 1 .. kCapacity /\ k \in 0 .. kCapacity
    BY <1>5
  <1>10. kBlock' = [b \in DOMAIN kBlock |->
           IF \E i \in W : b \in Memory!ElementBytes(i, k) THEN v ELSE kBlock[b]]
    BY <1>4
  <1>11. \A i \in 1 .. Count : kContents'[i] \in Seq(ArrayValues) /\ Len(kContents'[i]) = k
    BY <1>6
  <1>12. \A i \in 1 .. Count : \A m \in DOMAIN kContents'[i] :
           IF i \in W /\ m = k THEN kContents'[i][m] = v
           ELSE m \in DOMAIN kContents[i] /\ kContents'[i][m] = kContents[i][m]
    BY <1>8
  <1> HIDE DEF W, k
  <1> QED
    <2>1. kCapacity > 0 /\ UNCHANGED <<kCapacity, kPointer>> /\ DOMAIN kContents' = 1 .. Count
      BY <1>4, <1>5, <1>7
    <2> QED BY <2>1, <1>9, <1>10, <1>11, <1>12, WriteKept

\* The client writes to one of them.
LEMMA ElementWriteKept ==
  ASSUME MemoryInv, NEW i \in Memory!Arrays, NEW k \in 1 .. MaxCapacity, NEW v \in ArrayValues,
         Memory!Write(i, k, v)
  PROVE  MemoryInv'
  <1>1. Memory!Arrays = 1 .. Count /\ i \in 1 .. Count BY ArrayFacts
  <1>2. PICK n \in 0 .. kCapacity : \A j \in 1 .. Count :
          kContents[j] \in Seq(ArrayValues) /\ Len(kContents[j]) = n
    BY DEF MemoryInv
  <1>3. kCapacity \in Nat /\ DOMAIN kContents = 1 .. Count BY DEF MemoryInv
  <1>4. /\ k \in DOMAIN kContents[i]
        /\ kContents' = [kContents EXCEPT ![i][k] = v]
        /\ kBlock' = [b \in DOMAIN kBlock |->
             IF \E j \in {i} : b \in Memory!ElementBytes(j, k) THEN v ELSE kBlock[b]]
        /\ UNCHANGED <<kCapacity, kPointer>>
    BY DEF Memory!Write
  <1>5. k \in 1 .. n /\ k \in 1 .. kCapacity /\ kCapacity > 0
    BY <1>1, <1>2, <1>3, <1>4
  <1>6. /\ DOMAIN kContents' = 1 .. Count
        /\ kContents'[i] = [kContents[i] EXCEPT ![k] = v]
        /\ \A j \in 1 .. Count : j # i => kContents'[j] = kContents[j]
    BY <1>1, <1>3, <1>4
  <1>7. /\ kContents'[i] \in Seq(ArrayValues) /\ Len(kContents'[i]) = n
        /\ kContents'[i][k] = v
        /\ \A m \in 1 .. n : m # k => kContents'[i][m] = kContents[i][m]
    <2> DEFINE s == kContents[i]
    <2>1. s \in Seq(ArrayValues) /\ Len(s) = n /\ k \in 1 .. Len(s)
      BY <1>1, <1>2, <1>5
    <2> HIDE DEF s
    <2>2. /\ [s EXCEPT ![k] = v] \in Seq(ArrayValues) /\ Len([s EXCEPT ![k] = v]) = n
          /\ [s EXCEPT ![k] = v][k] = v
          /\ \A m \in 1 .. n : m # k => [s EXCEPT ![k] = v][m] = s[m]
      BY <2>1
    <2> QED BY <1>6, <2>2 DEF s
  <1>8. \A j \in 1 .. Count : kContents'[j] \in Seq(ArrayValues) /\ Len(kContents'[j]) = n
    BY <1>2, <1>6, <1>7
  <1>9. ASSUME NEW j \in 1 .. Count, NEW m \in DOMAIN kContents'[j]
        PROVE  IF j \in {i} /\ m = k THEN kContents'[j][m] = v
               ELSE m \in DOMAIN kContents[j] /\ kContents'[j][m] = kContents[j][m]
    <2>1. m \in 1 .. n /\ DOMAIN kContents[j] = 1 .. n BY <1>2, <1>8
    <2>2. CASE j = i BY <1>7, <2>1, <2>2
    <2>3. CASE j # i BY <1>6, <2>1, <2>3
    <2> QED BY <2>2, <2>3
  <1> DEFINE W == {i}
  <1>10. /\ W \in SUBSET (1 .. Count)
         /\ kBlock' = [b \in DOMAIN kBlock |->
              IF \E j \in W : b \in Memory!ElementBytes(j, k) THEN v ELSE kBlock[b]]
         /\ \A j \in 1 .. Count : \A m \in DOMAIN kContents'[j] :
              IF j \in W /\ m = k THEN kContents'[j][m] = v
              ELSE m \in DOMAIN kContents[j] /\ kContents'[j][m] = kContents[j][m]
    BY <1>1, <1>4, <1>9
  <1> HIDE DEF W
  <1> QED
    <2>1. kCapacity > 0 /\ UNCHANGED <<kCapacity, kPointer>> /\ DOMAIN kContents' = 1 .. Count
      BY <1>4, <1>5, <1>6
    <2>2. k \in 1 .. kCapacity /\ n \in 0 .. kCapacity BY <1>5
    <2> QED BY <2>1, <2>2, <1>8, <1>10, WriteKept

\* Every step of the block keeps its invariant.
LEMMA MemoryKept == MemoryInv /\ [Memory!Next]_memoryVars => MemoryInv'
  <1>1. ASSUME MemoryInv, UNCHANGED memoryVars
        PROVE  MemoryInv'
    <2>1. kCapacity' = kCapacity /\ kPointer' = kPointer /\ kBlock' = kBlock /\ kContents' = kContents
      BY <1>1 DEF memoryVars
    <2>2. (Memory!Layout(kCapacity))' = Memory!Layout(kCapacity)
      BY <2>1 DEF Memory!Layout
    <2>3. Memory!ContentsKept'
      BY <1>1, <2>1 DEF MemoryInv, Memory!ContentsKept, Memory!ElementBytes
    <2> QED BY <1>1, <2>1, <2>2, <2>3 DEF MemoryInv, Placed
  <1> QED BY <1>1, GrowKept, AppendKept, ElementWriteKept DEF Memory!Next

\* For any number of arrays of any sizes and alignments, however often the block
\* grows: each element has what was last written to it, and every array is
\* aligned and lies with its whole capacity in the block.
THEOREM ArraysStay == LibrarySpec => []ArraysKept
  <1>1. LibraryInit => MemoryInv
    <2> SUFFICES ASSUME Memory!Init
                 PROVE  MemoryInv
      BY DEF LibraryInit, LibraryStart
    <2>1. Memory!Arrays = 1 .. Count BY ArrayFacts
    <2>2. kCapacity = 0 /\ kContents = [i \in 1 .. Count |-> <<>>]
      BY <2>1 DEF Memory!Init
    <2>3. \A i \in 1 .. Count : kContents[i] = <<>> /\ DOMAIN kContents[i] = {}
      BY <2>2
    <2>4. Memory!ContentsKept BY <2>1, <2>3 DEF Memory!ContentsKept
    <2>5. 0 \in 0 .. 0 /\ <<>> \in Seq(ArrayValues) /\ Len(<<>>) = 0 OBVIOUS
    <2> QED BY <2>2, <2>3, <2>4, <2>5 DEF MemoryInv
  <1>2. [LibraryNext]_libraryVars => [Memory!Next]_memoryVars
    BY DEF LibraryNext, libraryVars, memoryVars
  <1>3. ASSUME MemoryInv
        PROVE  ArraysKept
    <2>1. ASSUME kCapacity > 0, NEW i \in Memory!Arrays
          PROVE  /\ kPointer[i] % ArrayAligns[i] = 0
                 /\ kPointer[i] + kCapacity * ArraySizes[i] <= Memory!Total(kCapacity)
      <3> DEFINE at == Memory!Layout(kCapacity)
      <3>1. i \in 1 .. Count /\ kCapacity \in Nat
        BY <1>3, ArrayFacts DEF MemoryInv
      <3>2. kPointer[i] = at[i] BY <1>3, <2>1, <3>1, ElementsOfBlock
      <3>3. at[i] % ArrayAligns[i] = 0 BY <3>1, LayoutFacts
      <3>4. at[i] + kCapacity * ArraySizes[i] <= at[Count + 1]
        BY <3>1, ArraysApart
      <3>5. Memory!Total(kCapacity) = at[Count + 1] BY DEF Memory!Total, Count
      <3> HIDE DEF at
      <3> QED BY <3>2, <3>3, <3>4, <3>5
    <2>2. Memory!ArraysPlaced BY <2>1 DEF Memory!ArraysPlaced
    <2> QED BY <1>3, <2>2 DEF ArraysKept, MemoryInv
  <1> QED BY <1>1, <1>2, <1>3, MemoryKept, PTL DEF LibrarySpec

----------------------------------------------------------------------------
(* VertexLayout: any attributes and gaps, any number of calls.             *)

\* The sums of a sequence of numbers.
LEMMA SumsExist ==
  ASSUME NEW n \in Nat, NEW s \in [1 .. n -> Nat]
  PROVE  \E f \in [Nat -> Nat] : f[0] = 0 /\ \A k \in 1 .. n : f[k] = f[k - 1] + s[k]
  <1> DEFINE next == [k \in Nat |-> [v \in Nat |-> IF k < n THEN v + s[k + 1] ELSE v]]
  <1>1. next \in [Nat -> [Nat -> Nat]]
    <2>1. \A k \in Nat : k < n => s[k + 1] \in Nat OBVIOUS
    <2> QED BY <2>1
  <1>2. PICK f \in [Nat -> Nat] : Runs(f, 0, next)
    <2> HIDE DEF next
    <2> QED BY <1>1, RunExists
  <1>3. ASSUME NEW k \in 1 .. n
        PROVE  f[k] = f[k - 1] + s[k]
    <2>1. k - 1 \in Nat /\ k - 1 < n /\ (k - 1) + 1 = k OBVIOUS
    <2>2. f[(k - 1) + 1] = next[k - 1][f[k - 1]] BY <1>2, <2>1 DEF Runs
    <2> QED BY <2>1, <2>2
  <1> QED BY <1>2, <1>3 DEF Runs

\* A set of numbers that is bounded has a greatest one.
LEMMA GreatestNumber ==
  ASSUME NEW n \in Nat, NEW T, T \subseteq 0 .. n, T # {}
  PROVE  \E x \in T : \A y \in T : y <= x
  <1> DEFINE U == {n - x : x \in T}
  <1>1. PICK u \in U : \A w \in U : u <= w
    <2>1. \A x \in T : n - x \in Nat OBVIOUS
    <2>2. U \subseteq Nat /\ U # {} BY <2>1
    <2> HIDE DEF U
    <2> QED BY <2>2, LeastNumber
  <1>2. PICK x \in T : u = n - x OBVIOUS
  <1>3. ASSUME NEW y \in T
        PROVE  y <= x
    <2>1. n - x <= n - y BY <1>1, <1>2
    <2>2. x \in 0 .. n /\ y \in 0 .. n OBVIOUS
    <2> QED BY <2>1, <2>2
  <1> QED BY <1>3

\* The bytes of a scalar.
LEMMA ScalarBytes ==
  ASSUME NEW t \in Vertices!FloatTypes
  PROVE  Vertices!BytesOf(t) \in {1, 2, 4, 8}
  BY DEF Vertices!BytesOf, Vertices!FloatTypes, Vertices!IntegralTypes

\* What is known of the elements of a vertex.
LEMMA ElementFacts ==
  ASSUME NEW layout \in Layouts
  PROVE  /\ Len(layout) \in Nat /\ DOMAIN layout = 1 .. Len(layout)
         /\ \A i \in 1 .. Len(layout) : /\ Vertices!Size(layout[i]) \in Nat
                                        /\ Vertices!Room(layout[i]) = Vertices!Size(layout[i])
         /\ Vertices!AttributesOf(layout) \subseteq 1 .. Len(layout)
         /\ \A i \in Vertices!AttributesOf(layout) :
              layout[i].components * Vertices!BytesOf(layout[i].type) = Vertices!Size(layout[i])
  <1>1. /\ layout \in Seq({layout[i] : i \in DOMAIN layout})
        /\ \A i \in DOMAIN layout : Vertices!IsAttribute(layout[i]) \/ Vertices!IsGap(layout[i])
    BY LibraryAssumption DEF Vertices!LayoutsAssumption
  <1>2. Len(layout) \in Nat /\ DOMAIN layout = 1 .. Len(layout) BY <1>1
  <1>3. \A e : Vertices!Room(e) = Vertices!Size(e)
    BY DEF Vertices!Room, Vertices!Size
  <1>4. ASSUME NEW i \in 1 .. Len(layout)
        PROVE  Vertices!Size(layout[i]) \in Nat
    <2>1. CASE Vertices!IsAttribute(layout[i])
      <3>1. layout[i].components \in Nat /\ layout[i].kind # "gap"
        BY <2>1 DEF Vertices!IsAttribute
      <3>2. layout[i].type \in Vertices!FloatTypes
        BY <2>1 DEF Vertices!IsAttribute, Vertices!DataTypes, Vertices!FloatTypes
      <3>3. Vertices!BytesOf(layout[i].type) \in Nat BY <3>2, ScalarBytes
      <3>4. layout[i].components * Vertices!BytesOf(layout[i].type) \in Nat
        BY <3>1, <3>3
      <3> QED BY <3>1, <3>4 DEF Vertices!Size
    <2>2. CASE Vertices!IsGap(layout[i])
      BY <2>2 DEF Vertices!IsGap, Vertices!Size
    <2> QED BY <1>1, <1>2, <2>1, <2>2
  <1>5. \A i \in Vertices!AttributesOf(layout) :
          layout[i].components * Vertices!BytesOf(layout[i].type) = Vertices!Size(layout[i])
    BY DEF Vertices!AttributesOf, Vertices!Size
  <1>6. Vertices!AttributesOf(layout) \subseteq 1 .. Len(layout)
    BY <1>2 DEF Vertices!AttributesOf
  <1> QED BY <1>2, <1>3, <1>4, <1>5, <1>6

\* The offset at which add_vertex_buffer_internal comes to an element is the room
\* of those before it.
LEMMA OffsetsAreSums ==
  ASSUME NEW layout \in Layouts
  PROVE  \E f \in [Nat -> Nat] :
           /\ \A i \in 1 .. Len(layout) : f[i] = f[i - 1] + Vertices!Size(layout[i])
           /\ Vertices!RoomOf(layout) = [k \in 0 .. Len(layout) |-> f[k]]
           /\ Vertices!Begins(layout) = [i \in 1 .. Len(layout) + 1 |-> f[i - 1]]
  <1> DEFINE N == Len(layout)
             size(k) == Vertices!Size(layout[k])
             s == [k \in 1 .. N |-> size(k)]
  <1>1. /\ N \in Nat /\ \A k \in 1 .. N : size(k) \in Nat
        /\ \A k \in 1 .. N : Vertices!Room(layout[k]) = size(k)
    BY ElementFacts
  <1> HIDE DEF N, size
  <1>2. PICK f \in [Nat -> Nat] : f[0] = 0 /\ \A k \in 1 .. N : f[k] = f[k - 1] + s[k]
    <2>1. s \in [1 .. N -> Nat] BY <1>1
    <2> HIDE DEF s
    <2> QED BY <1>1, <2>1, SumsExist
  <1>3. f[0] = 0 /\ \A k \in 1 .. N : f[k] = f[k - 1] + size(k) BY <1>2
  <1> HIDE DEF s
  <1>4. ASSUME NEW sum, sum = [k \in 0 .. N |-> IF k = 0 THEN 0 ELSE sum[k - 1] + size(k)]
        PROVE  sum = [k \in 0 .. N |-> f[k]]
    <2> DEFINE T == {k \in Nat : k <= N => sum[k] = f[k]}
    <2>1. 0 \in T BY <1>1, <1>3, <1>4
    <2>2. ASSUME NEW k \in Nat, k \in T
          PROVE  k + 1 \in T
      <3> SUFFICES ASSUME k + 1 <= N
                   PROVE  sum[k + 1] = f[k + 1]
        OBVIOUS
      <3>1. k + 1 \in 1 .. N /\ k + 1 \in 0 .. N /\ k + 1 # 0 /\ (k + 1) - 1 = k /\ k <= N
        BY <1>1
      <3>2. sum[k + 1] = sum[k] + size(k + 1) BY <1>4, <3>1
      <3>3. f[k + 1] = f[k] + size(k + 1) BY <1>3, <3>1
      <3> QED BY <2>2, <3>1, <3>2, <3>3
    <2>3. \A k \in Nat : k \in T
      <3> HIDE DEF T
      <3> QED BY <2>1, <2>2, NumbersByStep
    <2>4. \A k \in 0 .. N : sum[k] = f[k] BY <1>1, <2>3
    <2>5. sum = [k \in 0 .. N |-> sum[k]] BY <1>4
    <2> QED BY <2>4, <2>5
  <1> DEFINE g == [k \in 0 .. N |-> f[k]]
  <1>5. g = [k \in 0 .. N |-> IF k = 0 THEN 0 ELSE g[k - 1] + size(k)]
    <2>1. ASSUME NEW k \in 0 .. N
          PROVE  f[k] = IF k = 0 THEN 0 ELSE g[k - 1] + size(k)
      <3>1. CASE k = 0 BY <1>3, <3>1
      <3>2. CASE k # 0
        <4>1. k \in 1 .. N /\ k - 1 \in 0 .. N BY <1>1, <3>2
        <4> QED BY <1>3, <3>2, <4>1
      <3> QED BY <3>1, <3>2
    <2> QED BY <2>1
  <1> DEFINE room == CHOOSE sum : sum = [k \in 0 .. N |-> IF k = 0 THEN 0
                                           ELSE sum[k - 1] + Vertices!Room(layout[k])]
             chosen == CHOOSE sum : sum = [k \in 0 .. N |-> IF k = 0 THEN 0
                                             ELSE sum[k - 1] + size(k)]
  <1>6. Vertices!RoomOf(layout) = room BY DEF Vertices!RoomOf, N
  <1>7. chosen = g
    <2>1. chosen = [k \in 0 .. N |-> IF k = 0 THEN 0 ELSE chosen[k - 1] + size(k)]
      <3> HIDE DEF g
      <3> QED BY <1>5
    <2> HIDE DEF chosen
    <2> QED BY <1>4, <2>1
  <1>8. room = chosen
    <2>1. ASSUME NEW sum
          PROVE  [k \in 0 .. N |-> IF k = 0 THEN 0 ELSE sum[k - 1] + Vertices!Room(layout[k])]
                   = [k \in 0 .. N |-> IF k = 0 THEN 0 ELSE sum[k - 1] + size(k)]
      <3>1. \A k \in 0 .. N : k # 0 => k \in 1 .. N BY <1>1
      <3> QED BY <1>1, <3>1
    <2> QED BY <2>1
  <1> HIDE DEF chosen, room, g
  <1> DEFINE at == CHOOSE at : at = [i \in 1 .. N + 1 |-> IF i = 1 THEN 0
                                       ELSE at[i - 1] + Vertices!Size(layout[i - 1])]
             h == [i \in 1 .. N + 1 |-> f[i - 1]]
  <1>9. Vertices!Begins(layout) = at BY DEF Vertices!Begins, N
  <1>10. h = [i \in 1 .. N + 1 |-> IF i = 1 THEN 0
                ELSE h[i - 1] + Vertices!Size(layout[i - 1])]
    <2>1. ASSUME NEW i \in 1 .. N + 1
          PROVE  f[i - 1] = IF i = 1 THEN 0 ELSE h[i - 1] + Vertices!Size(layout[i - 1])
      <3>1. CASE i = 1 BY <1>3, <3>1
      <3>2. CASE i # 1
        <4>1. i - 1 \in 1 .. N /\ i - 1 \in 1 .. N + 1 BY <1>1, <3>2
        <4>2. h[i - 1] = f[(i - 1) - 1] BY <4>1
        <4>3. f[i - 1] = f[(i - 1) - 1] + Vertices!Size(layout[i - 1])
          BY <1>3, <4>1 DEF size
        <4> QED BY <3>2, <4>2, <4>3
      <3> QED BY <3>1, <3>2
    <2> QED BY <2>1
  <1>11. at = [i \in 1 .. N + 1 |-> IF i = 1 THEN 0
                 ELSE at[i - 1] + Vertices!Size(layout[i - 1])]
    <2> HIDE DEF h
    <2> QED BY <1>10
  <1> HIDE DEF at
  <1>12. at = h
    <2> DEFINE T == {k \in Nat : k <= N => at[k + 1] = f[k]}
    <2>1. 0 \in T
      <3>1. 1 \in 1 .. N + 1 BY <1>1
      <3> QED BY <1>3, <1>11, <3>1
    <2>2. ASSUME NEW k \in Nat, k \in T
          PROVE  k + 1 \in T
      <3> SUFFICES ASSUME k + 1 <= N
                   PROVE  at[(k + 1) + 1] = f[k + 1]
        OBVIOUS
      <3>1. /\ k + 1 \in 1 .. N /\ (k + 1) + 1 \in 1 .. N + 1 /\ (k + 1) + 1 # 1
            /\ ((k + 1) + 1) - 1 = k + 1 /\ (k + 1) - 1 = k /\ k <= N
        BY <1>1
      <3>2. at[(k + 1) + 1] = at[k + 1] + Vertices!Size(layout[k + 1])
        BY <1>11, <3>1
      <3>3. f[k + 1] = f[k] + Vertices!Size(layout[k + 1])
        BY <1>3, <3>1 DEF size
      <3> QED BY <2>2, <3>1, <3>2, <3>3
    <2>3. \A k \in Nat : k \in T
      <3> HIDE DEF T
      <3> QED BY <2>1, <2>2, NumbersByStep
    <2>4. ASSUME NEW i \in 1 .. N + 1
          PROVE  at[i] = f[i - 1]
      <3>1. i - 1 \in Nat /\ i - 1 <= N /\ (i - 1) + 1 = i BY <1>1
      <3> QED BY <2>3, <3>1
    <2>5. at = [i \in 1 .. N + 1 |-> at[i]] BY <1>11
    <2> QED BY <2>4, <2>5
  <1> QED BY <1>3, <1>6, <1>7, <1>8, <1>9, <1>12 DEF g, N, size

\* Elements lie one behind the other, the last one at the end of the stride.
LEMMA ElementsRise ==
  ASSUME NEW layout \in Layouts, NEW at, at = Vertices!Begins(layout)
  PROVE  /\ \A i \in 1 .. Len(layout) + 1 : /\ at[i] \in Nat
                                            /\ at[i] = Vertices!RoomOf(layout)[i - 1]
         /\ \A i \in 1 .. Len(layout) : at[i + 1] = at[i] + Vertices!Size(layout[i])
         /\ \A i, j \in 1 .. Len(layout) + 1 : i <= j => at[i] <= at[j]
  <1> DEFINE N == Len(layout)
  <1>0. N \in Nat /\ \A i \in 1 .. N : Vertices!Size(layout[i]) \in Nat
    BY ElementFacts
  <1>1. PICK f \in [Nat -> Nat] :
          /\ \A i \in 1 .. N : f[i] = f[i - 1] + Vertices!Size(layout[i])
          /\ Vertices!RoomOf(layout) = [k \in 0 .. N |-> f[k]]
          /\ at = [i \in 1 .. N + 1 |-> f[i - 1]]
    BY OffsetsAreSums
  <1> HIDE DEF N
  <1>2. ASSUME NEW i \in 1 .. N + 1
        PROVE  at[i] \in Nat /\ at[i] = f[i - 1] /\ at[i] = Vertices!RoomOf(layout)[i - 1]
    <2>1. i - 1 \in 0 .. N /\ i - 1 \in Nat BY <1>0
    <2> QED BY <1>1, <2>1
  <1>3. ASSUME NEW i \in 1 .. N
        PROVE  at[i + 1] = at[i] + Vertices!Size(layout[i])
    <2>1. i \in 1 .. N + 1 /\ i + 1 \in 1 .. N + 1 /\ (i + 1) - 1 = i BY <1>0
    <2>2. at[i + 1] = f[i] /\ at[i] = f[i - 1] BY <1>2, <2>1
    <2> QED BY <1>1, <2>2
  <1>4. ASSUME NEW i \in 1 .. N + 1, NEW j \in 1 .. N + 1, i <= j
        PROVE  at[i] <= at[j]
    <2> DEFINE T == {k \in Nat : i + k <= N + 1 => at[i] <= at[i + k]}
    <2>1. 0 \in T BY <1>0, <1>2
    <2>2. ASSUME NEW k \in Nat, k \in T
          PROVE  k + 1 \in T
      <3> SUFFICES ASSUME i + (k + 1) <= N + 1
                   PROVE  at[i] <= at[i + (k + 1)]
        OBVIOUS
      <3>1. /\ i + k \in 1 .. N /\ i + k \in 1 .. N + 1 /\ (i + k) + 1 \in 1 .. N + 1
            /\ (i + k) + 1 = i + (k + 1) /\ i + k <= N + 1
        BY <1>0
      <3>2. at[i] <= at[i + k] /\ at[i] \in Nat /\ at[i + k] \in Nat
        BY <1>2, <2>2, <3>1
      <3>3. at[(i + k) + 1] = at[i + k] + Vertices!Size(layout[i + k])
        BY <1>3, <3>1
      <3>4. Vertices!Size(layout[i + k]) \in Nat BY <1>0, <3>1
      <3> QED BY <3>1, <3>2, <3>3, <3>4
    <2>3. \A k \in Nat : k \in T
      <3> HIDE DEF T
      <3> QED BY <2>1, <2>2, NumbersByStep
    <2>4. j - i \in Nat /\ i + (j - i) = j /\ j <= N + 1 BY <1>0, <1>4
    <2> QED BY <2>3, <2>4
  <1> QED BY <1>2, <1>3, <1>4 DEF N

\* A pointer reads the bytes that the client put there.
LEMMA PointerReads ==
  ASSUME NEW c \in VertexCalls, NEW i \in Vertices!AttributesOf(c.layout), NEW n \in 0 .. 1
  PROVE  LET p    == Vertices!Pointer(c, i)
             at   == Vertices!Begins(c.layout)
             from == c.offset + n * Vertices!Stride(c.layout)
         IN  /\ Vertices!Bytes(p, n) = from + at[i] .. from + at[i + 1] - 1
             /\ Vertices!Bytes(p, n) = Vertices!Placed(c, i, n)
  <1> DEFINE p == Vertices!Pointer(c, i)
             layout == c.layout
             at == Vertices!Begins(layout)
             stride == Vertices!Stride(layout)
             N == Len(layout)
  <1>1. layout \in Layouts /\ c.offset \in Nat
    BY LibraryAssumption DEF VertexCalls, Vertices!LayoutsAssumption
  <1>2. /\ N \in Nat /\ i \in 1 .. N /\ i \in 1 .. N + 1 /\ i + 1 \in 1 .. N + 1
        /\ N + 1 \in 1 .. N + 1 /\ (N + 1) - 1 = N
        /\ layout[i].components * Vertices!BytesOf(layout[i].type) = Vertices!Size(layout[i])
        /\ Vertices!Room(layout[i]) = Vertices!Size(layout[i])
        /\ Vertices!Size(layout[i]) \in Nat
    BY <1>1, ElementFacts
  <1>3. /\ p.offset = c.offset + at[i] /\ p.stride = stride
        /\ p.components = layout[i].components /\ p.type = layout[i].type
    BY DEF Vertices!Pointer
  <1>4. stride = at[N + 1] BY DEF Vertices!Stride
  <1> HIDE DEF p, layout, at, stride, N
  <1>5. /\ at[i] \in Nat /\ at[i] = Vertices!RoomOf(layout)[i - 1]
        /\ at[i + 1] = at[i] + Vertices!Size(layout[i])
        /\ stride \in Nat /\ stride = Vertices!RoomOf(layout)[N]
    <2>1. /\ \A x \in 1 .. N + 1 : at[x] \in Nat /\ at[x] = Vertices!RoomOf(layout)[x - 1]
          /\ \A x \in 1 .. N : at[x + 1] = at[x] + Vertices!Size(layout[x])
      BY <1>1, ElementsRise DEF at, N
    <2> QED BY <1>2, <1>4, <2>1
  <1> DEFINE size == Vertices!Size(layout[i])
  <1>6. Vertices!Bytes(p, n) = (c.offset + at[i]) + n * stride
                                 .. ((c.offset + at[i]) + n * stride) + size - 1
    BY <1>2, <1>3 DEF Vertices!Bytes
  <1>7. Vertices!Placed(c, i, n) = (c.offset + n * stride) + at[i]
                                     .. ((c.offset + n * stride) + at[i]) + size - 1
    BY <1>2, <1>5 DEF Vertices!Placed, layout, N
  <1>8. n * stride \in Nat BY <1>5
  <1> HIDE DEF size
  <1>9. /\ (c.offset + at[i]) + n * stride = (c.offset + n * stride) + at[i]
        /\ ((c.offset + n * stride) + at[i]) + size - 1 = (c.offset + n * stride) + at[i + 1] - 1
    BY <1>1, <1>2, <1>5, <1>8 DEF size
  <1>10. /\ Vertices!Bytes(p, n) = (c.offset + n * stride) + at[i]
                                     .. (c.offset + n * stride) + at[i + 1] - 1
         /\ Vertices!Bytes(p, n) = Vertices!Placed(c, i, n)
    BY <1>6, <1>7, <1>9
  <1> QED BY <1>10 DEF p, layout, at, stride

\* The locations of a layout have a last attribute each.
LEMMA LastFound ==
  ASSUME NEW layout \in Layouts, NEW l \in Vertices!Given(layout)
  PROVE  /\ Vertices!LastOf(layout, l) \in Vertices!AttributesOf(layout)
         /\ layout[Vertices!LastOf(layout, l)].location = l
  <1> DEFINE T == {i \in Vertices!AttributesOf(layout) : layout[i].location = l}
  <1>1. T # {} /\ T \subseteq 0 .. Len(layout) /\ Len(layout) \in Nat
    BY ElementFacts DEF Vertices!Given
  <1>2. PICK i \in T : \A j \in T : j <= i
    <2> HIDE DEF T
    <2> QED BY <1>1, GreatestNumber
  <1>3. \E x \in Vertices!AttributesOf(layout) :
          /\ layout[x].location = l
          /\ \A j \in Vertices!AttributesOf(layout) : layout[j].location = l => j <= x
    BY <1>2
  <1> QED BY <1>3 DEF Vertices!LastOf

\* Every call keeps the invariant.
LEMMA CallKept ==
  ASSUME LayoutInv, NEW b \in Buffers, NEW o \in Offsets, NEW layout \in Layouts,
         Vertices!AddVertexBuffer(b, o, layout)
  PROVE  LayoutInv'
  <1> DEFINE c == [buffer |-> b, offset |-> o, layout |-> layout]
             N == Len(vCalls)
             given == Vertices!Given(layout)
  <1>1. c \in VertexCalls /\ c.layout = layout BY DEF VertexCalls
  <1>2. vCalls \in Seq(VertexCalls) /\ N \in Nat BY DEF LayoutInv
  <1>3. vCalls' = Append(vCalls, c) BY DEF Vertices!AddVertexBuffer
  <1>4. /\ DOMAIN vPointers' = given \union DOMAIN vPointers
        /\ \A l \in given : vPointers'[l] = Vertices!Pointer(c, Vertices!LastOf(layout, l))
        /\ \A l \in DOMAIN vPointers : l \notin given => vPointers'[l] = vPointers[l]
    BY DEF Vertices!AddVertexBuffer
  <1> HIDE DEF c, N
  <1>5. /\ vCalls' \in Seq(VertexCalls) /\ Len(vCalls') = N + 1
        /\ vCalls'[N + 1] = c /\ \A k \in 1 .. N : vCalls'[k] = vCalls[k]
    BY <1>1, <1>2, <1>3 DEF N
  <1>6. /\ \A k \in 1 .. N : (Vertices!Given(vCalls[k].layout))' = Vertices!Given(vCalls[k].layout)
        /\ vCalls'[N + 1].layout = layout
    BY <1>1, <1>5 DEF Vertices!Given, Vertices!AttributesOf
  <1>7. \A k \in 1 .. N + 1 : k = N + 1 \/ k \in 1 .. N BY <1>2
  <1>8. ASSUME NEW l \in given
        PROVE  \A k : NamedLast(k, l)' <=> k = N + 1
    <2>1. ASSUME NEW k
          PROVE  NamedLast(k, l)' <=>
                   /\ k \in 1 .. N + 1 /\ l \in Vertices!Given(vCalls'[k].layout)
                   /\ \A j \in 1 .. N + 1 : l \in Vertices!Given(vCalls'[j].layout) => j <= k
      BY <1>5 DEF NamedLast, Vertices!Given, Vertices!AttributesOf
    <2>2. N + 1 \in 1 .. N + 1 /\ \A k \in 1 .. N + 1 : k <= N + 1 /\ (N + 1 <= k => k = N + 1)
      BY <1>2
    <2>3. l \in Vertices!Given(vCalls'[N + 1].layout) BY <1>6, <1>8
    <2> QED BY <2>1, <2>2, <2>3
  <1>9. ASSUME NEW l, l \notin given
        PROVE  \A k : NamedLast(k, l)' <=> NamedLast(k, l)
    <2>1. ASSUME NEW k
          PROVE  NamedLast(k, l)' <=>
                   /\ k \in 1 .. N + 1 /\ l \in Vertices!Given(vCalls'[k].layout)
                   /\ \A j \in 1 .. N + 1 : l \in Vertices!Given(vCalls'[j].layout) => j <= k
      BY <1>5 DEF NamedLast, Vertices!Given, Vertices!AttributesOf
    <2>2. l \notin Vertices!Given(vCalls'[N + 1].layout) BY <1>6, <1>9
    <2>3. \A k \in 1 .. N : k \in 1 .. N + 1 /\ vCalls'[k] = vCalls[k]
      BY <1>2, <1>5
    <2> QED BY <1>7, <2>1, <2>2, <2>3 DEF NamedLast, N
  <1>10. ASSUME NEW l \in DOMAIN vPointers'
         PROVE  \E k : NamedLast(k, l)'
    <2>1. CASE l \in given BY <1>8, <2>1
    <2>2. CASE l \notin given BY <1>4, <1>9, <1>10, <2>2 DEF LayoutInv
    <2> QED BY <2>1, <2>2
  <1>11. ASSUME NEW k, NEW l, NamedLast(k, l)'
         PROVE  /\ l \in DOMAIN vPointers'
                /\ vPointers'[l]
                     = Vertices!Pointer(vCalls'[k], Vertices!LastOf(vCalls'[k].layout, l))
    <2>1. CASE l \in given
      <3>1. k = N + 1 BY <1>8, <1>11, <2>1
      <3> QED BY <1>4, <1>5, <1>6, <2>1, <3>1
    <2>2. CASE l \notin given
      <3>1. NamedLast(k, l) BY <1>9, <1>11, <2>2
      <3>2. k \in 1 .. N /\ vCalls'[k] = vCalls[k]
        BY <1>5, <3>1 DEF NamedLast, N
      <3>3. /\ l \in DOMAIN vPointers
            /\ vPointers[l] = Vertices!Pointer(vCalls[k], Vertices!LastOf(vCalls[k].layout, l))
        BY <3>1 DEF LayoutInv
      <3> QED BY <1>4, <2>2, <3>2, <3>3
    <2> QED BY <2>1, <2>2
  <1>12. \A k, l : (Vertices!Pointer(vCalls[k], Vertices!LastOf(vCalls[k].layout, l)))'
                     = Vertices!Pointer(vCalls'[k], Vertices!LastOf(vCalls'[k].layout, l))
    BY DEF Vertices!Pointer, Vertices!LastOf, Vertices!AttributesOf, Vertices!Stride,
           Vertices!Begins, Vertices!AttributeKind, Vertices!Size, Vertices!BytesOf
  <1> QED BY <1>5, <1>10, <1>11 DEF LayoutInv

\* Two stretches of bytes of vertices of the same size, in the same vertex and one
\* of them before the other, or in a vertex and the next, share no byte.
LEMMA StretchesApart ==
  ASSUME NEW start \in Nat, NEW stride \in Nat, NEW n \in 0 .. 1, NEW from,
         NEW low1 \in Nat, NEW top1 \in Nat, NEW low2 \in Nat, NEW top2 \in Nat,
         top1 <= stride, n # 0 \/ top1 <= low2 \/ top2 <= low1,
         from = IF n = 0 THEN start ELSE start + stride
  PROVE  (start + low1 .. start + top1 - 1) \intersect (from + low2 .. from + top2 - 1) = {}
  <1>1. CASE n = 0 BY <1>1
  <1>2. CASE n # 0 BY <1>2
  <1> QED BY <1>1, <1>2

\* For any layouts and any number of calls: the attributes of a call read no byte of
\* one another, in the same vertex or the next, and every location reads the data of
\* the last call that named it.
THEOREM AttributesReadOwn == LibrarySpec => []AttributesRead
  <1>1. LibraryInit => LayoutInv
    <2> SUFFICES ASSUME Vertices!Init
                 PROVE  LayoutInv
      BY DEF LibraryInit, LibraryStart
    <2>1. vCalls = <<>> /\ vPointers = <<>> BY DEF Vertices!Init
    <2>2. vCalls \in Seq(VertexCalls) /\ Len(vCalls) = 0 /\ DOMAIN vPointers = {}
      BY <2>1
    <2>3. \A k, l : ~ NamedLast(k, l) BY <2>2 DEF NamedLast
    <2> QED BY <2>2, <2>3 DEF LayoutInv
  <1>2. LayoutInv /\ [LibraryNext]_libraryVars => LayoutInv'
    <2>1. ASSUME LayoutInv, UNCHANGED layoutVars
          PROVE  LayoutInv'
      BY <2>1 DEF LayoutInv, NamedLast, layoutVars
    <2>2. [LibraryNext]_libraryVars => Vertices!Next \/ UNCHANGED layoutVars
      BY DEF LibraryNext, libraryVars
    <2> QED BY <2>1, <2>2, CallKept DEF Vertices!Next
  <1>3. LayoutInv => AttributesRead
    <2> SUFFICES ASSUME LayoutInv
                 PROVE  Vertices!AttributesApart /\ Vertices!LastCallRead
      BY DEF AttributesRead
    <2> DEFINE N == Len(vCalls)
    <2>1. /\ vCalls \in Seq(VertexCalls) /\ N \in Nat /\ DOMAIN vCalls = 1 .. N
          /\ \A k \in 1 .. N : vCalls[k] \in VertexCalls /\ vCalls[k].layout \in Layouts
      <3>1. vCalls \in Seq(VertexCalls) BY DEF LayoutInv
      <3>2. \A k \in 1 .. N : vCalls[k] \in VertexCalls BY <3>1
      <3>3. \A c \in VertexCalls : c.layout \in Layouts BY DEF VertexCalls
      <3> QED BY <3>1, <3>2, <3>3
    <2>2. ASSUME NEW k, NEW l, NamedLast(k, l)
          PROVE  \E i \in Vertices!AttributesOf(vCalls[k].layout) :
                   /\ vCalls[k].layout[i].location = l
                   /\ l \in DOMAIN vPointers /\ vPointers[l] = Vertices!Pointer(vCalls[k], i)
      <3>1. k \in 1 .. N /\ l \in Vertices!Given(vCalls[k].layout)
        BY <2>2 DEF NamedLast
      <3> QED BY <2>1, <2>2, <3>1, LastFound DEF LayoutInv
    <2>3. Vertices!AttributesApart
      <3> DEFINE c == vCalls[N]
                 layout == c.layout
                 at == Vertices!Begins(layout)
      <3> SUFFICES ASSUME vCalls # <<>>,
                          \A i, j \in Vertices!AttributesOf(layout) :
                            i # j => layout[i].location # layout[j].location,
                          NEW l \in Vertices!Given(layout), NEW k \in Vertices!Given(layout),
                          NEW n \in 0 .. 1, l # k \/ n # 0
                   PROVE  Vertices!Bytes(vPointers[l], 0) \intersect
                            Vertices!Bytes(vPointers[k], n) = {}
        BY DEF Vertices!AttributesApart
      <3>1. N \in 1 .. N /\ c \in VertexCalls /\ layout \in Layouts /\ \A j \in 1 .. N : j <= N
        BY <2>1
      <3>2. NamedLast(N, l) /\ NamedLast(N, k) BY <3>1 DEF NamedLast
      <3>3. PICK i \in Vertices!AttributesOf(layout) :
              layout[i].location = l /\ vPointers[l] = Vertices!Pointer(c, i)
        BY <2>2, <3>2
      <3>4. PICK j \in Vertices!AttributesOf(layout) :
              layout[j].location = k /\ vPointers[k] = Vertices!Pointer(c, j)
        BY <2>2, <3>2
      <3> DEFINE stride == Vertices!Stride(layout)
                 from == c.offset + n * stride
                 M == Len(layout)
      <3>5. /\ M \in Nat /\ i \in 1 .. M /\ j \in 1 .. M BY <3>1, ElementFacts
      <3>6. /\ at[i] \in Nat /\ at[i + 1] \in Nat /\ at[j] \in Nat /\ at[j + 1] \in Nat
            /\ stride \in Nat /\ at[i + 1] <= stride
            /\ i < j => at[i + 1] <= at[j]
            /\ j < i => at[j + 1] <= at[i]
        <4>1. /\ i \in 1 .. M + 1 /\ i + 1 \in 1 .. M + 1 /\ j \in 1 .. M + 1
              /\ j + 1 \in 1 .. M + 1 /\ M + 1 \in 1 .. M + 1 /\ i + 1 <= M + 1
              /\ (i < j => i + 1 <= j) /\ (j < i => j + 1 <= i)
          BY <3>5
        <4>2. /\ \A x \in 1 .. M + 1 : at[x] \in Nat
              /\ \A x, y \in 1 .. M + 1 : x <= y => at[x] <= at[y]
          BY <3>1, ElementsRise
        <4>3. stride = at[M + 1] BY DEF Vertices!Stride
        <4> HIDE DEF at, M, stride
        <4> QED BY <4>1, <4>2, <4>3
      <3>7. c.offset \in Nat
        BY <3>1, LibraryAssumption DEF VertexCalls, Vertices!LayoutsAssumption
      <3>8. Vertices!Bytes(vPointers[l], 0) = (c.offset + 0 * stride) + at[i]
                                                .. (c.offset + 0 * stride) + at[i + 1] - 1
        <4>1. 0 \in 0 .. 1 OBVIOUS
        <4> QED BY <3>1, <3>3, <4>1, PointerReads
      <3>9. Vertices!Bytes(vPointers[k], n) = from + at[j] .. from + at[j + 1] - 1
        BY <3>1, <3>4, PointerReads
      <3>10. n = 0 => i # j BY <3>3, <3>4
      <3> HIDE DEF c, layout, at, stride, M
      <3>11. 0 * stride = 0 /\ (n = 0 => from = c.offset) /\ (n # 0 => from = c.offset + stride)
        BY <3>6, <3>7
      <3> HIDE DEF from
      <3>12. i < j \/ j < i \/ n # 0 BY <3>5, <3>10
      <3> DEFINE start == c.offset
                 low1  == at[i]
                 top1  == at[i + 1]
                 low2  == at[j]
                 top2  == at[j + 1]
      <3>13. /\ low1 \in Nat /\ top1 \in Nat /\ low2 \in Nat /\ top2 \in Nat
             /\ start \in Nat /\ stride \in Nat /\ n \in 0 .. 1
             /\ top1 <= stride /\ (n # 0 \/ top1 <= low2 \/ top2 <= low1)
             /\ from = (IF n = 0 THEN start ELSE start + stride)
        BY <3>6, <3>7, <3>11, <3>12
      <3>14. /\ Vertices!Bytes(vPointers[l], 0) = start + low1 .. start + top1 - 1
             /\ Vertices!Bytes(vPointers[k], n) = from + low2 .. from + top2 - 1
        <4> DEFINE none == 0 * stride
        <4>1. none = 0 /\ start \in Nat BY <3>7, <3>11
        <4>2. Vertices!Bytes(vPointers[l], 0) = (start + none) + low1 .. (start + none) + top1 - 1
          BY <3>8
        <4> HIDE DEF none, start, low1, top1
        <4>3. start + none = start BY <4>1
        <4> QED BY <3>9, <4>2, <4>3
      <3> HIDE DEF start, low1, top1, low2, top2
      <3> QED BY <3>13, <3>14, StretchesApart
    <2>4. Vertices!LastCallRead
      <3> SUFFICES ASSUME NEW l \in DOMAIN vPointers
                   PROVE  LET naming == {k \in DOMAIN vCalls : l \in Vertices!Given(vCalls[k].layout)}
                              c == vCalls[CHOOSE k \in naming : \A j \in naming : j <= k]
                          IN  /\ vPointers[l].buffer = c.buffer
                              /\ \E i \in Vertices!AttributesOf(c.layout) :
                                   /\ c.layout[i].location = l
                                   /\ \A n \in 0 .. 1 :
                                        Vertices!Bytes(vPointers[l], n) = Vertices!Placed(c, i, n)
                                   /\ vPointers[l].kind = "Integral"
                                        <=> c.layout[i].scalar = "int"
        BY DEF Vertices!LastCallRead
      <3> DEFINE naming == {k \in DOMAIN vCalls : l \in Vertices!Given(vCalls[k].layout)}
                 k == CHOOSE k \in naming : \A j \in naming : j <= k
                 c == vCalls[k]
      <3>1. \E x : NamedLast(x, l) BY DEF LayoutInv
      <3>2. \E x \in naming : \A j \in naming : j <= x
        BY <2>1, <3>1 DEF NamedLast
      <3>3. k \in naming /\ \A j \in naming : j <= k BY <3>2
      <3>4. NamedLast(k, l) BY <2>1, <3>3 DEF NamedLast
      <3>5. k \in 1 .. N /\ c \in VertexCalls /\ c.layout \in Layouts
        BY <2>1, <3>3
      <3> HIDE DEF k
      <3>6. PICK i \in Vertices!AttributesOf(c.layout) :
              c.layout[i].location = l /\ vPointers[l] = Vertices!Pointer(c, i)
        BY <2>2, <3>4
      <3>7. \A n \in 0 .. 1 : Vertices!Bytes(vPointers[l], n) = Vertices!Placed(c, i, n)
        BY <3>5, <3>6, PointerReads
      <3>8. /\ vPointers[l].buffer = c.buffer
            /\ vPointers[l].kind = Vertices!AttributeKind(c.layout[i])
        BY <3>6 DEF Vertices!Pointer
      <3>9. Vertices!AttributeKind(c.layout[i]) = "Integral" <=> c.layout[i].scalar = "int"
        <4>1. c.layout[i].kind = "attribute" /\ i \in DOMAIN c.layout
          BY DEF Vertices!AttributesOf
        <4>2. Vertices!IsAttribute(c.layout[i])
          BY <3>5, <4>1, LibraryAssumption DEF Vertices!LayoutsAssumption, Vertices!IsGap
        <4>3. c.layout[i].scalar \in {"float", "int", "double"}
          BY <4>2 DEF Vertices!IsAttribute
        <4> QED BY <4>3 DEF Vertices!AttributeKind
      <3>10. /\ vPointers[l].buffer = c.buffer
             /\ \E a \in Vertices!AttributesOf(c.layout) :
                  /\ c.layout[a].location = l
                  /\ \A n \in 0 .. 1 : Vertices!Bytes(vPointers[l], n) = Vertices!Placed(c, a, n)
                  /\ vPointers[l].kind = "Integral" <=> c.layout[a].scalar = "int"
        BY <3>6, <3>7, <3>8, <3>9
      <3> QED BY <3>10 DEF k
    <2> QED BY <2>3, <2>4
  <1> QED BY <1>1, <1>2, <1>3, PTL DEF LibrarySpec

----------------------------------------------------------------------------
(* BuddyAllocator: any leaf, any buffer, any requests.                     *)

\* The powers of two, as they grow.
LEMMA Powers ==
  /\ Buddy!Pow2 \in [Nat -> Nat] /\ Buddy!Pow2[0] = 1
  /\ \A k \in Nat : Buddy!Pow2[k + 1] = 2 * Buddy!Pow2[k]
  /\ \A k \in Nat : Buddy!Pow2[k] \in Nat /\ Buddy!Pow2[k] > k
  <1> DEFINE next == [n \in Nat |-> [v \in Nat |-> 2 * v]]
  <1>1. next \in [Nat -> [Nat -> Nat]] OBVIOUS
  <1>2. PICK f \in [Nat -> Nat] : f[0] = 1 /\ \A k \in Nat : f[k + 1] = 2 * f[k]
    <2>1. PICK f \in [Nat -> Nat] : Runs(f, 1, next)
      <3> HIDE DEF next
      <3> QED BY <1>1, RunExists
    <2>2. f[0] = 1 /\ \A k \in Nat : f[k + 1] = next[k][f[k]] BY <2>1 DEF Runs
    <2> QED BY <2>2
  <1>3. f = [k \in Nat |-> IF k = 0 THEN 1 ELSE 2 * f[k - 1]]
    <2>1. ASSUME NEW k \in Nat
          PROVE  f[k] = IF k = 0 THEN 1 ELSE 2 * f[k - 1]
      <3>1. CASE k = 0 BY <1>2, <3>1
      <3>2. CASE k # 0
        <4>1. k - 1 \in Nat /\ (k - 1) + 1 = k BY <3>2
        <4> QED BY <1>2, <3>2, <4>1
      <3> QED BY <3>1, <3>2
    <2> QED BY <2>1
  <1> HIDE DEF next
  <1> DEFINE P == Buddy!Pow2
  <1>4. P = [k \in Nat |-> IF k = 0 THEN 1 ELSE 2 * P[k - 1]]
    BY <1>3 DEF Buddy!Pow2
  <1> HIDE DEF P
  <1>5. P[0] = 1 BY <1>4
  <1>6. \A k \in Nat : P[k + 1] = 2 * P[k]
    <2> TAKE k \in Nat
    <2>1. k + 1 \in Nat /\ k + 1 # 0 /\ (k + 1) - 1 = k OBVIOUS
    <2> QED BY <1>4, <2>1
  <1> DEFINE T == {k \in Nat : P[k] \in Nat /\ P[k] > k}
  <1>7. \A k \in Nat : k \in T
    <2>1. 0 \in T BY <1>5
    <2>2. \A k \in Nat : k \in T => k + 1 \in T BY <1>6
    <2> HIDE DEF T
    <2> QED BY <2>1, <2>2, NumbersByStep
  <1>8. P \in [Nat -> Nat] BY <1>4, <1>7
  <1> QED BY <1>5, <1>6, <1>7, <1>8 DEF P

\* A power is the product of those of its parts.
LEMMA PowerOfSum ==
  ASSUME NEW i \in Nat, NEW j \in Nat
  PROVE  Buddy!Pow2[i + j] = Buddy!Pow2[i] * Buddy!Pow2[j]
  <1> DEFINE T == {k \in Nat : Buddy!Pow2[i + k] = Buddy!Pow2[i] * Buddy!Pow2[k]}
  <1>1. 0 \in T
    <2>1. i + 0 = i /\ Buddy!Pow2[0] = 1 /\ Buddy!Pow2[i] \in Nat BY Powers
    <2> QED BY <2>1
  <1>2. ASSUME NEW k \in Nat, k \in T
        PROVE  k + 1 \in T
    <2> DEFINE a == Buddy!Pow2[i]
               b == Buddy!Pow2[k]
    <2>1. /\ i + (k + 1) = (i + k) + 1 /\ i + k \in Nat
          /\ Buddy!Pow2[(i + k) + 1] = 2 * Buddy!Pow2[i + k] /\ Buddy!Pow2[k + 1] = 2 * b
          /\ a \in Nat /\ b \in Nat
      BY Powers
    <2>2. Buddy!Pow2[i + k] = a * b BY <1>2
    <2> HIDE DEF a, b
    <2>3. 2 * (a * b) = a * (2 * b) BY <2>1
    <2>4. Buddy!Pow2[i + (k + 1)] = a * Buddy!Pow2[k + 1] BY <2>1, <2>2, <2>3
    <2> QED BY <2>4 DEF a
  <1> HIDE DEF T
  <1>3. j \in T BY <1>1, <1>2, NumbersByStep
  <1> QED BY <1>3 DEF T

\* They rise.
LEMMA PowersRise ==
  ASSUME NEW i \in Nat, NEW j \in Nat, i <= j
  PROVE  Buddy!Pow2[i] <= Buddy!Pow2[j] /\ (i < j => 2 * Buddy!Pow2[i] <= Buddy!Pow2[j])
  <1>1. j - i \in Nat /\ i + (j - i) = j OBVIOUS
  <1> DEFINE a == Buddy!Pow2[i]
             b == Buddy!Pow2[j - i]
  <1>2. Buddy!Pow2[j] = a * b /\ a \in Nat /\ b \in Nat /\ b > j - i
    BY <1>1, Powers, PowerOfSum
  <1> HIDE DEF a, b
  <1>3. a <= a * b BY <1>1, <1>2
  <1>4. ASSUME i < j
        PROVE  2 * a <= a * b
    <2>1. b >= 2 BY <1>1, <1>2, <1>4
    <2> QED BY <1>2, <2>1
  <1> QED BY <1>2, <1>3, <1>4 DEF a

\* Which of blocks of b a number is in.
LEMMA InBlock ==
  ASSUME NEW b \in Nat \ {0}, NEW x \in Nat
  PROVE  /\ x \div b \in Nat /\ b * (x \div b) <= x /\ x < b * (x \div b) + b
         /\ \A q \in Nat : b * q <= x /\ x < b * q + b => x \div b = q
  <1> DEFINE y == x \div b
             r == x % b
             c == b * y
  <1>1. y \in Nat /\ r \in 0 .. b - 1 /\ c \in Nat /\ x = c + r BY WholeBlocks
  <1>2. b * y <= x /\ x < b * y + b
    <2> HIDE DEF y, r
    <2>1. c <= x /\ x < c + b
      <3> HIDE DEF c
      <3> QED BY <1>1
    <2> QED BY <2>1
  <1>3. ASSUME NEW q \in Nat, b * q <= x, x < b * q + b
        PROVE  y = q
    <2> DEFINE s == x - b * q
    <2>1. b * q \in Nat /\ s \in 0 .. b - 1 /\ b * q + s = x BY <1>3
    <2> HIDE DEF s, y
    <2>2. (b * q + s) \div b = q BY <2>1, BlockOfBit
    <2> QED BY <2>1, <2>2 DEF y
  <1> QED BY <1>1, <1>2, <1>3

\* Halves of blocks.
LEMMA HalfBlocks ==
  ASSUME NEW b \in Nat \ {0}, NEW x \in Nat
  PROVE  (x \div b) \div 2 = x \div (2 * b)
  <1> DEFINE q == x \div b
             u == q \div 2
  <1>1. q \in Nat /\ b * q <= x /\ x < b * q + b BY InBlock
  <1> HIDE DEF q
  <1>2. u \in Nat /\ (q = 2 * u \/ q = 2 * u + 1) BY <1>1
  <1> HIDE DEF u
  <1> DEFINE c == b * u
  <1>3. c \in Nat /\ (2 * b) * u = 2 * c /\ b * (2 * u) = 2 * c /\ b * (2 * u + 1) = 2 * c + b
    BY <1>2
  <1>4. 2 * c <= x /\ x < 2 * c + 2 * b
    <2> HIDE DEF c
    <2> QED BY <1>1, <1>2, <1>3
  <1>5. 2 * b \in Nat \ {0} /\ (2 * b) * u <= x /\ x < (2 * b) * u + (2 * b)
    BY <1>3, <1>4
  <1>6. x \div (2 * b) = u BY <1>2, <1>5, InBlock
  <1> QED BY <1>6 DEF q, u

\* A block is whole leaves, and twice the block of the next depth.
LEMMA BlockSizes ==
  /\ MaxHeight \in Nat /\ MaxHeight > 2 /\ LeafSize \in Nat \ {0} /\ Buddy!Total \in Nat \ {0}
  /\ Heights \subseteq {0} \union 3 .. MaxHeight /\ Heights \subseteq Depths
  /\ \A d \in Depths : /\ Buddy!BlockSize(d) \in Nat \ {0}
                       /\ Buddy!BlockSize(d) = LeafSize * Buddy!Pow2[MaxHeight - d]
                       /\ Buddy!BlockSize(d) * Buddy!Pow2[d] = Buddy!Total
                       /\ d > 0 => Buddy!BlockSize(d - 1) = 2 * Buddy!BlockSize(d)
  <1>1. /\ MaxHeight \in Nat /\ MaxHeight > 2 /\ LeafSize \in Nat
        /\ Heights \subseteq {0} \union 3 .. MaxHeight
    BY LibraryAssumption DEF Buddy!BuddyAssumption
  <1>2. LeafSize # 0
    <2>1. PICK k \in 0 .. LeafSize : LeafSize = Buddy!Pow2[k]
      BY LibraryAssumption DEF Buddy!BuddyAssumption
    <2>2. k \in Nat /\ Buddy!Pow2[k] > k BY <1>1, <2>1, Powers
    <2> QED BY <2>1, <2>2
  <1>3. Buddy!Pow2[MaxHeight] \in Nat /\ Buddy!Pow2[MaxHeight] > 0
    BY <1>1, Powers
  <1>4. Buddy!Total \in Nat \ {0} /\ Buddy!Total = LeafSize * Buddy!Pow2[MaxHeight]
    BY <1>1, <1>2, <1>3 DEF Buddy!Total
  <1>5. ASSUME NEW d \in Depths
        PROVE  /\ Buddy!BlockSize(d) \in Nat \ {0}
               /\ Buddy!BlockSize(d) = LeafSize * Buddy!Pow2[MaxHeight - d]
               /\ Buddy!BlockSize(d) * Buddy!Pow2[d] = Buddy!Total
    <2> DEFINE m == MaxHeight - d
               a == Buddy!Pow2[d]
               b == Buddy!Pow2[m]
               c == LeafSize * b
    <2>1. d \in Nat /\ m \in Nat /\ d + m = MaxHeight BY <1>1 DEF Depths
    <2>2. a \in Nat /\ b \in Nat /\ a > 0 /\ b > 0
      <3> HIDE DEF m
      <3> QED BY <2>1, Powers
    <2>3. Buddy!Pow2[MaxHeight] = a * b
      <3> HIDE DEF m
      <3> QED BY <2>1, PowerOfSum
    <2> HIDE DEF m, a, b
    <2>4. c \in Nat \ {0} /\ c * a = LeafSize * (a * b) /\ a * c = c * a
      BY <1>1, <1>2, <2>2
    <2> HIDE DEF c
    <2>5. Buddy!Total = a * c + 0 /\ a \in Nat \ {0} /\ 0 \in 0 .. a - 1
      BY <1>4, <2>2, <2>3, <2>4
    <2>6. Buddy!Total \div a = c BY <2>4, <2>5, BlockOfBit
    <2> QED BY <1>4, <2>3, <2>4, <2>6 DEF Buddy!BlockSize, a, b, c, m
  <1>6. ASSUME NEW d \in Depths, d > 0
        PROVE  Buddy!BlockSize(d - 1) = 2 * Buddy!BlockSize(d)
    <2> DEFINE m == MaxHeight - d
    <2>1. d - 1 \in Depths /\ MaxHeight - (d - 1) = m + 1 /\ m \in Nat
      BY <1>1, <1>6 DEF Depths
    <2>2. Buddy!BlockSize(d - 1) = LeafSize * Buddy!Pow2[m + 1] BY <1>5, <2>1
    <2>3. Buddy!BlockSize(d) = LeafSize * Buddy!Pow2[m] BY <1>5
    <2> HIDE DEF m
    <2>4. Buddy!Pow2[m + 1] = 2 * Buddy!Pow2[m] /\ Buddy!Pow2[m] \in Nat
      BY <2>1, Powers
    <2> DEFINE b == Buddy!Pow2[m]
    <2>5. LeafSize * (2 * b) = 2 * (LeafSize * b)
      <3> HIDE DEF b
      <3> QED BY <1>1, <2>4 DEF b
    <2> QED BY <2>2, <2>3, <2>4, <2>5
  <1>7. Heights \subseteq Depths BY <1>1 DEF Depths
  <1> QED BY <1>1, <1>2, <1>4, <1>5, <1>6, <1>7

\* Which node of a depth an address is in, and its index.
LEMMA Nodes ==
  ASSUME NEW x \in Addresses, NEW d \in Depths
  PROVE  /\ Node(x, d) \in Nat /\ Node(x, d) < Buddy!Pow2[d]
         /\ Buddy!BlockSize(d) * Node(x, d) <= x
         /\ x < Buddy!BlockSize(d) * Node(x, d) + Buddy!BlockSize(d)
         /\ Buddy!Index(x, d) = Buddy!Pow2[d] + Node(x, d) - 1
         /\ Buddy!Index(x, d) \in Nat /\ Buddy!Pow2[d] \in Nat /\ Buddy!Pow2[d] > 0
         /\ d > 0 => Node(x, d - 1) = Node(x, d) \div 2
         /\ d = 0 => Node(x, d) = 0
  <1> DEFINE b == Buddy!BlockSize(d)
             p == Buddy!Pow2[d]
             n == Node(x, d)
             c == b * n
  <1>1. d \in Nat /\ x \in Nat /\ x < Buddy!Total /\ Buddy!Total \in Nat
    BY BlockSizes DEF Depths, Addresses
  <1>2. b \in Nat \ {0} /\ b * p = Buddy!Total /\ p \in Nat /\ p > 0
    BY <1>1, BlockSizes, Powers
  <1>3. n = x \div b BY DEF Node, Buddy!IndexAtDepth
  <1>4. Buddy!Index(x, d) = p + n - 1 BY DEF Node, Buddy!Index
  <1>5. d > 0 => Node(x, d - 1) = n \div 2
    <2> SUFFICES ASSUME d > 0
                 PROVE  Node(x, d - 1) = n \div 2
      OBVIOUS
    <2>1. Buddy!BlockSize(d - 1) = 2 * b BY BlockSizes
    <2>2. (x \div b) \div 2 = x \div (2 * b)
      <3> HIDE DEF b
      <3> QED BY <1>1, <1>2, HalfBlocks
    <2> QED BY <1>3, <2>1, <2>2 DEF Node, Buddy!IndexAtDepth
  <1>6. d = 0 => p = 1 BY Powers
  <1> HIDE DEF b, p, n
  <1>7. n \in Nat /\ b * n <= x /\ x < b * n + b BY <1>1, <1>2, <1>3, InBlock
  <1>8. n < p
    <2>1. SUFFICES ASSUME p <= n
                   PROVE  FALSE
      BY <1>2, <1>7
    <2>2. b * p <= b * n BY <1>2, <1>7, <2>1
    <2> QED BY <1>1, <1>2, <1>7, <2>2
  <1>9. p + n - 1 \in Nat BY <1>2, <1>7
  <1>10. d = 0 => n = 0 BY <1>6, <1>7, <1>8
  <1> QED BY <1>2, <1>4, <1>5, <1>7, <1>8, <1>9, <1>10 DEF b, p, n

\* Nodes of different depths, and different nodes of a depth, have different indices.
LEMMA SameIndex ==
  ASSUME NEW x \in Addresses, NEW y \in Addresses, NEW d \in Depths, NEW e \in Depths,
         Buddy!Index(x, d) = Buddy!Index(y, e)
  PROVE  d = e /\ Node(x, d) = Node(y, d)
  <1>1. d \in Nat /\ e \in Nat BY DEF Depths
  <1> DEFINE p == Buddy!Pow2[d]
             q == Buddy!Pow2[e]
             m == Node(x, d)
             n == Node(y, e)
  <1>2. /\ p + m - 1 = q + n - 1 /\ m \in Nat /\ n \in Nat /\ p \in Nat /\ q \in Nat
        /\ m < p /\ n < q
    BY Nodes
  <1>3. (d < e => 2 * p <= q) /\ (e < d => 2 * q <= p) BY <1>1, PowersRise
  <1> HIDE DEF p, q, m, n
  <1>4. d = e BY <1>1, <1>2, <1>3
  <1>5. p = q BY <1>4 DEF p, q
  <1>6. m = n BY <1>2, <1>5
  <1> QED BY <1>4, <1>6 DEF m, n

\* Addresses in the same node are in the same node of every lesser depth.
LEMMA Coarser ==
  ASSUME NEW x \in Addresses, NEW y \in Addresses, NEW d \in Depths, NEW e \in Depths, d <= e,
         Node(x, e) = Node(y, e)
  PROVE  Node(x, d) = Node(y, d)
  <1> DEFINE T == {k \in Nat : k <= e => Node(x, e - k) = Node(y, e - k)}
  <1>1. e \in Nat /\ d \in Nat /\ e <= MaxHeight BY DEF Depths
  <1>2. 0 \in T
    <2>1. e - 0 = e BY <1>1
    <2> QED BY <2>1
  <1>3. ASSUME NEW k \in Nat, k \in T
        PROVE  k + 1 \in T
    <2> SUFFICES ASSUME k + 1 <= e
                 PROVE  Node(x, e - (k + 1)) = Node(y, e - (k + 1))
      OBVIOUS
    <2>1. /\ k <= e /\ e - k \in Depths /\ e - k > 0 /\ (e - k) - 1 = e - (k + 1)
      BY <1>1, BlockSizes DEF Depths
    <2>2. Node(x, e - k) = Node(y, e - k) BY <1>3, <2>1
    <2>3. /\ Node(x, (e - k) - 1) = Node(x, e - k) \div 2
          /\ Node(y, (e - k) - 1) = Node(y, e - k) \div 2
      BY <2>1, Nodes
    <2> QED BY <2>1, <2>2, <2>3
  <1>4. \A k \in Nat : k \in T
    <2> HIDE DEF T
    <2> QED BY <1>2, <1>3, NumbersByStep
  <1>5. e - d \in Nat /\ e - d <= e /\ e - (e - d) = d BY <1>1
  <1> QED BY <1>4, <1>5

\* The bit of a pair is that of the parent, behind the base.
LEMMA PairBits ==
  ASSUME NEW h \in Heights, NEW x \in Addresses, NEW d \in 0 .. h
  PROVE  /\ Base(h) \in Nat /\ (h # 0 => Base(h) = Buddy!Pow2[h])
         /\ d = 0 => PairBit(h, Buddy!Index(x, d)) = Base(h)
         /\ d > 0 => PairBit(h, Buddy!Index(x, d)) = Base(h) + (Buddy!Index(x, d - 1) + 1)
         /\ d < h => Buddy!Index(x, d) < Base(h)
  <1>1. h \in Nat /\ h <= MaxHeight /\ (h = 0 \/ h >= 3) /\ d \in Nat /\ d <= h /\ d \in Depths
    BY BlockSizes DEF Depths
  <1>2. Buddy!Pow2[h] \in Nat BY <1>1, Powers
  <1>3. Base(h) \in Nat BY <1>2 DEF Base
  <1>4. h # 0 => Base(h) = Buddy!Pow2[h]
    <2> SUFFICES ASSUME h # 0
                 PROVE  Base(h) = Buddy!Pow2[h]
      OBVIOUS
    <2>1. h - 3 \in Nat /\ (h - 3) + 1 \in Nat /\ ((h - 3) + 1) + 1 \in Nat
          /\ (((h - 3) + 1) + 1) + 1 = h
      BY <1>1
    <2> DEFINE b == Buddy!Pow2[h - 3]
    <2>2. b \in Nat /\ Buddy!Pow2[h] = 2 * (2 * (2 * b)) BY <2>1, Powers
    <2> HIDE DEF b
    <2>3. Buddy!Pow2[h] = 8 * b BY <2>2
    <2>4. (8 * b) \div 8 = b BY <2>2
    <2> QED BY <2>3, <2>4 DEF Base
  <1> DEFINE p == Buddy!Pow2[d]
             n == Node(x, d)
  <1>5. /\ p \in Nat /\ n \in Nat /\ n < p /\ Buddy!Index(x, d) = p + n - 1
        /\ (d > 0 => Node(x, d - 1) = n \div 2)
    BY <1>1, Nodes
  <1>6. ASSUME d = 0
        PROVE  PairBit(h, Buddy!Index(x, d)) = Base(h)
    <2>1. p = 1 BY <1>6, Powers
    <2> HIDE DEF p, n
    <2>2. n = 0 BY <1>5, <2>1
    <2>3. (Buddy!Index(x, d) + 1) \div 2 = 0 BY <1>5, <2>1, <2>2
    <2> QED BY <1>3, <2>3 DEF PairBit
  <1>7. ASSUME d > 0
        PROVE  PairBit(h, Buddy!Index(x, d)) = Base(h) + (Buddy!Index(x, d - 1) + 1)
    <2> DEFINE q == Buddy!Pow2[d - 1]
    <2>1. d - 1 \in Nat /\ (d - 1) + 1 = d /\ d - 1 \in Depths
      BY <1>1, <1>7, BlockSizes DEF Depths
    <2>2. q \in Nat /\ p = 2 * q /\ Buddy!Index(x, d - 1) = q + (n \div 2) - 1
      BY <1>5, <1>7, <2>1, Powers, Nodes
    <2> HIDE DEF p, q, n
    <2>3. ((p + n - 1) + 1) \div 2 = (q + (n \div 2) - 1) + 1 BY <1>5, <2>2
    <2> QED BY <1>5, <2>2, <2>3 DEF PairBit
  <1>8. ASSUME d < h
        PROVE  Buddy!Index(x, d) < Base(h)
    <2>1. 2 * p <= Buddy!Pow2[h] /\ Base(h) = Buddy!Pow2[h]
      BY <1>1, <1>4, <1>8, PowersRise
    <2> HIDE DEF p, n
    <2> QED BY <1>2, <1>5, <2>1
  <1> QED BY <1>3, <1>4, <1>6, <1>7, <1>8

\* Only buddies share a bit of the second half, and no node below the leaves has
\* its split bit there.
LEMMA PairsApart ==
  ASSUME NEW h \in Heights, NEW x \in Addresses, NEW y \in Addresses,
         NEW d \in 0 .. h, NEW e \in 0 .. h
  PROVE  /\ d > 0 \/ e > 0 =>
              (PairBit(h, Buddy!Index(x, d)) = PairBit(h, Buddy!Index(y, e))
                 => d = e /\ Node(x, d - 1) = Node(y, d - 1))
         /\ d > 0 /\ Node(x, d - 1) = Node(y, d - 1)
              => PairBit(h, Buddy!Index(x, d)) = PairBit(h, Buddy!Index(y, d))
         /\ d < h => Buddy!Index(x, d) # PairBit(h, Buddy!Index(y, e))
  <1>1. /\ h \in Nat /\ h \in Depths /\ d \in Nat /\ e \in Nat
        /\ (d > 0 => d - 1 \in Depths) /\ (e > 0 => e - 1 \in Depths)
    BY BlockSizes DEF Depths
  <1> DEFINE i == Buddy!Index(x, d - 1)
             j == Buddy!Index(y, e - 1)
             b == Base(h)
             u == PairBit(h, Buddy!Index(x, d))
             v == PairBit(h, Buddy!Index(y, e))
  <1>2. (d > 0 => i \in Nat) /\ (e > 0 => j \in Nat) BY <1>1, Nodes
  <1>3. /\ b \in Nat /\ (d = 0 => u = b) /\ (e = 0 => v = b)
        /\ (d > 0 => u = b + (i + 1)) /\ (e > 0 => v = b + (j + 1))
        /\ (d < h => Buddy!Index(x, d) < b)
    BY PairBits
  <1>4. ASSUME d > 0 \/ e > 0, u = v
        PROVE  d = e /\ Node(x, d - 1) = Node(y, d - 1)
    <2> HIDE DEF i, j, b, u, v
    <2>1. d > 0 /\ e > 0 /\ i = j BY <1>1, <1>2, <1>3, <1>4
    <2>2. d - 1 = e - 1 /\ Node(x, d - 1) = Node(y, d - 1)
      BY <1>1, <2>1, SameIndex DEF i, j
    <2> QED BY <1>1, <2>2
  <1>5. ASSUME d > 0, Node(x, d - 1) = Node(y, d - 1)
        PROVE  u = PairBit(h, Buddy!Index(y, d))
    <2>1. Buddy!Index(x, d - 1) = Buddy!Index(y, d - 1)
      BY <1>5 DEF Node, Buddy!Index
    <2> QED BY <1>5, <2>1, PairBits
  <1>6. ASSUME d < h
        PROVE  Buddy!Index(x, d) # v
    <2>1. d \in Depths /\ Buddy!Index(x, d) \in Nat
      <3>1. d \in Depths BY BlockSizes DEF Depths
      <3> QED BY <3>1, Nodes
    <2> HIDE DEF i, j, b, u, v
    <2> QED BY <1>1, <1>2, <1>3, <1>6, <2>1
  <1> QED BY <1>4, <1>5, <1>6

\* A block is the addresses from its first to the size of its depth.
LEMMA Spans ==
  ASSUME NEW h \in Heights, NEW p \in Blocks(h)
  PROVE  /\ p[1] \in Addresses /\ p[2] \in 0 .. h /\ p[2] \in Depths /\ In(p[1], p)
         /\ p[1] + Buddy!BlockSize(p[2]) <= Buddy!Total
         /\ p[1] = Buddy!BlockSize(p[2]) * Node(p[1], p[2])
         /\ \A x \in Addresses :
              In(x, p) <=> p[1] <= x /\ x < p[1] + Buddy!BlockSize(p[2])
  <1>1. /\ p[1] \in Addresses /\ p[2] \in 0 .. h /\ p[2] \in Depths
        /\ p[1] % Buddy!BlockSize(p[2]) = 0
    <2>1. h \in Depths /\ MaxHeight \in Nat BY BlockSizes
    <2> QED BY <2>1 DEF Blocks, Depths
  <1> DEFINE a == p[1]
             d == p[2]
             b == Buddy!BlockSize(d)
             n == Node(a, d)
             q == Buddy!Pow2[d]
  <1>2. /\ b \in Nat \ {0} /\ a \in Nat /\ Buddy!Total \in Nat
        /\ q \in Nat /\ b * q = Buddy!Total /\ n \in Nat /\ n < q
    BY <1>1, BlockSizes, Nodes DEF Addresses
  <1>3. a % b = 0 /\ n = a \div b BY <1>1 DEF Node, Buddy!IndexAtDepth
  <1>4. \A x \in Addresses : /\ Node(x, d) \in Nat /\ x \in Int
                             /\ b * Node(x, d) <= x /\ x < b * Node(x, d) + b
    BY <1>1, Nodes DEF Addresses
  <1>5. \A x \in Addresses : In(x, p) <=> Node(x, d) = n BY DEF In
  <1>6. \A x \in Addresses : Node(x, d) = x \div b
    BY DEF Node, Buddy!IndexAtDepth
  <1> HIDE DEF a, d, b, n, q
  <1>7. a = b * n
    <2>1. a = b * (a \div b) + (a % b) /\ b * (a \div b) \in Nat
      BY <1>2, WholeBlocks
    <2> QED BY <1>3, <2>1
  <1>8. a + b <= Buddy!Total
    <2>1. b * (n + 1) <= b * q
      <3>1. n + 1 <= q BY <1>2
      <3> QED BY <1>2, <3>1
    <2>2. b * (n + 1) = b * n + b BY <1>2
    <2> QED BY <1>2, <1>7, <2>1, <2>2
  <1>9. ASSUME NEW x \in Addresses
        PROVE  Node(x, d) = n <=> a <= x /\ x < a + b
    <2>1. Node(x, d) = n => a <= x /\ x < a + b BY <1>4, <1>7
    <2>2. ASSUME a <= x, x < a + b
          PROVE  Node(x, d) = n
      <3>1. x \in Nat /\ b * n <= x /\ x < b * n + b
        BY <1>2, <1>7, <2>2 DEF Addresses
      <3>2. x \div b = n BY <1>2, <3>1, InBlock
      <3> QED BY <1>6, <3>2
    <2> QED BY <2>1, <2>2
  <1>10. In(p[1], p) BY DEF In
  <1>11. b = Buddy!BlockSize(d) /\ a = p[1] /\ d = p[2] /\ n = Node(a, d)
    BY DEF a, b, d, n
  <1> QED BY <1>1, <1>5, <1>7, <1>8, <1>9, <1>10, <1>11

\* The blocks that a block has at a lesser size: the one with its address, and the
\* second half of that of twice the size.
LEMMA Halves ==
  ASSUME NEW h \in Heights, NEW p \in Blocks(h), NEW k \in 0 .. h, p[2] < k,
         NEW b, b = p[1] + Buddy!BlockSize(k)
  PROVE  /\ <<p[1], k>> \in Blocks(h) /\ <<b, k>> \in Blocks(h)
         /\ Node(b, k) = Node(p[1], k) + 1 /\ Node(p[1], k) \in Nat
         /\ Node(b, k - 1) = Node(p[1], k - 1)
         /\ Node(p[1], k) = 2 * Node(p[1], k - 1)
  <1> DEFINE a == p[1]
             f == p[2]
             s == Buddy!BlockSize(k)
             m == Node(a, f)
  <1>1. /\ a \in Addresses /\ f \in Depths /\ f \in 0 .. h /\ a = Buddy!BlockSize(f) * m
        /\ m \in Nat
    <2>1. /\ a \in Addresses /\ f \in Depths /\ f \in 0 .. h /\ a = Buddy!BlockSize(f) * m
      BY Spans
    <2> QED BY <2>1, Nodes
  <1>2. /\ h \in Nat /\ h <= MaxHeight /\ MaxHeight \in Nat /\ k \in Depths /\ k - 1 \in Depths
        /\ k > 0 /\ f \in Nat /\ k \in Nat /\ (k - 1) - f \in Nat
        /\ k - 1 \in Nat /\ ((k - 1) - f) + f = k - 1 /\ (k - 1) + 1 = k /\ f < k
    <2>1. h \in Depths /\ MaxHeight \in Nat BY BlockSizes
    <2>2. f \in 0 .. h BY <1>1
    <2> HIDE DEF f
    <2>3. f < k BY DEF f
    <2> QED BY <2>1, <2>2, <2>3 DEF Depths
  <1> DEFINE q == Buddy!Pow2[(k - 1) - f]
             v == q * m
             w == Buddy!BlockSize(k - 1)
  <1>3. /\ s \in Nat \ {0} /\ w = 2 * s /\ q \in Nat /\ w \in Nat
    <2>1. q \in Nat BY <1>2, Powers
    <2> QED BY <1>2, <2>1, BlockSizes
  <1>4. Buddy!BlockSize(f) = w * q
    <2> DEFINE u == Buddy!Pow2[MaxHeight - (k - 1)]
    <2>1. /\ MaxHeight - (k - 1) \in Nat
          /\ MaxHeight - f = (MaxHeight - (k - 1)) + ((k - 1) - f)
      BY <1>2
    <2>2. Buddy!Pow2[MaxHeight - f] = u * q /\ u \in Nat
      <3> DEFINE i == MaxHeight - (k - 1)
                 j == (k - 1) - f
      <3>1. i \in Nat /\ j \in Nat /\ MaxHeight - f = i + j BY <1>2, <2>1
      <3> HIDE DEF i, j
      <3>2. Buddy!Pow2[i + j] = Buddy!Pow2[i] * Buddy!Pow2[j] /\ Buddy!Pow2[i] \in Nat
        BY <3>1, PowerOfSum, Powers
      <3> QED BY <3>1, <3>2 DEF i, j
    <2>3. Buddy!BlockSize(f) = LeafSize * (u * q) /\ w = LeafSize * u /\ LeafSize \in Nat
      BY <1>1, <1>2, <2>2, BlockSizes
    <2> HIDE DEF u, q, w
    <2>4. LeafSize * (u * q) = (LeafSize * u) * q BY <1>3, <2>2, <2>3
    <2> QED BY <2>3, <2>4
  <1>5. v \in Nat /\ a = s * (2 * v) /\ 2 * v \in Nat /\ 2 * v + 1 \in Nat
    <2> HIDE DEF a, f, s, m, q, w
    <2>1. v \in Nat BY <1>1, <1>3
    <2>2. a = (w * q) * m BY <1>1, <1>4
    <2>3. (w * q) * m = w * (q * m) BY <1>1, <1>3
    <2> HIDE DEF v
    <2>4. (2 * s) * v = s * (2 * v) BY <1>3, <2>1
    <2> QED BY <1>3, <2>1, <2>2, <2>3, <2>4 DEF v
  <1> HIDE DEF v
  <1>6. Node(a, k) = 2 * v /\ a % s = 0
    <2> HIDE DEF a, s
    <2>1. a = s * (2 * v) + 0 /\ 0 \in 0 .. s - 1 BY <1>3, <1>5
    <2>2. a \div s = 2 * v BY <1>3, <1>5, <2>1, BlockOfBit
    <2>3. a \in Nat /\ a = s * (a \div s) + (a % s) /\ s * (a \div s) \in Nat /\ a % s \in 0 .. s - 1
      <3>1. a \in Nat BY <1>1 DEF Addresses
      <3> QED BY <1>3, <3>1, WholeBlocks
    <2>4. a % s = 0 BY <1>5, <2>2, <2>3
    <2> QED BY <2>2, <2>4 DEF Node, Buddy!IndexAtDepth, s
  <1>7. Node(a, k - 1) = v
    <2>1. Node(a, k - 1) = Node(a, k) \div 2 BY <1>1, <1>2, Nodes
    <2>2. (2 * v) \div 2 = v BY <1>5
    <2> QED BY <1>6, <2>1, <2>2
  <1>8. b = s * (2 * v + 1) /\ b = s * (2 * v) + s /\ b \in Nat
    <2>1. b = a + s OBVIOUS
    <2> HIDE DEF a, s
    <2>2. s * (2 * v + 1) = s * (2 * v) + s /\ s * (2 * v) \in Nat BY <1>3, <1>5
    <2> QED BY <1>3, <1>5, <2>1, <2>2
  <1>9. b \in Addresses
    <2> DEFINE r == Buddy!Pow2[k]
    <2>1. /\ Buddy!Total \in Nat /\ s * r = Buddy!Total /\ r \in Nat /\ 2 * v < r
          /\ r = 2 * Buddy!Pow2[k - 1] /\ Buddy!Pow2[k - 1] \in Nat
      <3>1. r \in Nat /\ r = 2 * Buddy!Pow2[k - 1] /\ Buddy!Pow2[k - 1] \in Nat
        BY <1>2, Powers
      <3>2. Node(a, k) < r BY <1>1, <1>2, Nodes
      <3> QED BY <1>2, <1>6, <3>1, <3>2, BlockSizes
    <2> HIDE DEF a, s, r
    <2>2. 2 * v + 1 < r BY <1>5, <2>1
    <2>3. s * (2 * v + 1) < s * r
      <3>1. (2 * v + 1) + 1 <= r BY <1>5, <2>1, <2>2
      <3>2. s * ((2 * v + 1) + 1) <= s * r BY <1>3, <1>5, <2>1, <3>1
      <3>3. s * ((2 * v + 1) + 1) = s * (2 * v + 1) + s /\ s * (2 * v + 1) \in Nat
        BY <1>3, <1>5
      <3> QED BY <1>3, <2>1, <3>2, <3>3
    <2> QED BY <1>8, <2>1, <2>3 DEF Addresses
  <1>10. Node(b, k) = 2 * v + 1 /\ b % s = 0
    <2> HIDE DEF a, s
    <2>1. b = s * (2 * v + 1) + 0 /\ 0 \in 0 .. s - 1 BY <1>3, <1>8
    <2>2. b \div s = 2 * v + 1 BY <1>3, <1>5, <2>1, BlockOfBit
    <2>3. b = s * (b \div s) + (b % s) /\ s * (b \div s) \in Nat /\ b % s \in 0 .. s - 1
      BY <1>3, <1>8, WholeBlocks
    <2>4. b % s = 0 BY <1>8, <2>2, <2>3
    <2> QED BY <2>2, <2>4 DEF Node, Buddy!IndexAtDepth, s
  <1>11. Node(b, k - 1) = v
    <2>1. Node(b, k - 1) = Node(b, k) \div 2 BY <1>2, <1>9, Nodes
    <2>2. (2 * v + 1) \div 2 = v BY <1>5
    <2> QED BY <1>10, <2>1, <2>2
  <1>12. <<a, k>> \in Blocks(h) /\ <<b, k>> \in Blocks(h)
    BY <1>1, <1>6, <1>9, <1>10 DEF Blocks
  <1> QED BY <1>5, <1>6, <1>7, <1>10, <1>11, <1>12

\* After a split the blocks from depth f to d - 1 that hold x's path to the block given
\* are split, and the pair bits along that path, and no others, have changed.
LEMMA SplitBitsSay ==
  ASSUME NEW h \in Heights, NEW bits, NEW a \in Addresses, NEW f \in 0 .. h, NEW d \in f .. h,
         NEW new, new = SplitBits(h, bits, a, f, d),
         NEW x \in Addresses
  PROVE  /\ \A k \in 0 .. h - 1 :
              Buddy!Index(x, k) \in new
                <=> Buddy!Index(x, k) \in bits \/ (k \in f .. d - 1 /\ Node(x, k) = Node(a, k))
         /\ \A k \in 1 .. h :
              PairBit(h, Buddy!Index(x, k)) \in new
                <=> (PairBit(h, Buddy!Index(x, k)) \in bits
                       <=> ~ (k \in f .. d /\ Node(x, k - 1) = Node(a, k - 1)))
  <1> DEFINE pairs == {PairBit(h, Buddy!Index(a, k)) : k \in f .. d}
             splits == {Buddy!Index(a, k) : k \in f .. d - 1}
  <1>1. new = ((bits \ pairs) \union (pairs \ bits)) \union splits
    BY DEF SplitBits, Buddy!Flip
  <1>2. h \in Nat /\ 0 .. h \subseteq Depths /\ f \in Nat /\ d \in Nat /\ f <= d /\ d <= h
    BY BlockSizes DEF Depths
  <1>3. ASSUME NEW k \in 0 .. h - 1
        PROVE  Buddy!Index(x, k) \in new
                 <=> Buddy!Index(x, k) \in bits \/ (k \in f .. d - 1 /\ Node(x, k) = Node(a, k))
    <2> DEFINE i == Buddy!Index(x, k)
    <2>1. k \in 0 .. h /\ k \in Depths /\ k < h BY <1>2
    <2>2. i \notin pairs
      <3>1. \A j \in f .. d : j \in 0 .. h BY <1>2
      <3>2. \A j \in f .. d : i # PairBit(h, Buddy!Index(a, j))
        BY <2>1, <3>1, PairsApart
      <3> QED BY <3>2
    <2>3. i \in splits <=> k \in f .. d - 1 /\ Node(x, k) = Node(a, k)
      <3>1. ASSUME NEW j \in f .. d - 1, i = Buddy!Index(a, j)
            PROVE  k \in f .. d - 1 /\ Node(x, k) = Node(a, k)
        <4>1. j \in Depths BY <1>2
        <4>2. k = j /\ Node(x, k) = Node(a, k) BY <2>1, <3>1, <4>1, SameIndex
        <4> QED BY <4>2
      <3>2. ASSUME k \in f .. d - 1, Node(x, k) = Node(a, k)
            PROVE  i \in splits
        <4>1. i = Buddy!Index(a, k) BY <3>2 DEF Node, Buddy!Index
        <4> QED BY <3>2, <4>1
      <3> QED BY <3>1, <3>2
    <2> HIDE DEF i, pairs, splits
    <2>4. i \in new <=> i \in bits \/ i \in splits BY <1>1, <2>2
    <2> QED BY <2>3, <2>4 DEF i
  <1>4. ASSUME NEW k \in 1 .. h
        PROVE  PairBit(h, Buddy!Index(x, k)) \in new
                 <=> (PairBit(h, Buddy!Index(x, k)) \in bits
                        <=> ~ (k \in f .. d /\ Node(x, k - 1) = Node(a, k - 1)))
    <2> DEFINE i == PairBit(h, Buddy!Index(x, k))
    <2>1. k \in 0 .. h /\ k \in Depths /\ k > 0 BY <1>2
    <2>2. i \notin splits
      <3>1. \A j \in f .. d - 1 : j \in 0 .. h /\ j < h BY <1>2
      <3>2. \A j \in f .. d - 1 : Buddy!Index(a, j) # i
        BY <2>1, <3>1, PairsApart
      <3> QED BY <3>2
    <2>3. i \in pairs <=> k \in f .. d /\ Node(x, k - 1) = Node(a, k - 1)
      <3>1. ASSUME NEW j \in f .. d, i = PairBit(h, Buddy!Index(a, j))
            PROVE  k \in f .. d /\ Node(x, k - 1) = Node(a, k - 1)
        <4>1. j \in 0 .. h BY <1>2
        <4>2. k = j /\ Node(x, k - 1) = Node(a, k - 1)
          BY <2>1, <3>1, <4>1, PairsApart
        <4> QED BY <4>2
      <3>2. ASSUME k \in f .. d, Node(x, k - 1) = Node(a, k - 1)
            PROVE  i \in pairs
        <4>1. i = PairBit(h, Buddy!Index(a, k)) BY <2>1, <3>2, PairsApart
        <4> QED BY <3>2, <4>1
      <3> QED BY <3>1, <3>2
    <2> HIDE DEF i, pairs, splits
    <2>4. i \in new <=> (i \in bits <=> ~ (i \in pairs)) BY <1>1, <2>2
    <2> QED BY <2>3, <2>4 DEF i
  <1> QED BY <1>3, <1>4

\* Splitting a free block and taking its front leaves blocks that share no address
\* and have those that it had.
LEMMA SplitBlocks ==
  ASSUME NEW h \in Heights, NEW a, NEW f, <<a, f>> \in Blocks(h), NEW d \in f .. h
  PROVE  /\ \A r \in Pieces(a, f, d) \union {<<a, d>>} :
              /\ r \in Blocks(h) /\ r[2] \in f .. d
              /\ \A x \in Addresses : In(x, r) => In(x, <<a, f>>)
              /\ r[2] > f => /\ Node(r[1], r[2] - 1) = Node(a, r[2] - 1)
         /\ \A k \in f + 1 .. d : \A x \in Addresses :
              In(x, <<a + Buddy!BlockSize(k), k>>) => Node(x, k) # Node(a, k)
         /\ <<a, d>> \notin Pieces(a, f, d)
         /\ \A r, s \in Pieces(a, f, d) \union {<<a, d>>} : \A x \in Addresses :
              In(x, r) /\ In(x, s) => r = s
         /\ \A x \in Addresses :
              In(x, <<a, f>>) => \E r \in Pieces(a, f, d) \union {<<a, d>>} : In(x, r)
  <1> DEFINE p == <<a, f>>
             b(k) == a + Buddy!BlockSize(k)
             piece(k) == <<b(k), k>>
             top == <<a, d>>
  <1>1. /\ a \in Addresses /\ f \in 0 .. h /\ f \in Depths /\ f \in Nat /\ h \in Nat
        /\ 0 .. h \subseteq Depths /\ d \in Nat /\ f <= d /\ d <= h /\ d \in 0 .. h
        /\ a \in Nat
    <2>1. a \in Addresses /\ f \in 0 .. h /\ f \in Depths BY Spans
    <2>2. h \in Nat /\ 0 .. h \subseteq Depths BY BlockSizes DEF Depths
    <2> QED BY <2>1, <2>2 DEF Addresses
  <1>2. ASSUME NEW k \in f + 1 .. d
        PROVE  /\ k \in 0 .. h /\ k \in Depths /\ k - 1 \in Depths
               /\ k > f /\ k - 1 >= f /\ k \in Nat
               /\ <<a, k>> \in Blocks(h) /\ piece(k) \in Blocks(h)
               /\ Node(b(k), k) = Node(a, k) + 1 /\ Node(a, k) \in Nat
               /\ Node(b(k), k - 1) = Node(a, k - 1)
               /\ Node(a, k) = 2 * Node(a, k - 1)
               /\ b(k) \in Addresses /\ b(k) # a
    <2>1. k \in 0 .. h /\ k > f /\ k - 1 \in 0 .. h /\ k - 1 >= f /\ k \in Nat
      BY <1>1
    <2>2. /\ <<a, k>> \in Blocks(h) /\ piece(k) \in Blocks(h)
          /\ Node(b(k), k) = Node(a, k) + 1 /\ Node(a, k) \in Nat
          /\ Node(b(k), k - 1) = Node(a, k - 1)
          /\ Node(a, k) = 2 * Node(a, k - 1)
      BY <2>1, Halves
    <2>3. b(k) \in Addresses BY <2>2 DEF Blocks
    <2>4. b(k) # a BY <2>2
    <2> HIDE DEF b
    <2> QED BY <1>1, <2>1, <2>2, <2>3, <2>4
  <1>3. \A k \in f + 1 .. d : \A x \in Addresses :
          In(x, piece(k)) <=> Node(x, k) = Node(a, k) + 1
    BY <1>2 DEF In
  <1>4. \A x \in Addresses : In(x, top) <=> Node(x, d) = Node(a, d) BY DEF In
  <1>5. \A x \in Addresses : In(x, p) <=> Node(x, f) = Node(a, f) BY DEF In
  <1> HIDE DEF b
  <1>6. top \in Blocks(h)
    <2>1. CASE d = f BY <2>1
    <2>2. CASE d # f
      <3>1. d \in f + 1 .. d BY <1>1, <2>2
      <3> QED BY <1>2, <3>1
    <2> QED BY <2>1, <2>2
  <1>7. ASSUME NEW k \in f + 1 .. d, NEW x \in Addresses, In(x, piece(k))
        PROVE  /\ Node(x, k - 1) = Node(a, k - 1) /\ Node(x, k) # Node(a, k)
               /\ In(x, p)
    <2>1. Node(x, k) = Node(b(k), k) BY <1>2, <1>3, <1>7
    <2>2. Node(x, k - 1) = Node(b(k), k - 1)
      <3>1. k \in Depths /\ k - 1 \in Depths /\ b(k) \in Addresses /\ k \in Nat
        BY <1>2
      <3>2. k - 1 <= k BY <3>1
      <3> QED BY <2>1, <3>1, <3>2, Coarser
    <2>3. Node(x, k - 1) = Node(a, k - 1) BY <1>2, <2>2
    <2>4. Node(x, f) = Node(a, f)
      <3>1. k - 1 \in Depths /\ f <= k - 1 BY <1>1, <1>2
      <3> QED BY <1>1, <2>3, <3>1, Coarser
    <2>5. Node(x, k) # Node(a, k)
      <3>1. Node(x, k) = Node(a, k) + 1 BY <1>3, <1>7
      <3>2. Node(a, k) \in Nat BY <1>2
      <3> QED BY <3>1, <3>2
    <2> QED BY <1>5, <2>3, <2>4, <2>5
  <1>8. ASSUME NEW x \in Addresses, In(x, top)
        PROVE  \A k \in 0 .. d : Node(x, k) = Node(a, k)
    <2> TAKE k \in 0 .. d
    <2>1. k \in Depths /\ d \in Depths /\ k <= d BY <1>1
    <2> QED BY <1>1, <1>4, <1>8, <2>1, Coarser
  <1> DEFINE all == Pieces(a, f, d) \union {top}
  <1>9. \A r \in all : r = top \/ \E k \in f + 1 .. d : r = piece(k)
    BY DEF Pieces, b
  <1>10. ASSUME NEW r \in all
         PROVE  /\ r \in Blocks(h) /\ r[2] \in f .. d
                /\ \A x \in Addresses : In(x, r) => In(x, p)
                /\ r[2] > f => Node(r[1], r[2] - 1) = Node(a, r[2] - 1)
    <2>1. CASE r = top
      <3>1. \A x \in Addresses : In(x, r) => In(x, p)
        <4>1. f \in 0 .. d BY <1>1
        <4> QED BY <1>5, <1>8, <2>1, <4>1
      <3> QED BY <1>1, <1>6, <2>1, <3>1
    <2>2. ASSUME NEW k \in f + 1 .. d, r = piece(k)
          PROVE  /\ r \in Blocks(h) /\ r[2] \in f .. d
                 /\ \A x \in Addresses : In(x, r) => In(x, p)
                 /\ r[2] > f => Node(r[1], r[2] - 1) = Node(a, r[2] - 1)
      <3>1. r[1] = b(k) /\ r[2] = k /\ k \in f .. d BY <1>1, <2>2
      <3> QED BY <1>2, <1>7, <2>2, <3>1
    <2> QED BY <1>9, <2>1, <2>2
  <1>11. top \notin Pieces(a, f, d)
    <2>1. ASSUME NEW k \in f + 1 .. d, piece(k) = top
          PROVE  FALSE
      BY <1>2, <2>1
    <2> QED BY <2>1 DEF Pieces, b
  <1>12. ASSUME NEW j \in f + 1 .. d, NEW k \in f + 1 .. d, NEW x \in Addresses,
                In(x, piece(j)), In(x, piece(k))
         PROVE  j = k
    <2>1. ASSUME NEW m \in f + 1 .. d, NEW n \in f + 1 .. d, m < n,
                 In(x, piece(m)), In(x, piece(n))
          PROVE  FALSE
      <3>1. Node(x, n - 1) = Node(a, n - 1) BY <1>7, <2>1
      <3>2. m \in Depths /\ n - 1 \in Depths /\ m <= n - 1 BY <1>1, <1>2, <2>1
      <3>3. Node(x, m) = Node(a, m) BY <1>1, <3>1, <3>2, Coarser
      <3> QED BY <1>7, <2>1, <3>3
    <2>2. j < k \/ k < j \/ j = k BY <1>2
    <2> QED BY <1>12, <2>1, <2>2
  <1>13. ASSUME NEW r \in all, NEW s \in all, NEW x \in Addresses, In(x, r), In(x, s)
         PROVE  r = s
    <2>1. \A k \in f + 1 .. d : ~ (In(x, top) /\ In(x, piece(k)))
      <3>1. \A k \in f + 1 .. d : k \in 0 .. d BY <1>1
      <3> QED BY <1>7, <1>8, <3>1
    <2>2. CASE r = top \/ s = top BY <1>9, <1>13, <2>1, <2>2
    <2>3. CASE r # top /\ s # top
      <3>1. PICK j \in f + 1 .. d : r = piece(j) BY <1>9, <2>3
      <3>2. PICK k \in f + 1 .. d : s = piece(k) BY <1>9, <2>3
      <3>3. j = k BY <1>12, <1>13, <3>1, <3>2
      <3> QED BY <3>1, <3>2, <3>3
    <2> QED BY <2>2, <2>3
  <1>14. ASSUME NEW x \in Addresses, In(x, p)
         PROVE  \E r \in all : In(x, r)
    <2> DEFINE T == {k \in f .. d : Node(x, k) # Node(a, k)}
    <2>1. CASE T = {}
      <3>1. Node(x, d) = Node(a, d)
        <4>1. d \in f .. d BY <1>1
        <4> QED BY <2>1, <4>1
      <3> QED BY <1>4, <3>1
    <2>2. CASE T # {}
      <3>1. PICK k \in T : \A j \in T : k <= j
        <4>1. T \subseteq Nat BY <1>1
        <4> HIDE DEF T
        <4> QED BY <2>2, <4>1, LeastNumber
      <3>2. k # f BY <1>5, <1>14, <3>1
      <3>3. k \in f + 1 .. d /\ k - 1 \in f .. d /\ k \in Nat
        BY <1>1, <3>1, <3>2
      <3>4. Node(x, k - 1) = Node(a, k - 1) BY <3>1, <3>3
      <3>5. /\ Node(x, k - 1) = Node(x, k) \div 2 /\ Node(x, k) \in Nat
        <4>1. k \in Depths /\ k > 0 BY <1>1, <1>2, <3>3
        <4> QED BY <4>1, Nodes
      <3>6. Node(a, k) = 2 * Node(a, k - 1) /\ Node(a, k) \in Nat /\ Node(a, k - 1) \in Nat
        BY <1>1, <1>2, <3>3, Nodes
      <3>7. Node(x, k) # Node(a, k) BY <3>1
      <3>8. Node(x, k) = Node(a, k) + 1
        <4> DEFINE m == Node(x, k)
                   n == Node(a, k - 1)
        <4>1. n = m \div 2 /\ m \in Nat /\ n \in Nat /\ m # 2 * n /\ Node(a, k) = 2 * n
          BY <3>4, <3>5, <3>6, <3>7
        <4> HIDE DEF m, n
        <4>2. m = 2 * n + 1 BY <4>1
        <4> QED BY <4>1, <4>2 DEF m
      <3>9. In(x, piece(k)) BY <1>3, <3>3, <3>8
      <3>10. piece(k) \in all BY <3>3 DEF Pieces, b
      <3> QED BY <3>9, <3>10
    <2> QED BY <2>1, <2>2
  <1>15. \A k \in f + 1 .. d : \A x \in Addresses :
           In(x, <<a + Buddy!BlockSize(k), k>>) => Node(x, k) # Node(a, k)
    BY <1>7 DEF b
  <1> QED BY <1>10, <1>11, <1>13, <1>14, <1>15

\* A free block of depth f can be split down to depth d, if no free one is of a
\* depth between: the bits say the same of the blocks that result, and the front
\* one is no longer free.
LEMMA SplitSound ==
  ASSUME NEW h \in Heights, NEW bits, NEW F, NEW U, SoundBlocks(h, bits, F, U),
         NEW a, NEW f, <<a, f>> \in F, NEW d \in f .. h,
         \A q \in F : q[2] \notin f + 1 .. d
  PROVE  /\ SoundBlocks(h, SplitBits(h, bits, a, f, d), LessSplit(F, a, f, d), With(U, <<a, d>>))
         /\ <<a, d>> \notin U
         /\ Covered(F, U) => Covered(LessSplit(F, a, f, d), With(U, <<a, d>>))
  <1> DEFINE p == <<a, f>>
             top == <<a, d>>
             pieces == Pieces(a, f, d)
             all == pieces \union {top}
             new == SplitBits(h, bits, a, f, d)
             G == LessSplit(F, a, f, d)
             V == With(U, top)
  <1>1. /\ F \subseteq Blocks(h) /\ U \subseteq Blocks(h) /\ F \intersect U = {}
        /\ \A q, r \in F \union U : \A x \in Addresses : In(x, q) /\ In(x, r) => q = r
        /\ \A q \in F \union U : Clean(h, bits, q)
        /\ \A q \in F : q[2] > 0 => PairBit(h, Buddy!Index(q[1], q[2])) \in bits
        /\ \A q, r \in F :
             q[2] = r[2] /\ q[2] > 0 /\ Node(q[1], q[2] - 1) = Node(r[1], q[2] - 1) => q = r
    BY DEF SoundBlocks
  <1>2. /\ p \in Blocks(h) /\ a \in Addresses /\ f \in 0 .. h /\ f \in Depths
        /\ f \in Nat /\ d \in Nat /\ h \in Nat /\ f <= d /\ d <= h /\ 0 .. h \subseteq Depths
        /\ p[1] = a /\ p[2] = f /\ p \notin U
    <2>1. p \in Blocks(h) BY <1>1
    <2>2. a \in Addresses /\ f \in 0 .. h /\ f \in Depths BY <2>1, Spans
    <2>3. h \in Nat /\ 0 .. h \subseteq Depths BY BlockSizes DEF Depths
    <2> QED BY <1>1, <2>1, <2>2, <2>3
  <1>3. /\ \A r \in all : /\ r \in Blocks(h) /\ r[2] \in f .. d
                          /\ \A x \in Addresses : In(x, r) => In(x, p)
                          /\ r[2] > f => Node(r[1], r[2] - 1) = Node(a, r[2] - 1)
        /\ top \notin pieces
        /\ \A r, s \in all : \A x \in Addresses : In(x, r) /\ In(x, s) => r = s
        /\ \A x \in Addresses : In(x, p) => \E r \in all : In(x, r)
    BY <1>2, SplitBlocks
  <1>4. \A k \in f + 1 .. d : \A x \in Addresses :
          In(x, <<a + Buddy!BlockSize(k), k>>) => Node(x, k) # Node(a, k)
    BY <1>2, SplitBlocks
  <1>5. \A r \in all : r = top \/ \E k \in f + 1 .. d : r = <<a + Buddy!BlockSize(k), k>>
    BY DEF Pieces
  <1>6. \A q \in Blocks(h) : q[1] \in Addresses /\ In(q[1], q) /\ q[2] \in 0 .. h
    BY Spans
  <1> HIDE DEF p, top, pieces, all, G, V
  <1>7. ASSUME NEW x \in Addresses
        PROVE  /\ \A k \in 0 .. h - 1 :
                    Buddy!Index(x, k) \in new
                      <=> Buddy!Index(x, k) \in bits \/ (k \in f .. d - 1 /\ Node(x, k) = Node(a, k))
               /\ \A k \in 1 .. h :
                    PairBit(h, Buddy!Index(x, k)) \in new
                      <=> (PairBit(h, Buddy!Index(x, k)) \in bits
                             <=> ~ (k \in f .. d /\ Node(x, k - 1) = Node(a, k - 1)))
    <2>1. new = SplitBits(h, bits, a, f, d) OBVIOUS
    <2> HIDE DEF new
    <2> QED BY <1>2, <2>1, SplitBitsSay
  <1> HIDE DEF new
  <1>8. all = pieces \union {top} /\ G = (F \ {p}) \union pieces /\ V = U \union {top}
    BY DEF all, pieces, top, p, G, V, LessSplit, With
  <1>9. ASSUME NEW q \in F \union U, q # p, NEW r \in all, NEW x \in Addresses, In(x, r)
        PROVE  ~ In(x, q)
    <2>1. In(x, p) BY <1>3, <1>9
    <2>2. p \in F \union U BY DEF p
    <2> QED BY <1>1, <1>9, <2>1, <2>2
  <1>10. top \notin U /\ G \intersect V = {} /\ G \subseteq Blocks(h) /\ V \subseteq Blocks(h)
    <2>1. \A r \in all : r \notin U /\ r \notin F \ {p}
      <3> SUFFICES ASSUME NEW r \in all, r \in U \/ r \in F \ {p}
                   PROVE  FALSE
        OBVIOUS
      <3>1. r[1] \in Addresses /\ In(r[1], r) BY <1>3, <1>6
      <3>2. r \in F \union U /\ r # p BY <1>2
      <3> QED BY <1>9, <3>1, <3>2
    <2> QED BY <1>1, <1>3, <1>8, <2>1
  <1>11. \A q \in G \union V : q \in all \/ (q \in F \union U /\ q # p)
    BY <1>2, <1>8
  <1>12. ASSUME NEW q \in G \union V, NEW r \in G \union V, NEW x \in Addresses,
                In(x, q), In(x, r)
         PROVE  q = r
    <2>1. CASE q \in all /\ r \in all BY <1>3, <1>12, <2>1
    <2>2. CASE q \notin all \/ r \notin all BY <1>1, <1>9, <1>11, <1>12, <2>2
    <2> QED BY <2>1, <2>2
  <1>13. ASSUME NEW q \in F \union U, q # p
         PROVE  Clean(h, new, q)
    <2> DEFINE e == q[2]
    <2>1. /\ e \in 0 .. h /\ e \in Depths /\ e \in Nat /\ q[1] \in Addresses /\ In(q[1], q)
          /\ ~ In(a, q) /\ Clean(h, bits, q)
      <3>1. q \in Blocks(h) BY <1>1
      <3>2. top \in all /\ In(a, top) BY <1>8 DEF In, top
      <3>3. ~ In(a, q) BY <1>2, <1>9, <1>13, <3>2
      <3> QED BY <1>1, <1>2, <1>6, <3>1, <3>3
    <2>2. ASSUME NEW x \in Addresses, In(x, q), NEW k \in Depths, e <= k
          PROVE  Node(x, k) # Node(a, k)
      <3>1. SUFFICES ASSUME Node(x, k) = Node(a, k)
                     PROVE  FALSE
        OBVIOUS
      <3>2. Node(x, e) = Node(a, e) BY <1>2, <2>1, <2>2, <3>1, Coarser
      <3>3. Node(x, e) = Node(q[1], e) BY <2>2 DEF In
      <3> QED BY <2>1, <3>2, <3>3 DEF In
    <2>3. ASSUME NEW x \in Addresses, In(x, q), NEW k \in e .. h - 1
          PROVE  Buddy!Index(x, k) \notin new
      <3>1. k \in 0 .. h - 1 /\ k \in Depths /\ e <= k BY <1>2, <2>1
      <3>2. Buddy!Index(x, k) \notin bits BY <2>1, <2>3 DEF Clean
      <3> QED BY <1>7, <2>2, <2>3, <3>1, <3>2
    <2>4. ASSUME NEW x \in Addresses, In(x, q), NEW k \in e + 1 .. h
          PROVE  PairBit(h, Buddy!Index(x, k)) \notin new
      <3>1. k \in 1 .. h /\ k - 1 \in Depths /\ e <= k - 1 BY <1>2, <2>1
      <3>2. PairBit(h, Buddy!Index(x, k)) \notin bits BY <2>1, <2>4 DEF Clean
      <3> QED BY <1>7, <2>2, <2>4, <3>1, <3>2
    <2>5. e > 0 => Buddy!Index(q[1], e - 1) \in new
      <3> SUFFICES ASSUME e > 0
                   PROVE  Buddy!Index(q[1], e - 1) \in new
        OBVIOUS
      <3>1. e - 1 \in 0 .. h - 1 BY <1>2, <2>1
      <3>2. Buddy!Index(q[1], e - 1) \in bits BY <2>1 DEF Clean
      <3> QED BY <1>7, <2>1, <3>1, <3>2
    <2> QED BY <2>3, <2>4, <2>5 DEF Clean
  <1>14. ASSUME NEW r \in all
         PROVE  Clean(h, new, r)
    <2> DEFINE e == r[2]
    <2>1. /\ e \in f .. d /\ e \in 0 .. h /\ e \in Depths /\ e \in Nat
          /\ r[1] \in Addresses /\ In(r[1], r)
          /\ \A x \in Addresses : In(x, r) => In(x, p)
          /\ e > f => Node(r[1], e - 1) = Node(a, e - 1)
          /\ f <= e /\ e <= d
      BY <1>2, <1>3, <1>6
    <2>2. Clean(h, bits, p) BY <1>1, <1>2 DEF p
    <2>3. ASSUME NEW x \in Addresses, In(x, r), NEW k \in e .. d, r = top => k # d
          PROVE  Node(x, k) # Node(a, k)
      <3>1. k \in Nat /\ k \in Depths /\ e <= k BY <1>2, <2>1
      <3>2. CASE r = top BY <2>3, <3>2 DEF top
      <3>3. CASE r # top
        <4>1. e \in f + 1 .. d /\ Node(x, e) # Node(a, e)
          BY <1>4, <1>5, <2>3, <3>3
        <4> QED BY <1>2, <2>1, <3>1, <4>1, Coarser
      <3> QED BY <3>2, <3>3
    <2>4. r = top => e = d BY DEF top
    <2>5. ASSUME NEW x \in Addresses, In(x, r), NEW k \in e .. h - 1
          PROVE  Buddy!Index(x, k) \notin new
      <3>1. k \in 0 .. h - 1 /\ k \in f .. h - 1 /\ k \in Nat BY <1>2, <2>1
      <3>2. Buddy!Index(x, k) \notin bits
        BY <1>2, <2>1, <2>2, <2>5, <3>1 DEF Clean
      <3>3. k \in f .. d - 1 => Node(x, k) # Node(a, k)
        <4> SUFFICES ASSUME k \in f .. d - 1
                     PROVE  Node(x, k) # Node(a, k)
          OBVIOUS
        <4>1. k \in e .. d /\ k # d BY <1>2, <2>1
        <4> QED BY <2>3, <2>5, <4>1
      <3> QED BY <1>7, <3>1, <3>2, <3>3
    <2>6. ASSUME NEW x \in Addresses, In(x, r), NEW k \in e + 1 .. h
          PROVE  PairBit(h, Buddy!Index(x, k)) \notin new
      <3>1. k \in 1 .. h /\ k \in f + 1 .. h /\ k \in Nat BY <1>2, <2>1
      <3>2. PairBit(h, Buddy!Index(x, k)) \notin bits
        BY <1>2, <2>1, <2>2, <2>6, <3>1 DEF Clean
      <3>3. k \in f .. d => Node(x, k - 1) # Node(a, k - 1)
        <4> SUFFICES ASSUME k \in f .. d
                     PROVE  Node(x, k - 1) # Node(a, k - 1)
          OBVIOUS
        <4>1. k - 1 \in e .. d /\ k - 1 # d BY <1>2, <2>1
        <4> QED BY <2>3, <2>6, <4>1
      <3> QED BY <1>7, <3>1, <3>2, <3>3
    <2>7. e > 0 => Buddy!Index(r[1], e - 1) \in new
      <3> SUFFICES ASSUME e > 0
                   PROVE  Buddy!Index(r[1], e - 1) \in new
        OBVIOUS
      <3>1. e - 1 \in 0 .. h - 1 /\ e - 1 \in Depths BY <1>2, <2>1
      <3>2. CASE e > f
        <4>1. e - 1 \in f .. d - 1 /\ Node(r[1], e - 1) = Node(a, e - 1)
          BY <1>2, <2>1, <3>2
        <4> QED BY <1>7, <2>1, <3>1, <4>1
      <3>3. CASE ~ (e > f)
        <4>1. e = f BY <1>2, <2>1, <3>3
        <4>2. Buddy!Index(a, e - 1) \in bits BY <1>2, <2>2, <4>1 DEF Clean
        <4>3. Node(r[1], e) = Node(a, e) BY <1>2, <2>1, <4>1 DEF In
        <4>4. Node(r[1], e - 1) = Node(a, e - 1)
          <5>1. e - 1 <= e BY <2>1
          <5> QED BY <1>2, <2>1, <3>1, <4>3, <5>1, Coarser
        <4>5. Buddy!Index(r[1], e - 1) = Buddy!Index(a, e - 1)
          BY <4>4 DEF Node, Buddy!Index
        <4> QED BY <1>7, <2>1, <3>1, <4>2, <4>5
      <3> QED BY <3>2, <3>3
    <2> QED BY <2>5, <2>6, <2>7 DEF Clean
  <1>15. ASSUME NEW q \in G, q[2] > 0
         PROVE  PairBit(h, Buddy!Index(q[1], q[2])) \in new
    <2> DEFINE e == q[2]
    <2>1. q \in Blocks(h) /\ e \in 0 .. h /\ q[1] \in Addresses BY <1>6, <1>10
    <2>2. e \in 1 .. h /\ e \in Nat BY <1>2, <1>15, <2>1
    <2>3. CASE q \in pieces
      <3>1. q \in all /\ q # top BY <1>3, <1>8, <2>3
      <3>2. e \in f + 1 .. d BY <1>5, <3>1
      <3>3. e > f /\ e \in f .. d /\ e \in f + 1 .. h BY <1>2, <2>2, <3>2
      <3>4. Node(q[1], e - 1) = Node(a, e - 1) BY <1>3, <3>1, <3>3
      <3>5. PairBit(h, Buddy!Index(q[1], e)) \notin bits
        <4>1. In(q[1], p) BY <1>3, <1>6, <2>1, <3>1
        <4>2. Clean(h, bits, p) BY <1>1, <1>2 DEF p
        <4> QED BY <1>2, <2>1, <3>3, <4>1, <4>2 DEF Clean
      <3> QED BY <1>7, <2>1, <2>2, <3>3, <3>4, <3>5
    <2>4. CASE q \notin pieces
      <3>1. q \in F /\ q # p /\ PairBit(h, Buddy!Index(q[1], e)) \in bits
        BY <1>1, <1>8, <1>15, <2>4
      <3>2. ~ (e \in f .. d /\ Node(q[1], e - 1) = Node(a, e - 1))
        <4> SUFFICES ASSUME e \in f .. d, Node(q[1], e - 1) = Node(a, e - 1)
                     PROVE  FALSE
          OBVIOUS
        <4>1. e = f
          <5>1. e \notin f + 1 .. d BY <3>1
          <5> QED BY <1>2, <2>2, <5>1
        <4>2. p \in F /\ q[2] = p[2] BY <1>2, <4>1 DEF p
        <4> QED BY <1>1, <1>2, <1>15, <3>1, <4>1, <4>2
      <3> QED BY <1>7, <2>1, <2>2, <3>1, <3>2
    <2> QED BY <2>3, <2>4
  <1>16. ASSUME NEW q \in G, NEW r \in G, q[2] = r[2], q[2] > 0,
                Node(q[1], q[2] - 1) = Node(r[1], q[2] - 1)
         PROVE  q = r
    <2>1. \A s \in pieces :
            s[2] \in f + 1 .. d /\ s[1] = a + Buddy!BlockSize(s[2]) /\ s = <<s[1], s[2]>>
      BY DEF pieces, Pieces
    <2>2. \A s \in F : s[2] \notin f + 1 .. d OBVIOUS
    <2>3. CASE q \in pieces /\ r \in pieces
      <3>1. q = <<q[1], q[2]>> /\ r = <<r[1], r[2]>> /\ q[1] = r[1]
        BY <1>16, <2>1, <2>3
      <3> QED BY <1>16, <3>1
    <2>4. CASE q \notin pieces /\ r \notin pieces BY <1>1, <1>8, <1>16, <2>4
    <2>5. CASE (q \in pieces) # (r \in pieces) BY <1>8, <1>16, <2>1, <2>2, <2>5
    <2> QED BY <2>3, <2>4, <2>5
  <1>17. ASSUME Covered(F, U), NEW x \in Addresses
         PROVE  \E q \in G \union V : In(x, q)
    <2>1. PICK q \in F \union U : In(x, q) BY <1>17 DEF Covered
    <2>2. CASE q = p
      <3>1. PICK r \in all : In(x, r) BY <1>3, <2>1, <2>2
      <3> QED BY <1>8, <3>1
    <2>3. CASE q # p BY <1>8, <2>1, <2>3
    <2> QED BY <2>2, <2>3
  <1>18. \A q \in G \union V : Clean(h, new, q) BY <1>11, <1>13, <1>14
  <1>19. SoundBlocks(h, new, G, V)
    BY <1>10, <1>12, <1>15, <1>16, <1>18 DEF SoundBlocks
  <1> QED BY <1>10, <1>17, <1>19 DEF Covered, new, top, G, V

\* A block whose buddy is not free can be freed: its pair is marked, and the bits say
\* the same of the blocks that result, of which any that are free may be forgotten.
LEMMA FreeSound ==
  ASSUME NEW h \in Heights, NEW bits, NEW F, NEW U, SoundBlocks(h, bits, F, U),
         NEW a, NEW d, <<a, d>> \in U, d > 0 => PairBit(h, Buddy!Index(a, d)) \notin bits,
         NEW G, G \subseteq F \union {<<a, d>>},
         NEW S, S \subseteq {Buddy!Index(a, d)}, d = h => S = {}
  PROVE  /\ SoundBlocks(h, FreedBits(h, bits, S, a, d), G, Less(U, <<a, d>>))
         /\ Covered(F, U) /\ G = F \union {<<a, d>>} => Covered(G, Less(U, <<a, d>>))
  <1> DEFINE p == <<a, d>>
             mark == PairBit(h, Buddy!Index(a, d))
             V == Less(U, p)
             new == FreedBits(h, bits, S, a, d)
  <1>0. V = U \ {p} /\ new = Buddy!Flip(bits \ S, {mark}) BY DEF Less, FreedBits
  <1> HIDE DEF V, new
  <1>1. /\ F \subseteq Blocks(h) /\ U \subseteq Blocks(h) /\ F \intersect U = {}
        /\ \A q, r \in F \union U : \A x \in Addresses : In(x, q) /\ In(x, r) => q = r
        /\ \A q \in F \union U : Clean(h, bits, q)
        /\ \A q \in F : q[2] > 0 => PairBit(h, Buddy!Index(q[1], q[2])) \in bits
        /\ \A q, r \in F :
             q[2] = r[2] /\ q[2] > 0 /\ Node(q[1], q[2] - 1) = Node(r[1], q[2] - 1) => q = r
    BY DEF SoundBlocks
  <1>2. /\ p \in Blocks(h) /\ a \in Addresses /\ d \in 0 .. h /\ d \in Depths
        /\ d \in Nat /\ h \in Nat /\ d <= h /\ 0 .. h \subseteq Depths
        /\ p[1] = a /\ p[2] = d /\ p \notin F /\ In(a, p)
    <2>1. p \in Blocks(h) BY <1>1
    <2>2. a \in Addresses /\ d \in 0 .. h /\ d \in Depths /\ In(a, p)
      BY <2>1, Spans
    <2>3. h \in Nat /\ 0 .. h \subseteq Depths BY BlockSizes DEF Depths
    <2> QED BY <1>1, <2>1, <2>2, <2>3
  <1>3. \A q \in Blocks(h) : q[1] \in Addresses /\ In(q[1], q) /\ q[2] \in 0 .. h
    BY Spans
  <1>4. new = ((bits \ {mark}) \union ({mark} \ bits))
    <2>1. S \intersect bits = {}
      <3> SUFFICES ASSUME d # h, Buddy!Index(a, d) \in bits
                   PROVE  FALSE
        OBVIOUS
      <3>1. Clean(h, bits, p) /\ d \in d .. h - 1 BY <1>1, <1>2
      <3> QED BY <1>2, <3>1 DEF Clean
    <2>2. bits \ S = bits BY <2>1
    <2> HIDE DEF mark
    <2> QED BY <1>0, <2>2 DEF Buddy!Flip
  <1>5. ASSUME NEW x \in Addresses, NEW k \in 0 .. h - 1
        PROVE  Buddy!Index(x, k) \in new <=> Buddy!Index(x, k) \in bits
    <2>1. k \in 0 .. h /\ k < h BY <1>2
    <2>2. Buddy!Index(x, k) # mark BY <1>2, <2>1, PairsApart
    <2> HIDE DEF mark
    <2> QED BY <1>4, <2>2
  <1>6. ASSUME NEW x \in Addresses, NEW k \in 1 .. h
        PROVE  PairBit(h, Buddy!Index(x, k)) \in new
                 <=> \/ PairBit(h, Buddy!Index(x, k)) \in bits
                     \/ k = d /\ Node(x, k - 1) = Node(a, k - 1)
    <2>1. k \in 0 .. h /\ k > 0 BY <1>2
    <2>2. PairBit(h, Buddy!Index(x, k)) = mark <=> k = d /\ Node(x, k - 1) = Node(a, k - 1)
      BY <1>2, <2>1, PairsApart
    <2>3. k = d => mark \notin bits BY <2>1
    <2> HIDE DEF mark
    <2> QED BY <1>4, <2>2, <2>3
  <1> HIDE DEF p, mark
  <1>7. G \subseteq F \union {p} /\ V = U \ {p} /\ p \in U BY <1>0 DEF p
  <1>8. /\ G \subseteq Blocks(h) /\ V \subseteq Blocks(h) /\ G \intersect V = {}
        /\ G \union V \subseteq F \union U
    BY <1>1, <1>2, <1>7
  <1>9. ASSUME NEW q \in G \union V
        PROVE  Clean(h, new, q)
    <2> DEFINE e == q[2]
    <2>1. /\ q \in F \union U /\ e \in 0 .. h /\ e \in Depths /\ e \in Nat
          /\ q[1] \in Addresses /\ In(q[1], q) /\ Clean(h, bits, q)
      <3>1. q \in F \union U /\ q \in Blocks(h) BY <1>1, <1>8
      <3> QED BY <1>1, <1>2, <1>3, <3>1
    <2>2. ASSUME NEW x \in Addresses, In(x, q), NEW k \in e + 1 .. h
          PROVE  ~ (k = d /\ Node(x, k - 1) = Node(a, k - 1))
      <3> SUFFICES ASSUME k = d, Node(x, k - 1) = Node(a, k - 1)
                   PROVE  FALSE
        OBVIOUS
      <3>1. e <= k - 1 /\ k - 1 \in Depths BY <1>2, <2>1
      <3>2. Node(x, e) = Node(a, e) BY <1>2, <2>1, <3>1, Coarser
      <3>3. In(a, q) BY <2>2, <3>2 DEF In
      <3>4. q = p BY <1>1, <1>2, <1>7, <2>1, <3>3
      <3>5. e = d /\ e < k BY <1>2, <2>1, <3>4
      <3> QED BY <2>1, <3>5
    <2>3. ASSUME NEW x \in Addresses, In(x, q), NEW k \in e .. h - 1
          PROVE  Buddy!Index(x, k) \notin new
      <3>1. k \in 0 .. h - 1 BY <1>2, <2>1
      <3>2. Buddy!Index(x, k) \notin bits BY <2>1, <2>3 DEF Clean
      <3> QED BY <1>5, <3>1, <3>2
    <2>4. ASSUME NEW x \in Addresses, In(x, q), NEW k \in e + 1 .. h
          PROVE  PairBit(h, Buddy!Index(x, k)) \notin new
      <3>1. k \in 1 .. h BY <1>2, <2>1
      <3>2. PairBit(h, Buddy!Index(x, k)) \notin bits BY <2>1, <2>4 DEF Clean
      <3> QED BY <1>6, <2>2, <2>4, <3>1, <3>2
    <2>5. e > 0 => Buddy!Index(q[1], e - 1) \in new
      <3> SUFFICES ASSUME e > 0
                   PROVE  Buddy!Index(q[1], e - 1) \in new
        OBVIOUS
      <3>1. e - 1 \in 0 .. h - 1 BY <1>2, <2>1
      <3>2. Buddy!Index(q[1], e - 1) \in bits BY <2>1 DEF Clean
      <3> QED BY <1>5, <2>1, <3>1, <3>2
    <2> QED BY <2>3, <2>4, <2>5 DEF Clean
  <1>10. ASSUME NEW q \in G, q[2] > 0
         PROVE  PairBit(h, Buddy!Index(q[1], q[2])) \in new
    <2>1. q[1] \in Addresses /\ q[2] \in 1 .. h
      <3>1. q \in Blocks(h) BY <1>8
      <3>2. q[1] \in Addresses /\ q[2] \in 0 .. h BY <1>3, <3>1
      <3> QED BY <1>2, <1>10, <3>2
    <2>2. CASE q = p BY <1>2, <1>6, <2>1, <2>2
    <2>3. CASE q # p BY <1>1, <1>6, <1>7, <1>10, <2>1, <2>3
    <2> QED BY <2>2, <2>3
  <1>11. ASSUME NEW q \in F, q[2] = d, d > 0, Node(q[1], d - 1) = Node(a, d - 1)
         PROVE  FALSE
    <2>1. q[1] \in Addresses BY <1>1, <1>3
    <2>2. PairBit(h, Buddy!Index(q[1], d)) = PairBit(h, Buddy!Index(a, d))
      BY <1>2, <1>11, <2>1, PairsApart
    <2> QED BY <1>1, <1>11, <2>2
  <1>12. ASSUME NEW q \in G, NEW r \in G, q[2] = r[2], q[2] > 0,
                Node(q[1], q[2] - 1) = Node(r[1], q[2] - 1)
         PROVE  q = r
    <2>1. CASE q \in F /\ r \in F BY <1>1, <1>12, <2>1
    <2>2. CASE q \in F /\ r = p BY <1>2, <1>11, <1>12, <2>2
    <2>3. CASE q = p /\ r \in F BY <1>2, <1>11, <1>12, <2>3
    <2> QED BY <1>7, <2>1, <2>2, <2>3
  <1>13. \A q, r \in G \union V : \A x \in Addresses : In(x, q) /\ In(x, r) => q = r
    BY <1>1, <1>8
  <1>14. SoundBlocks(h, new, G, V)
    BY <1>8, <1>9, <1>10, <1>12, <1>13 DEF SoundBlocks
  <1>15. Covered(F, U) /\ G = F \union {p} => Covered(G, V)
    <2>1. G = F \union {p} => F \union U \subseteq G \union V BY <1>7
    <2> QED BY <2>1 DEF Covered
  <1> QED BY <1>14, <1>15 DEF p, V, new

\* The rest of a list without repetitions.
LEMMA RestOfList ==
  ASSUME NEW S, NEW l \in Seq(S), l # <<>>, \A i, j \in DOMAIN l : l[i] = l[j] => i = j
  PROVE  /\ Head(l) = l[1] /\ 1 \in DOMAIN l /\ l[1] \in S
         /\ Tail(l) \in Seq(S)
         /\ \A i, j \in DOMAIN Tail(l) : Tail(l)[i] = Tail(l)[j] => i = j
         /\ \A x : (\E i \in DOMAIN Tail(l) : Tail(l)[i] = x)
                     <=> x # l[1] /\ \E i \in DOMAIN l : l[i] = x
  <1> DEFINE t == Tail(l)
             n == Len(l)
  <1>1. n \in Nat /\ n > 0 /\ DOMAIN l = 1 .. n /\ Head(l) = l[1] /\ l[1] \in S
    BY DEF n
  <1>2. /\ t \in Seq(S) /\ DOMAIN t = 1 .. n - 1
        /\ \A i \in 1 .. n - 1 : t[i] = l[i + 1]
    BY <1>1
  <1> HIDE DEF t, n
  <1>3. \A i, j \in 1 .. n - 1 : t[i] = t[j] => i = j
    <2> SUFFICES ASSUME NEW i \in 1 .. n - 1, NEW j \in 1 .. n - 1, t[i] = t[j]
                 PROVE  i = j
      OBVIOUS
    <2>1. i + 1 \in 1 .. n /\ j + 1 \in 1 .. n /\ l[i + 1] = l[j + 1]
      BY <1>1, <1>2
    <2>2. i + 1 = j + 1 BY <1>1, <2>1
    <2> QED BY <2>2
  <1>4. ASSUME NEW x
        PROVE  (\E i \in 1 .. n - 1 : t[i] = x) <=> x # l[1] /\ \E i \in 1 .. n : l[i] = x
    <2>1. ASSUME NEW i \in 1 .. n - 1, t[i] = x
          PROVE  x # l[1] /\ \E j \in 1 .. n : l[j] = x
      <3>1. i + 1 \in 1 .. n /\ 1 \in 1 .. n /\ i + 1 # 1 /\ l[i + 1] = x
        BY <1>1, <1>2, <2>1
      <3> QED BY <1>1, <3>1
    <2>2. ASSUME NEW i \in 1 .. n, l[i] = x, x # l[1]
          PROVE  \E j \in 1 .. n - 1 : t[j] = x
      <3>1. i # 1 BY <2>2
      <3>2. i - 1 \in 1 .. n - 1 /\ (i - 1) + 1 = i BY <1>1, <3>1
      <3>3. t[i - 1] = x BY <1>2, <2>2, <3>2
      <3> QED BY <3>2, <3>3
    <2> QED BY <2>1, <2>2
  <1>5. 1 \in DOMAIN l BY <1>1
  <1> QED BY <1>1, <1>2, <1>3, <1>4, <1>5 DEF t

\* The front block of the deepest list down to depth d is taken and split.
LEMMA AllocateSplits ==
  ASSUME NEW h, h = bHeight, h \in Heights, NEW s, Listed(h, s.free),
         FreeOf(h, s.free) \subseteq Blocks(h),
         NEW d \in 0 .. h, Buddy!FirstFreeDepths(s, d) # {},
         NEW t, t = Buddy!AllocateAtDepth(s, d)
  PROVE  \E f \in 0 .. d :
           /\ <<t.block, f>> \in FreeOf(h, s.free)
           /\ \A q \in FreeOf(h, s.free) : q[2] \notin f + 1 .. d
           /\ FreeOf(h, t.free) = LessSplit(FreeOf(h, s.free), t.block, f, d)
           /\ t.bits = SplitBits(h, s.bits, t.block, f, d)
           /\ Listed(h, t.free)
  <1> DEFINE depths == Buddy!FirstFreeDepths(s, d)
             f == CHOOSE k \in depths : \A e \in depths : e <= k
             a == Head(s.free[f])
             b(k) == a + Buddy!BlockSize(k)
             F == FreeOf(h, s.free)
  <1>1. h \in Nat /\ d \in Nat /\ d <= h /\ depths = {k \in 0 .. d : s.free[k] # <<>>}
    BY BlockSizes DEF Buddy!FirstFreeDepths, Depths
  <1>2. \E k \in depths : \A e \in depths : e <= k
    <2>1. depths \subseteq 0 .. d BY <1>1
    <2> HIDE DEF depths
    <2> QED BY <1>1, <2>1, GreatestNumber DEF depths
  <1>3. f \in depths /\ \A e \in depths : e <= f
    <2> HIDE DEF depths
    <2> QED BY <1>2
  <1>4. /\ t = [block |-> a,
                free  |-> [k \in 0 .. h |->
                            IF k = f THEN Tail(s.free[f])
                            ELSE IF k \in f + 1 .. d THEN <<b(k)>> ELSE s.free[k]],
                bits  |-> Buddy!Flip(s.bits, Buddy!Marked(a, f, d))
                            \union {Buddy!SplitBit(Buddy!Index(a, k)) : k \in f .. d - 1}]
    BY DEF Buddy!AllocateAtDepth, Buddy!SecondHalf
  <1> HIDE DEF depths, f, a
  <1>5. /\ f \in 0 .. d /\ f \in 0 .. h /\ f \in Nat /\ s.free[f] # <<>>
        /\ \A k \in f + 1 .. d : s.free[k] = <<>>
    <2>1. f \in 0 .. d /\ f \in 0 .. h /\ f \in Nat /\ s.free[f] # <<>>
      BY <1>1, <1>3
    <2>2. ASSUME NEW k \in f + 1 .. d
          PROVE  s.free[k] = <<>>
      <3>1. k \in 0 .. d /\ ~ (k <= f) BY <1>1, <2>1
      <3> QED BY <1>1, <1>3, <3>1
    <2> QED BY <2>1, <2>2
  <1>6. /\ s.free \in [0 .. h -> Seq(Addresses)]
        /\ \A k \in 0 .. h : \A i, j \in DOMAIN s.free[k] : s.free[k][i] = s.free[k][j] => i = j
    BY DEF Listed
  <1> DEFINE l == s.free[f]
  <1>7. /\ a = l[1] /\ 1 \in DOMAIN l /\ a \in Addresses /\ Tail(l) \in Seq(Addresses)
        /\ \A i, j \in DOMAIN Tail(l) : Tail(l)[i] = Tail(l)[j] => i = j
        /\ \A x : (\E i \in DOMAIN Tail(l) : Tail(l)[i] = x)
                    <=> x # a /\ \E i \in DOMAIN l : l[i] = x
    <2>1. /\ l \in Seq(Addresses) /\ l # <<>> /\ a = Head(l)
          /\ \A i, j \in DOMAIN l : l[i] = l[j] => i = j
      BY <1>5, <1>6 DEF a
    <2> HIDE DEF l
    <2>2. /\ Head(l) = l[1] /\ 1 \in DOMAIN l /\ l[1] \in Addresses
          /\ Tail(l) \in Seq(Addresses)
          /\ \A i, j \in DOMAIN Tail(l) : Tail(l)[i] = Tail(l)[j] => i = j
          /\ \A x : (\E i \in DOMAIN Tail(l) : Tail(l)[i] = x)
                      <=> x # l[1] /\ \E i \in DOMAIN l : l[i] = x
      BY <2>1, RestOfList
    <2> QED BY <2>1, <2>2
  <1>8. <<a, f>> \in F BY <1>5, <1>7 DEF FreeOf
  <1>9. \A q \in F : q[2] \notin f + 1 .. d
    <2> SUFFICES ASSUME NEW q \in F, q[2] \in f + 1 .. d
                 PROVE  FALSE
      OBVIOUS
    <2>1. s.free[q[2]] = <<>> BY <1>5
    <2>2. PICK i \in DOMAIN s.free[q[2]] : s.free[q[2]][i] = q[1] BY DEF FreeOf
    <2> QED BY <2>1, <2>2
  <1>10. \A k \in f + 1 .. d : k \in 0 .. h /\ b(k) \in Addresses
    <2> SUFFICES ASSUME NEW k \in f + 1 .. d
                 PROVE  k \in 0 .. h /\ b(k) \in Addresses
      OBVIOUS
    <2>1. k \in 0 .. h /\ f < k BY <1>1, <1>5
    <2>2. <<a, f>> \in Blocks(h) BY <1>8
    <2>3. <<b(k), k>> \in Blocks(h) BY <2>1, <2>2, Halves
    <2> QED BY <2>1, <2>3 DEF Blocks
  <1> DEFINE new == [k \in 0 .. h |-> IF k = f THEN Tail(l)
                                      ELSE IF k \in f + 1 .. d THEN <<b(k)>> ELSE s.free[k]]
  <1>11. /\ t.block = a /\ t.free = new
         /\ t.bits = SplitBits(h, s.bits, a, f, d)
    <2>1. Buddy!Marked(a, f, d) = {PairBit(h, Buddy!Index(a, k)) : k \in f .. d}
      BY DEF Buddy!Marked, Buddy!AllocationBit, PairBit, Base
    <2>2. {Buddy!SplitBit(Buddy!Index(a, k)) : k \in f .. d - 1}
            = {Buddy!Index(a, k) : k \in f .. d - 1}
      BY DEF Buddy!SplitBit
    <2>3. t.block = a /\ t.free = new BY <1>4
    <2>4. t.bits = Buddy!Flip(s.bits, Buddy!Marked(a, f, d))
                     \union {Buddy!SplitBit(Buddy!Index(a, k)) : k \in f .. d - 1}
      BY <1>4
    <2> QED BY <2>1, <2>2, <2>3, <2>4 DEF SplitBits
  <1> HIDE DEF l, b
  <1>12. /\ new[f] = Tail(l)
         /\ \A k \in f + 1 .. d : new[k] = <<b(k)>>
         /\ \A k \in 0 .. h : k # f /\ k \notin f + 1 .. d => new[k] = s.free[k]
         /\ DOMAIN new = 0 .. h
    <2>1. \A k \in f + 1 .. d : k # f BY <1>5
    <2> QED BY <1>5, <1>10, <2>1
  <1> HIDE DEF new
  <1>13. ASSUME NEW k \in 0 .. h
         PROVE  /\ new[k] \in Seq(Addresses)
                /\ \A i, j \in DOMAIN new[k] : new[k][i] = new[k][j] => i = j
    <2>1. CASE k = f BY <1>7, <1>12, <2>1
    <2>2. CASE k \in f + 1 .. d
      <3>1. new[k] = <<b(k)>> /\ b(k) \in Addresses BY <1>10, <1>12, <2>2
      <3>2. <<b(k)>> \in Seq(Addresses) /\ DOMAIN <<b(k)>> = 1 .. 1 BY <3>1
      <3> QED BY <3>1, <3>2
    <2>3. CASE k # f /\ k \notin f + 1 .. d BY <1>6, <1>12, <2>3
    <2> QED BY <2>1, <2>2, <2>3
  <1>14. Listed(h, new)
    <2>1. new = [k \in 0 .. h |-> new[k]] BY <1>12 DEF new
    <2>2. new \in [0 .. h -> Seq(Addresses)] BY <1>13, <2>1
    <2> QED BY <1>13, <2>2 DEF Listed
  <1>15. ASSUME NEW x \in Addresses, NEW k \in 0 .. h
         PROVE  <<x, k>> \in FreeOf(h, new) <=>
                  <<x, k>> \in (F \ {<<a, f>>}) \union Pieces(a, f, d)
    <2>1. <<x, k>> \in FreeOf(h, new) <=> \E i \in DOMAIN new[k] : new[k][i] = x
      BY DEF FreeOf
    <2>2. <<x, k>> \in F <=> \E i \in DOMAIN s.free[k] : s.free[k][i] = x
      BY DEF FreeOf
    <2>3. <<x, k>> \in Pieces(a, f, d) <=> k \in f + 1 .. d /\ x = b(k)
      BY DEF Pieces, b
    <2>4. CASE k = f
      <3>1. k \notin f + 1 .. d BY <1>5, <2>4
      <3> QED
        <4>1. (\E i \in DOMAIN new[k] : new[k][i] = x)
                 <=> x # a /\ \E i \in DOMAIN s.free[k] : s.free[k][i] = x
          <5>1. new[k] = Tail(l) /\ s.free[k] = l BY <1>12, <2>4 DEF l
          <5>2. (\E i \in DOMAIN Tail(l) : Tail(l)[i] = x) <=> x # a /\ \E i \in DOMAIN l : l[i] = x
            BY <1>7
          <5> QED BY <5>1, <5>2
        <4>2. <<x, k>> = <<a, f>> <=> x = a BY <2>4
        <4> QED BY <2>1, <2>2, <2>3, <3>1, <4>1, <4>2
    <2>5. CASE k \in f + 1 .. d
      <3>1. new[k] = <<b(k)>> /\ s.free[k] = <<>> BY <1>5, <1>12, <2>5
      <3>2. (\E i \in DOMAIN new[k] : new[k][i] = x) <=> x = b(k) BY <3>1
      <3>3. <<x, k>> \notin F BY <2>2, <3>1
      <3> QED BY <2>1, <2>3, <2>5, <3>2, <3>3
    <2>6. CASE k # f /\ k \notin f + 1 .. d BY <1>12, <2>1, <2>2, <2>3, <2>6
    <2> QED BY <2>4, <2>5, <2>6
  <1>16. FreeOf(h, new) = (F \ {<<a, f>>}) \union Pieces(a, f, d)
    <2> DEFINE G == (F \ {<<a, f>>}) \union Pieces(a, f, d)
    <2>1. FreeOf(h, new) \subseteq Addresses \X (0 .. h) BY DEF FreeOf
    <2>2. G \subseteq Addresses \X (0 .. h)
      <3>1. Pieces(a, f, d) \subseteq Addresses \X (0 .. h)
        BY <1>10 DEF Pieces, b
      <3> QED BY <3>1 DEF FreeOf
    <2>3. \A q \in Addresses \X (0 .. h) : q \in FreeOf(h, new) <=> q \in G
      BY <1>15
    <2> HIDE DEF G
    <2> QED BY <2>1, <2>2, <2>3 DEF G
  <1> QED BY <1>5, <1>8, <1>9, <1>11, <1>14, <1>16 DEF LessSplit

\* Two lists of one make one of two.
LEMMA JoinedPair ==
  ASSUME NEW S, NEW u \in Seq(S), NEW t \in Seq(S), Len(u) = 1, Len(t) = 1
  PROVE  /\ (u \o t) \in Seq(S) /\ Len(u \o t) = 2
         /\ (u \o t)[1] = u[1] /\ (u \o t)[2] = t[1]
  <1>1. (u \o t) \in Seq(S) OBVIOUS
  <1>2. Len(u \o t) = 2 OBVIOUS
  <1>3. (u \o t)[1] = u[1] OBVIOUS
  <1>4. (u \o t)[2] = t[1] OBVIOUS
  <1> QED BY <1>1, <1>2, <1>3, <1>4

\* A list with a block pushed before it has no block twice and holds that block and
\* nothing new besides, and all of a list that had one block at most.
LEMMA PushedList ==
  ASSUME NEW S, NEW l \in Seq(S), NEW a \in S, \A i \in DOMAIN l : l[i] # a,
         NEW m, m = Pushed(a, l)
  PROVE  /\ m \in Seq(S)
         /\ \A i, j \in DOMAIN m : m[i] = m[j] => i = j
         /\ \A i \in DOMAIN m : m[i] = a \/ \E j \in DOMAIN l : l[j] = m[i]
         /\ \E i \in DOMAIN m : m[i] = a
         /\ Len(l) <= 1 => \A j \in DOMAIN l : \E i \in DOMAIN m : m[i] = l[j]
  <1>1. CASE l = <<>>
    <2>1. m = <<a>>
      <3>1. m = <<a>> \o SubSeq(l, 1, 0) BY <1>1 DEF Pushed
      <3>2. SubSeq(l, 1, 0) = <<>> /\ <<a>> \o <<>> = <<a>> OBVIOUS
      <3> QED BY <3>1, <3>2
    <2>2. m \in Seq(S) /\ DOMAIN m = {1} /\ m[1] = a /\ DOMAIN l = {}
      BY <1>1, <2>1
    <2> QED BY <2>2
  <1>2. CASE l # <<>>
    <2>1. Len(l) \in Nat /\ Len(l) > 0 /\ DOMAIN l = 1 .. Len(l) /\ l[1] \in S /\ 1 \in DOMAIN l
      BY <1>2
    <2> DEFINE t == SubSeq(l, 1, 1)
    <2>2. t \in Seq(S) /\ Len(t) = 1 /\ t[1] = l[1] BY <2>1
    <2>3. m = <<a>> \o t BY <1>2 DEF Pushed
    <2> HIDE DEF t
    <2>4. m \in Seq(S) /\ DOMAIN m = 1 .. 2 /\ m[1] = a /\ m[2] = l[1] /\ a # l[1]
      <3>1. <<a>> \in Seq(S) /\ Len(<<a>>) = 1 /\ <<a>>[1] = a OBVIOUS
      <3> DEFINE u == <<a>>
      <3> HIDE DEF u
      <3>2. u \in Seq(S) /\ Len(u) = 1 /\ u[1] = a /\ m = u \o t
        BY <2>3, <3>1 DEF u
      <3>3. /\ (u \o t) \in Seq(S) /\ Len(u \o t) = 2
            /\ (u \o t)[1] = u[1] /\ (u \o t)[2] = t[1]
        BY <2>2, <3>2, JoinedPair
      <3> QED BY <2>1, <2>2, <3>2, <3>3
    <2>5. Len(l) <= 1 => \A j \in DOMAIN l : l[j] = m[2] BY <2>1, <2>4
    <2>6. 1 \in DOMAIN m /\ 2 \in DOMAIN m /\ \A i \in DOMAIN m : i = 1 \/ i = 2
      BY <2>4
    <2> QED BY <2>1, <2>4, <2>5, <2>6
  <1> QED BY <1>1, <1>2

\* Where the buddy of a block is not free, deallocate_at_depth marks their pair and
\* pushes the block; it forgets what the list had behind its first block.
LEMMA DeallocatePushes ==
  ASSUME bHeight \in Heights, Listed(bHeight, bFree),
         NEW a \in Addresses, NEW d \in 0 .. bHeight, <<a, d>> \notin FreeOf(bHeight, bFree),
         Buddy!DeallocateAtDepth(a, d), ~bMerged'
  PROVE  /\ d > 0 => PairBit(bHeight, Buddy!Index(a, d)) \notin bBits
         /\ \E S \in SUBSET {Buddy!Index(a, d)} :
              /\ d = bHeight => S = {}
              /\ bBits' = Buddy!Flip(bBits \ S, {PairBit(bHeight, Buddy!Index(a, d))})
         /\ Listed(bHeight, bFree')
         /\ FreeOf(bHeight, bFree') \subseteq FreeOf(bHeight, bFree) \union {<<a, d>>}
         /\ ~bDropped' => /\ ~bDropped
                          /\ FreeOf(bHeight, bFree') = FreeOf(bHeight, bFree) \union {<<a, d>>}
  <1> DEFINE h == bHeight
             stops == {k \in 0 .. d : k = 0 \/ Buddy!AllocationBit(Buddy!Index(a, k)) \notin bBits}
             m == CHOOSE k \in stops : \A e \in stops : e <= k
             split == {Buddy!SplitBit(Buddy!Index(a, k)) : k \in (m .. d) \ {h}}
             F == FreeOf(h, bFree)
             G == FreeOf(h, bFree')
             l == bFree[d]
             new == Pushed(a, l)
  <1>1. h \in Nat /\ d \in Nat /\ d <= h BY BlockSizes DEF Depths
  <1>2. /\ bBits' = Buddy!Flip(bBits \ split, Buddy!Marked(a, m, d))
        /\ bFree' = [k \in 0 .. h |->
                       IF k = m THEN <<a>> \o SubSeq(bFree[m], 1, IF bFree[m] = <<>> THEN 0 ELSE 1)
                       ELSE IF k \in m + 1 .. d THEN <<>> ELSE bFree[k]]
        /\ bMerged' = (m < d)
        /\ bDropped' = (bDropped \/ Len(bFree[m]) > 1)
    BY DEF Buddy!DeallocateAtDepth
  <1>3. m \in stops
    <2>1. 0 \in stops /\ stops \subseteq 0 .. d BY <1>1
    <2> HIDE DEF stops
    <2>2. \E k \in stops : \A e \in stops : e <= k BY <1>1, <2>1, GreatestNumber
    <2> QED BY <2>2
  <1> HIDE DEF m
  <1>4. m = d
    <2>1. ~ (m < d) BY <1>2
    <2>2. m \in 0 .. d BY <1>3
    <2> HIDE DEF stops
    <2> QED BY <1>1, <2>1, <2>2
  <1>5. d > 0 => PairBit(h, Buddy!Index(a, d)) \notin bBits
    BY <1>3, <1>4 DEF Buddy!AllocationBit, PairBit, Base
  <1>6. \E S \in SUBSET {Buddy!Index(a, d)} :
          /\ d = h => S = {}
          /\ bBits' = Buddy!Flip(bBits \ S, {PairBit(h, Buddy!Index(a, d))})
    <2>1. Buddy!Marked(a, m, d) = {PairBit(h, Buddy!Index(a, d))}
      <3>1. m .. d = {d} BY <1>1, <1>4
      <3> QED BY <3>1 DEF Buddy!Marked, Buddy!AllocationBit, PairBit, Base
    <2>2. split \in SUBSET {Buddy!Index(a, d)} /\ (d = h => split = {})
      <3>1. m .. d = {d} BY <1>1, <1>4
      <3> QED BY <3>1 DEF Buddy!SplitBit
    <2> HIDE DEF split, h
    <2> QED BY <1>2, <2>1, <2>2
  <1>7. /\ bFree \in [0 .. h -> Seq(Addresses)]
        /\ \A k \in 0 .. h : \A i, j \in DOMAIN bFree[k] : bFree[k][i] = bFree[k][j] => i = j
    BY DEF Listed
  <1>8. l \in Seq(Addresses) /\ \A i \in DOMAIN l : l[i] # a BY <1>7 DEF FreeOf
  <1>9. /\ new \in Seq(Addresses)
        /\ \A i, j \in DOMAIN new : new[i] = new[j] => i = j
        /\ \A i \in DOMAIN new : new[i] = a \/ \E j \in DOMAIN l : l[j] = new[i]
        /\ \E i \in DOMAIN new : new[i] = a
        /\ Len(l) <= 1 => \A j \in DOMAIN l : \E i \in DOMAIN new : new[i] = l[j]
    <2>1. new = Pushed(a, l) OBVIOUS
    <2> HIDE DEF l, new
    <2> QED BY <1>8, <2>1, PushedList
  <1>10. bFree' = [k \in 0 .. h |-> IF k = d THEN new ELSE bFree[k]]
    <2>1. d + 1 .. d = {} BY <1>1
    <2> QED BY <1>2, <1>4, <2>1 DEF Pushed
  <1> HIDE DEF new, l
  <1>11. /\ bFree'[d] = new
         /\ \A k \in 0 .. h : k # d => bFree'[k] = bFree[k]
    BY <1>10
  <1>12. Listed(h, bFree')
    <2>1. ASSUME NEW k \in 0 .. h
          PROVE  /\ bFree'[k] \in Seq(Addresses)
                 /\ \A i, j \in DOMAIN bFree'[k] : bFree'[k][i] = bFree'[k][j] => i = j
      <3>1. CASE k = d BY <1>9, <1>11, <3>1
      <3>2. CASE k # d BY <1>7, <1>11, <3>2
      <3> QED BY <3>1, <3>2
    <2>2. bFree' = [k \in 0 .. h |-> bFree'[k]] BY <1>10
    <2>3. bFree' \in [0 .. h -> Seq(Addresses)] BY <2>1, <2>2
    <2> QED BY <2>1, <2>3 DEF Listed
  <1>13. \A x \in Addresses, k \in 0 .. h :
           /\ <<x, k>> \in F <=> \E i \in DOMAIN bFree[k] : bFree[k][i] = x
           /\ <<x, k>> \in G <=> \E i \in DOMAIN bFree'[k] : bFree'[k][i] = x
    BY DEF FreeOf
  <1>14. F \subseteq Addresses \X (0 .. h) /\ G \subseteq Addresses \X (0 .. h)
    BY DEF FreeOf
  <1>15. ASSUME NEW x \in Addresses, NEW k \in 0 .. h, <<x, k>> \in G
         PROVE  <<x, k>> \in F \union {<<a, d>>}
    <2>1. PICK i \in DOMAIN bFree'[k] : bFree'[k][i] = x BY <1>13, <1>15
    <2>2. CASE k = d
      <3>1. x = a \/ \E j \in DOMAIN l : l[j] = x BY <1>9, <1>11, <2>1, <2>2
      <3>2. l = bFree[k] BY <2>2 DEF l
      <3> QED BY <1>13, <2>2, <3>1, <3>2
    <2>3. CASE k # d BY <1>11, <1>13, <2>1, <2>3
    <2> QED BY <2>2, <2>3
  <1>16. ASSUME ~bDropped', NEW x \in Addresses, NEW k \in 0 .. h,
                <<x, k>> \in F \union {<<a, d>>}
         PROVE  <<x, k>> \in G
    <2>1. Len(l) <= 1
      <3>1. ~ (Len(l) > 1)
        <4>1. bDropped' = (bDropped \/ Len(l) > 1) BY <1>2, <1>4 DEF l
        <4> QED BY <1>16, <4>1
      <3>2. Len(l) \in Nat BY <1>8
      <3> QED BY <3>1, <3>2
    <2>2. CASE k = d
      <3>1. x = a \/ \E j \in DOMAIN l : l[j] = x BY <1>13, <1>16, <2>2 DEF l
      <3>2. \E i \in DOMAIN new : new[i] = x BY <1>9, <2>1, <3>1
      <3> QED BY <1>11, <1>13, <2>2, <3>2
    <2>3. CASE k # d
      <3>1. <<x, k>> \in F BY <1>16, <2>3
      <3> QED BY <1>11, <1>13, <2>3, <3>1
    <2> QED BY <2>2, <2>3
  <1>17. G \subseteq F \union {<<a, d>>} BY <1>14, <1>15
  <1>18. ~bDropped' => ~bDropped /\ G = F \union {<<a, d>>}
    <2> SUFFICES ASSUME ~bDropped'
                 PROVE  ~bDropped /\ G = F \union {<<a, d>>}
      OBVIOUS
    <2>1. <<a, d>> \in Addresses \X (0 .. h) OBVIOUS
    <2>2. F \union {<<a, d>>} \subseteq G BY <1>14, <1>16, <2>1
    <2> QED BY <1>2, <1>17, <2>2
  <1> QED BY <1>5, <1>6, <1>12, <1>17, <1>18

\* Deeper blocks are less.
LEMMA SizesFall ==
  ASSUME NEW j \in Depths, NEW k \in Depths, j < k
  PROVE  Buddy!BlockSize(k) < Buddy!BlockSize(j)
  <1> DEFINE a == Buddy!Pow2[MaxHeight - k]
             b == Buddy!Pow2[MaxHeight - j]
  <1>1. MaxHeight - k \in Nat /\ MaxHeight - j \in Nat /\ MaxHeight - k < MaxHeight - j
    BY BlockSizes DEF Depths
  <1>2. 2 * a <= b /\ a \in Nat /\ b \in Nat /\ a > 0
    BY <1>1, Powers, PowersRise
  <1>3. /\ Buddy!BlockSize(k) = LeafSize * a /\ Buddy!BlockSize(j) = LeafSize * b
        /\ LeafSize \in Nat \ {0}
    BY BlockSizes
  <1> HIDE DEF a, b
  <1>4. LeafSize * a < LeafSize * b BY <1>2, <1>3
  <1> QED BY <1>3, <1>4

\* The blocks of the greatest depth, by number.
LEMMA LeastBlocks ==
  ASSUME NEW h \in Heights, NEW j \in Nat, j < Buddy!Pow2[h],
         NEW a, a = j * Buddy!BlockSize(h)
  PROVE  /\ <<a, h>> \in Blocks(h) /\ a \in Addresses /\ Node(a, h) = j
         /\ \A x \in Addresses : In(x, <<a, h>>) <=> Node(x, h) = j
  <1> DEFINE b == Buddy!BlockSize(h)
             q == Buddy!Pow2[h]
  <1>1. /\ h \in Depths /\ h \in Nat /\ b \in Nat \ {0} /\ q \in Nat /\ b * q = Buddy!Total
        /\ Buddy!Total \in Nat
    <2>1. h \in Depths /\ h \in Nat BY BlockSizes DEF Depths
    <2> QED BY <2>1, BlockSizes, Powers
  <1>2. a = b * j + 0 /\ a \in Nat /\ 0 \in 0 .. b - 1 /\ j < q BY <1>1
  <1> HIDE DEF b, q
  <1>3. a < Buddy!Total
    <2>1. b * (j + 1) <= b * q
      <3>1. j + 1 <= q BY <1>1, <1>2
      <3> QED BY <1>1, <3>1
    <2>2. b * (j + 1) = b * j + b /\ b * j \in Nat BY <1>1
    <2> QED BY <1>1, <1>2, <2>1, <2>2
  <1>4. a \div b = j BY <1>1, <1>2, BlockOfBit
  <1>5. a % b = 0
    <2>1. a = b * (a \div b) + (a % b) /\ a % b \in 0 .. b - 1 /\ b * (a \div b) \in Nat
      BY <1>1, <1>2, WholeBlocks
    <2> QED BY <1>2, <1>4, <2>1
  <1>6. a \in Addresses BY <1>1, <1>2, <1>3 DEF Addresses
  <1>7. Node(a, h) = j BY <1>4 DEF Node, Buddy!IndexAtDepth, b
  <1>8. <<a, h>> \in Blocks(h) BY <1>1, <1>5, <1>6 DEF Blocks, b
  <1>9. \A x \in Addresses : In(x, <<a, h>>) <=> Node(x, h) = j BY <1>7 DEF In
  <1> QED BY <1>6, <1>7, <1>8, <1>9

\* At first there is the whole buffer.
LEMMA BuiltAtFirst ==
  ASSUME NEW h \in Heights,
         NEW s, s = [free |-> [k \in 0 .. h |-> IF k = 0 THEN << 0 >> ELSE <<>>], bits |-> {}]
  PROVE  Built(h, 0, s)
  <1> DEFINE p == <<0, 0>>
             F == FreeOf(h, s.free)
  <1>1. h \in Nat /\ 0 \in 0 .. h /\ 0 \in Addresses /\ 0 \in Depths /\ 0 .. h \subseteq Depths
    BY BlockSizes DEF Depths, Addresses
  <1>2. /\ s.free = [k \in 0 .. h |-> IF k = 0 THEN << 0 >> ELSE <<>>]
        /\ s.bits = {}
    BY Zenon
  <1>3. Listed(h, s.free)
    <2>1. << 0 >> \in Seq(Addresses) /\ <<>> \in Seq(Addresses) /\ DOMAIN << 0 >> = {1}
      BY <1>1
    <2> QED BY <1>2, <2>1 DEF Listed
  <1>4. F = {p}
    <2>1. \A x \in Addresses, k \in 0 .. h : <<x, k>> \in F <=> x = 0 /\ k = 0
      <3> SUFFICES ASSUME NEW x \in Addresses, NEW k \in 0 .. h
                   PROVE  <<x, k>> \in F <=> x = 0 /\ k = 0
        OBVIOUS
      <3>1. <<x, k>> \in F <=> \E i \in DOMAIN s.free[k] : s.free[k][i] = x
        BY DEF FreeOf
      <3>2. CASE k = 0
        <4>1. s.free[k] = << 0 >> BY <1>1, <1>2, <3>2
        <4> QED BY <3>1, <3>2, <4>1
      <3>3. CASE k # 0
        <4>1. s.free[k] = <<>> BY <1>1, <1>2, <3>3
        <4> QED BY <3>1, <3>3, <4>1
      <3> QED BY <3>2, <3>3
    <2>2. F \subseteq Addresses \X (0 .. h) BY DEF FreeOf
    <2> HIDE DEF F
    <2> QED BY <1>1, <2>1, <2>2
  <1>5. p \in Blocks(h)
    <2>1. Buddy!BlockSize(0) \in Nat \ {0} BY <1>1, BlockSizes
    <2>2. 0 % Buddy!BlockSize(0) = 0 BY <2>1
    <2> QED BY <1>1, <2>2 DEF Blocks
  <1>6. \A x \in Addresses : In(x, p) BY <1>1, Nodes DEF In
  <1>7. Tracking(h, 0) = {} BY DEF Tracking
  <1> HIDE DEF F
  <1>8. SoundBlocks(h, {}, F, {})
    <2>1. Clean(h, {}, p) BY DEF Clean
    <2> QED BY <1>4, <1>5, <2>1 DEF SoundBlocks
  <1>9. Covered(F, {}) /\ Descending(F) BY <1>4, <1>6 DEF Covered, Descending
  <1> QED BY <1>2, <1>3, <1>7, <1>8, <1>9 DEF Built, F

\* Each allocation takes the block behind those before.
LEMMA BuiltOn ==
  ASSUME NEW h, h = bHeight, h \in Heights, NEW n \in Nat, n < Buddy!Pow2[h],
         NEW s, Built(h, n, s)
  PROVE  /\ Built(h, n + 1, Buddy!AllocateAtDepth(s, h))
         /\ Buddy!AllocateAtDepth(s, h).block \in Addresses
  <1> DEFINE F == FreeOf(h, s.free)
             U == Tracking(h, n)
             x == n * Buddy!BlockSize(h)
             t == Buddy!AllocateAtDepth(s, h)
             a == t.block
             G == FreeOf(h, t.free)
  <1>1. /\ Listed(h, s.free) /\ s.bits \subseteq Nat /\ SoundBlocks(h, s.bits, F, U)
        /\ Covered(F, U) /\ Descending(F)
    BY DEF Built
  <1>2. /\ h \in Nat /\ h \in 0 .. h /\ 0 .. h \subseteq Depths /\ h \in Depths
        /\ Buddy!Pow2[h] \in Nat
    <2>1. h \in Nat /\ 0 .. h \subseteq Depths /\ h \in Depths
      BY BlockSizes DEF Depths
    <2> QED BY <2>1, Powers
  <1>3. /\ F \subseteq Blocks(h) /\ F \intersect U = {}
        /\ \A p, q \in F \union U : \A y \in Addresses : In(y, p) /\ In(y, q) => p = q
    BY <1>1 DEF SoundBlocks
  <1>4. x \in Addresses /\ Node(x, h) = n
    <2> HIDE DEF x
    <2> QED BY LeastBlocks DEF x
  <1>5. ASSUME NEW j \in 0 .. n - 1
        PROVE  /\ <<j * Buddy!BlockSize(h), h>> \in U
               /\ \A y \in Addresses : In(y, <<j * Buddy!BlockSize(h), h>>) <=> Node(y, h) = j
    <2>1. j \in Nat /\ j < Buddy!Pow2[h] BY <1>2
    <2> QED BY <2>1, LeastBlocks DEF Tracking
  <1>6. PICK q \in F : In(x, q)
    <2>1. PICK q \in F \union U : In(x, q) BY <1>1, <1>4 DEF Covered
    <2>2. ASSUME q \in U
          PROVE  FALSE
      <3>1. PICK j \in 0 .. n - 1 : q = <<j * Buddy!BlockSize(h), h>>
        BY <2>2 DEF Tracking
      <3>2. Node(x, h) = j BY <1>4, <1>5, <2>1, <3>1
      <3> QED BY <1>4, <3>2
    <2> QED BY <2>1, <2>2
  <1>7. q \in Blocks(h) /\ q[1] \in Addresses /\ q[2] \in 0 .. h /\ q[1] <= x
    <2>1. q \in Blocks(h) BY <1>3
    <2> QED BY <1>4, <1>6, <2>1, Spans
  <1>8. Buddy!FirstFreeDepths(s, h) # {}
    <2>1. PICK i \in DOMAIN s.free[q[2]] : s.free[q[2]][i] = q[1] BY DEF FreeOf
    <2>2. s.free[q[2]] # <<>> BY <2>1
    <2> QED BY <1>7, <2>2 DEF Buddy!FirstFreeDepths
  <1> HIDE DEF F, U, x, t, G
  <1>9. PICK f \in 0 .. h :
          /\ <<a, f>> \in F
          /\ \A r \in F : r[2] \notin f + 1 .. h
          /\ G = LessSplit(F, a, f, h)
          /\ t.bits = SplitBits(h, s.bits, a, f, h)
          /\ Listed(h, t.free)
    BY <1>1, <1>2, <1>3, <1>8, AllocateSplits DEF F, t, G
  <1> HIDE DEF a
  <1> DEFINE p == <<a, f>>
  <1>10. /\ p \in Blocks(h) /\ a \in Addresses /\ f \in Nat /\ h \in f .. h /\ f \in Depths
         /\ In(a, p)
    <2>1. p \in Blocks(h) BY <1>3, <1>9
    <2>2. a \in Addresses /\ In(a, p) BY <2>1, Spans
    <2> QED BY <1>2, <2>1, <2>2
  <1>11. a <= x
    <2>1. q[2] <= f
      <3>1. q[2] \in 0 .. h /\ q[2] \notin f + 1 .. h BY <1>6, <1>7, <1>9
      <3> QED BY <1>2, <1>10, <3>1
    <2>2. q[2] < f \/ q[2] = f BY <1>7, <1>10, <2>1
    <2>3. a <= q[1]
      <3>1. CASE q[2] < f
        <4>1. a < q[1] BY <1>1, <1>6, <1>9, <3>1 DEF Descending
        <4> QED BY <1>7, <1>10, <4>1 DEF Addresses
      <3>2. CASE q[2] = f
        <4>1. q = p BY <1>1, <1>6, <1>9, <3>2 DEF Descending
        <4> QED BY <1>10, <4>1 DEF Addresses
      <3> QED BY <2>2, <3>1, <3>2
    <2> QED BY <1>4, <1>7, <1>10, <2>3 DEF Addresses
  <1>12. a = x
    <2>1. SUFFICES ASSUME a < x
                   PROVE  FALSE
      BY <1>4, <1>10, <1>11 DEF Addresses
    <2> DEFINE j == Node(a, h)
               b == Buddy!BlockSize(h)
    <2>2. j \in Nat /\ b * j <= a /\ b \in Nat \ {0} /\ a \in Nat /\ x = n * b
      BY <1>2, <1>10, BlockSizes, Nodes DEF x, Addresses
    <2> HIDE DEF j, b
    <2>3. j < n
      <3>1. SUFFICES ASSUME n <= j
                     PROVE  FALSE
        BY <2>2
      <3>2. b * n <= b * j /\ b * n = n * b BY <2>2, <3>1
      <3> QED BY <2>1, <2>2, <3>2
    <2>4. j \in 0 .. n - 1 BY <2>2, <2>3
    <2>5. In(a, <<j * b, h>>) /\ <<j * b, h>> \in U
      BY <1>5, <1>10, <2>4 DEF j, b
    <2>6. <<j * b, h>> = p BY <1>3, <1>9, <1>10, <2>5
    <2> QED BY <1>3, <1>9, <2>5, <2>6
  <1>13. With(U, <<a, h>>) = Tracking(h, n + 1)
    <2>1. \A j : j \in 0 .. (n + 1) - 1 <=> j \in 0 .. n - 1 \/ j = n OBVIOUS
    <2> QED BY <1>12, <2>1 DEF Tracking, U, x, With
  <1>14. SoundBlocks(h, t.bits, G, With(U, <<a, h>>)) /\ Covered(G, With(U, <<a, h>>))
    <2>1. /\ SoundBlocks(h, s.bits, F, U) /\ <<a, f>> \in F /\ h \in f .. h
          /\ \A r \in F : r[2] \notin f + 1 .. h
      BY <1>1, <1>9, <1>10
    <2> HIDE DEF p
    <2> QED BY <2>1, <1>1, <1>9, SplitSound
  <1>15. t.bits \subseteq Nat
    <2>1. \A k \in f .. h : k \in 0 .. h BY <1>10
    <2>2. \A k \in 0 .. h : Buddy!Index(a, k) \in Nat /\ PairBit(h, Buddy!Index(a, k)) \in Nat
      <3> SUFFICES ASSUME NEW k \in 0 .. h
                   PROVE  Buddy!Index(a, k) \in Nat /\ PairBit(h, Buddy!Index(a, k)) \in Nat
        OBVIOUS
      <3>1. Buddy!Index(a, k) \in Nat BY <1>2, <1>10, Nodes
      <3>2. Base(h) \in Nat BY <1>10, PairBits
      <3> QED BY <3>1, <3>2 DEF PairBit
    <2>3. \A k \in f .. h - 1 : k \in 0 .. h BY <1>2, <1>10
    <2> QED BY <1>1, <1>9, <2>1, <2>2, <2>3 DEF SplitBits, Buddy!Flip
  <1>16. Descending(G)
    <2>1. ASSUME NEW r \in F, r # p
          PROVE  /\ r[2] \in 0 .. h /\ r[2] < f /\ r[1] \in Int
                 /\ \A k \in f + 1 .. h : a + Buddy!BlockSize(k) < r[1]
      <3>1. r \in Blocks(h) BY <1>3
      <3>2. r[1] \in Addresses /\ r[2] \in 0 .. h /\ In(r[1], r) BY <3>1, Spans
      <3>3. r[2] <= f BY <1>2, <1>9, <1>10, <3>2
      <3>4. r[2] # f BY <1>1, <1>9, <2>1 DEF Descending
      <3>5. r[2] < f BY <1>10, <3>2, <3>3, <3>4
      <3>6. a < r[1] BY <1>1, <1>9, <3>5 DEF Descending
      <3>7. ~ In(r[1], p) BY <1>3, <1>9, <2>1, <3>2
      <3>8. /\ \A y \in Addresses : In(y, p) <=> a <= y /\ y < a + Buddy!BlockSize(f)
            /\ Buddy!BlockSize(f) \in Nat
        BY <1>10, Spans, BlockSizes
      <3>9. a + Buddy!BlockSize(f) <= r[1]
        <4>1. ~ (a <= r[1] /\ r[1] < a + Buddy!BlockSize(f)) /\ a \in Int /\ r[1] \in Int
          BY <1>10, <3>2, <3>7, <3>8 DEF Addresses
        <4> QED BY <3>6, <3>8, <4>1
      <3>10. \A k \in f + 1 .. h : a + Buddy!BlockSize(k) < r[1]
        <4> SUFFICES ASSUME NEW k \in f + 1 .. h
                     PROVE  a + Buddy!BlockSize(k) < r[1]
          OBVIOUS
        <4>1. k \in Depths /\ f < k BY <1>2, <1>10
        <4>2. Buddy!BlockSize(k) < Buddy!BlockSize(f) /\ Buddy!BlockSize(k) \in Nat
          BY <1>10, <4>1, SizesFall, BlockSizes
        <4> QED BY <1>10, <3>2, <3>8, <3>9, <4>2 DEF Addresses
      <3> QED BY <3>2, <3>5, <3>10 DEF Addresses
    <2>2. ASSUME NEW j \in f + 1 .. h, NEW k \in f + 1 .. h, j < k
          PROVE  a + Buddy!BlockSize(k) < a + Buddy!BlockSize(j)
      <3>1. j \in Depths /\ k \in Depths BY <1>2, <1>10
      <3> QED BY <1>10, <2>2, <3>1, SizesFall, BlockSizes DEF Addresses
    <2>3. \A r \in G :
            (r \in F /\ r # p) \/ \E k \in f + 1 .. h : r = <<a + Buddy!BlockSize(k), k>>
      BY <1>9 DEF Pieces, LessSplit
    <2>4. \A k \in f + 1 .. h : k \in Nat /\ f < k BY <1>10
    <2> SUFFICES ASSUME NEW r \in G, NEW w \in G
                 PROVE  (r[2] < w[2] => w[1] < r[1]) /\ (r[2] = w[2] => r = w)
      BY DEF Descending
    <2>5. CASE r \in F /\ r # p /\ w \in F /\ w # p BY <1>1, <2>5 DEF Descending
    <2>6. CASE r \in F /\ r # p /\ ~ (w \in F /\ w # p)
      <3>1. PICK k \in f + 1 .. h : w = <<a + Buddy!BlockSize(k), k>>
        BY <2>3, <2>6
      <3>2. r[2] \in 0 .. h /\ r[2] < f /\ a + Buddy!BlockSize(k) < r[1]
        BY <2>1, <2>6
      <3>3. r[2] # k BY <1>10, <2>4, <3>2
      <3> QED BY <3>1, <3>2, <3>3
    <2>7. CASE ~ (r \in F /\ r # p) /\ w \in F /\ w # p
      <3>1. PICK k \in f + 1 .. h : r = <<a + Buddy!BlockSize(k), k>>
        BY <2>3, <2>7
      <3>2. w[2] \in 0 .. h /\ w[2] < f BY <2>1, <2>7
      <3>3. w[2] # k /\ ~ (k < w[2]) BY <1>10, <2>4, <3>2
      <3> QED BY <3>1, <3>3
    <2>8. CASE ~ (r \in F /\ r # p) /\ ~ (w \in F /\ w # p)
      <3>1. PICK j \in f + 1 .. h : r = <<a + Buddy!BlockSize(j), j>>
        BY <2>3, <2>8
      <3>2. PICK k \in f + 1 .. h : w = <<a + Buddy!BlockSize(k), k>>
        BY <2>3, <2>8
      <3> QED BY <2>2, <3>1, <3>2
    <2> QED BY <2>5, <2>6, <2>7, <2>8
  <1>17. Built(h, n + 1, t) BY <1>9, <1>13, <1>14, <1>15, <1>16 DEF Built, G
  <1> QED BY <1>10, <1>17 DEF t, a

\* The tracking bits take at least one of the leaves and not more than there are.
LEMMA TrackingFits ==
  ASSUME bHeight \in Heights
  PROVE  /\ Buddy!TrackingLeafBlocks \in Nat /\ Buddy!TrackingLeafBlocks > 0
         /\ Buddy!TrackingLeafBlocks <= Buddy!Pow2[bHeight]
  <1> DEFINE h == bHeight
             q == Buddy!Pow2[h]
             n == (2 * q) \div 8
  <1>1. h \in Nat /\ (h = 0 \/ h >= 3) /\ LeafSize \in Nat \ {0} BY BlockSizes
  <1>2. q \in Nat /\ Buddy!Pow2[h + 1] = 2 * q BY <1>1, Powers
  <1>3. n \in Nat /\ n + 1 <= q
    <2>1. CASE h = 0
      <3>1. q = 1 BY <2>1, Powers
      <3> QED BY <3>1
    <2>2. CASE h >= 3
      <3>1. h - 3 \in Nat /\ (h - 3) + 1 \in Nat /\ ((h - 3) + 1) + 1 \in Nat
            /\ (((h - 3) + 1) + 1) + 1 = h
        BY <1>1, <2>2
      <3> DEFINE b == Buddy!Pow2[h - 3]
      <3>2. b \in Nat /\ b > h - 3 /\ q = 2 * (2 * (2 * b)) BY <3>1, Powers
      <3> HIDE DEF b, q
      <3>3. b \in Nat /\ b > 0 /\ q = 8 * b BY <3>1, <3>2
      <3> QED BY <3>3
    <2> QED BY <1>1, <2>1, <2>2
  <1>4. Buddy!TrackingLeafBlocks = n \div LeafSize + 1
    BY <1>2 DEF Buddy!TrackingLeafBlocks
  <1> HIDE DEF n, q
  <1>5. n \div LeafSize \in Nat /\ n \div LeafSize <= n
    <2> DEFINE c == n \div LeafSize
    <2>1. c \in Nat /\ LeafSize * c <= n BY <1>1, <1>3, InBlock
    <2> HIDE DEF c
    <2>2. c <= LeafSize * c BY <1>1, <2>1
    <2> QED BY <1>1, <1>3, <2>1, <2>2 DEF c
  <1> QED BY <1>2, <1>3, <1>4, <1>5 DEF q

\* The constructor's allocations start from the whole buffer, and each goes on from
\* what the one before it left.
LEMMA ConstructedStep ==
  ASSUME bHeight \in Heights
  PROVE  Buddy!Constructed =
           [n \in 0 .. Buddy!TrackingLeafBlocks |->
              IF n = 0 THEN First(bHeight)
              ELSE Buddy!AllocateAtDepth(Buddy!Constructed[n - 1], bHeight)]
  <1> DEFINE h == bHeight
             q == Buddy!Pow2[h]
             N == Buddy!TrackingLeafBlocks
             Lists == [0 .. h -> Seq(Addresses)]
             R == [free : Lists, bits : SUBSET Nat]
                    \union [block : Addresses, free : Lists, bits : SUBSET Nat]
             next == [n \in Nat |-> [s \in R |->
                        IF n < q /\ Built(h, n, s) THEN Buddy!AllocateAtDepth(s, h) ELSE s]]
  <1>1. q \in Nat /\ N \in Nat /\ N <= q
    <2>1. h \in Nat BY BlockSizes
    <2> QED BY <2>1, TrackingFits, Powers
  <1>2. Built(h, 0, First(h)) BY BuiltAtFirst DEF First
  <1>3. First(h) \in R
    <2>1. First(h).free \in Lists BY <1>2 DEF Built, Listed
    <2> QED BY <2>1 DEF First
  <1>4. ASSUME NEW n \in Nat, n < q, NEW s \in R, Built(h, n, s)
        PROVE  /\ Buddy!AllocateAtDepth(s, h) \in R
               /\ Built(h, n + 1, Buddy!AllocateAtDepth(s, h))
    <2> DEFINE t == Buddy!AllocateAtDepth(s, h)
    <2>1. Built(h, n + 1, t) /\ t.block \in Addresses BY <1>4, BuiltOn
    <2>2. t.free \in Lists /\ t.bits \in SUBSET Nat BY <2>1 DEF Built, Listed
    <2>3. t = [block |-> t.block, free |-> t.free, bits |-> t.bits]
      BY DEF Buddy!AllocateAtDepth
    <2> HIDE DEF t, Lists
    <2>4. t \in [block : Addresses, free : Lists, bits : SUBSET Nat]
      BY <2>1, <2>2, <2>3
    <2> QED BY <2>1, <2>4 DEF t, Lists
  <1>5. next \in [Nat -> [R -> R]]
    <2> HIDE DEF R
    <2>1. \A n \in Nat : \A s \in R :
            (IF n < q /\ Built(h, n, s) THEN Buddy!AllocateAtDepth(s, h) ELSE s) \in R
      BY <1>4
    <2> QED BY <2>1
  <1>6. PICK f \in [Nat -> R] : Runs(f, First(h), next)
    <2> HIDE DEF R, next
    <2> QED BY <1>3, <1>5, RunExists
  <1>7. f[0] = First(h) /\ \A n \in Nat : f[n + 1] = next[n][f[n]]
    <2> HIDE DEF next, R
    <2> QED BY <1>6 DEF Runs
  <1> HIDE DEF R
  <1>8. \A n \in Nat : f[n + 1] = IF n < q /\ Built(h, n, f[n])
                                    THEN Buddy!AllocateAtDepth(f[n], h) ELSE f[n]
    BY <1>6, <1>7
  <1> HIDE DEF next
  <1>9. ASSUME NEW n \in Nat
        PROVE  n <= q => Built(h, n, f[n])
    <2> DEFINE T == {k \in Nat : k <= q => Built(h, k, f[k])}
    <2>1. 0 \in T BY <1>2, <1>7
    <2>2. ASSUME NEW k \in Nat, k \in T
          PROVE  k + 1 \in T
      <3> SUFFICES ASSUME k + 1 <= q
                   PROVE  Built(h, k + 1, f[k + 1])
        OBVIOUS
      <3>1. k < q /\ Built(h, k, f[k]) /\ f[k] \in R BY <1>1, <1>6, <2>2
      <3> QED BY <1>4, <1>8, <3>1
    <2> HIDE DEF T
    <2>3. n \in T BY <2>1, <2>2, NumbersByStep
    <2> QED BY <2>3 DEF T
  <1> DEFINE g == [n \in 0 .. N |-> f[n]]
  <1>10. ASSUME NEW n \in 0 .. N, n # 0
         PROVE  g[n] = Buddy!AllocateAtDepth(g[n - 1], h)
    <2>1. n - 1 \in Nat /\ n - 1 \in 0 .. N /\ (n - 1) + 1 = n /\ n - 1 < q /\ n - 1 <= q
      BY <1>1, <1>10
    <2>2. Built(h, n - 1, f[n - 1]) BY <1>9, <2>1
    <2>3. f[(n - 1) + 1] = Buddy!AllocateAtDepth(f[n - 1], h)
      BY <1>8, <2>1, <2>2
    <2> QED BY <2>1, <2>3
  <1>11. g[0] = First(h) BY <1>1, <1>7
  <1>12. g = [n \in 0 .. N |-> IF n = 0 THEN First(h)
                               ELSE Buddy!AllocateAtDepth(g[n - 1], h)]
    <2>1. \A n \in 0 .. N : g[n] = IF n = 0 THEN First(h)
                                   ELSE Buddy!AllocateAtDepth(g[n - 1], h)
      BY <1>10, <1>11
    <2>2. g = [n \in 0 .. N |-> g[n]] OBVIOUS
    <2> HIDE DEF g
    <2> QED BY <2>1, <2>2
  <1>13. Buddy!Constructed =
           CHOOSE after : after = [n \in 0 .. N |->
             IF n = 0 THEN First(h) ELSE Buddy!AllocateAtDepth(after[n - 1], h)]
    BY DEF Buddy!Constructed, First
  <1> HIDE DEF g
  <1> QED BY <1>12, <1>13

\* After the constructor's allocations the blocks of its own tracking are taken and
\* the lists and bits are those of the rest of the buffer.
LEMMA ConstructedBuilt ==
  ASSUME bHeight \in Heights
  PROVE  Built(bHeight, Buddy!TrackingLeafBlocks, Buddy!Constructed[Buddy!TrackingLeafBlocks])
  <1> DEFINE h == bHeight
             q == Buddy!Pow2[h]
             N == Buddy!TrackingLeafBlocks
             f == Buddy!Constructed
             T == {k \in Nat : k <= N => Built(h, k, f[k])}
  <1>1. q \in Nat /\ N \in Nat /\ N <= q
    <2>1. h \in Nat BY BlockSizes
    <2> QED BY <2>1, TrackingFits, Powers
  <1> HIDE DEF f
  <1>2. f = [n \in 0 .. N |-> IF n = 0 THEN First(h) ELSE Buddy!AllocateAtDepth(f[n - 1], h)]
    BY ConstructedStep DEF f
  <1>3. 0 \in T
    <2>1. f[0] = First(h) BY <1>1, <1>2
    <2>2. Built(h, 0, First(h)) BY BuiltAtFirst DEF First
    <2> QED BY <2>1, <2>2
  <1>4. ASSUME NEW k \in Nat, k \in T
        PROVE  k + 1 \in T
    <2> SUFFICES ASSUME k + 1 <= N
                 PROVE  Built(h, k + 1, f[k + 1])
      OBVIOUS
    <2>1. k < q /\ k + 1 \in 0 .. N /\ (k + 1) - 1 = k /\ k + 1 # 0 /\ k <= N
      BY <1>1
    <2>2. f[k + 1] = Buddy!AllocateAtDepth(f[k], h) BY <1>2, <2>1
    <2>3. Built(h, k, f[k]) BY <1>4, <2>1
    <2> QED BY <2>1, <2>2, <2>3, BuiltOn
  <1> HIDE DEF T
  <1>5. N \in T BY <1>1, <1>3, <1>4, NumbersByStep
  <1> QED BY <1>1, <1>5 DEF T, f

\* A size is rounded up to a power of two that is less than twice it.
LEMMA RoundedUp ==
  ASSUME NEW s \in Nat, s > 0
  PROVE  \E j \in Nat : Buddy!Pow2Ceil(s) = Buddy!Pow2[j] /\ s <= Buddy!Pow2[j]
                        /\ Buddy!Pow2[j] < 2 * s
  <1> DEFINE T == {k \in Nat : s <= Buddy!Pow2[k]}
  <1>1. s \in T BY Powers
  <1>2. PICK j \in T : \A k \in T : j <= k
    <2>1. T \subseteq Nat OBVIOUS
    <2> HIDE DEF T
    <2> QED BY <1>1, <2>1, LeastNumber
  <1>3. j \in Nat /\ j <= s /\ s <= Buddy!Pow2[j] /\ Buddy!Pow2[j] \in Nat
    BY <1>1, <1>2, Powers
  <1>4. Buddy!Pow2[j] < 2 * s
    <2>1. CASE j = 0 BY <2>1, Powers
    <2>2. CASE j # 0
      <3>1. j - 1 \in Nat /\ (j - 1) + 1 = j /\ j - 1 \notin T
        BY <1>2, <1>3, <2>2
      <3>2. Buddy!Pow2[j - 1] < s /\ Buddy!Pow2[j - 1] \in Nat BY <3>1, Powers
      <3>3. Buddy!Pow2[j] = 2 * Buddy!Pow2[j - 1] BY <3>1, Powers
      <3> QED BY <3>2, <3>3
    <2> QED BY <2>1, <2>2
  <1> DEFINE c == CHOOSE k \in 0 .. s : Buddy!Pow2[k] >= s /\ Buddy!Pow2[k] < 2 * s
  <1>5. c \in 0 .. s /\ Buddy!Pow2[c] >= s /\ Buddy!Pow2[c] < 2 * s
    <2>1. j \in 0 .. s /\ Buddy!Pow2[j] >= s /\ Buddy!Pow2[j] < 2 * s
      BY <1>3, <1>4
    <2> QED BY <2>1
  <1>6. Buddy!Pow2Ceil(s) = Buddy!Pow2[c] BY DEF Buddy!Pow2Ceil
  <1> HIDE DEF c
  <1>7. c \in Nat /\ s <= Buddy!Pow2[c] BY <1>5, Powers
  <1> QED BY <1>5, <1>6, <1>7

\* The logarithm of what is between two powers.
LEMMA LogBetween ==
  ASSUME NEW n \in Nat, NEW k \in Nat, Buddy!Pow2[k] <= n, n < 2 * Buddy!Pow2[k]
  PROVE  Buddy!FloorLog2(n) = k
  <1>1. k \in 0 .. n /\ n # 0 BY Powers
  <1>2. ASSUME NEW j \in 0 .. n, Buddy!Pow2[j] <= n, n < 2 * Buddy!Pow2[j]
        PROVE  j = k
    <2>1. Buddy!Pow2[j] \in Nat /\ Buddy!Pow2[k] \in Nat /\ j \in Nat BY Powers
    <2>2. (j < k => 2 * Buddy!Pow2[j] <= Buddy!Pow2[k])
          /\ (k < j => 2 * Buddy!Pow2[k] <= Buddy!Pow2[j])
      BY <2>1, PowersRise
    <2> QED BY <1>2, <2>1, <2>2
  <1> DEFINE c == CHOOSE j \in 0 .. n : Buddy!Pow2[j] <= n /\ n < 2 * Buddy!Pow2[j]
  <1>3. c \in 0 .. n /\ Buddy!Pow2[c] <= n /\ n < 2 * Buddy!Pow2[c] BY <1>1
  <1>4. Buddy!FloorLog2(n) = c BY <1>1 DEF Buddy!FloorLog2
  <1> HIDE DEF c
  <1> QED BY <1>2, <1>3, <1>4

\* The buffer is a power of two.
LEMMA TotalIsPower ==
  \E t \in Nat : Buddy!Total = Buddy!Pow2[t]
  <1>1. PICK k \in 0 .. LeafSize : LeafSize = Buddy!Pow2[k]
    BY LibraryAssumption DEF Buddy!BuddyAssumption
  <1>2. k \in Nat /\ MaxHeight \in Nat BY BlockSizes
  <1>3. Buddy!Pow2[k + MaxHeight] = Buddy!Pow2[k] * Buddy!Pow2[MaxHeight] /\ k + MaxHeight \in Nat
    BY <1>2, PowerOfSum
  <1> QED BY <1>1, <1>3 DEF Buddy!Total

\* What is as long as a power of two, or more than its half, divides one as often as
\* the power does.
LEMMA Quotients ==
  ASSUME NEW s \in Nat, s > 0, NEW a \in Nat, NEW b \in Nat, s <= a, a < 2 * s, b > 0
  PROVE  b <= (a * b) \div s /\ (a * b) \div s < 2 * b /\ (a * b) \div s \in Nat
  <1> DEFINE n == a * b
             q == n \div s
  <1>1. n \in Nat OBVIOUS
  <1>2. q \in Nat /\ s * q <= n /\ n < s * q + s
    <2> HIDE DEF n
    <2> QED BY <1>1, InBlock
  <1>3. s * b <= n OBVIOUS
  <1>4. n < s * (2 * b)
    <2>1. a * b < (2 * s) * b OBVIOUS
    <2>2. (2 * s) * b = s * (2 * b) OBVIOUS
    <2> QED BY <2>1, <2>2
  <1> HIDE DEF n, q
  <1>5. b <= q
    <2>1. SUFFICES ASSUME q + 1 <= b
                   PROVE  FALSE
      BY <1>2
    <2>2. s * (q + 1) <= s * b /\ s * (q + 1) = s * q + s BY <1>2, <2>1
    <2> QED BY <1>1, <1>2, <1>3, <2>2
  <1>6. q < 2 * b
    <2>1. SUFFICES ASSUME 2 * b <= q
                   PROVE  FALSE
      BY <1>2
    <2>2. s * (2 * b) <= s * q BY <1>2, <2>1
    <2> QED BY <1>1, <1>2, <1>4, <2>2
  <1> QED BY <1>2, <1>5, <1>6 DEF q, n

\* It is that which deallocate computes from the size, and below the first its
\* blocks are large enough.
LEMMA DepthsOfSizes ==
  ASSUME bHeight \in Heights, NEW s \in Nat, s > 0
  PROVE  /\ DepthOf(s) \in 0 .. bHeight
         /\ Buddy!DepthOfBlockSize(s) = DepthOf(s)
         /\ DepthOf(s) > 0 => s <= Buddy!BlockSize(DepthOf(s))
  <1> DEFINE h == bHeight
             w == Buddy!Total
             P == Buddy!Pow2
             least(d) == IF d < h THEN d ELSE h
  <1>1. h \in Nat /\ h \in Depths /\ 0 .. h \subseteq Depths /\ w \in Nat
    BY BlockSizes DEF Depths
  <1>2. PICK t \in Nat : w = P[t] BY TotalIsPower
  <1>3. PICK j \in Nat : Buddy!Pow2Ceil(s) = P[j] /\ s <= P[j] /\ P[j] < 2 * s
    BY RoundedUp
  <1>4. DepthOf(s) = Buddy!DepthOfBlockSize(P[j]) BY <1>3 DEF DepthOf
  <1>5. \A v : Buddy!DepthOfBlockSize(v) = least(Buddy!FloorLog2(w \div v))
    BY DEF Buddy!DepthOfBlockSize
  <1>6. P[j] \in Nat /\ P[j] > 0 /\ P[t] \in Nat /\ \A k \in Nat : P[k] \in Nat /\ P[k] > 0
    BY Powers
  <1>7. CASE j <= t
    <2> DEFINE m == t - j
               b == P[m]
               d == least(m)
    <2>1. m \in Nat /\ j + m = t BY <1>7
    <2>2. w = P[j] * b /\ b \in Nat /\ b > 0
      <3> HIDE DEF m
      <3>1. P[j + m] = P[j] * P[m] BY <2>1, PowerOfSum
      <3> QED BY <1>2, <1>6, <2>1, <3>1
    <2> HIDE DEF m, b
    <2>3. ASSUME NEW v \in Nat, v > 0, v <= P[j], P[j] < 2 * v
          PROVE  Buddy!DepthOfBlockSize(v) = least(m)
      <3>1. b <= w \div v /\ w \div v < 2 * b /\ w \div v \in Nat
        <4> DEFINE a == P[j]
        <4>1. a \in Nat /\ v <= a /\ a < 2 * v /\ w = a * b BY <1>6, <2>2, <2>3
        <4> HIDE DEF a
        <4>2. b <= (a * b) \div v /\ (a * b) \div v < 2 * b /\ (a * b) \div v \in Nat
          BY <2>2, <2>3, <4>1, Quotients
        <4> QED BY <4>1, <4>2
      <3>2. Buddy!FloorLog2(w \div v) = m
        <4> DEFINE q == w \div v
        <4>1. q \in Nat /\ P[m] <= q /\ q < 2 * P[m] BY <3>1 DEF b
        <4> HIDE DEF q
        <4>2. Buddy!FloorLog2(q) = m BY <2>1, <4>1, LogBetween
        <4> QED BY <4>2 DEF q
      <3> QED BY <1>5, <3>2
    <2>4. Buddy!DepthOfBlockSize(s) = least(m) BY <1>3, <2>3
    <2>5. Buddy!DepthOfBlockSize(P[j]) = least(m)
      <3>1. P[j] < 2 * P[j] BY <1>6
      <3> QED BY <1>6, <2>3, <3>1
    <2>6. least(m) \in 0 .. h /\ least(m) <= m BY <1>1, <2>1
    <2>7. s <= Buddy!BlockSize(least(m))
      <3> HIDE DEF d
      <3>1. d \in Nat /\ d \in Depths /\ d <= m BY <1>1, <2>6 DEF d
      <3> DEFINE c == Buddy!BlockSize(d)
                 e == P[d]
                 a == P[j]
      <3>2. c \in Nat /\ c * e = w /\ e \in Nat /\ e > 0
        BY <1>6, <3>1, BlockSizes
      <3>3. e <= b BY <2>1, <3>1, PowersRise DEF b
      <3>4. w = a * b /\ a \in Nat /\ s <= a BY <1>3, <1>6, <2>2
      <3> HIDE DEF c, e, a
      <3>5. a <= c
        <4>1. SUFFICES ASSUME c < a
                       PROVE  FALSE
          BY <3>2, <3>4
        <4>2. c * e < a * e BY <3>2, <3>4, <4>1
        <4>3. a * e <= a * b BY <2>2, <3>2, <3>3, <3>4
        <4> QED BY <2>2, <3>2, <3>4, <4>2, <4>3
      <3>6. s <= c BY <3>2, <3>4, <3>5
      <3> QED BY <3>6 DEF c, d
    <2> QED BY <1>4, <2>4, <2>5, <2>6, <2>7
  <1>8. CASE t < j
    <2>1. 2 * w <= P[j] BY <1>2, <1>8, PowersRise
    <2>2. ASSUME NEW v \in Nat, w < v
          PROVE  Buddy!DepthOfBlockSize(v) = 0
      <3> HIDE DEF w
      <3>1. w \div v = 0 BY <1>1, <2>2
      <3>2. Buddy!FloorLog2(w \div v) = 0 BY <3>1 DEF Buddy!FloorLog2
      <3> QED BY <1>1, <1>5, <3>2
    <2>3. w < s /\ w < P[j]
      <3> HIDE DEF w
      <3> QED BY <1>1, <1>2, <1>3, <1>6, <2>1
    <2> QED BY <1>1, <1>4, <1>6, <2>2, <2>3
  <1> QED BY <1>7, <1>8

\* The split bits tell the depth of a block.
LEMMA DepthFound ==
  ASSUME bHeight \in Heights, NEW p, p \in Blocks(bHeight), Clean(bHeight, bBits, p)
  PROVE  Buddy!GetDepth(p[1]) = p[2]
  <1> DEFINE h == bHeight
             a == p[1]
             d == p[2]
             split == {k \in 0 .. h - 1 : Buddy!Index(a, k) \in bBits}
             c == CHOOSE k \in split : \A e \in split : e <= k
  <1>1. h \in Nat /\ a \in Addresses /\ d \in 0 .. h /\ In(a, p)
    BY BlockSizes, Spans
  <1>2. Buddy!GetDepth(a) = IF split = {} THEN 0 ELSE 1 + c
    BY DEF Buddy!GetDepth, Buddy!SplitBit
  <1>3. /\ \A k \in d .. h - 1 : k \notin split
        /\ d > 0 => d - 1 \in split
    BY <1>1 DEF Clean
  <1>4. \A k \in split : k \in Nat /\ k < d BY <1>1, <1>3
  <1> HIDE DEF split
  <1>5. CASE d = 0
    <2>1. split = {} BY <1>4, <1>5
    <2> QED BY <1>2, <1>5, <2>1
  <1>6. CASE d > 0
    <2>1. \A e \in split : e <= d - 1 BY <1>1, <1>4
    <2>2. c \in split /\ \A e \in split : e <= c BY <1>3, <1>6, <2>1
    <2> HIDE DEF c
    <2>3. c <= d - 1 /\ d - 1 <= c /\ c \in Nat BY <1>3, <1>4, <1>6, <2>1, <2>2
    <2>4. 1 + c = d BY <1>1, <2>3
    <2> QED BY <1>2, <2>2, <2>4
  <1> QED BY <1>1, <1>5, <1>6

\* It holds of what the constructor leaves.
LEMMA BuddyInvAtFirst ==
  ASSUME Buddy!Init
  PROVE  BuddyInv
  <1> DEFINE h == bHeight
             N == Buddy!TrackingLeafBlocks
             s == Buddy!Constructed[N]
  <1>1. h \in Heights /\ bLive = {} /\ bFree = s.free /\ bBits = s.bits
    BY DEF Buddy!Init
  <1>2. Built(h, N, s) BY <1>1, ConstructedBuilt
  <1>3. /\ Listed(h, bFree) /\ SoundBlocks(h, bBits, FreeOf(h, bFree), Tracking(h, N))
        /\ Covered(FreeOf(h, bFree), Tracking(h, N))
    BY <1>1, <1>2 DEF Built
  <1>4. Granted(bLive) = {} /\ Taken(h, bLive) = Tracking(h, N)
    BY <1>1 DEF Granted, Taken
  <1>5. Clients(h, bLive) BY <1>1, <1>4 DEF Clients
  <1> QED BY <1>1, <1>3, <1>4, <1>5 DEF BuddyInv, Buffer

\* Tracking takes the whole of the buffer's front, so no free block is all of it.
LEMMA NeverWhole ==
  ASSUME bHeight \in Heights, NEW F, NEW U, NEW bits, SoundBlocks(bHeight, bits, F, U),
         Tracking(bHeight, Buddy!TrackingLeafBlocks) \subseteq U
  PROVE  \A p \in F : p[2] # 0
  <1> DEFINE h == bHeight
             q == <<0 * Buddy!BlockSize(h), h>>
  <1>1. h \in Depths /\ h \in Nat /\ Buddy!BlockSize(h) \in Nat /\ 0 \in Depths
    BY BlockSizes DEF Depths
  <1>2. q \in U
    <2>1. 0 \in 0 .. Buddy!TrackingLeafBlocks - 1 BY TrackingFits
    <2> QED BY <2>1 DEF Tracking
  <1>3. q \in Blocks(h) BY <1>2 DEF SoundBlocks
  <1>4. q[1] \in Addresses /\ In(q[1], q) BY <1>3, Spans
  <1> HIDE DEF q
  <1> SUFFICES ASSUME NEW p \in F, p[2] = 0
               PROVE  FALSE
    OBVIOUS
  <1>5. p \in Blocks(h) /\ p[1] \in Addresses
    <2>1. p \in Blocks(h) BY DEF SoundBlocks
    <2> QED BY <2>1, Spans
  <1>6. In(q[1], p) BY <1>1, <1>4, <1>5, Nodes DEF In
  <1>7. p = q BY <1>2, <1>4, <1>6 DEF SoundBlocks
  <1> QED BY <1>2, <1>7 DEF SoundBlocks

\* What the invariant says of the next state, where the height stays.
LEMMA BufferAfter ==
  ASSUME bHeight' = bHeight,
         Listed(bHeight, bFree'),
         SoundBlocks(bHeight, bBits', FreeOf(bHeight, bFree'), Taken(bHeight, bLive')),
         Clients(bHeight, bLive'),
         ~bDropped' => Covered(FreeOf(bHeight, bFree'), Taken(bHeight, bLive'))
  PROVE  Buffer'
  <1>1. Buddy!TrackingLeafBlocks' = Buddy!TrackingLeafBlocks
    BY DEF Buddy!TrackingLeafBlocks
  <1>2. ASSUME NEW s
        PROVE  DepthOf(s)' = DepthOf(s)
    BY DEF DepthOf, Buddy!DepthOfBlockSize
  <1>3. Granted(bLive)' = Granted(bLive') BY <1>2 DEF Granted
  <1>4. Taken(bHeight, bLive)' = Taken(bHeight, bLive') BY <1>1, <1>3 DEF Taken
  <1>5. Clients(bHeight, bLive)' = Clients(bHeight, bLive')
    BY <1>1, <1>2, <1>3 DEF Clients
  <1> QED BY <1>4, <1>5 DEF Buffer

\* A block that is allocated is granted to the client.
LEMMA AllocateKeeps ==
  ASSUME BuddyInv, NEW size \in Requests, Buddy!Allocate(size)
  PROVE  BuddyInv'
  <1> DEFINE h == bHeight
             N == Buddy!TrackingLeafBlocks
             s == [free |-> bFree, bits |-> bBits]
             d == DepthOf(size)
             t == Buddy!AllocateAtDepth(s, d)
             a == t.block
             b == [at |-> a, size |-> size]
             F == FreeOf(h, bFree)
             G == FreeOf(h, t.free)
             U == Taken(h, bLive)
             V == With(U, <<a, d>>)
  <1>1. /\ Buddy!FirstFreeDepths(s, d) # {}
        /\ bFree' = t.free /\ bBits' = t.bits
        /\ bLive' = bLive \union {b}
        /\ bHeight' = h /\ bMerged' = bMerged /\ bDropped' = bDropped /\ ~bMerged
    BY DEF Buddy!Allocate, DepthOf
  <1>2. /\ h \in Heights /\ Listed(h, bFree) /\ SoundBlocks(h, bBits, F, U) /\ Clients(h, bLive)
        /\ ~bDropped => Covered(F, U)
    BY <1>1 DEF BuddyInv, Buffer
  <1>3. size \in Nat /\ size > 0 BY LibraryAssumption DEF Buddy!BuddyAssumption
  <1>4. /\ h \in Nat /\ d \in 0 .. h /\ d \in Nat
        /\ d > 0 => size <= Buddy!BlockSize(d)
    BY <1>2, <1>3, BlockSizes, DepthsOfSizes DEF Depths
  <1>5. /\ F \subseteq Blocks(h) /\ F \intersect U = {}
        /\ \A q, r \in F \union U : \A x \in Addresses : In(x, q) /\ In(x, r) => q = r
    BY <1>2 DEF SoundBlocks
  <1>6. s.free = bFree /\ s.bits = bBits OBVIOUS
  <1> HIDE DEF s, d
  <1>7. \E f \in 0 .. d :
          /\ <<t.block, f>> \in FreeOf(h, s.free)
          /\ \A q \in FreeOf(h, s.free) : q[2] \notin f + 1 .. d
          /\ FreeOf(h, t.free) = LessSplit(FreeOf(h, s.free), t.block, f, d)
          /\ t.bits = SplitBits(h, s.bits, t.block, f, d)
          /\ Listed(h, t.free)
    <2>1. Listed(h, s.free) /\ FreeOf(h, s.free) \subseteq Blocks(h)
      BY <1>2, <1>5, <1>6
    <2> HIDE DEF t
    <2>2. t = Buddy!AllocateAtDepth(s, d) BY DEF t
    <2> QED BY <1>1, <1>2, <1>4, <2>1, <2>2, AllocateSplits
  <1> HIDE DEF t
  <1>8. PICK f \in 0 .. d :
          /\ <<a, f>> \in F
          /\ \A q \in F : q[2] \notin f + 1 .. d
          /\ G = LessSplit(F, a, f, d)
          /\ t.bits = SplitBits(h, bBits, a, f, d)
          /\ Listed(h, t.free)
    BY <1>6, <1>7
  <1> HIDE DEF a, F, G, U
  <1>9. /\ SoundBlocks(h, t.bits, G, V) /\ <<a, d>> \notin U
        /\ Covered(F, U) => Covered(G, V)
    <2>1. d \in f .. h /\ f \in Nat BY <1>4, <1>8
    <2>2. /\ SoundBlocks(h, SplitBits(h, bBits, a, f, d), LessSplit(F, a, f, d), With(U, <<a, d>>))
          /\ <<a, d>> \notin U
          /\ Covered(F, U) => Covered(LessSplit(F, a, f, d), With(U, <<a, d>>))
      BY <1>2, <1>8, <2>1, SplitSound
    <2> QED BY <1>8, <2>2
  <1>10. Tracking(h, N) \subseteq U /\ Granted(bLive) \subseteq U
    BY DEF Taken, U
  <1>11. d > 0
    <2>1. f # 0 BY <1>2, <1>8, <1>10, NeverWhole
    <2> QED BY <1>4, <1>8, <2>1
  <1>12. a \in Addresses /\ <<a, d>> \in Blocks(h)
    <2>1. <<a, d>> \in Blocks(h) BY <1>9 DEF SoundBlocks, With
    <2> QED BY <1>2, <2>1, Spans
  <1>13. Granted(bLive') = Granted(bLive) \union {<<a, d>>}
    <2>1. Granted(bLive \union {b}) = Granted(bLive) \union {<<b.at, DepthOf(b.size)>>}
      BY DEF Granted
    <2> QED BY <1>1, <2>1 DEF d
  <1>14. Taken(h, bLive') = V BY <1>13 DEF Taken, V, U, With
  <1>15. Clients(h, bLive')
    <2>1. bLive' \subseteq [at : Addresses, size : Requests]
      BY <1>1, <1>2, <1>12 DEF Clients
    <2>2. Granted(bLive') \intersect Tracking(h, N) = {}
      BY <1>2, <1>9, <1>10, <1>13 DEF Clients
    <2>3. ASSUME NEW c \in bLive, c.at = a
          PROVE  FALSE
      <3> DEFINE q == <<c.at, DepthOf(c.size)>>
      <3>1. q \in Granted(bLive) BY DEF Granted
      <3>2. q \in U /\ q \in V /\ <<a, d>> \in V BY <1>10, <3>1 DEF With
      <3>3. q \in Blocks(h) BY <1>2, <3>2 DEF SoundBlocks
      <3>4. In(a, q)
        <4>1. In(q[1], q) BY <1>2, <3>3, Spans
        <4> QED BY <2>3, <4>1
      <3>5. In(a, <<a, d>>)
        <4>1. In(<<a, d>>[1], <<a, d>>) BY <1>2, <1>12, Spans
        <4> QED BY <4>1
      <3> HIDE DEF q
      <3>6. q = <<a, d>> BY <1>9, <1>12, <3>2, <3>4, <3>5 DEF SoundBlocks
      <3> QED BY <1>9, <3>2, <3>6
    <2>4. \A c, e \in bLive' : c.at = e.at => c = e
      <3>1. b.at = a OBVIOUS
      <3>2. \A c, e \in bLive : c.at = e.at => c = e BY <1>2 DEF Clients
      <3> HIDE DEF b
      <3> QED BY <1>1, <2>3, <3>1, <3>2
    <2>5. \A c \in bLive' : c.size <= Buddy!BlockSize(DepthOf(c.size))
      <3>1. b.size <= Buddy!BlockSize(DepthOf(b.size)) BY <1>4, <1>11 DEF d
      <3>2. \A c \in bLive : c.size <= Buddy!BlockSize(DepthOf(c.size))
        BY <1>2 DEF Clients
      <3> HIDE DEF b
      <3> QED BY <1>1, <3>1, <3>2
    <2> QED BY <2>1, <2>2, <2>4, <2>5 DEF Clients
  <1>16. Buffer'
    <2>1. ~bDropped' => Covered(G, V) BY <1>1, <1>2, <1>9
    <2> HIDE DEF V
    <2> QED BY <1>1, <1>8, <1>9, <1>14, <1>15, <2>1, BufferAfter DEF G
  <1> QED BY <1>1, <1>2, <1>16 DEF BuddyInv

\* A block that is freed is a client's no more; where its buddy is not free, it is free.
LEMMA FreeKeeps ==
  ASSUME BuddyInv, ~bMerged, NEW b \in bLive, bHeight' = bHeight,
         Buddy!DeallocateAtDepth(b.at, DepthOf(b.size)), bLive' = bLive \ {b}
  PROVE  BuddyInv'
  <1> DEFINE h == bHeight
             N == Buddy!TrackingLeafBlocks
             a == b.at
             d == DepthOf(b.size)
             F == FreeOf(h, bFree)
             G == FreeOf(h, bFree')
             U == Taken(h, bLive)
             V == Less(U, <<a, d>>)
  <1> SUFFICES ASSUME ~bMerged'
               PROVE  Buffer'
    BY DEF BuddyInv
  <1>1. /\ h \in Heights /\ Listed(h, bFree) /\ SoundBlocks(h, bBits, F, U) /\ Clients(h, bLive)
        /\ ~bDropped => Covered(F, U)
    BY DEF BuddyInv, Buffer
  <1>2. /\ bLive \subseteq [at : Addresses, size : Requests]
        /\ Granted(bLive) \intersect Tracking(h, N) = {}
        /\ \A c, e \in bLive : c.at = e.at => c = e
        /\ \A c \in bLive : c.size <= Buddy!BlockSize(DepthOf(c.size))
    BY <1>1 DEF Clients
  <1>3. a \in Addresses /\ <<a, d>> \in Granted(bLive) /\ <<a, d>> \in U
    BY <1>2 DEF Granted, Taken
  <1>4. F \intersect U = {} /\ U \subseteq Blocks(h) BY <1>1 DEF SoundBlocks
  <1>5. <<a, d>> \notin F /\ d \in 0 .. h
    <2>1. <<a, d>> \in Blocks(h) BY <1>3, <1>4
    <2> HIDE DEF F, U, a, d
    <2> QED BY <1>3, <1>4, <2>1 DEF Blocks
  <1> HIDE DEF a, d
  <1>6. Buddy!DeallocateAtDepth(a, d) BY DEF a, d
  <1>7. /\ d > 0 => PairBit(h, Buddy!Index(a, d)) \notin bBits
        /\ \E S \in SUBSET {Buddy!Index(a, d)} :
             /\ d = h => S = {}
             /\ bBits' = Buddy!Flip(bBits \ S, {PairBit(h, Buddy!Index(a, d))})
        /\ Listed(h, bFree')
        /\ G \subseteq F \union {<<a, d>>}
        /\ ~bDropped' => ~bDropped /\ G = F \union {<<a, d>>}
    BY <1>1, <1>3, <1>5, <1>6, DeallocatePushes
  <1>8. PICK S \in SUBSET {Buddy!Index(a, d)} :
          /\ d = h => S = {}
          /\ bBits' = Buddy!Flip(bBits \ S, {PairBit(h, Buddy!Index(a, d))})
    BY <1>7
  <1> HIDE DEF F, G, U
  <1>9. /\ SoundBlocks(h, bBits', G, V)
        /\ Covered(F, U) /\ G = F \union {<<a, d>>} => Covered(G, V)
    <2>1. S \subseteq {Buddy!Index(a, d)} /\ bBits' = FreedBits(h, bBits, S, a, d)
      BY <1>8 DEF FreedBits
    <2>2. /\ SoundBlocks(h, FreedBits(h, bBits, S, a, d), G, Less(U, <<a, d>>))
          /\ Covered(F, U) /\ G = F \union {<<a, d>>} => Covered(G, Less(U, <<a, d>>))
      BY <1>1, <1>3, <1>7, <1>8, <2>1, FreeSound
    <2> QED BY <2>1, <2>2
  <1>10. Granted(bLive') = Granted(bLive) \ {<<a, d>>}
    <2>1. ASSUME NEW c \in bLive
          PROVE  <<c.at, DepthOf(c.size)>> = <<a, d>> <=> c = b
      BY <1>2, <2>1 DEF a, d
    <2>2. \A c : c \in bLive' <=> c \in bLive /\ c # b OBVIOUS
    <2>3. Granted(bLive') = {<<c.at, DepthOf(c.size)>> : c \in bLive'}
          /\ Granted(bLive) = {<<c.at, DepthOf(c.size)>> : c \in bLive}
      BY DEF Granted
    <2> QED BY <2>1, <2>2, <2>3
  <1>11. Taken(h, bLive') = V
    <2>1. <<a, d>> \notin Tracking(h, N) BY <1>2, <1>3
    <2> QED BY <1>10, <2>1 DEF Taken, U, Less
  <1>12. Clients(h, bLive')
    <2>1. bLive' \subseteq bLive /\ Granted(bLive') \subseteq Granted(bLive)
      BY <1>10
    <2> QED BY <1>2, <2>1 DEF Clients
  <1>13. ~bDropped' => Covered(G, V) BY <1>1, <1>7, <1>9
  <1> HIDE DEF V
  <1> QED BY <1>7, <1>9, <1>11, <1>12, <1>13, BufferAfter DEF G

\* The depth of a client's block is found in the split bits, and from its size.
LEMMA DepthsFound ==
  ASSUME BuddyInv, ~bMerged, NEW b \in bLive
  PROVE  /\ Buddy!GetDepth(b.at) = DepthOf(b.size)
         /\ Buddy!DepthOfBlockSize(b.size) = DepthOf(b.size)
  <1> DEFINE p == <<b.at, DepthOf(b.size)>>
  <1>1. /\ bHeight \in Heights /\ Clients(bHeight, bLive)
        /\ SoundBlocks(bHeight, bBits, FreeOf(bHeight, bFree), Taken(bHeight, bLive))
    BY DEF BuddyInv, Buffer
  <1>2. p \in Taken(bHeight, bLive) BY DEF Taken, Granted
  <1>3. p \in Blocks(bHeight) /\ Clean(bHeight, bBits, p)
    BY <1>1, <1>2 DEF SoundBlocks
  <1>4. Buddy!GetDepth(p[1]) = p[2]
    <2> HIDE DEF p
    <2> QED BY <1>1, <1>3, DepthFound
  <1>5. b.size \in Nat /\ b.size > 0
    <2>1. b \in [at : Addresses, size : Requests] BY <1>1 DEF Clients
    <2>2. b.size \in Requests /\ \A s \in Requests : s \in Nat /\ s > 0
      BY <2>1, LibraryAssumption DEF Buddy!BuddyAssumption
    <2> QED BY <2>2
  <1>6. Buddy!DepthOfBlockSize(b.size) = DepthOf(b.size)
    BY <1>1, <1>5, DepthsOfSizes
  <1> QED BY <1>4, <1>6

\* Every step keeps the invariant.
LEMMA BuddyInvKept ==
  ASSUME BuddyInv, [Buddy!Next]_buddyVars
  PROVE  BuddyInv'
  <1>1. ASSUME NEW size \in Requests, Buddy!Allocate(size)
        PROVE  BuddyInv'
    BY <1>1, AllocateKeeps
  <1>2. ASSUME NEW b \in bLive, Buddy!Deallocate(b)
        PROVE  BuddyInv'
    <2>1. ~bMerged /\ bHeight' = bHeight /\ bLive' = bLive \ {b}
          /\ Buddy!DeallocateAtDepth(b.at, DepthOf(b.size))
      BY <1>2, DepthsFound DEF Buddy!Deallocate
    <2> QED BY <2>1, FreeKeeps
  <1>3. ASSUME NEW b \in bLive, Buddy!DeallocateSized(b)
        PROVE  BuddyInv'
    <2>1. ~bMerged /\ bHeight' = bHeight /\ bLive' = bLive \ {b}
          /\ Buddy!DeallocateAtDepth(b.at, DepthOf(b.size))
      BY <1>3, DepthsFound DEF Buddy!DeallocateSized
    <2> QED BY <2>1, FreeKeeps
  <1>4. ASSUME UNCHANGED buddyVars
        PROVE  BuddyInv'
    <2>1. /\ bHeight' = bHeight /\ bFree' = bFree /\ bBits' = bBits /\ bLive' = bLive
          /\ bMerged' = bMerged /\ bDropped' = bDropped
      BY <1>4 DEF buddyVars
    <2>2. Buffer => Buffer' BY <2>1, BufferAfter DEF Buffer
    <2> QED BY <2>1, <2>2 DEF BuddyInv
  <1> QED BY <1>1, <1>2, <1>3, <1>4 DEF Buddy!Next

\* A leaf is in a block where its first byte is; what was asked for is in the block.
LEMMA LeavesIn ==
  ASSUME bHeight \in Heights, NEW p \in Blocks(bHeight), NEW l \in 0 .. Buddy!Pow2[MaxHeight] - 1
  PROVE  /\ LeafSize * l \in Addresses
         /\ l \in Buddy!Leaves(p[1], p[2]) <=> In(LeafSize * l, p)
         /\ \A n \in Nat : n > 0 /\ n <= Buddy!BlockSize(p[2]) =>
              (l \in p[1] \div LeafSize .. (p[1] + n - 1) \div LeafSize
                 => l \in Buddy!Leaves(p[1], p[2]))
  <1> DEFINE a == p[1]
             d == p[2]
             q == Buddy!Pow2[MaxHeight]
             s == Buddy!Pow2[MaxHeight - d]
             m == s * Node(a, d)
             x == LeafSize * l
             b == Buddy!BlockSize(d)
  <1>1. /\ LeafSize \in Nat \ {0} /\ MaxHeight \in Nat /\ q \in Nat /\ q > 0
        /\ Buddy!Total = LeafSize * q /\ l \in Nat /\ l < q
    <2>1. LeafSize \in Nat \ {0} /\ MaxHeight \in Nat BY BlockSizes
    <2>2. q \in Nat /\ q > 0 BY <2>1, Powers
    <2> QED BY <2>1, <2>2 DEF Buddy!Total
  <1>2. x \in Addresses
    <2> HIDE DEF q
    <2>1. LeafSize * l < LeafSize * q /\ LeafSize * l \in Nat BY <1>1
    <2> QED BY <1>1, <2>1 DEF Addresses
  <1>3. /\ a \in Addresses /\ d \in Depths /\ d \in Nat /\ d <= MaxHeight
        /\ a = b * Node(a, d) /\ Node(a, d) \in Nat
        /\ \A y \in Addresses : In(y, p) <=> a <= y /\ y < a + b
    <2>1. /\ a \in Addresses /\ d \in Depths /\ a = b * Node(a, d)
          /\ \A y \in Addresses : In(y, p) <=> a <= y /\ y < a + b
      BY Spans
    <2> QED BY <1>1, <2>1, Nodes DEF Depths
  <1>4. b = LeafSize * s /\ s \in Nat /\ s > 0
    <2>1. MaxHeight - d \in Nat BY <1>1, <1>3
    <2> QED BY <1>3, <2>1, BlockSizes, Powers
  <1> DEFINE n == Node(a, d)
  <1> HIDE DEF q, s, x, b, n
  <1>5. n \in Nat /\ a = b * n /\ m = s * n /\ m \in Nat BY <1>3, <1>4 DEF n
  <1>6. a = LeafSize * m /\ a + b = LeafSize * (m + s)
    <2>1. (LeafSize * s) * n = LeafSize * (s * n) BY <1>1, <1>4, <1>5
    <2>2. LeafSize * (m + s) = LeafSize * m + LeafSize * s BY <1>1, <1>4, <1>5
    <2> QED BY <1>4, <1>5, <2>1, <2>2
  <1> HIDE DEF m
  <1>7. \A e \in Nat : (LeafSize * e) \div LeafSize = e
    <2> TAKE e \in Nat
    <2>1. 0 \in 0 .. LeafSize - 1 /\ LeafSize * e = LeafSize * e + 0 BY <1>1
    <2> QED BY <1>1, <2>1, BlockOfBit
  <1>8. a \div LeafSize = m /\ (a + b) \div LeafSize = m + s
    BY <1>4, <1>5, <1>6, <1>7
  <1>9. \A i, j \in Nat : (i <= j <=> LeafSize * i <= LeafSize * j)
    <2> TAKE i, j \in Nat
    <2>1. i <= j => LeafSize * i <= LeafSize * j BY <1>1
    <2>2. ASSUME LeafSize * i <= LeafSize * j, j < i
          PROVE  FALSE
      <3>1. LeafSize * (j + 1) <= LeafSize * i /\ LeafSize * (j + 1) = LeafSize * j + LeafSize
        BY <1>1, <2>2
      <3> QED BY <1>1, <2>2, <3>1
    <2> QED BY <2>1, <2>2
  <1>10. l \in Buddy!Leaves(a, d) <=> m <= l /\ l < m + s
    <2>1. Buddy!Leaves(a, d) = m .. (m + s) - 1 BY <1>8 DEF Buddy!Leaves, b
    <2> QED BY <1>1, <1>4, <1>5, <2>1
  <1>11. (m <= l <=> a <= x) /\ (l < m + s <=> x < a + b)
    <2>1. m <= l <=> LeafSize * m <= LeafSize * l BY <1>1, <1>5, <1>9
    <2>2. m + s <= l <=> LeafSize * (m + s) <= LeafSize * l
      BY <1>1, <1>4, <1>5, <1>9
    <2>3. LeafSize * l \in Nat /\ LeafSize * (m + s) \in Nat /\ x = LeafSize * l
      BY <1>1, <1>4, <1>5 DEF x
    <2> DEFINE u == LeafSize * l
               v == LeafSize * (m + s)
               w == LeafSize * m
    <2> HIDE DEF u, v, w
    <2>4. /\ m <= l <=> w <= u
          /\ m + s <= l <=> v <= u
          /\ u \in Nat /\ v \in Nat /\ x = u /\ a = w /\ a + b = v
      BY <1>6, <2>1, <2>2, <2>3 DEF u, v, w
    <2> QED BY <1>1, <1>4, <1>5, <2>4
  <1>12. l \in Buddy!Leaves(a, d) <=> In(x, p) BY <1>2, <1>3, <1>10, <1>11
  <1>13. ASSUME NEW k \in Nat, k > 0, k <= b, l \in a \div LeafSize .. (a + k - 1) \div LeafSize
         PROVE  l \in Buddy!Leaves(a, d)
    <2> DEFINE y == a + k - 1
               e == y \div LeafSize
    <2>1. y \in Nat /\ y < a + b /\ a + b = LeafSize * (m + s)
      BY <1>3, <1>4, <1>6, <1>13 DEF Addresses
    <2> HIDE DEF y
    <2>2. e \in Nat /\ LeafSize * e <= y BY <1>1, <2>1, InBlock
    <2> HIDE DEF e
    <2>3. LeafSize * e < LeafSize * (m + s) BY <1>1, <1>4, <1>5, <2>1, <2>2
    <2>4. e < m + s
      <3>1. m + s <= e => LeafSize * (m + s) <= LeafSize * e
        BY <1>4, <1>5, <1>9, <2>2
      <3> QED BY <1>1, <1>4, <1>5, <2>2, <2>3, <3>1
    <2>5. m <= l /\ l <= e BY <1>1, <1>5, <1>8, <1>13, <2>2 DEF e, y
    <2> QED BY <1>1, <1>4, <1>5, <1>10, <2>2, <2>4, <2>5
  <1> QED BY <1>2, <1>12, <1>13 DEF x, b

\* The blocks of the free lists.
LEMMA FreeBlocksOf ==
  ASSUME Listed(bHeight, bFree)
  PROVE  Buddy!FreeBlocks = FreeOf(bHeight, bFree)
  <1> DEFINE h == bHeight
  <1>1. bFree \in [0 .. h -> Seq(Addresses)] BY DEF Listed
  <1>2. ASSUME NEW p \in Buddy!FreeBlocks
        PROVE  p \in FreeOf(h, bFree)
    <2>1. PICK k \in 0 .. h : \E i \in DOMAIN bFree[k] : p = <<bFree[k][i], k>>
      BY <1>2 DEF Buddy!FreeBlocks
    <2>2. PICK i \in DOMAIN bFree[k] : p = <<bFree[k][i], k>> BY <2>1
    <2>3. bFree[k] \in Seq(Addresses) BY <1>1
    <2>4. bFree[k][i] \in Addresses BY <2>3
    <2> QED BY <2>2, <2>4 DEF FreeOf
  <1>3. ASSUME NEW p \in FreeOf(h, bFree)
        PROVE  p \in Buddy!FreeBlocks
    <2>1. /\ p[2] \in 0 .. h /\ p = <<p[1], p[2]>>
          /\ \E i \in DOMAIN bFree[p[2]] : bFree[p[2]][i] = p[1]
      BY <1>3 DEF FreeOf
    <2> DEFINE k == p[2]
    <2>2. p \in {<<bFree[k][i], k>> : i \in DOMAIN bFree[k]} BY <2>1
    <2> QED BY <2>1, <2>2 DEF Buddy!FreeBlocks
  <1> QED BY <1>2, <1>3

\* A leaf is held by the tracking block, the client's block or the listed block that
\* has the leaf's address, and by nothing else.
LEMMA HoldersOfLeaf ==
  ASSUME BuddyInv, ~bMerged, NEW l \in 0 .. Buddy!Pow2[MaxHeight] - 1
  PROVE  /\ LeafSize * l \in Addresses
         /\ \A r : r \in Buddy!Holders(l)
                     <=> IsTracking(r, LeafSize * l) \/ IsClient(r, LeafSize * l)
                           \/ IsListed(r, LeafSize * l)
  <1> DEFINE h == bHeight
             N == Buddy!TrackingLeafBlocks
             x == LeafSize * l
             F == FreeOf(h, bFree)
             tracking == {<<"tracking", i>> : i \in {j \in 1 .. N :
                            l \in Buddy!Leaves((j - 1) * Buddy!BlockSize(h), h)}}
             clients == {<<"live", b.at, b.size>> : b \in {c \in bLive :
                           \/ l \in Buddy!Leaves(c.at, DepthOf(c.size))
                           \/ l \in c.at \div LeafSize .. (c.at + c.size - 1) \div LeafSize}}
             frees == {<<"free", b[1], b[2]>> : b \in {c \in F : l \in Buddy!Leaves(c[1], c[2])}}
  <1>1. /\ h \in Heights /\ Listed(h, bFree) /\ Clients(h, bLive)
        /\ F \subseteq Blocks(h) /\ Taken(h, bLive) \subseteq Blocks(h)
    BY DEF BuddyInv, Buffer, SoundBlocks
  <1>2. N \in Nat /\ N > 0 BY <1>1, TrackingFits
  <1>3. ASSUME NEW p, p \in Blocks(h)
        PROVE  /\ x \in Addresses /\ (l \in Buddy!Leaves(p[1], p[2]) <=> In(x, p))
               /\ \A n \in Nat : n > 0 /\ n <= Buddy!BlockSize(p[2]) =>
                    (l \in p[1] \div LeafSize .. (p[1] + n - 1) \div LeafSize
                       => l \in Buddy!Leaves(p[1], p[2]))
    BY <1>1, <1>3, LeavesIn
  <1>4. Buddy!Holders(l) = tracking \union clients \union frees
    <2>1. Buddy!FreeBlocks = F BY <1>1, FreeBlocksOf
    <2> QED BY <2>1 DEF Buddy!Holders, DepthOf
  <1>5. ASSUME NEW j \in 0 .. N - 1
        PROVE  <<j * Buddy!BlockSize(h), h>> \in Blocks(h)
    BY <1>1 DEF Taken, Tracking
  <1>6. x \in Addresses
    <2>1. 0 \in 0 .. N - 1 BY <1>2
    <2>2. \E p : p \in Blocks(h) BY <1>5, <2>1
    <2> QED BY <1>3, <2>2
  <1>7. ASSUME NEW r
        PROVE  r \in tracking <=> IsTracking(r, x)
    <2>1. ASSUME NEW i \in 1 .. N
          PROVE  l \in Buddy!Leaves((i - 1) * Buddy!BlockSize(h), h)
                   <=> In(x, <<(i - 1) * Buddy!BlockSize(h), h>>)
      <3> DEFINE p == <<(i - 1) * Buddy!BlockSize(h), h>>
      <3>1. i - 1 \in 0 .. N - 1 BY <1>2
      <3>2. p \in Blocks(h) BY <1>5, <3>1
      <3>3. l \in Buddy!Leaves(p[1], p[2]) <=> In(x, p)
        <4> HIDE DEF p
        <4> QED BY <1>3, <3>2
      <3> QED BY <3>3
    <2>2. r \in tracking <=> \E i \in 1 .. N : /\ r = <<"tracking", i>>
                                               /\ In(x, <<(i - 1) * Buddy!BlockSize(h), h>>)
      BY <2>1
    <2>3. ASSUME NEW i \in 1 .. N, r = <<"tracking", i>>,
                 In(x, <<(i - 1) * Buddy!BlockSize(h), h>>)
          PROVE  IsTracking(r, x)
      <3>1. i - 1 \in 0 .. N - 1 /\ (i - 1) + 1 = i BY <1>2
      <3> QED BY <2>3, <3>1 DEF IsTracking
    <2>4. ASSUME NEW j \in 0 .. N - 1, r = <<"tracking", j + 1>>,
                 In(x, <<j * Buddy!BlockSize(h), h>>)
          PROVE  r \in tracking
      <3>1. j + 1 \in 1 .. N /\ (j + 1) - 1 = j BY <1>2
      <3> HIDE DEF tracking
      <3> QED BY <2>2, <2>4, <3>1
    <2> HIDE DEF tracking
    <2> QED BY <2>2, <2>3, <2>4 DEF IsTracking
  <1>8. ASSUME NEW r
        PROVE  r \in clients <=> IsClient(r, x)
    <2>1. ASSUME NEW c \in bLive
          PROVE  (\/ l \in Buddy!Leaves(c.at, DepthOf(c.size))
                  \/ l \in c.at \div LeafSize .. (c.at + c.size - 1) \div LeafSize)
                   <=> In(x, <<c.at, DepthOf(c.size)>>)
      <3> DEFINE p == <<c.at, DepthOf(c.size)>>
      <3>1. p \in Blocks(h) BY <1>1 DEF Taken, Granted
      <3>2. c.size \in Nat /\ c.size > 0 /\ c.size <= Buddy!BlockSize(DepthOf(c.size))
        <4>1. c \in [at : Addresses, size : Requests] /\ \A s \in Requests : s \in Nat /\ s > 0
          BY <1>1, LibraryAssumption DEF Clients, Buddy!BuddyAssumption
        <4>2. c.size <= Buddy!BlockSize(DepthOf(c.size)) BY <1>1 DEF Clients
        <4> QED BY <4>1, <4>2
      <3>3. p[1] = c.at /\ p[2] = DepthOf(c.size) OBVIOUS
      <3> HIDE DEF p
      <3>4. /\ l \in Buddy!Leaves(p[1], p[2]) <=> In(x, p)
            /\ \A n \in Nat : n > 0 /\ n <= Buddy!BlockSize(p[2]) =>
                 (l \in p[1] \div LeafSize .. (p[1] + n - 1) \div LeafSize
                    => l \in Buddy!Leaves(p[1], p[2]))
        BY <1>3, <3>1
      <3>5. l \in c.at \div LeafSize .. (c.at + c.size - 1) \div LeafSize
              => l \in Buddy!Leaves(c.at, DepthOf(c.size))
        BY <3>2, <3>3, <3>4
      <3>6. l \in Buddy!Leaves(c.at, DepthOf(c.size)) <=> In(x, p) BY <3>3, <3>4
      <3> QED BY <3>5, <3>6 DEF p
    <2> QED BY <2>1 DEF IsClient
  <1>9. ASSUME NEW r
        PROVE  r \in frees <=> IsListed(r, x)
    <2>1. \A p \in F : l \in Buddy!Leaves(p[1], p[2]) <=> In(x, p) BY <1>1, <1>3
    <2> QED BY <2>1 DEF IsListed
  <1> HIDE DEF tracking, clients, frees
  <1> QED BY <1>4, <1>6, <1>7, <1>8, <1>9

\* No leaf has two holders, and none has no holder while no list was dropped.
LEMMA LeavesAccounted ==
  ASSUME BuddyInv
  PROVE  Buddy!NothingShared /\ Buddy!NothingLost
  <1> SUFFICES ASSUME ~bMerged, NEW l \in 0 .. Buddy!Pow2[MaxHeight] - 1
               PROVE  /\ \A r, s \in Buddy!Holders(l) : r = s
                      /\ ~bDropped => Buddy!Holders(l) # {}
    BY DEF Buddy!NothingShared, Buddy!NothingLost
  <1> DEFINE h == bHeight
             N == Buddy!TrackingLeafBlocks
             x == LeafSize * l
             F == FreeOf(h, bFree)
             U == Taken(h, bLive)
             b(j) == <<j * Buddy!BlockSize(h), h>>
             c(a) == <<a.at, DepthOf(a.size)>>
  <1>1. /\ h \in Heights /\ Clients(h, bLive) /\ F \intersect U = {}
        /\ \A p, q \in F \union U : \A y \in Addresses : In(y, p) /\ In(y, q) => p = q
        /\ ~bDropped => Covered(F, U)
    BY DEF BuddyInv, Buffer, SoundBlocks
  <1>2. /\ x \in Addresses
        /\ \A r : r \in Buddy!Holders(l) <=> IsTracking(r, x) \/ IsClient(r, x) \/ IsListed(r, x)
    BY HoldersOfLeaf
  <1> HIDE DEF x, F
  <1>3. ASSUME NEW r, IsTracking(r, x)
        PROVE  \E j \in 0 .. N - 1 : r = <<"tracking", j + 1>> /\ In(x, b(j)) /\ b(j) \in U
    BY <1>3 DEF IsTracking, Tracking, Taken
  <1>4. ASSUME NEW r, IsClient(r, x)
        PROVE  \E a \in bLive : /\ r = <<"live", a.at, a.size>> /\ In(x, c(a)) /\ c(a) \in U
                                /\ \A j \in 0 .. N - 1 : c(a) # b(j)
    <2>1. PICK a \in bLive : r = <<"live", a.at, a.size>> /\ In(x, c(a))
      BY <1>4 DEF IsClient
    <2>2. c(a) \in Granted(bLive) BY DEF Granted
    <2>3. c(a) \in U /\ c(a) \notin Tracking(h, N)
      BY <1>1, <2>2 DEF Taken, Clients
    <2> QED BY <2>1, <2>3 DEF Tracking
  <1>5. ASSUME NEW r, IsListed(r, x)
        PROVE  \E p \in F : r = <<"free", p[1], p[2]>> /\ In(x, p) /\ p \notin U
    BY <1>1, <1>5 DEF IsListed, F
  <1>6. ASSUME NEW r, NEW s, IsTracking(r, x), IsTracking(s, x)
        PROVE  r = s
    <2>1. PICK i \in 0 .. N - 1 : r = <<"tracking", i + 1>> /\ In(x, b(i)) /\ b(i) \in U
      BY <1>3, <1>6
    <2>2. PICK j \in 0 .. N - 1 : s = <<"tracking", j + 1>> /\ In(x, b(j)) /\ b(j) \in U
      BY <1>3, <1>6
    <2>3. i * Buddy!BlockSize(h) = j * Buddy!BlockSize(h)
      <3>1. b(i) = b(j) BY <1>1, <1>2, <2>1, <2>2
      <3> QED BY <3>1
    <2>4. Buddy!BlockSize(h) \in Nat \ {0} /\ i \in Nat /\ j \in Nat
      BY <1>1, BlockSizes
    <2>5. i = j
      <3> DEFINE w == Buddy!BlockSize(h)
      <3> HIDE DEF w
      <3>1. w \in Nat \ {0} /\ w * i + 0 = w * j + 0 /\ 0 \in 0 .. w - 1
        BY <2>3, <2>4 DEF w
      <3>2. (w * i + 0) \div w = i /\ (w * j + 0) \div w = j
        BY <2>4, <3>1, BlockOfBit
      <3> QED BY <3>1, <3>2
    <2> QED BY <2>1, <2>2, <2>5
  <1>7. ASSUME NEW r, NEW s, IsClient(r, x), IsClient(s, x)
        PROVE  r = s
    <2>1. PICK a \in bLive : r = <<"live", a.at, a.size>> /\ In(x, c(a)) /\ c(a) \in U
      BY <1>4, <1>7
    <2>2. PICK e \in bLive : s = <<"live", e.at, e.size>> /\ In(x, c(e)) /\ c(e) \in U
      BY <1>4, <1>7
    <2>3. c(a) = c(e) BY <1>1, <1>2, <2>1, <2>2
    <2>4. a = e BY <1>1, <2>3 DEF Clients
    <2> QED BY <2>1, <2>2, <2>4
  <1>8. ASSUME NEW r, NEW s, IsListed(r, x), IsListed(s, x)
        PROVE  r = s
    <2>1. PICK p \in F : r = <<"free", p[1], p[2]>> /\ In(x, p) BY <1>5, <1>8
    <2>2. PICK q \in F : s = <<"free", q[1], q[2]>> /\ In(x, q) BY <1>5, <1>8
    <2>3. p = q BY <1>1, <1>2, <2>1, <2>2
    <2> QED BY <2>1, <2>2, <2>3
  <1>9. ASSUME NEW r, NEW s, IsTracking(r, x), IsClient(s, x)
        PROVE  FALSE
    <2>1. PICK i \in 0 .. N - 1 : In(x, b(i)) /\ b(i) \in U BY <1>3, <1>9
    <2>2. PICK a \in bLive : In(x, c(a)) /\ c(a) \in U /\ \A j \in 0 .. N - 1 : c(a) # b(j)
      BY <1>4, <1>9
    <2>3. c(a) = b(i) BY <1>1, <1>2, <2>1, <2>2
    <2> QED BY <2>2, <2>3
  <1>10. ASSUME NEW r, NEW s, IsTracking(r, x) \/ IsClient(r, x), IsListed(s, x)
         PROVE  FALSE
    <2>1. \E p \in U : In(x, p) BY <1>3, <1>4, <1>10
    <2>2. PICK p \in U : In(x, p) BY <2>1
    <2>3. PICK q \in F : In(x, q) /\ q \notin U BY <1>5, <1>10
    <2>4. p = q BY <1>1, <1>2, <2>2, <2>3
    <2> QED BY <2>2, <2>3, <2>4
  <1>11. \A r, s \in Buddy!Holders(l) : r = s
    BY <1>2, <1>6, <1>7, <1>8, <1>9, <1>10
  <1>12. ASSUME ~bDropped
         PROVE  \E r : r \in Buddy!Holders(l)
    <2>1. PICK p \in F \union U : In(x, p) BY <1>1, <1>2, <1>12 DEF Covered
    <2>2. CASE p \in F
      <3>1. IsListed(<<"free", p[1], p[2]>>, x) BY <2>1, <2>2 DEF IsListed, F
      <3> QED BY <1>2, <3>1
    <2>3. CASE p \in Tracking(h, N)
      <3>1. PICK j \in 0 .. N - 1 : p = b(j) BY <2>3 DEF Tracking
      <3>2. IsTracking(<<"tracking", j + 1>>, x) BY <2>1, <3>1 DEF IsTracking
      <3> QED BY <1>2, <3>2
    <2>4. CASE p \in Granted(bLive)
      <3>1. PICK a \in bLive : p = c(a) BY <2>4 DEF Granted
      <3>2. IsClient(<<"live", a.at, a.size>>, x) BY <2>1, <3>1 DEF IsClient
      <3> QED BY <1>2, <3>2
    <2> QED BY <2>1, <2>2, <2>3, <2>4 DEF Taken
  <1> QED BY <1>11, <1>12

\* No two buddies are free, and the depth of a block is found.
LEMMA BuddiesTold ==
  ASSUME BuddyInv
  PROVE  Buddy!BuddiesMerge /\ Buddy!DepthRecovered
  <1> SUFFICES ASSUME ~bMerged
               PROVE  Buddy!BuddiesMerge /\ Buddy!DepthRecovered
    BY DEF Buddy!BuddiesMerge, Buddy!DepthRecovered
  <1> DEFINE h == bHeight
             F == FreeOf(h, bFree)
  <1>1. /\ h \in Heights /\ Listed(h, bFree) /\ F \subseteq Blocks(h)
        /\ \A p, q \in F :
             p[2] = q[2] /\ p[2] > 0 /\ Node(p[1], p[2] - 1) = Node(q[1], p[2] - 1) => p = q
    BY DEF BuddyInv, Buffer, SoundBlocks
  <1>2. Buddy!FreeBlocks = F BY <1>1, FreeBlocksOf
  <1>3. ASSUME NEW p \in F, NEW q \in F, p[2] = q[2], p[2] > 0,
               (Buddy!Index(p[1], p[2]) + 1) \div 2 = (Buddy!Index(q[1], q[2]) + 1) \div 2
        PROVE  p = q
    <2>1. p \in Blocks(h) /\ q \in Blocks(h) BY <1>1
    <2>2. p[1] \in Addresses /\ q[1] \in Addresses /\ p[2] \in 0 .. h
      BY <1>1, <2>1, Spans
    <2>3. PairBit(h, Buddy!Index(p[1], p[2])) = PairBit(h, Buddy!Index(q[1], q[2]))
      BY <1>3 DEF PairBit
    <2>4. Node(p[1], p[2] - 1) = Node(q[1], p[2] - 1)
      BY <1>1, <1>3, <2>2, <2>3, PairsApart
    <2> QED BY <1>1, <1>3, <2>4
  <1>4. Buddy!BuddiesMerge
    <2> HIDE DEF F
    <2> QED BY <1>2, <1>3 DEF Buddy!BuddiesMerge
  <1>5. Buddy!DepthRecovered BY DepthsFound DEF Buddy!DepthRecovered, DepthOf
  <1> QED BY <1>4, <1>5

\* The invariant holds in every state of every behaviour.
LEMMA BuddyInvAlways == LibrarySpec => []BuddyInv
  <1>1. LibraryInit => BuddyInv BY BuddyInvAtFirst DEF LibraryInit, LibraryStart
  <1>2. BuddyInv /\ [LibraryNext]_libraryVars => BuddyInv'
    BY BuddyInvKept DEF LibraryNext, libraryVars
  <1> QED BY <1>1, <1>2, PTL DEF LibrarySpec

\* Whatever sizes clients ask for and free, in whichever order, and whatever the
\* height that the constructor finds: until the first merge, each byte of the buffer
\* belongs to one client, to the tracking bits or to one free block, and to one of
\* them exactly until a list of several is pushed to (allocate_at_depth and
\* deallocate_at_depth of src/src/buddy_allocator.cpp).
THEOREM BlocksStayAccounted == LibrarySpec => []BlocksAccounted
  <1>1. BuddyInv => BlocksAccounted BY LeavesAccounted DEF BlocksAccounted
  <1> QED BY <1>1, BuddyInvAlways, PTL

\* Until then no two buddies are free together, and both ways of freeing a block find
\* the depth that it was allocated at (get_depth and depth_of_block_size).
THEOREM BuddiesStayFound == LibrarySpec => []BuddiesFound
  <1>1. BuddyInv => BuddiesFound BY BuddiesTold DEF BuddiesFound
  <1> QED BY <1>1, BuddyInvAlways, PTL

----------------------------------------------------------------------------
(* Emtypen: every file of any number of cursors.                           *)

\* Its parents are numbers.
LEMMA RootedFacts ==
  ASSUME NEW f, Rooted(f)
  PROVE  /\ Len(f) \in Nat /\ DOMAIN f = 1 .. Len(f)
         /\ \A m \in 1 .. Len(f) : f[m].parent \in Nat /\ f[m].parent < m
  <1>1. Len(f) \in Nat /\ DOMAIN f = 1 .. Len(f) BY DEF Rooted
  <1>2. \A m \in 1 .. Len(f) : f[m] \in Cursors /\ f[m].parent < m
    BY <1>1 DEF Rooted
  <1>3. \A c \in Cursors : c.parent \in Nat BY DEF Cursors
  <1> QED BY <1>1, <1>2, <1>3

\* The cursors met on the way up from n are the members of a run that has reached 0
\* after as many steps as there are cursors.
LEMMA WayUp ==
  ASSUME NEW f, Rooted(f), NEW n \in 0 .. Len(f)
  PROVE  \E u \in [Nat -> Nat] : GoesUp(f, n, u)
  <1> DEFINE L == Len(f)
             S == 0 .. L
             climb == [m \in S |-> IF m = 0 THEN 0 ELSE f[m].parent]
             next == [k \in Nat |-> climb]
  <1>0. L \in Nat BY RootedFacts
  <1>1. L \in Nat /\ DOMAIN f = 1 .. L /\ \A m \in 1 .. L : f[m].parent \in Nat /\ f[m].parent < m
    BY RootedFacts
  <1>2. climb \in [S -> S] /\ \A m \in S : climb[m] = (IF m = 0 THEN 0 ELSE f[m].parent)
                                           /\ (m # 0 => climb[m] < m)
    BY <1>1
  <1>3. next \in [Nat -> [S -> S]] /\ n \in S
    <2> HIDE DEF climb, S
    <2> QED BY <1>2 DEF S
  <1>4. \A x : x \in S <=> x \in Nat /\ x <= L BY <1>0
  <1> HIDE DEF S
  <1>5. PICK u \in [Nat -> S] : u[0] = n /\ \A k \in Nat : u[k + 1] = climb[u[k]]
    <2>1. PICK u \in [Nat -> S] : Runs(u, n, next)
      <3> HIDE DEF next
      <3> QED BY <1>3, RunExists
    <2>2. u[0] = n /\ \A k \in Nat : u[k + 1] = next[k][u[k]]
      <3> HIDE DEF next
      <3> QED BY <2>1 DEF Runs
    <2> HIDE DEF climb
    <2>3. \A k \in Nat : next[k] = climb OBVIOUS
    <2> QED BY <2>2, <2>3
  <1> HIDE DEF climb, next
  <1>9. u \in [Nat -> Nat] /\ \A k \in Nat : u[k] \in S /\ u[k] \in Nat /\ u[k] <= L
    BY <1>4, <1>5
  <1>10. n \in Nat /\ n <= L BY <1>0
  <1>6. \A k \in Nat : u[k + 1] = IF u[k] = 0 THEN 0 ELSE f[u[k]].parent
    BY <1>2, <1>5, <1>9
  <1>7. \A k \in Nat : k > n => u[k] = 0
    <2> DEFINE T == {k \in Nat : u[k] = 0 \/ u[k] + k <= n}
    <2>1. 0 \in T BY <1>1, <1>5
    <2>2. ASSUME NEW k \in Nat, k \in T
          PROVE  k + 1 \in T
      <3>1. u[k] \in S /\ u[k + 1] = climb[u[k]] BY <1>5, <1>9
      <3>2. CASE u[k] = 0 BY <1>2, <3>1, <3>2
      <3>3. CASE u[k] # 0
        <4>1. climb[u[k]] < u[k] /\ climb[u[k]] \in S /\ u[k] + k <= n
          BY <1>2, <2>2, <3>1, <3>3
        <4>2. u[k] \in Nat /\ u[k + 1] \in Nat /\ n \in Nat BY <1>9, <1>10
        <4>4. u[k + 1] < u[k] /\ u[k] + k <= n BY <3>1, <4>1
        <4>3. u[k + 1] + (k + 1) <= n BY <4>2, <4>4
        <4> QED BY <4>3
      <3> QED BY <3>2, <3>3
    <2>3. \A k \in Nat : k \in T
      <3> HIDE DEF T
      <3> QED BY <2>1, <2>2, NumbersByStep
    <2>4. ASSUME NEW k \in Nat, k > n
          PROVE  u[k] = 0
      <3>1. u[k] \in Nat /\ n \in Nat BY <1>9, <1>10
      <3> QED BY <2>3, <2>4, <3>1
    <2> QED BY <2>4
  <1>8. Generator!Enclosing(f, n) = {u[k] : k \in 0 .. L} \ {0}
    <2> DEFINE Is(g) == g = [k \in 0 .. L |-> IF k = 0 THEN n ELSE IF g[k - 1] = 0 THEN 0
                                              ELSE f[g[k - 1]].parent]
               up == CHOOSE g : Is(g)
               w == [k \in 0 .. L |-> u[k]]
    <2>1. ASSUME NEW k \in 0 .. L
          PROVE  w[k] = IF k = 0 THEN n ELSE IF w[k - 1] = 0 THEN 0 ELSE f[w[k - 1]].parent
      <3>1. CASE k = 0 BY <1>5, <3>1
      <3>2. CASE k # 0
        <4>1. k - 1 \in Nat /\ k - 1 \in 0 .. L /\ (k - 1) + 1 = k BY <1>0, <3>2
        <4>2. w[k] = u[k] /\ w[k - 1] = u[k - 1] BY <4>1
        <4> QED BY <1>6, <3>2, <4>1, <4>2
      <3> QED BY <3>1, <3>2
    <2>2. Is(w)
      <3>1. w = [k \in 0 .. L |-> w[k]] OBVIOUS
      <3> HIDE DEF w
      <3> QED BY <2>1, <3>1
    <2>3. Is(up)
      <3> HIDE DEF Is, w
      <3> QED BY <2>2
    <2>4. Generator!Enclosing(f, n) = {up[k] : k \in 0 .. L} \ {0}
      BY DEF Generator!Enclosing
    <2>5. \A k \in 0 .. L : up[k] = u[k]
      <3> HIDE DEF up
      <3> DEFINE T == {k \in Nat : k <= L => up[k] = u[k]}
      <3>1. \A k \in 0 .. L : up[k] = IF k = 0 THEN n ELSE IF up[k - 1] = 0 THEN 0
                                      ELSE f[up[k - 1]].parent
        BY <2>3, Zenon
      <3>2. 0 \in T
        <4>1. 0 \in 0 .. L BY <1>1
        <4> QED BY <1>5, <3>1, <4>1
      <3>3. ASSUME NEW k \in Nat, k \in T
            PROVE  k + 1 \in T
        <4> SUFFICES ASSUME k + 1 <= L
                     PROVE  up[k + 1] = u[k + 1]
          OBVIOUS
        <4>3. k + 1 \in 0 .. L /\ k + 1 # 0 /\ (k + 1) - 1 = k /\ k <= L BY <1>0
        <4>1. k + 1 \in 0 .. L /\ k + 1 # 0 /\ (k + 1) - 1 = k /\ up[k] = u[k]
          BY <3>3, <4>3
        <4>2. up[k + 1] = IF up[k] = 0 THEN 0 ELSE f[up[k]].parent BY <3>1, <4>1
        <4> QED BY <1>6, <4>1, <4>2
      <3>4. \A k \in Nat : k \in T
        <4> HIDE DEF T
        <4> QED BY <3>2, <3>3, NumbersByStep
      <3> QED BY <1>1, <3>4
    <2> HIDE DEF up
    <2> QED BY <2>4, <2>5
  <1> QED BY <1>5, <1>6, <1>7, <1>8, <1>9 DEF GoesUp

\* A cursor is enclosed by itself and by what encloses its parent.
LEMMA EnclosedByParents ==
  ASSUME NEW f, Rooted(f)
  PROVE  /\ Generator!Enclosing(f, 0) = {}
         /\ \A n \in DOMAIN f : Generator!Enclosing(f, n)
                                  = {n} \union Generator!Enclosing(f, f[n].parent)
  <1> DEFINE L == Len(f)
  <1>0. L \in Nat BY RootedFacts
  <1>1. L \in Nat /\ DOMAIN f = 1 .. L /\ \A m \in 1 .. L : f[m].parent \in Nat /\ f[m].parent < m
    BY RootedFacts
  <1>2. Generator!Enclosing(f, 0) = {}
    <2>1. PICK u \in [Nat -> Nat] : GoesUp(f, 0, u)
      <3>1. 0 \in 0 .. Len(f) BY <1>0
      <3> QED BY <3>1, WayUp
    <2>2. \A k \in 0 .. L : u[k] = 0 BY <1>0, <2>1 DEF GoesUp
    <2> QED BY <2>1, <2>2 DEF GoesUp
  <1>3. ASSUME NEW n \in DOMAIN f
        PROVE  Generator!Enclosing(f, n) = {n} \union Generator!Enclosing(f, f[n].parent)
    <2> DEFINE p == f[n].parent
    <2>1. n \in 0 .. L /\ p \in 0 .. L /\ n # 0 /\ n <= L BY <1>1
    <2>2. PICK u \in [Nat -> Nat] : GoesUp(f, n, u) BY <2>1, WayUp
    <2>3. PICK v \in [Nat -> Nat] : GoesUp(f, p, v) BY <2>1, WayUp
    <2>4. \A k \in Nat : v[k] = u[k + 1]
      <3> DEFINE T == {k \in Nat : v[k] = u[k + 1]}
      <3>1. 0 \in T BY <2>1, <2>2, <2>3 DEF GoesUp
      <3>2. ASSUME NEW k \in Nat, k \in T
            PROVE  k + 1 \in T
        <4>1. v[k] = u[k + 1] /\ k + 1 \in Nat BY <3>2
        <4>2. v[k + 1] = u[(k + 1) + 1] BY <2>2, <2>3, <4>1 DEF GoesUp
        <4> QED BY <4>1, <4>2
      <3>3. \A k \in Nat : k \in T
        <4> HIDE DEF T
        <4> QED BY <3>1, <3>2, NumbersByStep
      <3> QED BY <3>3
    <2> HIDE DEF p
    <2>5. ASSUME NEW k \in 0 .. L, u[k] # 0, u[k] # n
          PROVE  \E j \in 0 .. L : v[j] = u[k]
      <3>1. k # 0 BY <2>2, <2>5 DEF GoesUp
      <3>2. k - 1 \in Nat /\ k - 1 \in 0 .. L /\ (k - 1) + 1 = k BY <1>1, <3>1
      <3>3. v[k - 1] = u[k] BY <2>4, <3>2
      <3> QED BY <3>2, <3>3
    <2>6. ASSUME NEW j \in 0 .. L, v[j] # 0
          PROVE  \E k \in 0 .. L : u[k] = v[j]
      <3>1. v[j] = u[j + 1] /\ j + 1 \in Nat BY <1>1, <2>4
      <3>2. ~ (j + 1 > n) BY <2>2, <2>6, <3>1 DEF GoesUp
      <3>3. j + 1 \in 0 .. L BY <1>1, <2>1, <3>2
      <3> QED BY <3>1, <3>3
    <2>7. \E k \in 0 .. L : u[k] = n BY <1>1, <2>2 DEF GoesUp
    <2>8. \A x : x \in Generator!Enclosing(f, n) <=> x # 0 /\ \E k \in 0 .. L : u[k] = x
      BY <2>2 DEF GoesUp
    <2>9. \A x : x \in Generator!Enclosing(f, p) <=> x # 0 /\ \E k \in 0 .. L : v[k] = x
      BY <2>3 DEF GoesUp
    <2>10. \A x : x \in Generator!Enclosing(f, n) <=> x = n \/ x \in Generator!Enclosing(f, p)
      BY <2>1, <2>5, <2>6, <2>7, <2>8, <2>9
    <2> QED BY <2>10 DEF p
  <1> QED BY <1>2, <1>3

\* Where a cursor may be, seen from the one before it.
LEMMA FileFacts ==
  ASSUME NEW f, FileOk(f)
  PROVE  /\ Rooted(f) /\ Len(f) \in Nat /\ DOMAIN f = 1 .. Len(f)
         /\ \A n \in 1 .. Len(f) :
              /\ f[n].parent \in Nat /\ f[n].parent < n
              /\ f[n].parent # 0 => /\ f[n].parent \in Generator!Enclosing(f, n - 1)
                                    /\ f[f[n].parent].kind \in {"namespace", "struct"}
                                    /\ f[n].main = f[f[n].parent].main
              /\ f[n].kind = "namespace" =>
                   f[n].parent = 0 \/ f[f[n].parent].kind = "namespace"
              /\ f[n].kind = "method" => f[n].parent # 0
              /\ f[n].main \in BOOLEAN
  <1>1. f \in Seq(Cursors) /\ Len(f) \in Nat /\ DOMAIN f = 1 .. Len(f)
    BY DEF FileOk
  <1>2. \A m \in 1 .. Len(f) : f[m] \in Cursors BY <1>1
  <1>3. \A c \in Cursors : c.parent \in Nat /\ c.main \in BOOLEAN BY DEF Cursors
  <1>4. ASSUME NEW n \in 1 .. Len(f)
        PROVE  /\ f[n].parent = 0 \/ (f[n].parent < n /\ f[n].parent \in Generator!Enclosing(f, n - 1))
               /\ f[n].parent # 0 => /\ f[n].main = f[f[n].parent].main
                                     /\ f[f[n].parent].kind \in {"namespace", "struct"}
               /\ f[n].kind = "namespace" => f[n].parent = 0 \/ f[f[n].parent].kind = "namespace"
               /\ f[n].kind = "method" => f[n].parent # 0
    <2>1. n \in DOMAIN f /\ Generator!IsFile(f) BY <1>1, <1>4 DEF FileOk
    <2> QED BY <2>1 DEF Generator!IsFile
  <1>5. \A n \in 1 .. Len(f) : f[n].parent \in Nat /\ f[n].main \in BOOLEAN
    BY <1>2, <1>3
  <1>6. \A n \in 1 .. Len(f) : f[n].parent < n BY <1>1, <1>4, <1>5
  <1>7. Rooted(f) BY <1>1, <1>6 DEF Rooted
  <1> QED BY <1>1, <1>4, <1>5, <1>6, <1>7

\* What encloses a cursor, itself included, and what that implies: enclosing is
\* transitive, what encloses a later cursor encloses those between, and a namespace is
\* only in namespaces.
LEMMA EnclosingFacts ==
  ASSUME NEW f, FileOk(f)
  PROVE  /\ Generator!Enclosing(f, 0) = {}
         /\ \A n \in 1 .. Len(f) :
              /\ Generator!Enclosing(f, n)
                   = {n} \union Generator!Enclosing(f, f[n].parent)
              /\ \A m \in Generator!Enclosing(f, n) :
                   /\ m \in 1 .. n
                   /\ Generator!Enclosing(f, m) \subseteq Generator!Enclosing(f, n)
                   /\ f[n].kind = "namespace" => f[m].kind = "namespace"
         /\ \A m, n \in 1 .. Len(f) : \A a \in Generator!Enclosing(f, n) :
              a <= m /\ m <= n => a \in Generator!Enclosing(f, m)
  <1> DEFINE E(n) == Generator!Enclosing(f, n)
             p(n) == f[n].parent
             L == Len(f)
  <1>1. /\ L \in Nat /\ DOMAIN f = 1 .. L
        /\ \A n \in 1 .. L :
             /\ p(n) \in Nat /\ p(n) < n
             /\ p(n) # 0 => p(n) \in E(n - 1)
             /\ f[n].kind = "namespace" => p(n) = 0 \/ f[p(n)].kind = "namespace"
    BY FileFacts
  <1>2. E(0) = {} /\ \A n \in 1 .. L : E(n) = {n} \union E(p(n))
    BY <1>1, FileFacts, EnclosedByParents
  <1> DEFINE Fine(n) == \A m \in E(n) : /\ m \in 1 .. n
                                        /\ E(m) \subseteq E(n)
                                        /\ f[n].kind = "namespace" => f[m].kind = "namespace"
             Near(n) == \A m \in 1 .. n, a \in E(n) : a <= m => a \in E(m)
  <1> HIDE DEF E, p, L
  <1>3. ASSUME NEW n \in 1 .. L, p(n) # 0 => Fine(p(n))
        PROVE  Fine(n)
    <2>1. E(n) = {n} \union E(p(n)) /\ p(n) \in Nat /\ p(n) < n BY <1>1, <1>2
    <2>2. CASE p(n) = 0 BY <1>1, <1>2, <2>1, <2>2
    <2>3. CASE p(n) # 0
      <3>1. Fine(p(n)) BY <1>3, <2>3
      <3>2. f[n].kind = "namespace" => f[p(n)].kind = "namespace" BY <1>1, <2>3
      <3>3. ASSUME NEW m \in E(n)
            PROVE  /\ m \in 1 .. n /\ E(m) \subseteq E(n)
                   /\ f[n].kind = "namespace" => f[m].kind = "namespace"
        <4>1. CASE m = n BY <1>1, <4>1
        <4>2. CASE m \in E(p(n))
          <5>1. m \in 1 .. p(n) /\ E(m) \subseteq E(p(n)) BY <3>1, <4>2
          <5>2. m \in 1 .. n BY <1>1, <2>1, <5>1
          <5> QED BY <2>1, <3>1, <3>2, <4>2, <5>1, <5>2
        <4> QED BY <2>1, <3>3, <4>1, <4>2
      <3> QED BY <3>3
    <2> QED BY <2>2, <2>3
  <1> HIDE DEF Fine
  <1>4. \A n \in 1 .. L : Fine(n)
    <2> DEFINE T == {k \in Nat : \A n \in 1 .. L : n <= k => Fine(n)}
    <2>1. 0 \in T BY <1>1
    <2>2. ASSUME NEW k \in Nat, k \in T
          PROVE  k + 1 \in T
      <3>1. ASSUME NEW n \in 1 .. L, n <= k + 1
            PROVE  Fine(n)
        <4>1. p(n) \in Nat /\ p(n) < n /\ n \in Nat /\ n <= L BY <1>1
        <4>2. p(n) # 0 => p(n) \in 1 .. L /\ p(n) <= k BY <1>1, <3>1, <4>1
        <4> QED BY <1>3, <2>2, <4>2
      <3> QED BY <3>1
    <2>3. \A k \in Nat : k \in T
      <3> HIDE DEF T
      <3> QED BY <2>1, <2>2, NumbersByStep
    <2>4. ASSUME NEW n \in 1 .. L
          PROVE  Fine(n)
      <3>1. n \in Nat BY <1>1
      <3> HIDE DEF Fine
      <3> QED BY <2>3, <3>1
    <2> QED BY <2>4
  <1>5. \A n \in 1 .. L : \A m \in E(n) : m \in 1 .. n /\ E(m) \subseteq E(n)
    BY <1>4 DEF Fine
  <1>6. ASSUME NEW n \in 1 .. L, n # 1 => Near(n - 1)
        PROVE  Near(n)
    <2> SUFFICES ASSUME NEW m \in 1 .. n, NEW a \in E(n), a <= m
                 PROVE  a \in E(m)
      OBVIOUS
    <2>1. E(n) = {n} \union E(p(n)) /\ a \in 1 .. n BY <1>2, <1>5
    <2>2. CASE m = n BY <2>2
    <2>3. CASE m # n
      <3>1. m \in 1 .. n - 1 /\ n - 1 \in 1 .. L /\ n # 1 /\ a # n
        BY <1>1, <2>1, <2>3
      <3>2. a \in E(p(n)) BY <2>1, <3>1
      <3>3. p(n) \in E(n - 1) BY <1>1, <1>2, <3>2
      <3>4. a \in E(n - 1) BY <1>5, <3>1, <3>2, <3>3
      <3> QED BY <1>6, <3>1, <3>4
    <2> QED BY <2>2, <2>3
  <1> HIDE DEF Near
  <1>7. \A n \in 1 .. L : Near(n)
    <2> DEFINE T == {k \in Nat : k \in 1 .. L => Near(k)}
    <2>1. 0 \in T OBVIOUS
    <2>2. ASSUME NEW k \in Nat, k \in T
          PROVE  k + 1 \in T
      <3>1. ASSUME k + 1 \in 1 .. L
            PROVE  Near(k + 1)
        <4>1. (k + 1) - 1 = k /\ (k + 1 # 1 => k \in 1 .. L) BY <1>1, <3>1
        <4>2. k + 1 # 1 => Near(k) BY <2>2, <4>1
        <4> QED BY <1>6, <3>1, <4>1, <4>2
      <3> QED BY <3>1
    <2>3. \A k \in Nat : k \in T
      <3> HIDE DEF T
      <3> QED BY <2>1, <2>2, NumbersByStep
    <2>4. ASSUME NEW n \in 1 .. L
          PROVE  Near(n)
      <3>1. n \in Nat BY <1>1
      <3> QED BY <2>3, <3>1
    <2> QED BY <2>4
  <1>8. \A m, n \in 1 .. L : \A a \in E(n) : a <= m /\ m <= n => a \in E(m)
    <2>1. ASSUME NEW m \in 1 .. L, NEW n \in 1 .. L, NEW a \in E(n), a <= m, m <= n
          PROVE  a \in E(m)
      <3>1. m \in 1 .. n BY <1>1, <2>1
      <3>2. Near(n) BY <1>7
      <3> QED BY <2>1, <3>1, <3>2 DEF Near
    <2> QED BY <2>1
  <1> QED BY <1>2, <1>4, <1>8 DEF E, L, p, Fine

\* The greatest of some numbers up to n, as the modules of Library take it.
LEMMA Greatest ==
  ASSUME NEW n \in Nat, NEW S, S \subseteq 1 .. n, S # {}
  PROVE  Generator!Max(S) \in S /\ \A x \in S : x <= Generator!Max(S)
  <1> DEFINE T == {n - x : x \in S}
  <1>1. T \subseteq Nat /\ T # {} OBVIOUS
  <1>2. PICK y \in T : \A z \in T : y <= z
    <2> HIDE DEF T
    <2> QED BY <1>1, LeastNumber
  <1>3. PICK x \in S : y = n - x BY <1>2
  <1>4. \A z \in S : n - x <= n - z BY <1>2, <1>3
  <1>5. \A z \in S : x >= z BY <1>4
  <1>6. \E m \in S : \A z \in S : m >= z BY <1>5
  <1>7. /\ Generator!Max(S) \in S
        /\ \A z \in S : Generator!Max(S) >= z
    BY <1>6 DEF Generator!Max
  <1> QED BY <1>7

\* The innermost cursor of a kind that encloses a cursor is the last of them.
LEMMA InnermostFacts ==
  ASSUME FileOk(eFile), NEW n \in 0 .. Len(eFile), NEW kind,
         NEW S, S = {e \in Generator!Enclosing(eFile, n) : eFile[e].kind = kind}
  PROVE  /\ S = {} => Generator!InnermostOf(n, kind) = 0
         /\ S # {} => /\ Generator!InnermostOf(n, kind) \in S
                      /\ \A e \in S : e <= Generator!InnermostOf(n, kind)
  <1>1. n \in Nat /\ S \subseteq 1 .. n BY FileFacts, EnclosingFacts
  <1>2. S = {e \in Generator!Enclosing(eFile, n) : Generator!Kind(e) = kind}
    <2>1. \A e \in Generator!Enclosing(eFile, n) : e # 0
      BY FileFacts, EnclosingFacts
    <2> QED BY <2>1 DEF Generator!Kind
  <1>3. Generator!InnermostOf(n, kind) = IF S = {} THEN 0 ELSE Generator!Max(S)
    BY <1>2 DEF Generator!InnermostOf
  <1> QED BY <1>1, <1>3, Greatest

\* Where the visit comes to a cursor: always to a namespace and to an archetype, which
\* are not in an archetype; and else in an archetype, or in no struct.
LEMMA WhereVisited ==
  ASSUME NEW f, FileOk(f), NEW n \in DOMAIN f, NEW p, p = f[n].parent
  PROVE  /\ n \in Outer(f) \union Spaces(f) => p \in Recursed(f, n) /\ p \notin Outer(f)
         /\ p \in Recursed(f, n) =>
              /\ {e \in Generator!Enclosing(f, p) : f[e].kind = "struct"}
                   = IF p \in Outer(f) THEN {p} ELSE {}
              /\ n \in Outer(f) <=> f[n].kind = "struct" /\ f[n].main /\ p \notin Outer(f)
  <1> DEFINE E(k) == Generator!Enclosing(f, k)
  <1>1. /\ Len(f) \in Nat /\ DOMAIN f = 1 .. Len(f) /\ n \in 1 .. Len(f)
        /\ p \in Nat /\ p < n /\ (p # 0 => p \in DOMAIN f /\ f[p].kind \in {"namespace", "struct"})
        /\ f[n].kind = "namespace" => p = 0 \/ f[p].kind = "namespace"
    BY FileFacts
  <1>2. E(0) = {} /\ 0 \notin Outer(f) BY <1>1, EnclosingFacts DEF Outer
  <1>3. p # 0 => E(p) = {p} \union E(f[p].parent) BY <1>1, EnclosingFacts
  <1>4. p # 0 /\ f[p].kind = "namespace" => \A e \in E(p) : f[e].kind = "namespace"
    BY <1>1, EnclosingFacts
  <1>5. p \in Outer(f) => f[p].kind = "struct" /\ \A e \in E(f[p].parent) : f[e].kind # "struct"
    BY DEF Outer
  <1>6. n \in Outer(f) <=> f[n].kind = "struct" /\ f[n].main /\ \A e \in E(p) : f[e].kind # "struct"
    BY DEF Outer
  <1>7. p \in Recursed(f, n) => p = 0 \/ f[p].kind = "namespace" \/ p \in Outer(f)
    BY DEF Recursed, Spaces
  <1>8. p = 0 \/ f[p].kind = "namespace" => p \in Recursed(f, n)
    BY <1>1 DEF Recursed, Spaces
  <1>9. n \in Spaces(f) => f[n].kind = "namespace" BY DEF Spaces
  <1> HIDE DEF E
  <1>10. n \in Outer(f) \union Spaces(f) => p = 0 \/ f[p].kind = "namespace"
    BY <1>1, <1>3, <1>6, <1>9
  <1>11. p = 0 \/ f[p].kind = "namespace" => p \notin Outer(f) BY <1>2, <1>5
  <1>12. p \in Recursed(f, n) =>
           \A e : e \in E(p) /\ f[e].kind = "struct" <=> p \in Outer(f) /\ e = p
    BY <1>1, <1>2, <1>3, <1>4, <1>5, <1>7, <1>11
  <1>13. p \in Recursed(f, n) =>
           {e \in E(p) : f[e].kind = "struct"} = IF p \in Outer(f) THEN {p} ELSE {}
    BY <1>12
  <1>14. p \in Recursed(f, n) =>
           (n \in Outer(f) <=> f[n].kind = "struct" /\ f[n].main /\ p \notin Outer(f))
    BY <1>6, <1>12
  <1> QED BY <1>8, <1>10, <1>11, <1>13, <1>14 DEF E

\* A list in order goes on with what is greater.
LEMMA InOrderGoesOn ==
  ASSUME NEW q \in Seq(Nat), NEW S, Generator!InOrder(q, S), NEW n \in Nat, \A s \in S : s < n
  PROVE  Append(q, n) \in Seq(Nat) /\ Generator!InOrder(Append(q, n), S \union {n})
  <1> DEFINE r == Append(q, n)
             k == Len(q)
  <1>1. /\ k \in Nat /\ DOMAIN q = 1 .. k /\ r \in Seq(Nat) /\ DOMAIN r = 1 .. k + 1
        /\ r[k + 1] = n /\ \A i \in 1 .. k : r[i] = q[i] /\ q[i] \in Nat
    OBVIOUS
  <1>2. {q[i] : i \in 1 .. k} = S /\ \A i, j \in 1 .. k : i < j => q[i] < q[j]
    BY <1>1 DEF Generator!InOrder
  <1> HIDE DEF r, k
  <1>3. \A i \in 1 .. k + 1 : i \in 1 .. k \/ i = k + 1 BY <1>1
  <1>4. {r[i] : i \in 1 .. k + 1} = S \union {n}
    <2>1. \A i \in 1 .. k + 1 : r[i] \in S \union {n} BY <1>1, <1>2, <1>3
    <2>2. \A x \in S : \E i \in 1 .. k + 1 : r[i] = x BY <1>1, <1>2
    <2>3. \E i \in 1 .. k + 1 : r[i] = n BY <1>1
    <2> QED BY <2>1, <2>2, <2>3
  <1>5. ASSUME NEW i \in 1 .. k + 1, NEW j \in 1 .. k + 1, i < j
        PROVE  r[i] < r[j]
    <2>1. i \in 1 .. k BY <1>1, <1>5
    <2>2. r[i] = q[i] /\ q[i] \in S BY <1>1, <1>2, <2>1
    <2>3. CASE j = k + 1 BY <1>1, <2>2, <2>3
    <2>4. CASE j # k + 1
      <3>1. j \in 1 .. k BY <1>3, <2>4
      <3>2. q[i] < q[j] /\ r[j] = q[j] BY <1>1, <1>2, <1>5, <2>1, <3>1
      <3> QED BY <2>2, <3>2
    <2> QED BY <2>3, <2>4
  <1>6. Generator!InOrder(r, S \union {n})
    BY <1>1, <1>4, <1>5 DEF Generator!InOrder
  <1> QED BY <1>1, <1>6 DEF r

\* What is appended to the structs printed.
LEMMA OneMorePrinted ==
  ASSUME NEW q \in Seq(Structs), NEW r \in Structs
  PROVE  /\ Append(q, r) \in Seq(Structs) /\ StructsOf(q) \in Seq(Nat) /\ r.struct \in Nat
         /\ StructsOf(Append(q, r)) = Append(StructsOf(q), r.struct)
         /\ \A i \in DOMAIN Append(q, r) :
              Append(q, r)[i] = r \/ (i \in DOMAIN q /\ Append(q, r)[i] = q[i])
  <1> DEFINE t == Append(q, r)
             k == Len(q)
             s == StructsOf(q)
  <1>1. /\ k \in Nat /\ DOMAIN q = 1 .. k /\ t \in Seq(Structs) /\ DOMAIN t = 1 .. k + 1
        /\ t[k + 1] = r /\ \A i \in 1 .. k : t[i] = q[i] /\ q[i] \in Structs
    OBVIOUS
  <1>2. \A x \in Structs : x.struct \in Nat BY DEF Structs
  <1>3. s \in [1 .. k -> Nat] /\ \A i \in 1 .. k : s[i] = q[i].struct
    BY <1>1, <1>2 DEF StructsOf
  <1> HIDE DEF k, s
  <1>4. s \in Seq(Nat) /\ Len(s) = k BY <1>1, <1>3
  <1>5. \A i \in 1 .. k + 1 : i \in 1 .. k \/ i = k + 1 BY <1>1
  <1>6. StructsOf(t) = [i \in 1 .. k + 1 |-> t[i].struct] BY <1>1 DEF StructsOf
  <1>7. Append(s, r.struct) = [i \in 1 .. k + 1 |-> IF i = k + 1 THEN r.struct ELSE s[i]]
    BY <1>1, <1>2, <1>4
  <1>8. \A i \in 1 .. k + 1 : t[i].struct = IF i = k + 1 THEN r.struct ELSE s[i]
    BY <1>1, <1>3, <1>5
  <1> HIDE DEF t
  <1>9. StructsOf(t) = Append(s, r.struct) BY <1>6, <1>7, <1>8
  <1>10. \A i \in DOMAIN t : t[i] = r \/ (i \in DOMAIN q /\ t[i] = q[i])
    BY <1>1, <1>5
  <1> QED BY <1>1, <1>2, <1>4, <1>9, <1>10 DEF t, s

\* Closing namespaces takes some off the end, and none of one nest.
LEMMA LeftFacts ==
  ASSUME FileOk(eFile), eNamespaces \in Seq(Nat), NEW n \in DOMAIN eFile
  PROVE  /\ Generator!Left(n) \in Seq(Nat)
         /\ OneNest(eFile) /\ Generator!InOrder(eNamespaces, Below(Spaces(eFile), n))
              => Generator!Left(n) = eNamespaces
  <1> DEFINE q == eNamespaces
             m == Len(q)
             p == eFile[n].parent
             in == Generator!InnermostOf(p, "namespace")
             S == {i \in DOMAIN q : q[i] = in}
             last == IF S = {} THEN 0 ELSE Generator!Max(S)
  <1>1. m \in Nat /\ DOMAIN q = 1 .. m /\ \A i \in 1 .. m : q[i] \in Nat OBVIOUS
  <1>7. \A k \in 0 .. m : SubSeq(q, 1, k) \in Seq(Nat) OBVIOUS
  <1>8. SubSeq(q, 1, m) = q OBVIOUS
  <1> HIDE DEF m
  <1>2. Generator!Left(n) = IF in = 0 THEN q ELSE SubSeq(q, 1, last)
    BY DEF Generator!Left, Generator!Parent
  <1>3. last \in 0 .. m /\ (S # {} => last \in S /\ \A i \in S : i <= last)
    <2>1. S \subseteq 1 .. m BY <1>1
    <2> HIDE DEF S
    <2>2. CASE S = {} BY <1>1, <2>2
    <2>3. CASE S # {}
      <3>1. last = Generator!Max(S) BY <2>3
      <3> HIDE DEF last
      <3>2. Generator!Max(S) \in S /\ \A i \in S : i <= Generator!Max(S)
        BY <1>1, <2>1, <2>3, Greatest
      <3>3. last \in S /\ \A i \in S : i <= last BY <3>1, <3>2
      <3>4. last \in 1 .. m BY <2>1, <3>3
      <3>5. last \in 0 .. m BY <1>1, <3>4
      <3> QED BY <3>3, <3>5
    <2> QED BY <2>2, <2>3
  <1>4. SubSeq(q, 1, last) \in Seq(Nat) BY <1>3, <1>7
  <1>5. Generator!Left(n) \in Seq(Nat) BY <1>2, <1>4
  <1>6. ASSUME OneNest(eFile), Generator!InOrder(q, Below(Spaces(eFile), n))
        PROVE  Generator!Left(n) = q
    <2> DEFINE N == Below(Spaces(eFile), n)
               O == {e \in Generator!Enclosing(eFile, p) : eFile[e].kind = "namespace"}
    <2>1. /\ Len(eFile) \in Nat /\ DOMAIN eFile = 1 .. Len(eFile)
          /\ p \in Nat /\ p < n /\ p \in 0 .. Len(eFile)
      BY FileFacts
    <2>2. Generator!Enclosing(eFile, n) = {n} \union Generator!Enclosing(eFile, p)
      BY <2>1, EnclosingFacts
    <2>3. Generator!Enclosing(eFile, p) \subseteq 1 .. p BY <2>1, EnclosingFacts
    <2>4. N = O
      <3>1. ASSUME NEW e \in N
            PROVE  e \in O
        <4>1. e \in DOMAIN eFile /\ eFile[e].kind = "namespace" /\ e < n
          BY DEF Below, Spaces
        <4>2. e \in Generator!Enclosing(eFile, n) /\ e # n
          BY <1>6, <2>1, <4>1 DEF OneNest
        <4> QED BY <2>2, <4>1, <4>2
      <3>2. ASSUME NEW e \in O
            PROVE  e \in N
        <4>1. e \in 1 .. p /\ eFile[e].kind = "namespace" BY <2>3
        <4>2. e \in DOMAIN eFile /\ e < n BY <2>1, <4>1
        <4> QED BY <4>1, <4>2 DEF Below, Spaces
      <3> QED BY <3>1, <3>2
    <2>5. /\ O = {} => in = 0
          /\ O # {} => in \in O /\ \A e \in O : e <= in
      BY <2>1, InnermostFacts
    <2>6. {q[i] : i \in DOMAIN q} = N /\ \A i, j \in DOMAIN q : i < j => q[i] < q[j]
      BY <1>6 DEF Generator!InOrder
    <2> HIDE DEF in, O, N
    <2>7. CASE O = {} BY <1>2, <2>5, <2>7
    <2>8. CASE O # {}
      <3>1. PICK k \in 1 .. m : q[k] = in BY <1>1, <2>4, <2>5, <2>6, <2>8
      <3>2. k = m
        <4>1. m \in 1 .. m BY <1>1
        <4>2. q[m] \in N BY <1>1, <2>6, <4>1
        <4>3. q[m] <= q[k] BY <2>4, <2>5, <2>8, <3>1, <4>2
        <4>4. q[m] \in Nat /\ q[k] \in Nat BY <1>1, <4>1
        <4>5. ~ (k < m) BY <1>1, <2>6, <4>1, <4>3, <4>4
        <4> QED BY <1>1, <4>5
      <3>3. k \in S BY <1>1, <3>1
      <3>4. last = m
        <4>1. S # {} /\ k <= last /\ last \in 0 .. m BY <1>3, <3>3
        <4> HIDE DEF S, last
        <4> QED BY <1>1, <3>2, <4>1
      <3> HIDE DEF last
      <3> QED BY <1>2, <1>8, <3>4
    <2> QED BY <2>7, <2>8
  <1> QED BY <1>5, <1>6

\* A struct that is closed has all its members and, in one nest, its namespaces.
LEMMA StructClosed ==
  ASSUME EmtypenInv, Visiting, eStruct # 0,
         NEW spaces \in Seq(Nat), OneNest(eFile) => spaces = eNamespaces,
         eNext \in DOMAIN eFile => eStruct \notin Generator!Enclosing(eFile, eNext),
         Generator!CloseStruct(spaces)
  PROVE  /\ ePhase' \in {"visit", "terminated"} /\ ePrinted' \in Seq(Structs)
         /\ ePhase' = "visit" =>
              Generator!InOrder(StructsOf(ePrinted'), Below(Outer(eFile), eNext))
         /\ InsideFile(eFile) =>
              /\ \A i \in DOMAIN ePrinted' :
                   /\ ePrinted'[i].members # <<>>
                   /\ Generator!InOrder(ePrinted'[i].members,
                                        MethodsOf(eFile, ePrinted'[i].struct))
              /\ ePhase' = "terminated" => \E s \in Outer(eFile) : MethodsOf(eFile, s) = {}
         /\ OneNest(eFile) =>
              \A i \in DOMAIN ePrinted' :
                Generator!InOrder(ePrinted'[i].within, SpacesOver(eFile, ePrinted'[i].struct))
  <1> DEFINE f == eFile
             c == eStruct
             r == [struct |-> c, within |-> spaces, members |-> eMembers]
  <1>1. /\ FileOk(f) /\ eNext \in 1 .. Len(f) + 2 /\ eMembers \in Seq(Nat)
        /\ ePrinted \in Seq(Structs) /\ c \in Outer(f) /\ c < eNext
        /\ eNext <= Len(f) + 1 /\ ArchetypesMet
        /\ InsideFile(f) => MembersMet
        /\ OneNest(f) => SpacesMet
    BY DEF EmtypenInv, EmtypenTypes, Visiting, Below
  <1>2. Len(f) \in Nat /\ DOMAIN f = 1 .. Len(f) /\ c \in 1 .. Len(f) /\ c \in Nat
    <2>1. Len(f) \in Nat /\ DOMAIN f = 1 .. Len(f) BY <1>1, FileFacts
    <2> QED BY <1>1, <2>1 DEF Outer
  <1>3. Below(MethodsOf(f, c), eNext) = MethodsOf(f, c)
    <2>1. ASSUME NEW m \in MethodsOf(f, c), ~ (m < eNext)
          PROVE  FALSE
      <3>1. m \in 1 .. Len(f) /\ f[m].parent = c BY <1>2 DEF MethodsOf
      <3>2. c \in Generator!Enclosing(f, m)
        <4>1. c \in Generator!Enclosing(f, c) BY <1>1, <1>2, EnclosingFacts
        <4>2. Generator!Enclosing(f, m) = {m} \union Generator!Enclosing(f, c)
          BY <1>1, <3>1, EnclosingFacts
        <4> QED BY <4>1, <4>2
      <3>3. eNext \in 1 .. Len(f) /\ eNext <= m /\ c <= eNext
        BY <1>1, <1>2, <2>1, <3>1
      <3>4. c \in Generator!Enclosing(f, eNext)
        BY <1>1, <3>1, <3>2, <3>3, EnclosingFacts
      <3> QED BY <1>2, <3>3, <3>4
    <2> QED BY <2>1 DEF Below
  <1>4. ASSUME OneNest(f)
        PROVE  Generator!InOrder(spaces, SpacesOver(f, c))
    <2>1. /\ spaces = eNamespaces
          /\ Generator!InOrder(eNamespaces, Below(Spaces(f), eNext))
          /\ Below(Spaces(f), eNext) = Below(Spaces(f), c)
      BY <1>1, <1>4 DEF SpacesMet
    <2>2. ASSUME NEW e \in Below(Spaces(f), c)
          PROVE  e \in SpacesOver(f, c)
      <3>1. e \in DOMAIN f /\ f[e].kind = "namespace" /\ e < c
        BY DEF Below, Spaces
      <3>2. e \in Generator!Enclosing(f, c) BY <1>2, <1>4, <3>1 DEF OneNest
      <3> QED BY <3>1, <3>2 DEF SpacesOver
    <2>3. ASSUME NEW e \in SpacesOver(f, c)
          PROVE  e \in Below(Spaces(f), c)
      <3>1. e \in Generator!Enclosing(f, c) /\ f[e].kind = "namespace" /\ f[c].kind = "struct"
        BY <1>1 DEF SpacesOver, Outer
      <3>2. e \in 1 .. c /\ e # c BY <1>1, <1>2, <3>1, EnclosingFacts
      <3>3. e \in DOMAIN f /\ e < c BY <1>2, <3>2
      <3> QED BY <3>1, <3>3 DEF Below, Spaces
    <2>4. Below(Spaces(f), c) = SpacesOver(f, c) BY <2>2, <2>3
    <2> QED BY <2>1, <2>4
  <1>5. CASE eMembers = <<>>
    <2>1. ePrinted' = ePrinted /\ ePhase' = "terminated"
      BY <1>5 DEF Generator!CloseStruct
    <2>2. ASSUME InsideFile(f)
          PROVE  MethodsOf(f, c) = {}
      <3>1. Generator!InOrder(eMembers, MethodsOf(f, c))
        BY <1>1, <1>3, <2>2 DEF MembersMet
      <3>2. DOMAIN eMembers = {} BY <1>5
      <3> QED BY <3>1, <3>2 DEF Generator!InOrder
    <2>3. InsideFile(f) =>
            /\ \A i \in DOMAIN ePrinted :
                 /\ ePrinted[i].members # <<>>
                 /\ Generator!InOrder(ePrinted[i].members, MethodsOf(f, ePrinted[i].struct))
            /\ \E s \in Outer(f) : MethodsOf(f, s) = {}
      BY <1>1, <2>2 DEF MembersMet
    <2>4. OneNest(f) =>
            \A i \in DOMAIN ePrinted :
              Generator!InOrder(ePrinted[i].within, SpacesOver(f, ePrinted[i].struct))
      BY <1>1 DEF SpacesMet
    <2> QED BY <1>1, <2>1, <2>3, <2>4
  <1>6. CASE eMembers # <<>>
    <2>1. ePrinted' = Append(ePrinted, r) /\ ePhase' = "visit"
      BY <1>6 DEF Generator!CloseStruct
    <2>2. r \in Structs /\ r.struct = c /\ r.within = spaces /\ r.members = eMembers
      BY <1>1, <1>2 DEF Structs
    <2> DEFINE q == ePrinted
               t == Append(q, r)
    <2> HIDE DEF r
    <2>3. /\ t \in Seq(Structs) /\ StructsOf(q) \in Seq(Nat)
          /\ StructsOf(t) = Append(StructsOf(q), c)
          /\ \A i \in DOMAIN t : t[i] = r \/ (i \in DOMAIN q /\ t[i] = q[i])
      BY <1>1, <2>2, OneMorePrinted
    <2> HIDE DEF t
    <2>4. Generator!InOrder(StructsOf(t), Below(Outer(f), eNext))
      <3> DEFINE S == Below(Outer(f), eNext) \ {c}
      <3>1. Generator!InOrder(StructsOf(q), S) BY <1>1 DEF ArchetypesMet
      <3>2. \A s \in S : s < c
        <4>1. \A s \in S : s \in Nat /\ s <= c
          BY <1>1, <1>2 DEF ArchetypesMet, Outer, Below
        <4> QED BY <1>2, <4>1
      <3>3. S \union {c} = Below(Outer(f), eNext) BY <1>1 DEF Below
      <3> HIDE DEF S
      <3>4. Generator!InOrder(Append(StructsOf(q), c), S \union {c})
        BY <1>2, <2>3, <3>1, <3>2, InOrderGoesOn
      <3> QED BY <2>3, <3>3, <3>4
    <2>5. ASSUME InsideFile(f), NEW i \in DOMAIN t
          PROVE  t[i].members # <<>> /\ Generator!InOrder(t[i].members, MethodsOf(f, t[i].struct))
      <3>1. Generator!InOrder(eMembers, MethodsOf(f, c))
        BY <1>1, <1>3, <2>5 DEF MembersMet
      <3>2. CASE t[i] = r BY <1>6, <2>2, <3>1, <3>2
      <3>3. CASE i \in DOMAIN q /\ t[i] = q[i]
        BY <1>1, <2>5, <3>3 DEF MembersMet
      <3> QED BY <2>3, <3>2, <3>3
    <2>6. ASSUME OneNest(f), NEW i \in DOMAIN t
          PROVE  Generator!InOrder(t[i].within, SpacesOver(f, t[i].struct))
      <3>1. CASE t[i] = r BY <1>4, <2>2, <2>6, <3>1
      <3>2. CASE i \in DOMAIN q /\ t[i] = q[i] BY <1>1, <2>6, <3>2 DEF SpacesMet
      <3> QED BY <2>3, <3>1, <3>2
    <2>7. ePrinted' = t BY <2>1 DEF t
    <2> QED BY <2>1, <2>3, <2>4, <2>5, <2>6, <2>7
  <1> QED BY <1>5, <1>6

\* A cursor into whose parent the visit has gone is visited as Progress says.
LEMMA VisitTells ==
  ASSUME EmtypenInv, Visiting, NEW n, n = eNext, n \in DOMAIN eFile,
         NEW p, p = eFile[n].parent, p \in eRecurse, Generator!Visit(n)
  PROVE  Progress(n, p)
  <1> DEFINE f == eFile
             left == Generator!LeavesStruct(n)
             inside == IF left THEN 0 ELSE eStruct
  <1>1. /\ FileOk(f) /\ p \in Recursed(f, n) /\ eStruct \in {0} \union Below(Outer(f), n)
        /\ ArchetypesMet
    BY DEF EmtypenInv, EmtypenTypes
  <1>2. /\ Len(f) \in Nat /\ DOMAIN f = 1 .. Len(f) /\ n \in 1 .. Len(f)
        /\ p \in 0 .. Len(f) /\ p < n
        /\ p # 0 => p \in Generator!Enclosing(f, n - 1)
        /\ 0 \notin Outer(f)
    BY <1>1, FileFacts DEF Outer
  <1>3. /\ n \in Outer(f) \union Spaces(f) => p \notin Outer(f)
        /\ {e \in Generator!Enclosing(f, p) : f[e].kind = "struct"}
             = IF p \in Outer(f) THEN {p} ELSE {}
        /\ n \in Outer(f) <=> f[n].kind = "struct" /\ f[n].main /\ p \notin Outer(f)
    BY <1>1, WhereVisited
  <1>4. Generator!InnermostOf(p, "struct") = IF p \in Outer(f) THEN p ELSE 0
    BY <1>1, <1>2, <1>3, InnermostFacts
  <1>5. p \in Outer(f) => eStruct = p
    <2> SUFFICES ASSUME p \in Outer(f)
                 PROVE  eStruct = p
      OBVIOUS
    <2>1. p \in Below(Outer(f), eNext) /\ p \in Generator!Enclosing(f, eNext - 1)
      BY <1>2 DEF Below
    <2> QED BY <1>1, <2>1 DEF ArchetypesMet
  <1>6. left <=> eStruct \notin {0, p}
    <2>1. left <=> eStruct # 0 /\ Generator!InnermostOf(p, "struct") # eStruct
      BY DEF Generator!LeavesStruct, Generator!Parent
    <2>2. eStruct # 0 => eStruct \in Outer(f) BY <1>1 DEF Below
    <2> QED BY <1>2, <1>4, <2>1, <2>2
  <1>7. inside = IF p \in Outer(f) THEN p ELSE 0
    <2>1. eStruct # 0 => eStruct \in Outer(f) BY <1>1 DEF Below
    <2> HIDE DEF left
    <2> QED BY <1>2, <1>5, <1>6, <2>1
  <1>8. Generator!Kind(n) = f[n].kind /\ Generator!Parent(n) = p
    BY <1>2 DEF Generator!Kind, Generator!Parent
  <1>9. eStruct \notin {0, p} => eStruct \notin Generator!Enclosing(f, n)
    <2> SUFFICES ASSUME eStruct \notin {0, p}, eStruct \in Generator!Enclosing(f, n)
                 PROVE  FALSE
      OBVIOUS
    <2>1. eStruct \in Outer(f) /\ eStruct < n BY <1>1 DEF Below
    <2>2. eStruct \in Generator!Enclosing(f, p)
      BY <1>1, <1>2, <2>1, EnclosingFacts
    <2>3. f[eStruct].kind = "struct" BY <2>1 DEF Outer
    <2> QED BY <1>3, <2>2, <2>3
  <1>10. /\ IF left THEN Generator!CloseStruct(Generator!Left(n))
            ELSE UNCHANGED <<ePrinted, ePhase>>
         /\ eNamespaces' = IF f[n].kind = "namespace" /\ f[n].main
                             THEN Append(Generator!Left(n), n) ELSE Generator!Left(n)
         /\ eStruct' = IF f[n].kind = "struct" /\ f[n].main /\ inside = 0 THEN n ELSE inside
         /\ LET members == IF left THEN <<>> ELSE eMembers
            IN  eMembers' = IF f[n].kind = "method" /\ f[n].main
                              THEN Append(members, n) ELSE members
         /\ eRecurse' = IF \/ f[n].kind = "namespace"
                           \/ f[n].kind = "struct" /\ f[n].main /\ inside = 0
                          THEN eRecurse \union {n} ELSE eRecurse
    BY <1>8 DEF Generator!Visit, Generator!MembersCleared
  <1> HIDE DEF left, inside
  <1>11. f[n].kind = "struct" /\ f[n].main /\ inside = 0 <=> n \in Outer(f)
    BY <1>2, <1>3, <1>7
  <1>12. eStruct' = IF n \in Outer(f) THEN n ELSE IF p \in Outer(f) THEN p ELSE 0
    BY <1>7, <1>10, <1>11
  <1>13. f[n].kind = "namespace" <=> n \in Spaces(f) BY <1>2 DEF Spaces
  <1>14. eRecurse' = Recursed(f, n + 1)
    <2>1. eRecurse' = IF n \in Spaces(f) \/ n \in Outer(f)
                        THEN Recursed(f, n) \union {n} ELSE Recursed(f, n)
      <3>1. eRecurse = Recursed(f, n) BY DEF EmtypenInv, EmtypenTypes
      <3> QED BY <1>10, <1>11, <1>13, <3>1
    <2>2. \A m \in DOMAIN f : m < n + 1 <=> m < n \/ m = n BY <1>2
    <2> QED BY <1>2, <2>1, <2>2 DEF Recursed
  <1>15. eStruct \in {0, p} => ePrinted' = ePrinted /\ ePhase' = ePhase
    BY <1>6, <1>10
  <1>16. eStruct \notin {0, p} => Generator!CloseStruct(Generator!Left(n))
    BY <1>6, <1>10
  <1>17. eNamespaces' = IF n \in Spaces(f) /\ f[n].main
                          THEN Append(Generator!Left(n), n) ELSE Generator!Left(n)
    BY <1>10, <1>13
  <1>18. LET members == IF eStruct \in {0, p} THEN eMembers ELSE <<>>
         IN  eMembers' = IF f[n].kind = "method" /\ f[n].main THEN Append(members, n) ELSE members
    BY <1>6, <1>10
  <1> QED
    BY <1>3, <1>5, <1>9, <1>12, <1>14, <1>15, <1>16, <1>17, <1>18 DEF Progress

\* The invariant after a step that leaves the file alone, its parts one by one.
LEMMA EmtypenNextInv ==
  ASSUME eFile' = eFile,
         EmtypenTypes',
         ePhase' = "visit" /\ eNext' <= Len(eFile) + 1 =>
           /\ \A a \in Below(Outer(eFile), eNext') :
                /\ a \in Generator!Enclosing(eFile, eNext' - 1) => eStruct' = a
                /\ eStruct' # 0 => a <= eStruct'
           /\ Generator!InOrder(StructsOf(ePrinted'), Below(Outer(eFile), eNext') \ {eStruct'}),
         ePhase' = "visit" /\ eNext' = Len(eFile) + 2 =>
           Generator!InOrder(StructsOf(ePrinted'), Outer(eFile)),
         InsideFile(eFile) =>
           /\ ePhase' = "visit" /\ eNext' <= Len(eFile) + 1 =>
                Generator!InOrder(eMembers', Below(MethodsOf(eFile, eStruct'), eNext'))
           /\ \A i \in DOMAIN ePrinted' :
                /\ ePrinted'[i].members # <<>>
                /\ Generator!InOrder(ePrinted'[i].members, MethodsOf(eFile, ePrinted'[i].struct))
           /\ ePhase' = "terminated" => \E s \in Outer(eFile) : MethodsOf(eFile, s) = {},
         OneNest(eFile) =>
           /\ ePhase' = "visit" /\ eNext' <= Len(eFile) + 1 =>
                /\ Generator!InOrder(eNamespaces', Below(Spaces(eFile), eNext'))
                /\ eStruct' # 0 => Below(Spaces(eFile), eNext') = Below(Spaces(eFile), eStruct')
           /\ \A i \in DOMAIN ePrinted' :
                Generator!InOrder(ePrinted'[i].within, SpacesOver(eFile, ePrinted'[i].struct))
  PROVE  EmtypenInv'
  BY DEF EmtypenInv, Visiting, ArchetypesMet, MembersMet, SpacesMet

\* The visit of a cursor keeps the invariant.
LEMMA VisitedKept ==
  ASSUME EmtypenInv, Visiting, NEW n, n = eNext, n \in DOMAIN eFile,
         NEW p, p = eFile[n].parent, p \in eRecurse, Progress(n, p),
         eNext' = n + 1, eFile' = eFile
  PROVE  EmtypenInv'
  <1> DEFINE f == eFile
             closes == eStruct \notin {0, p}
             O == Outer(f)
  <1>1. /\ FileOk(f) /\ p \in Recursed(f, n) /\ eStruct \in {0} \union Below(O, n)
        /\ eMembers \in Seq(Nat) /\ eNamespaces \in Seq(Nat) /\ ePrinted \in Seq(Structs)
        /\ ePhase \in {"visit", "terminated"}
        /\ ArchetypesMet
        /\ InsideFile(f) => MembersMet
        /\ OneNest(f) => SpacesMet
    BY DEF EmtypenInv, EmtypenTypes
  <1>2. /\ Len(f) \in Nat /\ DOMAIN f = 1 .. Len(f) /\ n \in 1 .. Len(f) /\ n \in Nat
        /\ p \in 0 .. Len(f) /\ p \in Nat /\ p < n
        /\ p # 0 => f[n].main = f[p].main
        /\ 0 \notin O
    BY <1>1, FileFacts DEF Outer
  <1>3. /\ p \in O => eStruct = p /\ n \notin O \union Spaces(f)
        /\ eStruct' = IF n \in O THEN n ELSE IF p \in O THEN p ELSE 0
        /\ ~closes => ePrinted' = ePrinted /\ ePhase' = ePhase
    BY DEF Progress
  <1>4. eStruct # 0 => eStruct \in O /\ eStruct < n BY <1>1 DEF Below
  <1>5. \A m \in Nat : m < n + 1 <=> m < n \/ m = n BY <1>2
  <1>6. O \subseteq Nat /\ Spaces(f) \subseteq Nat /\ \A s : MethodsOf(f, s) \subseteq Nat
    BY <1>2 DEF Outer, Spaces, MethodsOf
  <1>7. \A S : S \subseteq Nat => Below(S, n + 1) = IF n \in S THEN Below(S, n) \union {n}
                                                    ELSE Below(S, n)
    BY <1>2, <1>5 DEF Below
  <1>8. /\ Generator!Left(n) \in Seq(Nat)
        /\ OneNest(f) => Generator!Left(n) = eNamespaces
    <2>1. OneNest(f) => Generator!InOrder(eNamespaces, Below(Spaces(f), n))
      BY <1>1 DEF SpacesMet
    <2> QED BY <1>1, <2>1, LeftFacts
  <1> DEFINE Right(q, ph) ==
               /\ InsideFile(f) =>
                    /\ \A i \in DOMAIN q :
                         /\ q[i].members # <<>>
                         /\ Generator!InOrder(q[i].members, MethodsOf(f, q[i].struct))
                    /\ ph = "terminated" => \E s \in O : MethodsOf(f, s) = {}
               /\ OneNest(f) =>
                    \A i \in DOMAIN q : Generator!InOrder(q[i].within, SpacesOver(f, q[i].struct))
  <1>9. Below(O, n + 1) \ {eStruct'} = IF closes THEN Below(O, n) ELSE Below(O, n) \ {eStruct}
    <2>1. n \notin Below(O, n) /\ 0 \notin Below(O, n) BY <1>2 DEF Below
    <2>2. Below(O, n + 1) = IF n \in O THEN Below(O, n) \union {n} ELSE Below(O, n)
      BY <1>6, <1>7
    <2> HIDE DEF O
    <2>3. CASE n \in O
      <3>1. p \notin O /\ eStruct' = n /\ ~ (eStruct = p /\ p # 0)
        BY <1>3, <1>4, <2>3
      <3>2. Below(O, n + 1) \ {eStruct'} = Below(O, n) BY <2>1, <2>2, <2>3, <3>1
      <3>3. ~closes => Below(O, n) \ {eStruct} = Below(O, n) BY <2>1, <3>1
      <3> HIDE DEF closes
      <3> QED BY <3>2, <3>3
    <2>4. CASE n \notin O /\ p \in O BY <1>3, <2>2, <2>4
    <2>5. CASE n \notin O /\ p \notin O
      <3>1. eStruct' = 0 /\ ~ (eStruct = p /\ p # 0) BY <1>3, <1>4, <2>5
      <3>2. Below(O, n + 1) \ {eStruct'} = Below(O, n) BY <2>1, <2>2, <2>5, <3>1
      <3>3. ~closes => Below(O, n) \ {eStruct} = Below(O, n) BY <2>1, <3>1
      <3> HIDE DEF closes
      <3> QED BY <3>2, <3>3
    <2> QED BY <2>3, <2>4, <2>5
  <1>10. /\ ePhase' \in {"visit", "terminated"} /\ ePrinted' \in Seq(Structs)
         /\ ePhase' = "visit" =>
              Generator!InOrder(StructsOf(ePrinted'), Below(O, n + 1) \ {eStruct'})
         /\ Right(ePrinted', ePhase')
    <2>1. CASE closes
      <3>1. Generator!CloseStruct(Generator!Left(n)) /\ eStruct \notin Generator!Enclosing(f, n)
        BY <2>1 DEF Progress
      <3>2. eStruct # 0 /\ eNext = n BY <2>1
      <3> HIDE DEF closes
      <3> QED BY <1>8, <1>9, <2>1, <3>1, <3>2, StructClosed
    <2>2. CASE ~closes
      <3>1. ePrinted' = ePrinted /\ ePhase' = ePhase BY <1>3, <2>2
      <3>2. Generator!InOrder(StructsOf(ePrinted), Below(O, n) \ {eStruct})
        BY <1>1 DEF ArchetypesMet
      <3>3. Right(ePrinted, ePhase) BY <1>1 DEF MembersMet, SpacesMet
      <3> HIDE DEF Right, closes
      <3> QED BY <1>1, <1>9, <2>2, <3>1, <3>2, <3>3
    <2> QED BY <2>1, <2>2
  <1>11. ASSUME NEW a \in Below(O, n + 1)
         PROVE  /\ a \in Generator!Enclosing(f, n) => eStruct' = a
                /\ eStruct' # 0 => a <= eStruct'
    <2>1. a \in O /\ a \in Nat /\ (a < n \/ a = n)
      BY <1>5, <1>6, <1>11 DEF Below
    <2>2. ASSUME a \in Generator!Enclosing(f, n), a # n
          PROVE  eStruct' = a
      <3>1. a \in Generator!Enclosing(f, p) BY <1>1, <1>2, <2>2, EnclosingFacts
      <3>2. f[a].kind = "struct" BY <2>1 DEF Outer
      <3>3. {e \in Generator!Enclosing(f, p) : f[e].kind = "struct"} = IF p \in O THEN {p} ELSE {}
        BY <1>1, <1>2, WhereVisited
      <3>4. p \in O /\ a = p BY <3>1, <3>2, <3>3
      <3> QED BY <1>3, <3>4
    <2>3. a = n => eStruct' = a BY <1>3, <2>1
    <2>4. ASSUME n \notin O, p \in O
          PROVE  a <= eStruct'
      <3>1. a < n /\ eStruct = p /\ eStruct' = p /\ p # 0
        BY <1>2, <1>3, <2>1, <2>4
      <3>2. a \in Below(O, eNext) BY <2>1, <3>1 DEF Below
      <3> QED BY <1>1, <3>1, <3>2 DEF ArchetypesMet
    <2>5. eStruct' # 0 => a <= eStruct' BY <1>2, <1>3, <2>1, <2>4
    <2> QED BY <2>2, <2>3, <2>5
  <1>12. ASSUME InsideFile(f)
         PROVE  Generator!InOrder(eMembers', Below(MethodsOf(f, eStruct'), n + 1))
    <2> DEFINE members == IF ~closes THEN eMembers ELSE <<>>
    <2>1. eMembers' = IF f[n].kind = "method" /\ f[n].main THEN Append(members, n) ELSE members
      BY DEF Progress
    <2>2. Generator!InOrder(eMembers, Below(MethodsOf(f, eStruct), n))
      BY <1>1, <1>12 DEF MembersMet
    <2>3. CASE p \in O
      <3>1. eStruct = p /\ eStruct' = p /\ members = eMembers BY <1>3, <2>3
      <3>2. f[n].main BY <1>2, <2>3 DEF Outer
      <3>3. n \in MethodsOf(f, p) <=> f[n].kind = "method" BY <1>2 DEF MethodsOf
      <3> HIDE DEF members
      <3>4. Below(MethodsOf(f, p), n + 1) = IF f[n].kind = "method"
              THEN Below(MethodsOf(f, p), n) \union {n} ELSE Below(MethodsOf(f, p), n)
        BY <1>6, <1>7, <3>3
      <3>5. Generator!InOrder(Append(eMembers, n), Below(MethodsOf(f, p), n) \union {n})
        <4>1. \A m \in Below(MethodsOf(f, p), n) : m < n BY DEF Below
        <4> QED BY <1>1, <1>2, <2>2, <3>1, <4>1, InOrderGoesOn
      <3> QED BY <2>1, <2>2, <3>1, <3>2, <3>4, <3>5
    <2>4. CASE p \notin O
      <3>1. members = <<>>
        <4>1. CASE closes BY <4>1
        <4>2. CASE ~closes
          <5>1. eStruct = 0 BY <1>4, <2>4, <4>2
          <5>2. MethodsOf(f, 0) = {} BY <1>12 DEF MethodsOf, InsideFile
          <5>3. {eMembers[i] : i \in DOMAIN eMembers} = {}
            BY <2>2, <5>1, <5>2 DEF Generator!InOrder, Below
          <5>4. Len(eMembers) = 0
            <6>1. Len(eMembers) \in Nat /\ DOMAIN eMembers = 1 .. Len(eMembers)
              BY <1>1
            <6>2. ~ (1 \in DOMAIN eMembers) BY <5>3
            <6> QED BY <6>1, <6>2
          <5>5. eMembers = <<>> BY <1>1, <5>4
          <5> QED BY <4>2, <5>5
        <4> QED BY <4>1, <4>2
      <3>2. f[n].kind # "method"
        <4> SUFFICES ASSUME f[n].kind = "method"
                     PROVE  FALSE
          OBVIOUS
        <4>1. p # 0 /\ f[p].kind = "struct" BY <1>2, <1>12 DEF InsideFile
        <4>2. p \in Spaces(f) \/ p \in O BY <1>1, <4>1 DEF Recursed
        <4> QED BY <2>4, <4>1, <4>2 DEF Spaces
      <3> HIDE DEF members
      <3>3. eMembers' = <<>> BY <2>1, <3>1, <3>2
      <3>4. Below(MethodsOf(f, eStruct'), n + 1) = {}
        <4> SUFFICES ASSUME NEW m \in Below(MethodsOf(f, eStruct'), n + 1)
                     PROVE  FALSE
          OBVIOUS
        <4>1. m \in DOMAIN f /\ f[m].kind = "method" /\ f[m].parent = eStruct' /\ m < n + 1
          BY DEF Below, MethodsOf
        <4>2. f[m].parent # 0 /\ f[m].parent < m /\ f[m].parent \in Nat /\ m \in Nat
          BY <1>1, <1>2, <4>1, FileFacts
        <4>3. eStruct' = n BY <1>3, <2>4, <4>1, <4>2
        <4> QED BY <1>2, <4>1, <4>2, <4>3
      <3>5. Generator!InOrder(<<>>, {}) BY DEF Generator!InOrder
      <3> QED BY <3>3, <3>4, <3>5
    <2> QED BY <2>3, <2>4
  <1>13. ASSUME OneNest(f)
         PROVE  /\ Generator!InOrder(eNamespaces', Below(Spaces(f), n + 1))
                /\ eStruct' # 0 => Below(Spaces(f), n + 1) = Below(Spaces(f), eStruct')
    <2>1. /\ Generator!InOrder(eNamespaces, Below(Spaces(f), n))
          /\ eStruct # 0 => Below(Spaces(f), n) = Below(Spaces(f), eStruct)
      BY <1>1, <1>13 DEF SpacesMet
    <2>2. f[n].main BY <1>2, <1>13 DEF OneNest
    <2>3. eNamespaces' = IF n \in Spaces(f) THEN Append(eNamespaces, n) ELSE eNamespaces
      BY <1>8, <1>13, <2>2 DEF Progress
    <2>4. Below(Spaces(f), n + 1) = IF n \in Spaces(f) THEN Below(Spaces(f), n) \union {n}
                                    ELSE Below(Spaces(f), n)
      BY <1>6, <1>7
    <2>5. Generator!InOrder(Append(eNamespaces, n), Below(Spaces(f), n) \union {n})
      <3>1. \A m \in Below(Spaces(f), n) : m < n BY DEF Below
      <3> QED BY <1>1, <1>2, <2>1, <3>1, InOrderGoesOn
    <2>6. n \in O => n \notin Spaces(f) BY DEF Outer, Spaces
    <2>7. Generator!InOrder(eNamespaces', Below(Spaces(f), n + 1))
      BY <2>1, <2>3, <2>4, <2>5
    <2>8. eStruct' # 0 => Below(Spaces(f), n + 1) = Below(Spaces(f), eStruct')
      BY <1>2, <1>3, <2>1, <2>4, <2>6
    <2> QED BY <2>7, <2>8
  <1>14. EmtypenTypes'
    <2>1. eStruct' \in {0} \union Below(O, n + 1)
      <3>1. n \in O => n \in Below(O, n + 1) BY <1>2 DEF Below
      <3>2. p \in O => p \in Below(O, n + 1) BY <1>2 DEF Below
      <3> QED BY <1>3, <3>1, <3>2
    <2>2. eRecurse' = Recursed(f, n + 1) BY DEF Progress
    <2>3. eMembers' \in Seq(Nat)
      <3> DEFINE members == IF ~closes THEN eMembers ELSE <<>>
      <3>1. eMembers' = IF f[n].kind = "method" /\ f[n].main THEN Append(members, n) ELSE members
        BY DEF Progress
      <3>2. members \in Seq(Nat) BY <1>1
      <3> HIDE DEF members
      <3>3. Append(members, n) \in Seq(Nat) BY <1>2, <3>2
      <3> QED BY <3>1, <3>2, <3>3
    <2>4. eNamespaces' \in Seq(Nat)
      <3> DEFINE left == Generator!Left(n)
      <3>1. eNamespaces' = left \/ eNamespaces' = Append(left, n) BY DEF Progress
      <3>2. left \in Seq(Nat) BY <1>8
      <3> HIDE DEF left
      <3>3. Append(left, n) \in Seq(Nat) BY <1>2, <3>2
      <3> QED BY <3>1, <3>2, <3>3
    <2>5. n + 1 \in 1 .. Len(f) + 2 BY <1>2
    <2>6. /\ FileOk(eFile') /\ eNext' \in 1 .. Len(eFile') + 2 /\ ePhase' \in {"visit", "terminated"}
          /\ eStruct' \in {0} \union Below(Outer(eFile'), eNext')
          /\ eRecurse' = Recursed(eFile', eNext')
          /\ eMembers' \in Seq(Nat) /\ eNamespaces' \in Seq(Nat) /\ ePrinted' \in Seq(Structs)
      BY <1>1, <1>10, <2>1, <2>2, <2>3, <2>4, <2>5
    <2> QED BY <2>6 DEF EmtypenTypes
  <1>15. eNext' - 1 = n /\ eNext' # Len(f) + 2 BY <1>2
  <1> HIDE DEF O, closes
  <1> QED BY <1>10, <1>11, <1>12, <1>13, <1>14, <1>15, EmtypenNextInv DEF O

\* A cursor into whose parent the visit has not gone changes nothing.
LEMMA SkippedKept ==
  ASSUME EmtypenInv, Visiting, NEW n, n = eNext, n \in DOMAIN eFile,
         eFile[n].parent \notin eRecurse,
         UNCHANGED <<eRecurse, eNamespaces, eStruct, eMembers, ePrinted, ePhase>>,
         eNext' = n + 1, eFile' = eFile
  PROVE  EmtypenInv'
  <1> DEFINE f == eFile
             p == f[n].parent
             O == Outer(f)
  <1>1. /\ FileOk(f) /\ eRecurse = Recursed(f, n) /\ eStruct \in {0} \union Below(O, n)
        /\ eMembers \in Seq(Nat) /\ eNamespaces \in Seq(Nat) /\ ePrinted \in Seq(Structs)
        /\ ePhase \in {"visit", "terminated"}
        /\ ArchetypesMet
        /\ InsideFile(f) => MembersMet
        /\ OneNest(f) => SpacesMet
    BY DEF EmtypenInv, EmtypenTypes
  <1>2. /\ Len(f) \in Nat /\ DOMAIN f = 1 .. Len(f) /\ n \in 1 .. Len(f) /\ n \in Nat
        /\ p \in 0 .. Len(f) /\ p < n
        /\ p # 0 => p \in Generator!Enclosing(f, n - 1) /\ n - 1 \in 1 .. Len(f)
        /\ n + 1 \in 1 .. Len(f) + 2 /\ n + 1 # Len(f) + 2 /\ (n + 1) - 1 = n
    <2>1. Len(f) \in Nat /\ DOMAIN f = 1 .. Len(f) /\ n \in 1 .. Len(f)
      BY <1>1, FileFacts
    <2>2. p \in Nat /\ p < n /\ (p # 0 => p \in Generator!Enclosing(f, n - 1))
      BY <1>1, <2>1, FileFacts
    <2> HIDE DEF p
    <2> QED BY <2>1, <2>2
  <1>3. n \notin O /\ n \notin Spaces(f) BY <1>1, <1>2, WhereVisited
  <1>4. n \notin MethodsOf(f, eStruct)
    <2>1. p # 0 /\ (eStruct \in O /\ eStruct < n => eStruct \in Recursed(f, n))
      BY <1>1 DEF Recursed, Outer
    <2>2. eStruct \in Recursed(f, n) BY <1>1, <2>1 DEF Below, Recursed
    <2> QED BY <1>1, <2>2 DEF MethodsOf
  <1>5. ASSUME NEW S, S \subseteq DOMAIN f, n \notin S
        PROVE  Below(S, n + 1) = Below(S, n)
    <2>1. \A m \in S : m < n + 1 <=> m < n BY <1>2, <1>5
    <2> QED BY <2>1 DEF Below
  <1>6. O \subseteq DOMAIN f /\ Spaces(f) \subseteq DOMAIN f /\ MethodsOf(f, eStruct) \subseteq DOMAIN f
    BY DEF Outer, Spaces, MethodsOf
  <1>7. /\ Below(O, n + 1) = Below(O, n)
        /\ Below(Spaces(f), n + 1) = Below(Spaces(f), n)
        /\ Below(MethodsOf(f, eStruct), n + 1) = Below(MethodsOf(f, eStruct), n)
    BY <1>3, <1>4, <1>5, <1>6
  <1>8. Recursed(f, n + 1) = Recursed(f, n)
    <2>1. \A m \in DOMAIN f : m < n + 1 <=> m < n \/ m = n BY <1>2
    <2> QED BY <1>3, <2>1 DEF Recursed
  <1>9. ASSUME NEW a \in Below(O, n), a \in Generator!Enclosing(f, n)
        PROVE  a \in Generator!Enclosing(f, n - 1)
    <2>1. a \in Nat /\ a < n /\ a # n BY <1>2, <1>9 DEF Below, Outer
    <2>2. a \in Generator!Enclosing(f, p)
      BY <1>1, <1>2, <1>9, <2>1, EnclosingFacts
    <2>3. p # 0 BY <1>1, <2>2, EnclosingFacts
    <2> QED BY <1>1, <1>2, <2>2, <2>3, EnclosingFacts
  <1>10. EmtypenTypes'
    <2>1. /\ FileOk(eFile') /\ eNext' \in 1 .. Len(eFile') + 2 /\ ePhase' \in {"visit", "terminated"}
          /\ eStruct' \in {0} \union Below(Outer(eFile'), eNext')
          /\ eRecurse' = Recursed(eFile', eNext')
          /\ eMembers' \in Seq(Nat) /\ eNamespaces' \in Seq(Nat) /\ ePrinted' \in Seq(Structs)
      BY <1>1, <1>2, <1>7, <1>8
    <2> QED BY <2>1 DEF EmtypenTypes
  <1>11. /\ \A a \in Below(O, n) :
              /\ a \in Generator!Enclosing(f, n) => eStruct = a
              /\ eStruct # 0 => a <= eStruct
         /\ Generator!InOrder(StructsOf(ePrinted), Below(O, n) \ {eStruct})
    BY <1>1, <1>9 DEF ArchetypesMet
  <1>12. InsideFile(f) =>
           /\ Generator!InOrder(eMembers, Below(MethodsOf(f, eStruct), n))
           /\ \A i \in DOMAIN ePrinted :
                /\ ePrinted[i].members # <<>>
                /\ Generator!InOrder(ePrinted[i].members, MethodsOf(f, ePrinted[i].struct))
           /\ ePhase = "terminated" => \E s \in O : MethodsOf(f, s) = {}
    BY <1>1 DEF MembersMet
  <1>13. OneNest(f) =>
           /\ Generator!InOrder(eNamespaces, Below(Spaces(f), n))
           /\ eStruct # 0 => Below(Spaces(f), n) = Below(Spaces(f), eStruct)
           /\ \A i \in DOMAIN ePrinted :
                Generator!InOrder(ePrinted[i].within, SpacesOver(f, ePrinted[i].struct))
    BY <1>1 DEF SpacesMet
  <1> HIDE DEF O
  <1> QED BY <1>2, <1>7, <1>10, <1>11, <1>12, <1>13, EmtypenNextInv DEF O

\* So does the end of the visit.
LEMMA FinishKept == EmtypenInv /\ Generator!Finish => EmtypenInv'
  <1> SUFFICES ASSUME EmtypenInv, Generator!Finish
               PROVE  EmtypenInv'
    OBVIOUS
  <1> DEFINE f == eFile
             n == Len(f) + 1
             O == Outer(f)
  <1>1. /\ ePhase = "visit" /\ eNext = n /\ eNext' = n + 1
        /\ IF eStruct = 0 THEN UNCHANGED <<ePrinted, ePhase>>
           ELSE Generator!CloseStruct(eNamespaces)
        /\ eNamespaces' = <<>>
        /\ UNCHANGED <<eFile, eRecurse, eStruct, eMembers>>
    BY DEF Generator!Finish
  <1>2. /\ FileOk(f) /\ eRecurse = Recursed(f, n) /\ eStruct \in {0} \union Below(O, n)
        /\ eMembers \in Seq(Nat) /\ eNamespaces \in Seq(Nat) /\ ePrinted \in Seq(Structs)
    BY <1>1 DEF EmtypenInv, EmtypenTypes
  <1>3. Len(f) \in Nat /\ DOMAIN f = 1 .. Len(f) BY <1>2, FileFacts
  <1>4. Visiting BY <1>1, <1>3 DEF Visiting
  <1>5. ArchetypesMet /\ (InsideFile(f) => MembersMet) /\ (OneNest(f) => SpacesMet)
    BY <1>4 DEF EmtypenInv
  <1>6. Below(O, n) = O /\ 0 \notin O /\ Below(O, n + 1) = O /\ Recursed(f, n + 1) = Recursed(f, n)
    <2>1. \A m \in DOMAIN f : m < n /\ m < n + 1 /\ m # 0 BY <1>3
    <2> QED BY <2>1 DEF Below, Outer, Recursed
  <1>7. eNext \notin DOMAIN f BY <1>1, <1>3
  <1>8. /\ ePhase' \in {"visit", "terminated"} /\ ePrinted' \in Seq(Structs)
        /\ ePhase' = "visit" => Generator!InOrder(StructsOf(ePrinted'), O)
        /\ InsideFile(f) =>
             /\ \A i \in DOMAIN ePrinted' :
                  /\ ePrinted'[i].members # <<>>
                  /\ Generator!InOrder(ePrinted'[i].members, MethodsOf(f, ePrinted'[i].struct))
             /\ ePhase' = "terminated" => \E s \in O : MethodsOf(f, s) = {}
        /\ OneNest(f) =>
             \A i \in DOMAIN ePrinted' :
               Generator!InOrder(ePrinted'[i].within, SpacesOver(f, ePrinted'[i].struct))
    <2>1. CASE eStruct = 0
      <3>1. ePrinted' = ePrinted /\ ePhase' = "visit" BY <1>1, <2>1
      <3>2. Generator!InOrder(StructsOf(ePrinted), O)
        <4>1. O \ {eStruct} = O BY <1>6, <2>1
        <4> QED BY <1>1, <1>5, <1>6, <4>1 DEF ArchetypesMet
      <3>3. InsideFile(f) =>
              \A i \in DOMAIN ePrinted :
                /\ ePrinted[i].members # <<>>
                /\ Generator!InOrder(ePrinted[i].members, MethodsOf(f, ePrinted[i].struct))
        BY <1>5 DEF MembersMet
      <3>4. OneNest(f) =>
              \A i \in DOMAIN ePrinted :
                Generator!InOrder(ePrinted[i].within, SpacesOver(f, ePrinted[i].struct))
        BY <1>5 DEF SpacesMet
      <3> HIDE DEF O
      <3> QED BY <1>2, <3>1, <3>2, <3>3, <3>4
    <2>2. CASE eStruct # 0
      <3>1. Generator!CloseStruct(eNamespaces) BY <1>1, <2>2
      <3>2. Below(Outer(eFile), eNext) = O BY <1>1, <1>6
      <3> HIDE DEF O
      <3> QED BY <1>2, <1>4, <1>7, <2>2, <3>1, <3>2, StructClosed DEF O
    <2> QED BY <2>1, <2>2
  <1>9. EmtypenTypes'
    <2>1. n + 1 \in 1 .. Len(f) + 2 /\ <<>> \in Seq(Nat) BY <1>3
    <2>2. /\ FileOk(eFile') /\ eNext' \in 1 .. Len(eFile') + 2 /\ ePhase' \in {"visit", "terminated"}
          /\ eStruct' \in {0} \union Below(Outer(eFile'), eNext')
          /\ eRecurse' = Recursed(eFile', eNext')
          /\ eMembers' \in Seq(Nat) /\ eNamespaces' \in Seq(Nat) /\ ePrinted' \in Seq(Structs)
      BY <1>1, <1>2, <1>6, <1>8, <2>1
    <2> QED BY <2>2 DEF EmtypenTypes
  <1>10. ~ (eNext' <= Len(f) + 1) /\ eFile' = eFile BY <1>1, <1>3
  <1> HIDE DEF O
  <1> QED BY <1>8, <1>9, <1>10, EmtypenNextInv DEF O

\* Every step does.
LEMMA EmtypenKept == EmtypenInv /\ [Generator!Next]_emtypeVars => EmtypenInv'
  <1> SUFFICES ASSUME EmtypenInv, [Generator!Next]_emtypeVars
               PROVE  EmtypenInv'
    OBVIOUS
  <1>1. CASE Generator!Step
    <2> DEFINE n == eNext
               p == eFile[n].parent
    <2>1. /\ ePhase = "visit" /\ n <= Len(eFile) /\ eNext' = n + 1 /\ eFile' = eFile
          /\ IF p \in eRecurse THEN Generator!Visit(n)
             ELSE UNCHANGED <<eRecurse, eNamespaces, eStruct, eMembers, ePrinted, ePhase>>
      BY <1>1 DEF Generator!Step, Generator!Parent, Generator!data
    <2>2. FileOk(eFile) /\ n \in 1 .. Len(eFile) + 2
      BY DEF EmtypenInv, EmtypenTypes
    <2>3. n \in DOMAIN eFile /\ Visiting
      <3>1. Len(eFile) \in Nat /\ DOMAIN eFile = 1 .. Len(eFile)
        BY <2>2, FileFacts
      <3> QED BY <2>1, <2>2, <3>1 DEF Visiting
    <2>4. CASE p \in eRecurse
      <3>1. Generator!Visit(n) BY <2>1, <2>4
      <3>2. Progress(n, p) BY <2>3, <2>4, <3>1, VisitTells
      <3> QED BY <2>1, <2>3, <2>4, <3>2, VisitedKept
    <2>5. CASE p \notin eRecurse BY <2>1, <2>3, <2>5, SkippedKept
    <2> QED BY <2>4, <2>5
  <1>2. CASE Generator!Finish BY <1>2, FinishKept
  <1>3. CASE UNCHANGED emtypeVars
    BY <1>3 DEF emtypeVars, EmtypenInv, EmtypenTypes, Visiting, ArchetypesMet, MembersMet, SpacesMet
  <1> QED BY <1>1, <1>2, <1>3 DEF Generator!Next

----------------------------------------------------------------------------
\* What libclang hands over, cursor by cursor.
LEMMA FilesOk ==
  ASSUME MaxCursors \in Nat, NEW file \in Generator!Files
  PROVE  FileOk(file)
  <1> DEFINE Cut(n) == [kind : Generator!Kinds, parent : 0 .. n - 1, main : BOOLEAN]
             Grown(n, s) ==
               UNION {{g \in {Append(f, c) : c \in Cut(n)} : Generator!IsFile(g)} : f \in s}
             OkFiles == {g \in Seq(Cursors) : Generator!IsFile(g)}
             R == SUBSET OkFiles
             next == [k \in Nat |-> [s \in R |-> Grown(k + 1, s)]]
             Is(g) == g = [n \in 0 .. MaxCursors |-> IF n = 0 THEN {<<>>} ELSE Grown(n, g[n - 1])]
  <1>1. {<<>>} \in R
    <2>1. <<>> \in Seq(Cursors) /\ DOMAIN <<>> = {} OBVIOUS
    <2>2. Generator!IsFile(<<>>) BY <2>1 DEF Generator!IsFile
    <2> QED BY <2>1, <2>2
  <1>2. ASSUME NEW k \in Nat, NEW s \in R
        PROVE  Grown(k + 1, s) \in R
    <2>1. ASSUME NEW g \in Grown(k + 1, s)
          PROVE  g \in OkFiles
      <3>1. PICK f \in s, c \in Cut(k + 1) : g = Append(f, c) /\ Generator!IsFile(g)
        BY <2>1
      <3>2. c \in Cursors
        <4>1. 0 .. (k + 1) - 1 \subseteq Nat OBVIOUS
        <4> QED BY <3>1, <4>1 DEF Cursors
      <3>3. f \in Seq(Cursors) BY <1>2
      <3>4. Append(f, c) \in Seq(Cursors) BY <3>2, <3>3
      <3> QED BY <3>1, <3>4
    <2> HIDE DEF Grown, OkFiles
    <2> QED BY <2>1
  <1> HIDE DEF Grown, OkFiles, R
  <1>3. next \in [Nat -> [R -> R]] BY <1>2
  <1>4. PICK u \in [Nat -> R] : u[0] = {<<>>} /\ \A k \in Nat : u[k + 1] = next[k][u[k]]
    <2> HIDE DEF next
    <2>1. PICK u \in [Nat -> R] : Runs(u, {<<>>}, next) BY <1>1, <1>3, RunExists
    <2> QED BY <2>1 DEF Runs
  <1>5. \A k \in Nat : u[k + 1] = Grown(k + 1, u[k]) BY <1>4
  <1> DEFINE w == [n \in 0 .. MaxCursors |-> u[n]]
  <1>6. Is(w)
    <2>1. ASSUME NEW n \in 0 .. MaxCursors
          PROVE  w[n] = IF n = 0 THEN {<<>>} ELSE Grown(n, w[n - 1])
      <3>1. CASE n = 0 BY <1>4, <3>1
      <3>2. CASE n # 0
        <4>1. n - 1 \in Nat /\ n - 1 \in 0 .. MaxCursors /\ (n - 1) + 1 = n
          BY <3>2
        <4>2. w[n] = u[n] /\ w[n - 1] = u[n - 1] BY <4>1
        <4>3. u[(n - 1) + 1] = Grown((n - 1) + 1, u[n - 1]) BY <1>5, <4>1
        <4> QED BY <3>2, <4>1, <4>2, <4>3
      <3> QED BY <3>1, <3>2
    <2>2. w = [n \in 0 .. MaxCursors |-> w[n]] OBVIOUS
    <2> HIDE DEF w
    <2> QED BY <2>1, <2>2
  <1> DEFINE grow == CHOOSE g : Is(g)
  <1>7. Is(grow)
    <2> HIDE DEF Is, w
    <2> QED BY <1>6
  <1>8. Generator!Files = grow[MaxCursors] BY DEF Generator!Files, Grown
  <1> HIDE DEF grow
  <1>9. \A n \in 0 .. MaxCursors : grow[n] = IF n = 0 THEN {<<>>} ELSE Grown(n, grow[n - 1])
    BY <1>7, Zenon
  <1>10. \A n \in Nat : n <= MaxCursors => grow[n] \in R
    <2> DEFINE T == {n \in Nat : n <= MaxCursors => grow[n] \in R}
    <2>1. 0 \in T
      <3>1. 0 \in 0 .. MaxCursors OBVIOUS
      <3> QED BY <1>1, <1>9, <3>1
    <2>2. ASSUME NEW n \in Nat, n \in T
          PROVE  n + 1 \in T
      <3> SUFFICES ASSUME n + 1 <= MaxCursors
                   PROVE  grow[n + 1] \in R
        OBVIOUS
      <3>1. n + 1 \in 0 .. MaxCursors /\ n + 1 # 0 /\ (n + 1) - 1 = n /\ n <= MaxCursors
        OBVIOUS
      <3>2. grow[n] \in R /\ grow[n + 1] = Grown(n + 1, grow[n])
        BY <1>9, <2>2, <3>1
      <3> QED BY <1>2, <3>2
    <2> HIDE DEF T
    <2>3. \A n \in Nat : n \in T BY <2>1, <2>2, NumbersByStep
    <2> QED BY <2>3 DEF T
  <1>11. file \in OkFiles BY <1>8, <1>10 DEF R
  <1> QED BY <1>11 DEF OkFiles, FileOk

\* The invariant holds before the first visit, of every file.
LEMMA EmtypenStarts ==
  ASSUME MaxCursors \in Nat, Generator!Init
  PROVE  EmtypenInv
  <1>1. /\ eFile \in Generator!Files /\ eNext = 1 /\ eRecurse = {0} /\ eNamespaces = <<>>
        /\ eStruct = 0 /\ eMembers = <<>> /\ ePrinted = <<>> /\ ePhase = "visit"
    BY DEF Generator!Init
  <1>2. FileOk(eFile) BY <1>1, FilesOk
  <1>3. Len(eFile) \in Nat /\ DOMAIN eFile = 1 .. Len(eFile) BY <1>2, FileFacts
  <1>4. \A m \in DOMAIN eFile : ~ (m < 1) BY <1>3
  <1>5. /\ Below(Outer(eFile), 1) = {} /\ Below(Spaces(eFile), 1) = {}
        /\ \A s : Below(MethodsOf(eFile, s), 1) = {}
        /\ Recursed(eFile, 1) = {0}
    BY <1>4 DEF Below, Outer, Spaces, MethodsOf, Recursed
  <1>6. DOMAIN <<>> = {} /\ \A S : <<>> \in Seq(S) OBVIOUS
  <1>7. 1 \in 1 .. Len(eFile) + 2 /\ 1 # Len(eFile) + 2 BY <1>3
  <1>8. EmtypenTypes BY <1>1, <1>2, <1>5, <1>6, <1>7 DEF EmtypenTypes
  <1>9. StructsOf(ePrinted) = <<>> BY <1>1, <1>6 DEF StructsOf
  <1>10. Generator!InOrder(<<>>, {}) BY <1>6 DEF Generator!InOrder
  <1>11. ArchetypesMet BY <1>1, <1>5, <1>9, <1>10 DEF ArchetypesMet
  <1>12. MembersMet BY <1>1, <1>5, <1>6, <1>10 DEF MembersMet
  <1>13. SpacesMet BY <1>1, <1>5, <1>6, <1>10 DEF SpacesMet
  <1> QED BY <1>1, <1>7, <1>8, <1>11, <1>12, <1>13 DEF EmtypenInv

\* What the invariant says of the structs printed.
LEMMA PrintedRight ==
  ASSUME EmtypenInv
  PROVE  Generator!ArchetypesPrinted /\ Generator!OneNestPreserved
  <1>1. FileOk(eFile) BY DEF EmtypenInv, EmtypenTypes
  <1>2. Len(eFile) \in Nat /\ DOMAIN eFile = 1 .. Len(eFile) BY <1>1, FileFacts
  <1>3. Generator!Archetypes = Outer(eFile)
    <2>1. ASSUME NEW n \in DOMAIN eFile
          PROVE  Generator!InnermostOf(Generator!Parent(n), "struct") = 0
                   <=> \A e \in Generator!Enclosing(eFile, eFile[n].parent) : eFile[e].kind # "struct"
      <3> DEFINE p == eFile[n].parent
                 S == {e \in Generator!Enclosing(eFile, p) : eFile[e].kind = "struct"}
      <3>1. p \in 0 .. Len(eFile) /\ Generator!Parent(n) = p
        <4>1. p \in Nat /\ p < n BY <1>1, <1>2, FileFacts
        <4> HIDE DEF p
        <4>2. p \in 0 .. Len(eFile) BY <1>2, <4>1
        <4> QED BY <4>2 DEF p, Generator!Parent
      <3>2. /\ S = {} => Generator!InnermostOf(p, "struct") = 0
            /\ S # {} => Generator!InnermostOf(p, "struct") \in S
        BY <1>1, <3>1, InnermostFacts
      <3>3. 0 \notin S BY <1>1, <3>1, EnclosingFacts
      <3> QED BY <3>1, <3>2, <3>3
    <2>2. \A n \in DOMAIN eFile : Generator!Kind(n) = eFile[n].kind
      BY <1>2 DEF Generator!Kind
    <2> QED BY <2>1, <2>2 DEF Generator!Archetypes, Outer
  <1>4. \A s : Generator!Members(s) = MethodsOf(eFile, s)
    BY <1>2 DEF Generator!Members, MethodsOf, Generator!Kind, Generator!Parent
  <1>5. Generator!InsideOnly => InsideFile(eFile)
    BY <1>2 DEF Generator!InsideOnly, InsideFile, Generator!Kind, Generator!Parent
  <1>6. Generator!ArchetypesPrinted
    <2>1. InsideFile(eFile) =>
            /\ \A i \in DOMAIN ePrinted :
                 /\ ePrinted[i].members # <<>>
                 /\ Generator!InOrder(ePrinted[i].members, MethodsOf(eFile, ePrinted[i].struct))
            /\ ePhase = "terminated" => \E s \in Outer(eFile) : MethodsOf(eFile, s) = {}
      BY DEF EmtypenInv, MembersMet
    <2>2. ePhase = "visit" /\ eNext = Len(eFile) + 2 =>
            Generator!InOrder([i \in DOMAIN ePrinted |-> ePrinted[i].struct], Outer(eFile))
      BY DEF EmtypenInv, StructsOf
    <2> QED BY <1>3, <1>4, <1>5, <2>1, <2>2 DEF Generator!ArchetypesPrinted
  <1>7. Generator!OneNestPreserved
    <2>1. \A n \in DOMAIN eFile : Generator!Kind(n) = eFile[n].kind
      BY <1>2 DEF Generator!Kind
    <2> SUFFICES ASSUME \A n, m \in DOMAIN eFile :
                          /\ eFile[n].main
                          /\ Generator!Kind(n) = "namespace" /\ n < m
                               => n \in Generator!Enclosing(eFile, m),
                        NEW i \in DOMAIN ePrinted
                 PROVE  Generator!InOrder(ePrinted[i].within,
                                          Generator!NamespacesOf(ePrinted[i].struct))
      BY DEF Generator!OneNestPreserved
    <2>2. OneNest(eFile) BY <2>1 DEF OneNest
    <2>3. Generator!InOrder(ePrinted[i].within, SpacesOver(eFile, ePrinted[i].struct))
      BY <2>2 DEF EmtypenInv, SpacesMet
    <2>4. ASSUME NEW s
          PROVE  Generator!NamespacesOf(s) = SpacesOver(eFile, s)
      <3>1. \A e \in Generator!Enclosing(eFile, s) : e # 0
        BY DEF Generator!Enclosing
      <3> QED BY <3>1 DEF Generator!NamespacesOf, SpacesOver, Generator!Kind
    <2> QED BY <2>3, <2>4
  <1> QED BY <1>6, <1>7

\* FirstOf finds the first token of a set.
LEMMA FirstFound ==
  ASSUME NEW tokens, NEW n \in Nat, DOMAIN tokens = 1 .. n, Len(tokens) = n, NEW S,
         NEW k \in 1 .. n, tokens[k] \in S, \A i \in 1 .. k - 1 : tokens[i] \notin S
  PROVE  Generator!FirstOf(tokens, S) = k
  <1> DEFINE T == {i \in DOMAIN tokens : tokens[i] \in S} \union {Len(tokens) + 1}
  <1>1. k \in T OBVIOUS
  <1>2. ASSUME NEW i \in T
        PROVE  i \in Nat /\ k <= i
    <2>1. CASE i = n + 1 BY <2>1
    <2>2. CASE i \in 1 .. n /\ tokens[i] \in S
      <3>1. i \in Nat /\ i >= 1 /\ ~ (i \in 1 .. k - 1) BY <2>2
      <3> QED BY <3>1
    <2> QED BY <1>2, <2>1, <2>2
  <1>3. Generator!FirstOf(tokens, S) = Generator!Min(T) BY DEF Generator!FirstOf
  <1> HIDE DEF T
  <1>4. \A m \in T : (\A i \in T : m <= i) => m = k BY <1>1, <1>2
  <1>5. \E m \in T : \A i \in T : m <= i BY <1>1, <1>2
  <1>6. Generator!Min(T) \in T /\ \A i \in T : Generator!Min(T) <= i
    BY <1>5 DEF Generator!Min
  <1> QED BY <1>3, <1>4, <1>6

\* The elements of two sequences, one behind the other.
LEMMA Joined ==
  ASSUME NEW V, NEW s \in Seq(V), NEW t \in Seq(V)
  PROVE  /\ s \o t \in Seq(V) /\ Len(s \o t) = Len(s) + Len(t)
         /\ Len(s) \in Nat /\ Len(t) \in Nat
         /\ \A i \in 1 .. Len(s) + Len(t) :
              (s \o t)[i] = IF i <= Len(s) THEN s[i] ELSE t[i - Len(s)]
  OBVIOUS

\* A function is found to be const if the token before its body or its end is.
LEMMA ConstnessTold ==
  ASSUME MaxTokens \in Nat
  PROVE  Generator!ConstnessFound
  <1> DEFINE P == {"const", "name"}
  <1>1. ASSUME NEW before, before \in Generator!BoundedSeq(P, MaxTokens),
               NEW params, params \in Generator!BoundedSeq(P, MaxTokens),
               NEW after, after \in {<<>>, <<"const">>},
               NEW end, end \in {<<"semicolon">>, <<"brace", "const", "endbrace">>},
               NEW tokens, tokens = before \o <<"open">> \o params \o <<"close">> \o after \o end
        PROVE  Generator!Constness(tokens)
                 = (Generator!Last(Generator!Signature(tokens)) = "const")
    <2> DEFINE a == Len(before)
               c == a + 1 + Len(params) + 1
               d == Len(after)
               n == c + d + Len(end)
               S == {"brace", "semicolon"}
               V == P \union S \union {"open", "close", "endbrace"}
    <2>1. before \in Seq(P) /\ params \in Seq(P)
      <3>1. ASSUME NEW s \in Generator!BoundedSeq(P, MaxTokens)
            PROVE  s \in Seq(P)
        <4>1. PICK m \in 0 .. MaxTokens : s \in [1 .. m -> P]
          BY DEF Generator!BoundedSeq, Generator!SeqOf
        <4>2. m \in Nat BY <4>1
        <4> QED BY <4>1, <4>2
      <3> QED BY <1>1, <3>1
    <2>2. after \in Seq(V) /\ d \in {0, 1} /\ \A i \in 1 .. d : after[i] = "const"
      <3>1. CASE after = <<>> BY <3>1
      <3>2. CASE after = <<"const">>
        <4>1. /\ "const" \in V /\ <<"const">> \in [1 .. 1 -> {"const"}]
              /\ Len(<<"const">>) = 1 /\ <<"const">>[1] = "const"
          OBVIOUS
        <4> HIDE DEF V
        <4>2. <<"const">> \in Seq(V) BY <4>1
        <4>3. \A i \in 1 .. 1 : i = 1 OBVIOUS
        <4> QED BY <3>2, <4>1, <4>2, <4>3
      <3> QED BY <1>1, <3>1, <3>2
    <2>3. end \in Seq(V) /\ Len(end) \in Nat /\ Len(end) >= 1 /\ end[1] \in S
      <3>1. CASE end = <<"semicolon">>
        <4>1. /\ "semicolon" \in V /\ "semicolon" \in S
              /\ Len(<<"semicolon">>) = 1 /\ <<"semicolon">>[1] = "semicolon"
          OBVIOUS
        <4> HIDE DEF V, S
        <4>2. <<"semicolon">> \in Seq(V) BY <4>1
        <4> QED BY <3>1, <4>1, <4>2
      <3>2. CASE end = <<"brace", "const", "endbrace">>
        <4>1. /\ "brace" \in V /\ "const" \in V /\ "endbrace" \in V /\ "brace" \in S
              /\ Len(<<"brace", "const", "endbrace">>) = 3
              /\ <<"brace", "const", "endbrace">>[1] = "brace"
          OBVIOUS
        <4> HIDE DEF V, S
        <4>2. <<"brace", "const", "endbrace">> \in Seq(V) BY <4>1
        <4> QED BY <3>2, <4>1, <4>2
      <3> QED BY <1>1, <3>1, <3>2
    <2>4. /\ a \in Nat /\ \A i \in 1 .. a : before[i] \in P
          /\ Len(params) \in Nat /\ \A i \in 1 .. Len(params) : params[i] \in P
          /\ before \in Seq(V) /\ params \in Seq(V)
      <3>1. P \subseteq V OBVIOUS
      <3> HIDE DEF P, V
      <3>2. before \in Seq(V) /\ params \in Seq(V) BY <2>1, <3>1
      <3> QED BY <2>1, <3>2
    <2>19. /\ "open" \in V /\ "close" \in V
           /\ <<"open">> \in Seq({"open"}) /\ <<"close">> \in Seq({"close"})
           /\ Len(<<"open">>) = 1 /\ <<"open">>[1] = "open"
           /\ Len(<<"close">>) = 1 /\ <<"close">>[1] = "close"
      OBVIOUS
    <2>20. <<"open">> \in Seq(V) /\ <<"close">> \in Seq(V)
      <3> HIDE DEF V
      <3> QED BY <2>19
    <2> HIDE DEF V
    <2> DEFINE t1 == before \o <<"open">>
               t2 == t1 \o params
               t3 == t2 \o <<"close">>
               t4 == t3 \o after
    <2>21. tokens = t4 \o end BY <1>1
    <2>5. /\ t1 \in Seq(V) /\ Len(t1) = a + 1
          /\ \A i \in 1 .. a + 1 : t1[i] \in P \union {"open"}
      <3>1. /\ t1 \in Seq(V) /\ Len(t1) = a + 1
            /\ \A i \in 1 .. a + 1 : t1[i] = IF i <= a THEN before[i] ELSE <<"open">>[i - a]
        BY <2>4, <2>19, <2>20, Joined
      <3> HIDE DEF t1, a
      <3>2. ASSUME NEW i \in 1 .. a + 1
            PROVE  t1[i] \in P \union {"open"}
        <4>1. (i <= a /\ i \in 1 .. a) \/ (~ (i <= a) /\ i - a = 1) BY <2>4
        <4> QED BY <2>4, <2>19, <3>1, <4>1
      <3> QED BY <3>1, <3>2
    <2> HIDE DEF t1
    <2>6. /\ t2 \in Seq(V) /\ Len(t2) = c - 1
          /\ \A i \in 1 .. c - 1 : t2[i] \in P \union {"open"}
      <3> DEFINE b == Len(params)
      <3>1. /\ t2 \in Seq(V) /\ Len(t2) = a + 1 + b
            /\ \A i \in 1 .. a + 1 + b : t2[i] = IF i <= a + 1 THEN t1[i] ELSE params[i - (a + 1)]
        <4>1. t1 \in Seq(V) /\ params \in Seq(V) /\ Len(t1) = a + 1 /\ b = Len(params)
          BY <2>4, <2>5
        <4>2. t2 = t1 \o params OBVIOUS
        <4> HIDE DEF a, b, t2
        <4>3. /\ t1 \o params \in Seq(V) /\ Len(t1 \o params) = Len(t1) + Len(params)
              /\ \A i \in 1 .. Len(t1) + Len(params) :
                   (t1 \o params)[i] = IF i <= Len(t1) THEN t1[i] ELSE params[i - Len(t1)]
          BY <4>1, Joined
        <4> QED BY <4>1, <4>2, <4>3
      <3>2. c - 1 = a + 1 + b /\ b \in Nat /\ \A i \in 1 .. b : params[i] \in P
        BY <2>4
      <3> HIDE DEF t2, a, b, c
      <3>3. ASSUME NEW i \in 1 .. a + 1 + b
            PROVE  t2[i] \in P \union {"open"}
        <4>1. (i <= a + 1 /\ i \in 1 .. a + 1) \/ (~ (i <= a + 1) /\ i - (a + 1) \in 1 .. b)
          BY <2>4, <3>2
        <4> QED BY <2>5, <3>1, <3>2, <4>1
      <3> QED BY <3>1, <3>2, <3>3
    <2>7. c \in Nat /\ c >= 2 BY <2>4
    <2> HIDE DEF t2, c, a
    <2>8. /\ t3 \in Seq(V) /\ Len(t3) = c /\ t3[c] = "close"
          /\ \A i \in 1 .. c - 1 : t3[i] = t2[i]
      <3>1. /\ t3 \in Seq(V) /\ Len(t3) = (c - 1) + 1
            /\ \A i \in 1 .. (c - 1) + 1 : t3[i] = IF i <= c - 1 THEN t2[i]
                                                   ELSE <<"close">>[i - (c - 1)]
        BY <2>6, <2>19, <2>20, Joined
      <3> HIDE DEF t3
      <3>2. (c - 1) + 1 = c /\ c \in 1 .. c /\ ~ (c <= c - 1) /\ c - (c - 1) = 1
        BY <2>7
      <3>3. t3[c] = "close" BY <2>19, <3>1, <3>2
      <3>4. \A i \in 1 .. c - 1 : i \in 1 .. c /\ i <= c - 1 BY <2>7
      <3> QED BY <3>1, <3>2, <3>3, <3>4
    <2> HIDE DEF t3
    <2>9. /\ t4 \in Seq(V) /\ Len(t4) = c + d
          /\ \A i \in 1 .. c + d : t4[i] = IF i <= c THEN t3[i] ELSE after[i - c]
      BY <2>2, <2>8, Joined
    <2> HIDE DEF t4, d
    <2>10. /\ tokens \in Seq(V) /\ Len(tokens) = n /\ DOMAIN tokens = 1 .. n
           /\ n \in Nat /\ c + d < n
           /\ \A i \in 1 .. n : tokens[i] = IF i <= c + d THEN t4[i] ELSE end[i - (c + d)]
      <3>2. c + d \in Nat BY <2>2, <2>7
      <3>3. /\ tokens \in Seq(V) /\ Len(tokens) = c + d + Len(end)
            /\ \A i \in 1 .. c + d + Len(end) : tokens[i] = IF i <= c + d THEN t4[i]
                                                           ELSE end[i - (c + d)]
        <4>1. /\ t4 \o end \in Seq(V) /\ Len(t4 \o end) = Len(t4) + Len(end)
              /\ \A i \in 1 .. Len(t4) + Len(end) :
                   (t4 \o end)[i] = IF i <= Len(t4) THEN t4[i] ELSE end[i - Len(t4)]
          BY <2>3, <2>9, Joined
        <4>2. Len(t4) = c + d BY <2>9
        <4> QED BY <2>21, <4>1, <4>2
      <3>4. DOMAIN tokens = 1 .. Len(tokens) BY <3>3
      <3> QED BY <2>3, <3>2, <3>3, <3>4
    <2> HIDE DEF n
    <2>11. /\ \A i \in 1 .. c - 1 : tokens[i] \in P \union {"open"}
           /\ tokens[c] = "close"
           /\ \A i \in 1 .. n : c < i /\ i <= c + d => tokens[i] = "const"
           /\ tokens[c + d + 1] \in S
      <3>1. ASSUME NEW i \in 1 .. c - 1
            PROVE  tokens[i] \in P \union {"open"}
        <4>1. i \in 1 .. n /\ i \in 1 .. c + d /\ i <= c + d /\ i <= c
          BY <2>2, <2>7, <2>10
        <4>2. tokens[i] = t2[i] BY <2>8, <2>9, <2>10, <4>1
        <4> QED BY <2>6, <4>2
      <3>2. tokens[c] = "close"
        <4>1. c \in 1 .. n /\ c \in 1 .. c + d /\ c <= c + d
          BY <2>2, <2>7, <2>10
        <4> QED BY <2>8, <2>9, <2>10, <4>1
      <3>3. ASSUME NEW i \in 1 .. n, c < i, i <= c + d
            PROVE  tokens[i] = "const"
        <4>1. i \in 1 .. c + d /\ ~ (i <= c) /\ i - c \in 1 .. d
          BY <2>2, <2>7, <3>3
        <4> QED BY <2>2, <2>9, <2>10, <3>3, <4>1
      <3>4. tokens[c + d + 1] \in S
        <4>1. c + d + 1 \in 1 .. n /\ ~ (c + d + 1 <= c + d) /\ (c + d + 1) - (c + d) = 1
          BY <2>2, <2>7, <2>10
        <4> QED BY <2>3, <2>10, <4>1
      <3> QED BY <3>1, <3>2, <3>3, <3>4
    <2>12. Generator!FirstOf(tokens, {"close"}) = c
      <3>1. c \in 1 .. n /\ tokens[c] \in {"close"} BY <2>2, <2>7, <2>10, <2>11
      <3>2. \A i \in 1 .. c - 1 : tokens[i] \notin {"close"} BY <2>11
      <3> QED BY <2>10, <3>1, <3>2, FirstFound
    <2>13. Generator!FirstOf(tokens, S) = c + d + 1
      <3>1. c + d + 1 \in 1 .. n BY <2>2, <2>7, <2>10
      <3>2. \A i \in 1 .. (c + d + 1) - 1 : tokens[i] \notin S
        <4>1. ASSUME NEW i \in 1 .. (c + d + 1) - 1
              PROVE  tokens[i] \notin S
          <5>1. i \in 1 .. n /\ i <= c + d /\ (i \in 1 .. c - 1 \/ i = c \/ c < i)
            BY <2>2, <2>7, <2>10
          <5> QED BY <2>11, <5>1
        <4> QED BY <4>1
      <3> QED BY <2>10, <2>11, <3>1, <3>2, FirstFound
    <2>14. (c + d + 1) - 1 = c + d /\ c + d \in 1 .. n /\ c \in 1 .. n /\ (d = 0 \/ d = 1)
      BY <2>2, <2>7, <2>10
    <2>15. Generator!Constness(tokens) <=> \E i \in 1 .. c + d : tokens[i] = "const" /\ c < i
      BY <2>12, <2>13, <2>14 DEF Generator!Constness
    <2>16. Generator!Last(Generator!Signature(tokens)) = tokens[c + d]
      <3>1. Generator!Signature(tokens) = SubSeq(tokens, 1, c + d)
        BY <2>13, <2>14 DEF Generator!Signature
      <3>2. Len(SubSeq(tokens, 1, c + d)) = c + d /\ SubSeq(tokens, 1, c + d)[c + d] = tokens[c + d]
        BY <2>10, <2>14
      <3> QED BY <3>1, <3>2 DEF Generator!Last
    <2>17. CASE d = 0
      <3>1. ~ \E i \in 1 .. c + d : tokens[i] = "const" /\ c < i BY <2>7, <2>17
      <3>2. tokens[c + d] = "close" BY <2>7, <2>11, <2>17
      <3> QED BY <2>15, <2>16, <3>1, <3>2 DEF Generator!Constness
    <2>18. CASE d = 1
      <3>1. c + d \in 1 .. n /\ c < c + d /\ c + d <= c + d /\ c + d \in 1 .. c + d
        BY <2>7, <2>14, <2>18
      <3>2. tokens[c + d] = "const" BY <2>11, <3>1
      <3> QED BY <2>15, <2>16, <3>1, <3>2 DEF Generator!Constness
    <2> QED BY <2>14, <2>17, <2>18
  <1> QED BY <1>1 DEF Generator!ConstnessFound

\* Each of the three tags of a form is replaced by its members.
LEMMA FormsTold == Generator!FormsFilled
  <1>1. ASSUME NEW f \in Generator!Forms
        PROVE  Generator!Fill(f) = [i \in DOMAIN f |-> IF f[i] = <<"text">> THEN f[i]
                                                       ELSE <<"members", f[i][2]>>]
    <2>1. PICK n \in 1 .. 4 : f \in [1 .. n -> Generator!Lines]
      BY DEF Generator!Forms
    <2>12. DOMAIN f = 1 .. n BY <2>1
    <2>3. ASSUME NEW tag \in Generator!Tags
          PROVE  /\ Generator!ExpansionLine(f, tag) \in 1 .. n
                 /\ \A j \in 1 .. n : f[j] = <<"tag", tag>> <=> j = Generator!ExpansionLine(f, tag)
      <3>1. PICK i \in DOMAIN f : \A j \in DOMAIN f : f[j] = <<"tag", tag>> <=> j = i
        BY Zenon DEF Generator!Forms
      <3>2. {j \in DOMAIN f : f[j] = <<"tag", tag>>} = {i} BY <3>1
      <3>3. Generator!ExpansionLine(f, tag) = Generator!Max({i})
        BY <3>2 DEF Generator!ExpansionLine
      <3>4. Generator!Max({i}) = i
        <4>1. i \in Nat /\ {i} \subseteq 1 .. i /\ {i} # {} BY <2>12, <3>1
        <4> QED BY <4>1, Greatest
      <3> QED BY <2>12, <3>1, <3>3, <3>4
    <2> DEFINE x == Generator!ExpansionLine(f, "nonvirtual")
               y == Generator!ExpansionLine(f, "pure_virtual")
               z == Generator!ExpansionLine(f, "virtual")
    <2>4. /\ x \in 1 .. n /\ \A j \in 1 .. n : f[j] = <<"tag", "nonvirtual">> <=> j = x
          /\ y \in 1 .. n /\ \A j \in 1 .. n : f[j] = <<"tag", "pure_virtual">> <=> j = y
          /\ z \in 1 .. n /\ \A j \in 1 .. n : f[j] = <<"tag", "virtual">> <=> j = z
      <3>1. "nonvirtual" \in Generator!Tags /\ "pure_virtual" \in Generator!Tags
              /\ "virtual" \in Generator!Tags
        BY DEF Generator!Tags
      <3> QED BY <2>3, <3>1
    <2>5. Generator!Fill(f) = [f EXCEPT ![x] = <<"members", "nonvirtual">>,
                                        ![y] = <<"members", "pure_virtual">>,
                                        ![z] = <<"members", "virtual">>]
      BY DEF Generator!Fill
    <2> HIDE DEF x, y, z
    <2>6. x # y /\ y # z /\ x # z
      <3>1. f[x] = <<"tag", "nonvirtual">> /\ f[y] = <<"tag", "pure_virtual">>
              /\ f[z] = <<"tag", "virtual">>
        BY <2>4
      <3>2. f[x][2] = "nonvirtual" /\ f[y][2] = "pure_virtual" /\ f[z][2] = "virtual"
        BY <3>1
      <3> QED BY <3>2
    <2>7. ASSUME NEW j \in 1 .. n
          PROVE  /\ f[j] = <<"text">> \/ j \in {x, y, z}
                 /\ f[j] = <<"text">> => j \notin {x, y, z}
      <3>1. f[j] \in Generator!Lines BY <2>1
      <3>2. f[j] = <<"text">> \/ \E tag \in Generator!Tags : f[j] = <<"tag", tag>>
        BY <3>1 DEF Generator!Lines
      <3>3. \A tag : <<"text">> # <<"tag", tag>>
        <4>1. \A tag : <<"text">>[1] = "text" /\ <<"tag", tag>>[1] = "tag"
          OBVIOUS
        <4> QED BY <4>1
      <3> QED BY <2>4, <3>2, <3>3 DEF Generator!Tags
    <2> DEFINE g == [i \in DOMAIN f |-> IF f[i] = <<"text">> THEN f[i] ELSE <<"members", f[i][2]>>]
               h == [f EXCEPT ![x] = <<"members", "nonvirtual">>,
                              ![y] = <<"members", "pure_virtual">>,
                              ![z] = <<"members", "virtual">>]
    <2>9. ASSUME NEW j \in 1 .. n
          PROVE  h[j] = g[j]
      <3>1. h[j] = IF j = z THEN <<"members", "virtual">>
                   ELSE IF j = y THEN <<"members", "pure_virtual">>
                   ELSE IF j = x THEN <<"members", "nonvirtual">> ELSE f[j]
        BY <2>4, <2>12
      <3>2. g[j] = IF f[j] = <<"text">> THEN f[j] ELSE <<"members", f[j][2]>>
        BY <2>12
      <3>3. CASE j = x
        <4>1. f[j] = <<"tag", "nonvirtual">> BY <2>4, <3>3
        <4>2. f[j][2] = "nonvirtual" BY <4>1
        <4>3. f[j] # <<"text">> BY <2>7, <3>3
        <4> QED BY <2>6, <3>1, <3>2, <3>3, <4>2, <4>3
      <3>4. CASE j = y
        <4>1. f[j] = <<"tag", "pure_virtual">> BY <2>4, <3>4
        <4>2. f[j][2] = "pure_virtual" BY <4>1
        <4>3. f[j] # <<"text">> BY <2>7, <3>4
        <4> QED BY <2>6, <3>1, <3>2, <3>4, <4>2, <4>3
      <3>5. CASE j = z
        <4>1. f[j] = <<"tag", "virtual">> BY <2>4, <3>5
        <4>2. f[j][2] = "virtual" BY <4>1
        <4>3. f[j] # <<"text">> BY <2>7, <3>5
        <4> QED BY <2>6, <3>1, <3>2, <3>5, <4>2, <4>3
      <3>6. CASE j \notin {x, y, z} BY <2>7, <3>1, <3>2, <3>6
      <3> QED BY <3>3, <3>4, <3>5, <3>6
    <2>10. h = [j \in 1 .. n |-> h[j]] /\ g = [j \in 1 .. n |-> g[j]] BY <2>12
    <2> HIDE DEF g, h
    <2>11. h = g BY <2>9, <2>10
    <2> QED BY <2>5, <2>11 DEF g, h
  <1> QED BY <1>1 DEF Generator!FormsFilled

\* For every file, whatever its cursors and their order, and whatever the bounds: the
\* generator prints every archetype once, in order, with its own member functions
\* and, if the file has one nest of namespaces, in its namespaces; it finds out which
\* functions are const and fills each tag of a form (visit, close_struct,
\* member_params and find_expansion_lines of src/type_erasure/emtypen/emtypen.cpp).
THEOREM ArchetypesAreErased == LibrarySpec => []ArchetypesErased
  <1>1. LibraryInit => EmtypenInv
    BY LibraryAssumption, EmtypenStarts DEF LibraryInit, LibraryStart, Generator!EmtypenAssumption
  <1>2. [LibraryNext]_libraryVars => [Generator!Next]_emtypeVars
    BY DEF LibraryNext, libraryVars, emtypeVars
  <1>3. EmtypenInv /\ [LibraryNext]_libraryVars => EmtypenInv'
    BY <1>2, EmtypenKept
  <1>4. EmtypenInv => ArchetypesErased
    BY LibraryAssumption, PrintedRight, ConstnessTold, FormsTold
       DEF ArchetypesErased, Generator!EmtypenAssumption
  <1> QED BY <1>1, <1>3, <1>4, PTL DEF LibrarySpec
=============================================================================

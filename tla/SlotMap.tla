------------------------------ MODULE SlotMap ------------------------------
(***************************************************************************)
(* SlotMap (include/slot_map.h) with its id type (include/types.h), and    *)
(* EntityManager (src/entity_manager.cpp), which adds an assertion to it.  *)
(* Slots live in chunks that are allocated when the LIFO free list is      *)
(* empty; an id is the index of a slot and the version the slot had when   *)
(* the id was returned, each in a bit field of the id's word.              *)
(***************************************************************************)
EXTENDS Integers, Sequences

CONSTANTS
  ChunkSize,   \* kChunkSize
  Indices,     \* 2 ^ index_bits: the index field holds values below it
  Versions,    \* 2 ^ version_bits
  MaxChunks,   \* bound: no chunk is added when there are this many
  MaxFree      \* bound: nothing is destroyed when this many slots are free

ASSUME SlotMapAssumption ==
  /\ ChunkSize \in Nat \ {0}
  /\ Indices \in Nat \ {0}
  /\ Versions \in Nat \ {0, 1}
  /\ MaxChunks \in Nat
  /\ MaxFree \in Nat

VARIABLES
  chunks,      \* slot_table_.size()
  object,      \* the id stored in the object of each slot
  freeList,    \* free_list_
  aborted,     \* an assertion failed and ended the program
  live,        \* history: the ids created and not destroyed since
  issued,      \* history: every id that create returned
  exhausted    \* history: a version or an index did not fit its field

vars == <<chunks, object, freeList, aborted, live, issued, exhausted>>

Id(i, v)  == [index |-> i, version |-> v]
NullId    == Id(0, 0)
SlotCount == chunks * ChunkSize
SlotsOf(n) == 0 .. n * ChunkSize - 1

Init ==
  /\ chunks = 0
  /\ object = [s \in {} |-> NullId]
  /\ freeList = <<>>
  /\ aborted = FALSE
  /\ live = {}
  /\ issued = {}
  /\ exhausted = FALSE

----------------------------------------------------------------------------
\* create returns the id of slot s, taken from the back of the free list.
\* Storing s in the index field truncates it.
Issue(s, stored) ==
  LET id == Id(s % Indices, stored[s].version) IN
  /\ object' = [stored EXCEPT ![s] = id]
  /\ live' = live \union {id}
  /\ issued' = issued \union {id}
  /\ exhausted' = (exhausted \/ s >= Indices)

CreateFromFreeList ==
  /\ ~aborted
  /\ freeList # <<>>
  /\ Issue(freeList[Len(freeList)], object)
  /\ freeList' = SubSeq(freeList, 1, Len(freeList) - 1)
  /\ UNCHANGED <<chunks, aborted>>

\* Mutation: no id is reserved as null.
WithPlainChunk ==
  [s \in SlotsOf(chunks + 1) |-> IF s < SlotCount THEN object[s] ELSE NullId]

\* The new chunk's objects have id 0.0; slot 0 gets version 1 at once, so that
\* the id 0.0 is never returned.  The free list receives the chunk's slots in
\* descending order and gives the last of them back.
WithNewChunk ==
  [s \in SlotsOf(chunks + 1) |->
     IF s < SlotCount THEN object[s]
     ELSE IF s = 0 THEN Id(0, 1) ELSE NullId]

CreateFromNewChunk ==
  /\ ~aborted
  /\ freeList = <<>>
  /\ chunks < MaxChunks
  /\ chunks' = chunks + 1
  /\ Issue(SlotCount, WithNewChunk)
  /\ freeList' = [k \in 1 .. ChunkSize - 1 |-> SlotCount + ChunkSize - k]
  /\ UNCHANGED aborted

Create == CreateFromFreeList \/ CreateFromNewChunk

\* get, and EntityManager::alive: the slot exists and stores this very id.
Alive(id) == id.index < SlotCount /\ object[id.index] = id

\* Mutation: the version is not counted up.
DestroySameVersion(id) ==
  /\ ~aborted
  /\ Len(freeList) < MaxFree
  /\ Alive(id)
  /\ freeList' = Append(freeList, object[id.index].index)
  /\ live' = live \ {id}
  /\ UNCHANGED <<chunks, object, aborted, issued, exhausted>>

\* Mutation: a slot is freed without asserting that the id is alive.
DestroyUnchecked(id) ==
  /\ ~aborted
  /\ Len(freeList) < MaxFree
  /\ object' = [object EXCEPT ![id.index] = Id(@.index, (@.version + 1) % Versions)]
  /\ freeList' = Append(freeList, object[id.index].index)
  /\ live' = live \ {id}
  /\ exhausted' = (exhausted \/ object[id.index].version + 1 = Versions)
  /\ UNCHANGED <<chunks, aborted, issued>>

\* destroy, of an id that create returned at some time: asserts that it is
\* alive, counts the version up in its field, frees the index in the object.
Destroy(id) ==
  /\ ~aborted
  /\ Len(freeList) < MaxFree
  /\ IF Alive(id)
       THEN /\ object' = [object EXCEPT ![id.index] = Id(@.index, (@.version + 1) % Versions)]
            /\ freeList' = Append(freeList, object[id.index].index)
            /\ live' = live \ {id}
            /\ exhausted' = (exhausted \/ id.version + 1 = Versions)
            /\ UNCHANGED aborted
       ELSE /\ aborted' = TRUE
            /\ UNCHANGED <<object, freeList, live, exhausted>>
  /\ UNCHANGED <<chunks, issued>>

Next == Create \/ \E id \in issued : Destroy(id)

Spec == Init /\ [][Next]_vars

----------------------------------------------------------------------------
Ids == [index : 0 .. Indices - 1, version : 0 .. Versions - 1]

TypeOK ==
  /\ chunks \in Nat
  /\ object \in [SlotsOf(chunks) -> Ids]
  /\ freeList \in Seq(SlotsOf(chunks))
  /\ aborted \in BOOLEAN
  /\ live \in SUBSET Ids
  /\ issued \in SUBSET Ids
  /\ exhausted \in BOOLEAN

\* Until a version or an index runs out of its field, the ids that get and
\* alive accept among all ids ever returned are exactly those not destroyed: a
\* stale id never resolves to the object that took over its slot, and a live
\* one always resolves.
AliveIsLive ==
  ~exhausted => \A id \in issued : Alive(id) <=> id \in live

\* Until then every slot is free or the slot of exactly one live id, never
\* both, and the free list holds no slot twice: destroying ids in any order
\* neither leaks a slot nor hands it out twice.
SlotsAccounted ==
  ~exhausted =>
    /\ \A m, n \in DOMAIN freeList : freeList[m] = freeList[n] => m = n
    /\ \A s \in SlotsOf(chunks) :
         (\E n \in DOMAIN freeList : freeList[n] = s)
           <=> ~\E id \in live : id.index = s
    /\ \A id1, id2 \in live : id1.index = id2.index => id1 = id2

\* The slot map implements an allocator of unique ids: every create returns an
\* id that was never returned before and is not null (lines 54-58, 95-96), and
\* destroy ends just the life of that id, until the fields are exhausted.
Allocator == INSTANCE IdAllocator WITH alive <- live

ImplementsAllocator == Allocator!Spec
============================================================================

------------------------- MODULE LibraryInvariants -------------------------
(***************************************************************************)
(* The inductive invariants of the containers and tools of Library, and    *)
(* what they and their proofs in LibraryProofs are stated with.            *)
(***************************************************************************)
EXTENDS Library, FiniteSets

----------------------------------------------------------------------------
(* SlotMap: every chunk size and every width of the index and version fields. *)

IsFree(s) == \E n \in DOMAIN freeList : freeList[n] = s

\* A slot never stores an index above its own.
IndicesBelow == \A s \in SlotsOf(chunks) : object[s].index <= s

\* The version of a slot only grows: every id issued for it is no newer than
\* the slot, and older when the id is not live.
IssuedOlder ==
  \A id \in issued :
    /\ id.index \in SlotsOf(chunks)
    /\ id.version <= object[id.index].version
    /\ id \notin live => id.version < object[id.index].version

LiveStored ==
  \A id \in live :
    id \in issued /\ id.index \in SlotsOf(chunks) /\ object[id.index] = id

NullReserved == chunks > 0 => object[0].version > 0

FreeOnce == \A m, n \in DOMAIN freeList : freeList[m] = freeList[n] => m = n

FreeOrLive ==
  \A s \in SlotsOf(chunks) : IsFree(s) <=> ~\E id \in live : id.index = s

\* What holds until a field is exhausted.
Sound == IssuedOlder /\ LiveStored /\ NullReserved /\ FreeOnce /\ FreeOrLive

\* The inductive invariant.
SlotsInv == TypeOK /\ IndicesBelow /\ (~exhausted => Sound)

\* What a create does, before the fields are exhausted.
Created(id) ==
  /\ live' = live \union {id}
  /\ issued' = issued \union {id}
  /\ id \in Ids \ (issued \union {NullId})

----------------------------------------------------------------------------
(* TypeErasure: any containers, values and number of objects.              *)

ErasedObject == [value : ErasedValues, by : Containers, big : BOOLEAN]

\* A container that never took another's object has one of its own memory.
OwnObjects ==
  \A c \in tLive \ tAstray : tObjects[tSelf[c]].by = c /\ tSelf[c] \notin tGone

ErasureInv ==
  /\ tLive \subseteq Containers
  /\ tObjects \in Seq(ErasedObject)
  /\ tSelf \in [Containers -> Nat]
  /\ tMeant \in [Containers -> ErasedValues \union {0}]
  /\ tGone \subseteq 1 .. Len(tObjects)
  /\ \A c \in tLive : tSelf[c] \in 1 .. Len(tObjects)
  /\ OwnObjects
  /\ Erasure!CopiesApart

----------------------------------------------------------------------------
(* BitSpan: any width of a block and any number of bits.                   *)

BitsInv ==
  /\ sMemory \subseteq Int
  /\ ~sSpilled => sMemory = sIdeal /\ \A b \in sMemory : b < BitCount

----------------------------------------------------------------------------
(* DependencyInjection: any types and factories, in any order of the search. *)

Marks     == {"none", "unmarked", "temp", "perm"}
VisitCall == [node : Types, todo : SUBSET Types]

InjectorTypes ==
  /\ dPhase \in {"config", "visit", "run", "built", "aborted", "undefined"}
  /\ dDevelopment \in BOOLEAN
  /\ dNeeds \in [Types -> SUBSET Types]
  /\ dDependents \in [Types -> SUBSET Types]
  /\ dMark \in [Types -> Marks]
  /\ dProvided \subseteq Types
  /\ dPath \in Seq(VisitCall)
  /\ dOutput \in Seq(Types)
  /\ dInstances \subseteq Types

\* Both ends of an edge are nodes, and whatever a factory needs has an edge to it.
Edges ==
  /\ \A u \in Types : \A t \in dDependents[u] : dMark[u] # "none" /\ dMark[t] # "none"
  /\ \A t \in Types : \A u \in dNeeds[t] : t \in dDependents[u]
  /\ \A t \in dProvided : dMark[t] # "none"

Untouched ==
  /\ \A n \in Types : dMark[n] \in {"none", "unmarked"}
  /\ dPath = <<>> /\ dOutput = <<>> /\ dInstances = {}

\* Each call was made for a dependent of the node below it.
Chained(p) ==
  \A i \in 1 .. Len(p) :
    /\ p[i].todo \subseteq dDependents[p[i].node]
    /\ i > 1 => p[i - 1].node \in dDependents[p[i].node]

\* The nodes being visited are those with a temporary mark.
OnPath(p, m) ==
  /\ \A n \in Types : m[n] = "temp" <=> \E i \in 1 .. Len(p) : p[i].node = n
  /\ \A i, j \in 1 .. Len(p) : p[i].node = p[j].node => i = j

\* A dependent that a call has no longer to visit is visited, or the node of
\* the call above.
Behind(p, m) ==
  \A i \in 1 .. Len(p) : \A d \in dDependents[p[i].node] :
    d \in p[i].todo \/ m[d] = "perm" \/ (i > 1 /\ d = p[i - 1].node)

\* No visited node has a dependent that is not, and none is part of a cycle.
Closed(m) ==
  \A t \in Types : m[t] = "perm" => \A d \in dDependents[t] : m[d] = "perm"
Acyclic(m) ==
  \A S \in SUBSET {t \in Types : m[t] = "perm"} :
    S # {} => \E t \in S : dDependents[t] \intersect S = {}

\* The search meets no node that it is visiting, or stops there.
Calm == dDevelopment \/ ~Injector!Cyclic

\* The initializers found so far, each below those of what it needs.
Found(out, m) ==
  \A t \in Types : t \in dProvided /\ m[t] = "perm" <=> \E i \in 1 .. Len(out) : out[i] = t
Ordered(out, m) ==
  \A i \in 1 .. Len(out) : \A u \in dNeeds[out[i]] :
    m[u] = "perm" => \E j \in 1 .. i - 1 : out[j] = u

Good == ~Injector!Cyclic /\ Injector!Satisfied

\* What is left to run needs instances that exist or come before.
Runnable(out, made) ==
  /\ \A t \in Types : t \in dProvided <=> t \in made \/ \E i \in 1 .. Len(out) : out[i] = t
  /\ \A i \in 1 .. Len(out) : \A u \in dNeeds[out[i]] :
       u \in made \/ \E j \in 1 .. i - 1 : out[j] = u

InjectorInv ==
  /\ InjectorTypes /\ Edges
  /\ dPhase = "config" => Untouched
  /\ dPhase = "visit" => dInstances = {} /\ Chained(dPath) /\ OnPath(dPath, dMark)
  /\ dPhase = "visit" /\ Calm => Behind(dPath, dMark) /\ Closed(dMark) /\ Acyclic(dMark)
  /\ dPhase = "visit" /\ Good => Found(dOutput, dMark) /\ Ordered(dOutput, dMark)
  /\ dPhase = "run" /\ Good => Runnable(dOutput, dInstances)
  /\ Injector!BuildsInOrder /\ Injector!CycleReported

\* What a step of the search leaves alone.
SearchStep ==
  /\ dPhase = "visit"
  /\ UNCHANGED <<dDevelopment, dNeeds, dDependents, dProvided, dInstances>>

----------------------------------------------------------------------------
(* PriorityQueue: items of any order among the integers, and any length.   *)

\* The ranges of n items, and where a step of up_heap or down_heap is in them.
RangesOf(n) == [0 .. n - 1 -> HeapItems]
Steps(n)    == [range : RangesOf(n), at : 0 .. n - 1]

PlacesOf(h, x) == {i \in DOMAIN h : h[i] = x}

\* As often, each of them.
SameItems(g, h) == \A x \in HeapItems : Cardinality(PlacesOf(g, x)) = Cardinality(PlacesOf(h, x))

\* Nodes from lo on have no larger children.
HeapFrom(h, lo) ==
  \A c \in DOMAIN h : c # 0 /\ Heap!Parent(c) >= lo => h[c] <= h[Heap!Parent(c)]

\* So they have but for the item at node at, which may be larger than its parent.
Rising(h, at) ==
  /\ \A c \in DOMAIN h : c # 0 /\ c # at => h[c] <= h[Heap!Parent(c)]
  /\ \A c \in DOMAIN h : c # 0 /\ at # 0 /\ Heap!Parent(c) = at => h[c] <= h[Heap!Parent(at)]

\* The same from lo on, but that it may be smaller than its children.
Sinking(h, lo, at) ==
  /\ \A c \in DOMAIN h :
       c # 0 /\ Heap!Parent(c) >= lo /\ Heap!Parent(c) # at => h[c] <= h[Heap!Parent(c)]
  /\ \A c \in DOMAIN h :
       c # 0 /\ at # 0 /\ Heap!Parent(c) = at /\ Heap!Parent(at) >= lo =>
         h[c] <= h[Heap!Parent(at)]

\* The inductive invariant.
HeapInv ==
  /\ pBuilt \in BOOLEAN
  /\ \E n \in Nat : pData \in RangesOf(n)
  /\ pHeld \in [HeapItems -> Int]
  /\ \A x \in HeapItems : pHeld[x] = Cardinality(PlacesOf(pData, x))
  /\ pBuilt => HeapFrom(pData, 0)

----------------------------------------------------------------------------
(* MemoryBlock: any number of arrays, of any sizes and alignments.         *)

Count == Len(ArraySizes)

\* What array i has of the block with capacity cap, when at is its layout.
BytesOfArray(at, cap, i) == at[i] .. at[i] + cap * ArraySizes[i] - 1

\* Element k of array i, in the layout at.
ElementOf(at, i, k) == at[i] + (k - 1) * ArraySizes[i] .. at[i] + k * ArraySizes[i] - 1

\* The inductive invariant.  Before the first grow there is no block and no element.
Placed(at) ==
  /\ kPointer = [i \in 1 .. Count |-> at[i]]
  /\ DOMAIN kBlock = 0 .. at[Count + 1] - 1

MemoryInv ==
  /\ kCapacity \in Nat
  /\ kCapacity > 0 => Placed(Memory!Layout(kCapacity))
  /\ DOMAIN kContents = 1 .. Count
  /\ \E n \in 0 .. kCapacity : \A i \in 1 .. Count :
       kContents[i] \in Seq(ArrayValues) /\ Len(kContents[i]) = n
  /\ Memory!ContentsKept

----------------------------------------------------------------------------
(* VertexLayout: any attributes and gaps, any number of calls.             *)

\* The calls of add_vertex_buffer.
VertexCalls == [buffer : Buffers, offset : Offsets, layout : Layouts]

\* The call that named location l last is call k.
NamedLast(k, l) ==
  /\ k \in 1 .. Len(vCalls) /\ l \in Vertices!Given(vCalls[k].layout)
  /\ \A j \in 1 .. Len(vCalls) : l \in Vertices!Given(vCalls[j].layout) => j <= k

\* The inductive invariant: the enabled locations are those that were named, and each
\* has the pointer of the last attribute that the last call has for it.
LayoutInv ==
  /\ vCalls \in Seq(VertexCalls)
  /\ \A l \in DOMAIN vPointers : \E k : NamedLast(k, l)
  /\ \A k, l : NamedLast(k, l) =>
       /\ l \in DOMAIN vPointers
       /\ vPointers[l] = Vertices!Pointer(vCalls[k], Vertices!LastOf(vCalls[k].layout, l))

----------------------------------------------------------------------------
(* BuddyAllocator: any leaf, any buffer, any requests.                     *)

\* Base is the bit at which the second half of the tracking bits starts, and
\* PairBit the bit of the second half that the node with index i shares with its
\* buddy (Buddy!AllocationBit).
Base(h)       == 8 * (Buddy!Pow2[h] \div 8)
PairBit(h, i) == Base(h) + (i + 1) \div 2

Addresses  == 0 .. Buddy!Total - 1
Depths     == 0 .. MaxHeight
Node(x, d) == Buddy!IndexAtDepth(x, d)

\* The blocks of a tree of height h, and whether x is in one of them.
Blocks(h) == {p \in Addresses \X (0 .. h) : p[1] % Buddy!BlockSize(p[2]) = 0}
In(x, p)  == Node(x, p[2]) = Node(p[1], p[2])

\* No node in a block of its size or less is split and no lesser pair in it is
\* marked, and the node that it is a half of is split.
Clean(h, bits, p) ==
  /\ \A x \in Addresses : In(x, p) =>
       /\ \A k \in p[2] .. h - 1 : Buddy!Index(x, k) \notin bits
       /\ \A k \in p[2] + 1 .. h : PairBit(h, Buddy!Index(x, k)) \notin bits
  /\ p[2] > 0 => Buddy!Index(p[1], p[2] - 1) \in bits

\* What the tracking bits say of the blocks F, which are free, and U, which are
\* not: no two share an address, they are clean, a pair with a free half is
\* marked, and no pair has two.
SoundBlocks(h, bits, F, U) ==
  /\ F \subseteq Blocks(h) /\ U \subseteq Blocks(h) /\ F \intersect U = {}
  /\ \A p, q \in F \union U : \A x \in Addresses : In(x, p) /\ In(x, q) => p = q
  /\ \A p \in F \union U : Clean(h, bits, p)
  /\ \A p \in F : p[2] > 0 => PairBit(h, Buddy!Index(p[1], p[2])) \in bits
  /\ \A p, q \in F :
       p[2] = q[2] /\ p[2] > 0 /\ Node(p[1], p[2] - 1) = Node(q[1], p[2] - 1) => p = q

\* Every address is in one of them.
Covered(F, U) == \A x \in Addresses : \E p \in F \union U : In(x, p)

\* The second halves that the block at a, of depth f, leaves where it is split down
\* to depth d.
Pieces(a, f, d) == {<<a + Buddy!BlockSize(k), k>> : k \in f + 1 .. d}

\* The bits after that.
SplitBits(h, bits, a, f, d) ==
  Buddy!Flip(bits, {PairBit(h, Buddy!Index(a, k)) : k \in f .. d})
    \union {Buddy!Index(a, k) : k \in f .. d - 1}

\* The free blocks and the others after that.
LessSplit(F, a, f, d) == (F \ {<<a, f>>}) \union Pieces(a, f, d)
With(U, p)            == U \union {p}

\* The bits after a block is freed whose buddy is not free: the split bits in S are
\* reset, and its pair is marked.
FreedBits(h, bits, S, a, d) == Buddy!Flip(bits \ S, {PairBit(h, Buddy!Index(a, d))})
Less(U, p)                  == U \ {p}

\* The blocks in the free lists, and lists that have no block twice.
FreeOf(h, lists) ==
  {p \in Addresses \X (0 .. h) : \E i \in DOMAIN lists[p[2]] : lists[p[2]][i] = p[1]}

Listed(h, lists) ==
  /\ lists \in [0 .. h -> Seq(Addresses)]
  /\ \A k \in 0 .. h : \A i, j \in DOMAIN lists[k] : lists[k][i] = lists[k][j] => i = j

\* Pushing a block before the first of a list forgets the others.
Pushed(a, l) == <<a>> \o SubSeq(l, 1, IF l = <<>> THEN 0 ELSE 1)

\* The n blocks of the greatest depth that the tracking bits take.
Tracking(h, n) == {<<j * Buddy!BlockSize(h), h>> : j \in 0 .. n - 1}

\* While the constructor allocates, the deeper a free block the lower its address,
\* and there is one of a depth at most.
Descending(F) ==
  \A p, q \in F : (p[2] < q[2] => q[1] < p[1]) /\ (p[2] = q[2] => p = q)

\* The lists and bits after n allocations of the constructor.
Built(h, n, s) ==
  /\ Listed(h, s.free) /\ s.bits \subseteq Nat
  /\ SoundBlocks(h, s.bits, FreeOf(h, s.free), Tracking(h, n))
  /\ Covered(FreeOf(h, s.free), Tracking(h, n))
  /\ Descending(FreeOf(h, s.free))

\* What the constructor has after each of its allocations.
First(h) == [free |-> [k \in 0 .. h |-> IF k = 0 THEN << 0 >> ELSE <<>>], bits |-> {}]

\* The depth that a size is given.
DepthOf(s) == Buddy!DepthOfBlockSize(Buddy!Pow2Ceil(s))

\* The blocks of clients, and those that are not free.
Granted(clients)  == {<<b.at, DepthOf(b.size)>> : b \in clients}
Taken(h, clients) == Tracking(h, Buddy!TrackingLeafBlocks) \union Granted(clients)

\* Each client has a block of its own that holds what it asked for.
Clients(h, clients) ==
  /\ clients \subseteq [at : Addresses, size : Requests]
  /\ Granted(clients) \intersect Tracking(h, Buddy!TrackingLeafBlocks) = {}
  /\ \A b, c \in clients : b.at = c.at => b = c
  /\ \A b \in clients : b.size <= Buddy!BlockSize(DepthOf(b.size))

\* The inductive invariant of the allocator.
Buffer ==
  /\ Listed(bHeight, bFree)
  /\ SoundBlocks(bHeight, bBits, FreeOf(bHeight, bFree), Taken(bHeight, bLive))
  /\ Clients(bHeight, bLive)
  /\ ~bDropped => Covered(FreeOf(bHeight, bFree), Taken(bHeight, bLive))

BuddyInv == bHeight \in Heights /\ (~bMerged => Buffer)

\* Who has a leaf has a block with its first byte.
IsTracking(r, x) ==
  \E j \in 0 .. Buddy!TrackingLeafBlocks - 1 :
    /\ r = <<"tracking", j + 1>>
    /\ In(x, <<j * Buddy!BlockSize(bHeight), bHeight>>)

IsClient(r, x) ==
  \E b \in bLive : r = <<"live", b.at, b.size>> /\ In(x, <<b.at, DepthOf(b.size)>>)

IsListed(r, x) ==
  \E p \in FreeOf(bHeight, bFree) : r = <<"free", p[1], p[2]>> /\ In(x, p)

----------------------------------------------------------------------------
(* Emtypen: every file of any number of cursors.                           *)

Cursors == [kind : Generator!Kinds, parent : Nat, main : BOOLEAN]

\* The parents of f are before their children.
Rooted(f) == f \in Seq(Cursors) /\ \A m \in DOMAIN f : f[m].parent < m

FileOk(f) == f \in Seq(Cursors) /\ Generator!IsFile(f)

\* u is the run of the cursors that enclose n.
GoesUp(f, n, u) ==
  /\ u[0] = n
  /\ \A k \in Nat : u[k + 1] = IF u[k] = 0 THEN 0 ELSE f[u[k]].parent
  /\ \A k \in Nat : k > n => u[k] = 0
  /\ Generator!Enclosing(f, n) = {u[k] : k \in 0 .. Len(f)} \ {0}

\* The archetypes of f: structs of the main file that are in no struct.
Outer(f) ==
  {n \in DOMAIN f : /\ f[n].kind = "struct" /\ f[n].main
                    /\ \A e \in Generator!Enclosing(f, f[n].parent) : f[e].kind # "struct"}

Spaces(f) == {n \in DOMAIN f : f[n].kind = "namespace"}

MethodsOf(f, s) == {n \in DOMAIN f : f[n].kind = "method" /\ f[n].parent = s}

\* The cursors before n into which the visit has gone.
Recursed(f, n) == {0} \union {m \in DOMAIN f : m < n /\ (m \in Spaces(f) \/ m \in Outer(f))}

Below(S, n) == {m \in S : m < n}

StructsOf(list) == [i \in DOMAIN list |-> list[i].struct]

InsideFile(f) ==
  \A n \in DOMAIN f : f[n].kind = "method" => f[n].parent # 0 /\ f[f[n].parent].kind = "struct"

OneNest(f) ==
  \A n, m \in DOMAIN f :
    /\ f[n].main
    /\ f[n].kind = "namespace" /\ n < m => n \in Generator!Enclosing(f, m)

SpacesOver(f, s) == {e \in Generator!Enclosing(f, s) : f[e].kind = "namespace"}

Structs == [struct : Nat, within : Seq(Nat), members : Seq(Nat)]

EmtypenTypes ==
  /\ FileOk(eFile)
  /\ eNext \in 1 .. Len(eFile) + 2 /\ ePhase \in {"visit", "terminated"}
  /\ eStruct \in {0} \union Below(Outer(eFile), eNext)
  /\ eRecurse = Recursed(eFile, eNext)
  /\ eMembers \in Seq(Nat) /\ eNamespaces \in Seq(Nat) /\ ePrinted \in Seq(Structs)

Visiting == ePhase = "visit" /\ eNext <= Len(eFile) + 1

\* The current struct is the archetype around the last cursor, if there is one, and it
\* is the only one that is not printed yet.
ArchetypesMet ==
  /\ \A a \in Below(Outer(eFile), eNext) :
       /\ a \in Generator!Enclosing(eFile, eNext - 1) => eStruct = a
       /\ eStruct # 0 => a <= eStruct
  /\ Generator!InOrder(StructsOf(ePrinted), Below(Outer(eFile), eNext) \ {eStruct})

\* What is printed and what is collected are the members of their archetype.
MembersMet ==
  /\ Visiting => Generator!InOrder(eMembers, Below(MethodsOf(eFile, eStruct), eNext))
  /\ \A i \in DOMAIN ePrinted :
       /\ ePrinted[i].members # <<>>
       /\ Generator!InOrder(ePrinted[i].members, MethodsOf(eFile, ePrinted[i].struct))
  /\ ePhase = "terminated" => \E s \in Outer(eFile) : MethodsOf(eFile, s) = {}

\* With one nest of namespaces all of those met are open, and there is none behind the
\* current struct.
SpacesMet ==
  /\ Visiting => /\ Generator!InOrder(eNamespaces, Below(Spaces(eFile), eNext))
                 /\ eStruct # 0 => Below(Spaces(eFile), eNext) = Below(Spaces(eFile), eStruct)
  /\ \A i \in DOMAIN ePrinted :
       Generator!InOrder(ePrinted[i].within, SpacesOver(eFile, ePrinted[i].struct))

\* The inductive invariant.
EmtypenInv ==
  /\ EmtypenTypes
  /\ Visiting => ArchetypesMet
  /\ ePhase = "visit" /\ eNext = Len(eFile) + 2 =>
       Generator!InOrder(StructsOf(ePrinted), Outer(eFile))
  /\ InsideFile(eFile) => MembersMet
  /\ OneNest(eFile) => SpacesMet

\* What the visit of a cursor does, said by what the cursor and its parent are.
Progress(n, p) ==
  /\ p \in Outer(eFile) => eStruct = p /\ n \notin Outer(eFile) \union Spaces(eFile)
  /\ eStruct \in {0, p} => ePrinted' = ePrinted /\ ePhase' = ePhase
  /\ eStruct \notin {0, p} =>
       Generator!CloseStruct(Generator!Left(n)) /\ eStruct \notin Generator!Enclosing(eFile, n)
  /\ eNamespaces' = IF n \in Spaces(eFile) /\ eFile[n].main
                      THEN Append(Generator!Left(n), n) ELSE Generator!Left(n)
  /\ eStruct' = IF n \in Outer(eFile) THEN n ELSE IF p \in Outer(eFile) THEN p ELSE 0
  /\ LET members == IF eStruct \in {0, p} THEN eMembers ELSE <<>>
     IN  eMembers' = IF eFile[n].kind = "method" /\ eFile[n].main
                       THEN Append(members, n) ELSE members
  /\ eRecurse' = Recursed(eFile, n + 1)
=============================================================================

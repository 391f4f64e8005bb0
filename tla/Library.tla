------------------------------ MODULE Library ------------------------------
(***************************************************************************)
(* One instance of each container and tool of the library that a single    *)
(* thread uses: the slot map, BitSpan, BuddyAllocator, PriorityQueue,      *)
(* MemoryBlock, VertexLayout, DependencyInjection, TypeErasure and Emtypen.*)
(* They share nothing, so a behaviour is one of the component that subject *)
(* names; the others stay as they began.                                   *)
(***************************************************************************)
EXTENDS SlotMap

CONSTANTS
  Width, BitCount,                      \* Width and Size of BitSpan
  LeafSize, MaxHeight, Heights, Requests, \* as in BuddyAllocator
  HeapItems, HeapLength,                \* Items and MaxLength of PriorityQueue
  ArraySizes, ArrayAligns, ArrayValues, \* Sizes, Aligns and Values of MemoryBlock
  MaxCapacity, Junk,                    \* as in MemoryBlock
  Layouts, Buffers, Offsets, MaxCalls,  \* as in VertexLayout
  Types, MaxAdds,                       \* as in DependencyInjection
  Containers, ErasedValues, MaxObjects, \* as in TypeErasure
  MaxCursors, MaxTokens                 \* as in Emtypen

VARIABLES
  subject,
  sMemory, sIdeal, sSpilled,
  bHeight, bFree, bBits, bLive, bMerged, bDropped,
  pData, pBuilt, pHeld,
  kCapacity, kPointer, kBlock, kContents,
  vPointers, vArray, vCalls,
  dDevelopment, dPhase, dAdds, dNeeds, dDependents, dMark, dProvided, dPath, dOutput,
  dInstances,
  tLive, tObjects, tSelf, tGone, tMeant, tAstray,
  eFile, eNext, eRecurse, eNamespaces, eStruct, eMembers, ePrinted, ePhase

Bits == INSTANCE BitSpan WITH
  Size <- BitCount, memory <- sMemory, ideal <- sIdeal, spilled <- sSpilled

Buddy == INSTANCE BuddyAllocator WITH
  height <- bHeight, free <- bFree, bits <- bBits, live <- bLive, merged <- bMerged,
  dropped <- bDropped

Heap == INSTANCE PriorityQueue WITH
  Items <- HeapItems, MaxLength <- HeapLength, data <- pData, built <- pBuilt, held <- pHeld

Memory == INSTANCE MemoryBlock WITH
  Sizes <- ArraySizes, Aligns <- ArrayAligns, Values <- ArrayValues,
  capacity <- kCapacity, pointer <- kPointer, block <- kBlock, contents <- kContents

Vertices == INSTANCE VertexLayout WITH
  pointers <- vPointers, array <- vArray, calls <- vCalls

Injector == INSTANCE DependencyInjection WITH
  development <- dDevelopment, phase <- dPhase, adds <- dAdds,
  needs <- dNeeds, dependents <- dDependents, mark <- dMark, provided <- dProvided,
  path <- dPath, output <- dOutput, instances <- dInstances

Erasure == INSTANCE TypeErasure WITH
  Values <- ErasedValues,
  live <- tLive, objects <- tObjects, self <- tSelf, gone <- tGone, meant <- tMeant,
  astray <- tAstray

Generator == INSTANCE Emtypen WITH
  file <- eFile, next <- eNext, recurse <- eRecurse,
  current_namespaces <- eNamespaces, current_struct <- eStruct,
  member_functions <- eMembers, printed <- ePrinted, phase <- ePhase

ASSUME LibraryAssumption ==
  /\ Bits!BitSpanAssumption /\ Buddy!BuddyAssumption /\ Heap!PriorityQueueAssumption
  /\ Memory!BlockAssumption /\ Vertices!LayoutsAssumption /\ Erasure!ErasureAssumption
  /\ Generator!EmtypenAssumption

----------------------------------------------------------------------------
bitVars     == <<sMemory, sIdeal, sSpilled>>
buddyVars   == <<bHeight, bFree, bBits, bLive, bMerged, bDropped>>
heapVars    == <<pData, pBuilt, pHeld>>
memoryVars  == <<kCapacity, kPointer, kBlock, kContents>>
layoutVars  == <<vPointers, vArray, vCalls>>
injectVars  == <<dDevelopment, dPhase, dAdds, dNeeds, dDependents, dMark, dProvided, dPath,
                 dOutput, dInstances>>
eraseVars   == <<tLive, tObjects, tSelf, tGone, tMeant, tAstray>>
emtypeVars  == <<eFile, eNext, eRecurse, eNamespaces, eStruct, eMembers, ePrinted, ePhase>>
libraryVars == <<subject, vars, bitVars, buddyVars, heapVars, memoryVars, layoutVars,
                 injectVars, eraseVars, emtypeVars>>

IsSubject(component) == subject = component /\ UNCHANGED subject

LibraryParts ==
  {"slots", "bits", "buddy", "heap", "memory", "layout", "injector", "erasure", "generator"}

LibraryStart ==
  /\ Generator!Init
  /\ Init /\ Bits!Init /\ Buddy!Init /\ Heap!Init /\ Memory!Init
  /\ Vertices!Init /\ Injector!Init /\ Erasure!Init

LibraryInit == subject \in LibraryParts /\ LibraryStart

LibraryNext ==
  \/ /\ IsSubject("slots") /\ Next
     /\ UNCHANGED <<bitVars, buddyVars, heapVars, memoryVars, layoutVars,
                    injectVars, eraseVars, emtypeVars>>
  \/ /\ IsSubject("bits") /\ Bits!Next
     /\ UNCHANGED <<vars, buddyVars, heapVars, memoryVars, layoutVars,
                    injectVars, eraseVars, emtypeVars>>
  \/ /\ IsSubject("buddy") /\ Buddy!Next
     /\ UNCHANGED <<vars, bitVars, heapVars, memoryVars, layoutVars,
                    injectVars, eraseVars, emtypeVars>>
  \/ /\ IsSubject("heap") /\ Heap!Next
     /\ UNCHANGED <<vars, bitVars, buddyVars, memoryVars, layoutVars,
                    injectVars, eraseVars, emtypeVars>>
  \/ /\ IsSubject("memory") /\ Memory!Next
     /\ UNCHANGED <<vars, bitVars, buddyVars, heapVars, layoutVars,
                    injectVars, eraseVars, emtypeVars>>
  \/ /\ IsSubject("layout") /\ Vertices!Next
     /\ UNCHANGED <<vars, bitVars, buddyVars, heapVars, memoryVars,
                    injectVars, eraseVars, emtypeVars>>
  \/ /\ IsSubject("injector") /\ Injector!Next
     /\ UNCHANGED <<vars, bitVars, buddyVars, heapVars, memoryVars,
                    layoutVars, eraseVars, emtypeVars>>
  \/ /\ IsSubject("erasure") /\ Erasure!Next
     /\ UNCHANGED <<vars, bitVars, buddyVars, heapVars, memoryVars,
                    layoutVars, injectVars, emtypeVars>>
  \/ /\ IsSubject("generator") /\ Generator!Next
     /\ UNCHANGED <<vars, bitVars, buddyVars, heapVars, memoryVars,
                    layoutVars, injectVars, eraseVars>>

LibrarySpec == LibraryInit /\ [][LibraryNext]_libraryVars

----------------------------------------------------------------------------
\* Operations on spans that share no block change the bits they are asked to,
\* and the queries tell what they are (BitSpan!BitsAsAsked and QueriesExact).
BitsExact == subject = "bits" => Bits!BitsAsAsked /\ Bits!QueriesExact

\* Until a merge no byte of the buffer belongs to two, and none is lost
\* (BuddyAllocator!NothingShared and NothingLost).
BlocksAccounted == subject = "buddy" => Buddy!NothingShared /\ Buddy!NothingLost

\* Until then buddies are merged, and deallocate finds the depth of a block
\* (BuddyAllocator!BuddiesMerge and DepthRecovered).
BuddiesFound == subject = "buddy" => Buddy!BuddiesMerge /\ Buddy!DepthRecovered

\* The queue keeps its items and its top is the largest, and is_valid tells the
\* heaps (PriorityQueue!TopIsLargest and ValidIsOrdered).
HeapOrdered == subject = "heap" => Heap!TopIsLargest /\ Heap!ValidIsOrdered

\* Arrays that share a block keep their contents when it grows, and are aligned
\* (MemoryBlock!ContentsKept and ArraysPlaced).
ArraysKept == subject = "memory" => Memory!ContentsKept /\ Memory!ArraysPlaced

\* Vertex attributes read their own data and nothing else
\* (VertexLayout!AttributesApart and LastCallRead).
AttributesRead == subject = "layout" => Vertices!AttributesApart /\ Vertices!LastCallRead

\* Factories run after those that make their parameters, and a cycle is
\* reported (DependencyInjection!BuildsInOrder and CycleReported).
DependenciesFirst == subject = "injector" => Injector!BuildsInOrder /\ Injector!CycleReported

\* Containers that share objects keep their values
\* (TypeErasure!ValuesKept and CopiesApart).
ValuesApart == subject = "erasure" => Erasure!ValuesKept /\ Erasure!CopiesApart

\* The generator prints every archetype, in its nest of namespaces, with its
\* functions as they were declared, and fills every kind of form
\* (Emtypen!ArchetypesPrinted, OneNestPreserved, ConstnessFound and FormsFilled).
ArchetypesErased == subject = "generator" =>
  /\ Generator!ArchetypesPrinted /\ Generator!OneNestPreserved
  /\ Generator!ConstnessFound /\ Generator!FormsFilled
=============================================================================

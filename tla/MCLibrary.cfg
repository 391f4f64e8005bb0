CONSTANTS
  ChunkSize = 2
  Indices = 4
  Versions = 3
  MaxChunks = 3
  MaxFree = 3
  Width = 2
  BitCount = 5
  LeafSize = 16
  MaxHeight = 3
  Heights = {0, 3}
  Requests = {1, 17, 33, 200}
  HeapItems = {1, 2, 3}
  HeapLength = 6
  ArraySizes <- SizesOfArrays
  ArrayAligns <- AlignsOfArrays
  ArrayValues = {1, 2}
  MaxCapacity = 3
  Layouts <- LayoutsOfTwo
  Buffers = {1, 2}
  Offsets = {4}
  MaxCalls = 2
  Types = {1, 2, 3}
  MaxAdds = 3
  Containers = {1, 2, 3}
  ErasedValues = {1, 2}
  MaxObjects = 2
  MaxCursors = 4
  MaxTokens = 1
  Junk = Junk
SPECIFICATION MCSpec
INVARIANTS AliveIsLive SlotsAccounted   BitsExact
  HeapOrdered DependenciesFirst ArraysKept
  AttributesRead ValuesApart ArchetypesErased
PROPERTY ImplementsAllocator
CHECK_DEADLOCK FALSE

--------------------------- MODULE BuddyAllocator ---------------------------
(***************************************************************************)
(* The buddy allocator of src/src/buddy_allocator.cpp over a buffer of a   *)
(* power of two of leaves, zeroed by its owner.  Addresses are offsets     *)
(* into the buffer.  The nodes of a free list lie in the free blocks;      *)
(* their previous links are never followed, so a list is the sequence of   *)
(* its blocks.  The tracking bits are the set of the bits that are 1.      *)
(*                                                                         *)
(* Freeing a block whose buddy is free (a merge) writes a node at an       *)
(* address that is not the buddy's, mostly behind the buffer: the model    *)
(* performs the first merge and goes no further.                           *)
(***************************************************************************)
EXTENDS Integers, Sequences

CONSTANTS
  LeafSize,   \* kLeafSize, in bytes
  MaxHeight,  \* log2 of the number of leaves in the buffer
  Heights,    \* the values that height_ may get, see Init
  Requests    \* the sizes that clients ask for

\* Powers of two (nodes_at_depth).
Pow2[k \in Nat] == IF k = 0 THEN 1 ELSE 2 * Pow2[k - 1]

\* A leaf is a power of two.  Below a height of 3 the two halves of the tracking
\* bits share a byte, and above 30 their number does not fit its type; pow2_ceil
\* of 0, or of more than 2^31, is 0.
BuddyAssumption ==
  /\ LeafSize \in Nat /\ \E k \in 0 .. LeafSize : LeafSize = Pow2[k]
  /\ MaxHeight \in Nat /\ MaxHeight > 2 /\ MaxHeight <= 30
  /\ Heights \subseteq {0} \union 3 .. MaxHeight
  /\ Requests \subseteq Nat \ {0} /\ \A size \in Requests : size - 1 <= 2147483647

VARIABLES
  height,   \* height_
  free,     \* free_list_, by depth
  bits,     \* the tracking bits
  live,     \* what clients hold: where, and the size they asked for
  merged,   \* history: a block was freed whose buddy was free
  dropped   \* history: a list of several blocks lost all but its first

vars == <<height, free, bits, live, merged, dropped>>

Total == LeafSize * Pow2[MaxHeight]

----------------------------------------------------------------------------
(* Sizes, depths and indices.                                              *)

Pow2Ceil(v) == Pow2[CHOOSE k \in 0 .. v : Pow2[k] >= v /\ Pow2[k] < 2 * v]

\* log2(0) is minus infinity, which the processor converts to 0.
FloorLog2(n) == IF n = 0 THEN 0 ELSE CHOOSE k \in 0 .. n : Pow2[k] <= n /\ n < 2 * Pow2[k]

DepthOfBlockSize(size) ==
  LET depth == FloorLog2(Total \div size)
  IN  IF depth < height THEN depth ELSE height

BlockSize(d)       == Total \div Pow2[d]
IndexAtDepth(a, d) == a \div BlockSize(d)
Index(a, d)        == Pow2[d] + IndexAtDepth(a, d) - 1

\* The split bits are the first half of the tracking bits; the allocation
\* bits, one for each pair of buddies, start at the byte of the second half.
SplitBit(i)      == i
AllocationBit(i) == 8 * (Pow2[height] \div 8) + (i + 1) \div 2

Flip(S, T) == (S \ T) \union (T \ S)

\* Mutation: the search starts at the parents of the leaves' parents.
GetDepthAbove(a) ==
  LET split == {d \in 0 .. height - 2 : SplitBit(Index(a, d)) \in bits}
  IN  IF split = {} THEN 0 ELSE 1 + CHOOSE d \in split : \A e \in split : e <= d

GetDepth(a) ==
  LET split == {d \in 0 .. height - 1 : SplitBit(Index(a, d)) \in bits}
  IN  IF split = {} THEN 0 ELSE 1 + CHOOSE d \in split : \A e \in split : e <= d

----------------------------------------------------------------------------
(* Allocation: s is a record of the free lists and the tracking bits.      *)

FirstFreeDepths(s, d) == {k \in 0 .. d : s.free[k] # <<>>}

\* The marks of the allocation of a, found at depth f, as a block of depth d.
Marked(a, f, d) == {AllocationBit(Index(a, k)) : k \in f .. d}

\* Mutation: the second half starts at the size of the parent.
AfterParent(a, k) == a + BlockSize(k - 1)

\* The second half, of depth k, of the block at a.
SecondHalf(a, k) == a + BlockSize(k)

\* The front block of the deepest list down to depth d is popped, and split
\* until it has the size: each split leaves the second half in a free list.
AllocateAtDepth(s, d) ==
  LET f == CHOOSE k \in FirstFreeDepths(s, d) :
             \A e \in FirstFreeDepths(s, d) : e <= k
      a == Head(s.free[f])
  IN  [block |-> a,
       free  |-> [k \in 0 .. height |->
                    IF k = f THEN Tail(s.free[f])
                    ELSE IF k \in f + 1 .. d THEN <<SecondHalf(a, k)>> ELSE s.free[k]],
       bits  |-> Flip(s.bits, Marked(a, f, d))
                   \union {SplitBit(Index(a, k)) : k \in f .. d - 1}]

TrackingLeafBlocks == (Pow2[height + 1] \div 8) \div LeafSize + 1

\* The tracking bits lie in as many leaves, which the constructor allocates.
Constructed ==
  LET after[n \in 0 .. TrackingLeafBlocks] ==
        IF n = 0
          THEN [free |-> [k \in 0 .. height |-> IF k = 0 THEN <<0>> ELSE <<>>], bits |-> {}]
          ELSE AllocateAtDepth(after[n - 1], height)
  IN  after

\* The constructor reads height_ while it initialises it: depth_of_block_size
\* takes the minimum of the depth of a leaf and whatever the memory held.
Init ==
  /\ height \in Heights
  /\ free = Constructed[TrackingLeafBlocks].free
  /\ bits = Constructed[TrackingLeafBlocks].bits
  /\ live = {}
  /\ merged = FALSE
  /\ dropped = FALSE

\* A request that no list down to its depth can serve gets nullptr.
Allocate(size) ==
  /\ ~merged
  /\ LET s == [free |-> free, bits |-> bits]
         d == DepthOfBlockSize(Pow2Ceil(size))
         t == AllocateAtDepth(s, d)
     IN  /\ FirstFreeDepths(s, d) # {}
         /\ free' = t.free
         /\ bits' = t.bits
         /\ live' = live \union {[at |-> t.block, size |-> size]}
  /\ UNCHANGED <<height, merged, dropped>>

----------------------------------------------------------------------------
(* Deallocation.                                                           *)

\* The block's split bit is reset and its allocation bit flipped; where that
\* leaves 0 the buddy is free, the list of that depth is dropped, and the
\* parent is freed in the same way, at the address of the block.  At the depth
\* where the buddy is allocated, the block is pushed; the node that was first
\* is constructed anew and loses its link to the others.
DeallocateAtDepth(a, d) ==
  LET stops == {k \in 0 .. d : k = 0 \/ AllocationBit(Index(a, k)) \notin bits}
      m == CHOOSE k \in stops : \A e \in stops : e <= k
      split == {SplitBit(Index(a, k)) : k \in (m .. d) \ {height}}
  IN  /\ bits' = Flip(bits \ split, Marked(a, m, d))
      /\ free' = [k \in 0 .. height |->
                    IF k = m THEN <<a>> \o SubSeq(free[m], 1, IF free[m] = <<>> THEN 0 ELSE 1)
                    ELSE IF k \in m + 1 .. d THEN <<>> ELSE free[k]]
      /\ merged' = (m < d)
      /\ dropped' = (dropped \/ Len(free[m]) > 1)

\* deallocate(ptr), which finds the depth of the block in the split bits.
Deallocate(b) ==
  /\ ~merged
  /\ DeallocateAtDepth(b.at, GetDepth(b.at))
  /\ live' = live \ {b}
  /\ UNCHANGED height

\* deallocate(ptr, size), which computes the depth.
DeallocateSized(b) ==
  /\ ~merged
  /\ DeallocateAtDepth(b.at, DepthOfBlockSize(b.size))
  /\ live' = live \ {b}
  /\ UNCHANGED height

Next ==
  \/ \E size \in Requests : Allocate(size)
  \/ \E b \in live : Deallocate(b) \/ DeallocateSized(b)

Spec == Init /\ [][Next]_vars

----------------------------------------------------------------------------
FreeBlocks == UNION {{<<free[k][i], k>> : i \in DOMAIN free[k]} : k \in 0 .. height}

TypeOK ==
  /\ height \in Heights
  /\ bits \subseteq 0 .. Pow2[height + 1] - 1
  /\ live \subseteq [at : 0 .. Total - 1, size : Requests]
  /\ ~merged => \A b \in FreeBlocks : b[1] % BlockSize(b[2]) = 0 /\ b[1] < Total

\* The bytes of a block of depth d, counted in leaves.
Leaves(a, d) == a \div LeafSize .. (a + BlockSize(d)) \div LeafSize - 1

\* Whoever has leaf l: the tracking bits, a client, or a free list.
Holders(l) ==
  {<<"tracking", i>> : i \in {j \in 1 .. TrackingLeafBlocks :
                               l \in Leaves((j - 1) * BlockSize(height), height)}}
  \union {<<"live", b.at, b.size>> : b \in {c \in live :
             \/ l \in Leaves(c.at, DepthOfBlockSize(Pow2Ceil(c.size)))
             \/ l \in c.at \div LeafSize .. (c.at + c.size - 1) \div LeafSize}}
  \union {<<"free", b[1], b[2]>> : b \in {c \in FreeBlocks : l \in Leaves(c[1], c[2])}}

\* Until a merge, no byte belongs to two clients, to a client and the tracking
\* bits, or to a client and a free list, and every client has all the bytes
\* that it asked for (allocate_at_depth, deallocate_at_depth).
NothingShared ==
  ~merged => \A l \in 0 .. Pow2[MaxHeight] - 1 : \A b, c \in Holders(l) : b = c

\* Until a merge, every leaf can be handed out again: it belongs to a client or
\* to the tracking bits, or a free list has it.  Pushing a block before a list
\* of several is what breaks this in the code (lines 253-257).
NothingLost ==
  ~merged /\ ~dropped => \A l \in 0 .. Pow2[MaxHeight] - 1 : Holders(l) # {}

\* Two buddies are never both in a free list: freeing the second merges them
\* (the allocation bit that a pair shares, lines 34-48 and 250).
BuddiesMerge ==
  ~merged => \A b, c \in FreeBlocks :
    b[2] = c[2] /\ b[2] > 0 /\ (Index(b[1], b[2]) + 1) \div 2 = (Index(c[1], c[2]) + 1) \div 2
      => b = c

\* deallocate(ptr) finds in the split bits the depth that allocate computed
\* from the size, and deallocate(ptr, size) computes the same.
DepthRecovered ==
  ~merged => \A b \in live :
    /\ GetDepth(b.at) = DepthOfBlockSize(Pow2Ceil(b.size))
    /\ DepthOfBlockSize(b.size) = GetDepth(b.at)
=============================================================================

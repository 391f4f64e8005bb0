---------------------------- MODULE MemoryBlock ----------------------------
(***************************************************************************)
(* grow_contiguous of src/include/memory_block.h as TransformComponent     *)
(* uses it: several arrays lie in one block of memory, each aligned; when  *)
(* the capacity grows a new block is laid out, the arrays are copied and   *)
(* the old block is freed.  A block is a function of its bytes; Junk is    *)
(* what memory holds that nothing wrote.                                   *)
(***************************************************************************)
EXTENDS Naturals, Sequences

CONSTANTS
  Sizes,        \* sizeof of the elements of each array
  Aligns,       \* alignof, likewise
  Values,
  MaxCapacity,  \* bound on the capacity
  Junk

\* There is an array: by the first one the client counts.
BlockAssumption ==
  /\ Sizes \in Seq(Nat \ {0}) /\ Aligns \in Seq(Nat \ {0}) /\ Len(Aligns) = Len(Sizes)
  /\ Sizes # <<>>
  /\ Junk \notin Values /\ MaxCapacity \in Nat

VARIABLES
  capacity,
  pointer,   \* where each array begins in the block
  block,     \* the bytes of the block
  contents   \* history: what was last written to each element

vars == <<capacity, pointer, block, contents>>

Arrays == DOMAIN Sizes

----------------------------------------------------------------------------
AlignForward(offset, align) == ((offset + align - 1) \div align) * align

\* The arguments of grow_contiguous_helper: where array i begins, and at the
\* index after the last one, how many bytes the block has.
Layout(cap) ==
  LET at[i \in 1 .. Len(Sizes) + 1] ==
        LET end == IF i = 1 THEN 0 ELSE at[i - 1] + cap * Sizes[i - 1]
        IN  IF i = Len(Sizes) + 1 THEN end ELSE AlignForward(end, Aligns[i])
  IN  at

Total(cap) == Layout(cap)[Len(Sizes) + 1]

\* Mutation: the capacity counts bytes.
CopiedBytesOnly(i) == capacity

\* The bytes of array i that are copied.
Copied(i) == capacity * Sizes[i]

Init ==
  /\ capacity = 0
  /\ pointer = [i \in Arrays |-> 0]
  /\ block = [b \in {} |-> Junk]
  /\ contents = [i \in Arrays |-> <<>>]

\* grow_contiguous; a capacity below the original one is an assertion.  The
\* last array is copied first, each after the block is allocated.
Grow(cap) ==
  /\ cap >= capacity
  /\ capacity' = cap
  /\ pointer' = [i \in Arrays |-> Layout(cap)[i]]
  /\ block' = [b \in 0 .. Total(cap) - 1 |->
       LET into == {i \in Arrays : b >= pointer'[i] /\ b < pointer'[i] + Copied(i)}
           first == CHOOSE i \in into : \A j \in into : i <= j
       IN  IF into = {} THEN Junk ELSE block[pointer[first] + b - pointer'[first]]]
  /\ UNCHANGED contents

ElementBytes(i, k) == pointer[i] + (k - 1) * Sizes[i] .. pointer[i] + k * Sizes[i] - 1

\* The client appends to all arrays, or writes to one.
Add(v) ==
  /\ Len(contents[1]) < capacity
  /\ contents' = [i \in Arrays |-> Append(contents[i], v)]
  /\ LET k == Len(contents[1]) + 1
     IN  block' = [b \in DOMAIN block |->
           IF \E i \in Arrays : b \in ElementBytes(i, k) THEN v ELSE block[b]]
  /\ UNCHANGED <<capacity, pointer>>

Write(i, k, v) ==
  /\ k \in DOMAIN contents[i]
  /\ contents' = [contents EXCEPT ![i][k] = v]
  /\ block' = [b \in DOMAIN block |-> IF b \in ElementBytes(i, k) THEN v ELSE block[b]]
  /\ UNCHANGED <<capacity, pointer>>

Next ==
  \/ \E cap \in 1 .. MaxCapacity : Grow(cap)
  \/ \E v \in Values : Add(v)
  \/ \E i \in Arrays, k \in 1 .. MaxCapacity, v \in Values : Write(i, k, v)

Spec == Init /\ [][Next]_vars

----------------------------------------------------------------------------
\* Every element of every array has what was last written to it, also after the
\* block has grown, and writing one array never changes another.
ContentsKept ==
  \A i \in Arrays : \A k \in DOMAIN contents[i] :
    \A b \in ElementBytes(i, k) : b \in DOMAIN block /\ block[b] = contents[i][k]

\* Every array has its whole capacity in the block, and its elements have the
\* alignment of their type if the block has.
ArraysPlaced ==
  capacity > 0 => \A i \in Arrays :
    /\ pointer[i] % Aligns[i] = 0
    /\ pointer[i] + capacity * Sizes[i] <= Total(capacity)
=============================================================================

------------------------------ MODULE BitSpan ------------------------------
(***************************************************************************)
(* The view of a block of memory as bits of src/include/bit_span.h: one    *)
(* span over the whole memory, and the subspans cut from it, all of which  *)
(* read and write the same blocks.  memory is the set of the bits that are *)
(* 1; ideal is what memory would be if every operation on a span changed   *)
(* exactly the bits of the span.                                           *)
(***************************************************************************)
EXTENDS Integers

CONSTANTS
  Width,  \* kBitsPerBlock
  Size    \* the number of bits of the whole span

BitSpanAssumption == Width \in Nat \ {0} /\ Size \in Nat \ {0}

VARIABLES memory, ideal,
  spilled   \* history: a span was used that shares a block, or leaves the memory

vars == <<memory, ideal, spilled>>

CalculateBlockCount(n) == n \div Width + (IF n % Width # 0 THEN 1 ELSE 0)
BlockCount == CalculateBlockCount(Size)

Whole == [offset |-> 0, count |-> Size]

\* What subspan's contract lets through.  It compares an offset in blocks with
\* sizes in bits; an offset behind the last block is cut off here.
Spans == {Whole} \union
  {s \in [offset : 0 .. BlockCount - 1, count : 1 .. Size] : s.count <= Size - s.offset}

First(s)  == Width * s.offset
BitsOf(s) == First(s) .. First(s) + s.count - 1

\* The bits of the blocks that the span covers, and of the last of them.
BlocksOf(s)  == First(s) .. First(s) + Width * CalculateBlockCount(s.count) - 1
LastBlock(s) == {b \in BlocksOf(s) : b \div Width = (First(s) + s.count - 1) \div Width}

\* Mutation: the mask is one bit too wide.
UnusedButOne(s) ==
  IF s.count % Width = 0 THEN {} ELSE LastBlock(s) \ (BitsOf(s) \union {First(s) + s.count})

\* The bits of the last block that are not of the span, which zero_unused_bits
\* clears, and with which all() compares the last block.
Unused(s) == IF s.count % Width = 0 THEN {} ELSE LastBlock(s) \ BitsOf(s)

ZeroUnusedBits(s, m) == m \ Unused(s)

SetAll(s)   == ZeroUnusedBits(s, memory \union BlocksOf(s))
ResetAll(s) == memory \ BlocksOf(s)
FlipAll(s)  == ZeroUnusedBits(s, (memory \ BlocksOf(s)) \union (BlocksOf(s) \ memory))
Toggle(S, b) == IF b \in S THEN S \ {b} ELSE S \union {b}

All(s)  == /\ \A b \in BlocksOf(s) \ Unused(s) : b \in memory
           /\ \A b \in Unused(s) : b \notin memory
Any(s)  == \E b \in BlocksOf(s) : b \in memory
None(s) == ~Any(s)

----------------------------------------------------------------------------
Init ==
  /\ memory = {}
  /\ ideal = {}
  /\ spilled = FALSE

\* Every block of the span is the span's alone: it ends with a block, or it
\* ends where the memory does.
Alone(s) ==
  /\ First(s) + s.count <= Size
  /\ s.count % Width = 0 \/ First(s) + s.count = Size

\* set(), reset() and flip() work on whole blocks.
ChangeAll(s) ==
  /\ \/ memory' = SetAll(s)   /\ ideal' = ideal \union BitsOf(s)
     \/ memory' = ResetAll(s) /\ ideal' = ideal \ BitsOf(s)
     \/ memory' = FlipAll(s)  /\ ideal' = (ideal \ BitsOf(s)) \union (BitsOf(s) \ ideal)
  /\ spilled' = (spilled \/ ~Alone(s))

\* set(position, value), reset(position) and flip(position).
ChangeBit(s, p) ==
  /\ p < s.count
  /\ LET b == First(s) + p
     IN  \/ memory' = memory \union {b} /\ ideal' = ideal \union {b}
         \/ memory' = memory \ {b}      /\ ideal' = ideal \ {b}
         \/ memory' = Toggle(memory, b) /\ ideal' = Toggle(ideal, b)
  /\ spilled' = (spilled \/ ~Alone(s))

Next ==
  \E s \in Spans : ChangeAll(s) \/ \E p \in 0 .. s.count - 1 : ChangeBit(s, p)

Spec == Init /\ [][Next]_vars

----------------------------------------------------------------------------
\* While no subspan shares a block with its neighbours, the operations on the
\* spans, in any order, change the bits they are asked to and no others.
BitsAsAsked == ~spilled => memory = ideal

\* all(), any() and none(), which look at blocks, say of such a span what its
\* bits are; that needs the bits behind the last one to be zero at all times.
QueriesExact ==
  ~spilled => \A s \in {t \in Spans : Alone(t)} :
    /\ All(s)  <=> BitsOf(s) \subseteq memory
    /\ None(s) <=> BitsOf(s) \intersect memory = {}
=============================================================================

--------------------------- MODULE PriorityQueue ---------------------------
(***************************************************************************)
(* The binary heap of src/include/heap.h and the priority queue over it of *)
(* src/include/priority_queue.h.  The heap functions see a range through   *)
(* a pair of iterators (src/include/index_iterator.h) and address it from  *)
(* 0: a range is a function on 0 .. length - 1.                            *)
(***************************************************************************)
EXTENDS Integers, FiniteSets

CONSTANTS
  Items,     \* the elements, ordered by <
  MaxLength  \* bound on the length of the queue

PriorityQueueAssumption == Items \subseteq Int /\ MaxLength \in Nat

VARIABLES
  data,   \* _data
  built,  \* the constructor has built the heap
  held    \* history: how often each item is in the queue

vars == <<data, built, held>>

Length(h) == Cardinality(DOMAIN h)

\* C's division rounds towards zero: the parent of the root is the root.
Parent(i) == IF i = 0 THEN 0 ELSE (i - 1) \div 2
Left(i)   == 2 * i + 1
Right(i)  == 2 * i + 2

Exchange(h, i, j) == [h EXCEPT ![i] = h[j], ![j] = h[i]]

\* The item of step s rises by one level, if its parent is smaller.
Risen(s) ==
  IF s.range[Parent(s.at)] < s.range[s.at]
    THEN [range |-> Exchange(s.range, s.at, Parent(s.at)), at |-> Parent(s.at)] ELSE s

\* The recursion ends at the root at the latest, which is at most i levels up.
UpHeap(h, i) ==
  LET up[n \in Nat] == IF n = 0 THEN [range |-> h, at |-> i] ELSE Risen(up[n - 1])
  IN  up[i].range

\* Mutation: the right child is compared with the parent, not with the left.
LargestOfParent(h, i) ==
  IF Right(i) \in DOMAIN h /\ h[i] < h[Right(i)] THEN Right(i)
  ELSE IF Left(i) \in DOMAIN h /\ h[i] < h[Left(i)] THEN Left(i) ELSE i

\* The largest of a node and its children, the first of equals.
Largest(h, i) ==
  LET l == IF Left(i) \in DOMAIN h /\ h[i] < h[Left(i)] THEN Left(i) ELSE i
  IN  IF Right(i) \in DOMAIN h /\ h[l] < h[Right(i)] THEN Right(i) ELSE l

\* The item of step s sinks by one level, if a child is larger.
Sunk(s) ==
  LET l == Largest(s.range, s.at) IN [range |-> Exchange(s.range, s.at, l), at |-> l]

DownHeap(h, i) ==
  LET down[n \in Nat] == IF n = 0 THEN [range |-> h, at |-> i] ELSE Sunk(down[n - 1])
  IN  down[Length(h)].range

\* Every node with a child is sifted down, the last one first.
Build(h) ==
  LET half == Length(h) \div 2
      sifted[n \in 0 .. half] == IF n = 0 THEN h ELSE DownHeap(sifted[n - 1], half - n)
  IN  sifted[half]

IsValid(h) ==
  \A i \in 0 .. Length(h) \div 2 - 1 :
    \A c \in {Left(i), Right(i)} \intersect DOMAIN h : h[c] <= h[i]

----------------------------------------------------------------------------
Ranges == UNION {[0 .. n - 1 -> Items] : n \in 0 .. MaxLength}

Init ==
  /\ data \in Ranges
  /\ built = FALSE
  /\ held = [x \in Items |-> Cardinality({i \in DOMAIN data : data[i] = x})]

\* The constructors copy what they are given and build the heap.
Construct ==
  /\ ~built
  /\ data' = Build(data)
  /\ built' = TRUE
  /\ UNCHANGED held

\* push and emplace: the item goes behind the last one and up from there.
Push(x) ==
  /\ built /\ Length(data) < MaxLength
  /\ LET n == Length(data)
     IN  data' = UpHeap([i \in 0 .. n |-> IF i = n THEN x ELSE data[i]], n)
  /\ held' = [held EXCEPT ![x] = @ + 1]
  /\ UNCHANGED built

\* pop: the last element takes the place of the first, which is dropped, and
\* is sifted down in the range that is left.
Pop ==
  /\ built /\ Length(data) > 0
  /\ LET last == Length(data) - 1
         rest == [i \in 0 .. last - 1 |-> Exchange(data, 0, last)[i]]
     IN  data' = IF last = 0 THEN rest ELSE DownHeap(rest, 0)
  /\ held' = [held EXCEPT ![data[0]] = @ - 1]
  /\ UNCHANGED built

Next == Construct \/ Pop \/ \E x \in Items : Push(x)

Spec == Init /\ [][Next]_vars

----------------------------------------------------------------------------
\* The queue holds what was pushed and not popped, as often, and its top is the
\* largest of them, after every sequence of pushes and pops of equal and
\* different items.
TopIsLargest ==
  /\ \A x \in Items : held[x] = Cardinality({i \in DOMAIN data : data[i] = x})
  /\ built => \A i \in DOMAIN data : data[i] <= data[0]

\* The nodes on the way from node i to the root.
Above(i) ==
  LET up[n \in Nat] == IF n = 0 THEN i ELSE Parent(up[n - 1]) IN {up[n] : n \in 1 .. i}

\* is_valid looks at parents and children only, but tells the ranges in which
\* no element is above one that is larger, of every length.
ValidIsOrdered ==
  IsValid(data) <=> \A i \in DOMAIN data : \A j \in Above(i) : data[i] <= data[j]
=============================================================================

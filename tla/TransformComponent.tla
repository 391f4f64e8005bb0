------------------------- MODULE TransformComponent -------------------------
(***************************************************************************)
(* TransformComponent (src/transform_component.cpp): the transforms of the *)
(* entities, in parallel arrays, with the scene hierarchy as sibling lists *)
(* of array indices, and a hash table from entities to indices.  The       *)
(* EntityManager is the allocator of ids that SlotMap implements.          *)
(*                                                                         *)
(* A matrix is a number modulo Order, its product addition: what matters   *)
(* is which matrices are combined.  The arrays are one function from       *)
(* indices to rows.  An id serves as its own hash key.                     *)
(***************************************************************************)
EXTENDS Integers, FiniteSets, FoundationHash

CONSTANTS
  Entities,     \* the ids that the entity manager may issue
  Order,        \* the number of matrices
  GrowBy,       \* add grows the arrays to capacity * 2 + GrowBy; 8 in the code
  NoEntity,     \* no parent is asked for
  MaxDamage     \* bound: matrices and parents are set while the links have
                \* suffered this many kinds of damage at most

ASSUME TransformAssumption ==
  /\ Entities \subseteq Nat
  /\ IsFiniteSet(Entities)
  /\ Order \in Nat \ {0}
  /\ GrowBy \in Nat \ {0, 1}
  /\ NoEntity \notin Entities
  /\ MaxDamage \in Nat

VARIABLES
  alive,       \* the entities that em.alive accepts
  issued,      \* the entities ever created
  rows,        \* data_, up to data_.size
  capacity,    \* data_.capacity
  map,         \* map_, the table from entities to indices
  collecting,  \* a collect_garbage is under way
  calls,       \* the calls of transform still to make: a row and its parent
  left,        \* bound on the calls that a traversal makes from now on
  hung,        \* a traversal of the hierarchy does not end
  added,       \* history: the entities ever added
  parentOf,    \* history: the parent each entity was given last
  damage       \* history: the steps so far after which the links or the map
               \* promise nothing

traversal == <<calls, left, hung>>
vars == <<alive, issued, rows, capacity, map, collecting, traversal, added, parentOf, damage>>

Matrices == 0 .. Order - 1
Identity == 0
Times(a, b)       == (a + b) % Order
Relative(target, transform) == (transform - target) % Order   \* get_relative

None == -1
Size == Cardinality(DOMAIN rows)
IsValid(i) == i >= 0 /\ i < Size

Call(i, p) == IF IsValid(i) THEN <<[row |-> i, parent |-> p]>> ELSE <<>>

NewRow(e) == [entity |-> e, local |-> Identity, world |-> Identity,
              parent |-> None, first |-> None, next |-> None, prev |-> None]

\* Component::lookup: the default is instance 0.
Lookup(e) == HashGet(map, e, 0)

Init ==
  /\ alive = {}
  /\ issued = {}
  /\ rows = [i \in {} |-> NewRow(0)]
  /\ capacity = 0
  /\ map = NewTable
  /\ collecting = FALSE
  /\ calls = <<>>
  /\ left = 0
  /\ hung = FALSE
  /\ added = {}
  /\ parentOf = [e \in Entities |-> NoEntity]
  /\ damage = {}

\* An operation of the program starts.  The model ends where a traversal does
\* not, and where an entry erased from the table is back: what its chains
\* hold from then on depends on memory past the end of its array.
Ready    == ~collecting /\ calls = <<>> /\ "map" \notin damage
Editable == Ready /\ Cardinality(damage) <= MaxDamage

----------------------------------------------------------------------------
(* The entity manager, as IdAllocator has it: ids are never issued again.  *)

CreateEntity(e) ==
  /\ Ready
  /\ e \notin issued
  /\ \A x \in Entities \ issued : e <= x     \* ids are issued in order
  /\ alive' = alive \union {e}
  /\ issued' = issued \union {e}
  /\ UNCHANGED <<rows, capacity, map, collecting, traversal, added, parentOf, damage>>

DestroyEntity(e) ==
  /\ Ready
  /\ e \in alive
  /\ alive' = alive \ {e}
  /\ UNCHANGED <<issued, rows, capacity, map, collecting, traversal, added, parentOf, damage>>

----------------------------------------------------------------------------
(* Rows and links.  r is the function of rows in the middle of an          *)
(* operation; data_.size does not change until the operation ends.         *)

\* Mutation: the arrays grow only when they are full, and leave swap no room.
GrownExactly == IF Size >= capacity THEN capacity * 2 + GrowBy ELSE capacity

\* add makes sure that there is room for two: swap uses the row past the end.
Grown == IF Size + 1 >= capacity THEN capacity * 2 + GrowBy ELSE capacity

\* Mutation: an instance that leaves its parent stays in the sibling list.
StayLinked(r, i) == r

\* set_parent, first half: instance i leaves the list of its parent.
Unlink(r, i) ==
  LET p == r[i].parent
      prev == r[i].prev
      next == r[i].next
      r1 == IF IsValid(next) THEN [r EXCEPT ![next].prev = prev] ELSE r
  IN  IF ~IsValid(p) THEN r
      ELSE IF IsValid(prev) THEN [r1 EXCEPT ![prev].next = next]
      ELSE [r1 EXCEPT ![p].first = next]

\* set_parent, second half: i becomes the first child of p.  Nothing resets
\* the prev link that i had before.
LinkFirst(r, i, p) ==
  LET first == r[p].first
      r1 == [r EXCEPT ![p].first = i]
      r2 == IF IsValid(first)
              THEN [[r1 EXCEPT ![i].next = first] EXCEPT ![first].prev = i]
              ELSE [r1 EXCEPT ![i].next = None]
  IN  [r2 EXCEPT ![i].local = Relative(r2[p].world, r2[i].world)]

Reparented(r, i, p) ==
  IF r[i].parent = p THEN r
  ELSE LET r1 == [Unlink(r, i) EXCEPT ![i].parent = p]
       IN  IF IsValid(p) THEN LinkFirst(r1, i, p) ELSE r1

\* Row i leaves its parent while it has a previous sibling.
LeavesSibling(r, i, p) ==
  r[i].parent # p /\ IsValid(r[i].parent) /\ IsValid(r[i].prev)

----------------------------------------------------------------------------
\* add(e); add(e, parent) is this and then SetParent.
Add(e) ==
  LET i == Size IN
  /\ Ready
  /\ e \in alive \ added
  /\ capacity' = Grown
  /\ rows' = [k \in 0 .. i |-> IF k = i THEN NewRow(e) ELSE rows[k]]
  /\ map' = HashSet(map, e, i)
  /\ added' = added \union {e}
  /\ damage' = damage \union (IF GrowthResurrects(map, e) THEN {"map"} ELSE {})
  /\ UNCHANGED <<alive, issued, collecting, traversal, parentOf>>

\* set_local, of the instance that lookup finds, and the call of transform for
\* it: its own world matrix, then its children.
SetLocal(e, m) ==
  LET i == Lookup(e)
      p == rows[i].parent
      parentWorld == IF IsValid(p) THEN rows[p].world ELSE Identity
  IN
  /\ Editable
  /\ e \in alive \intersect added
  /\ rows' = [rows EXCEPT ![i].local = m, ![i].world = Times(m, parentWorld)]
  /\ calls' = Call(rows[i].first, i)
  /\ left' = IF calls' = <<>> THEN 0 ELSE 2 ^ Size
  /\ UNCHANGED <<alive, issued, capacity, map, collecting, hung, added, parentOf, damage>>

\* transform: the call for a row makes its world matrix, with a reference to its
\* parent's, and calls for its first child; the caller goes on to its next
\* sibling.  More calls than rows have subsets never end.
Transform ==
  /\ calls # <<>> /\ left > 0
  /\ LET k == Head(calls).row
         p == Head(calls).parent
     IN  /\ rows' = [rows EXCEPT ![k].world = Times(rows[k].local, rows[p].world)]
         /\ calls' = Call(rows[k].first, k) \o Call(rows[k].next, p) \o Tail(calls)
  /\ left' = IF calls' = <<>> THEN 0 ELSE left - 1
  /\ hung' = (calls' # <<>> /\ left = 1)
  /\ UNCHANGED <<alive, issued, capacity, map, collecting, added, parentOf, damage>>

\* The entities above e, by the parents they were given.
Ancestors(e) ==
  LET up[n \in Nat] == IF n = 0 THEN {e} ELSE {parentOf[x] : x \in up[n - 1]} \ {NoEntity}
  IN  UNION {up[n] : n \in 0 .. Cardinality(Entities)}

\* set_parent, of the instances that lookup finds, or with an invalid parent.
\* No program makes an instance its own ancestor.
SetParent(e, pe) ==
  LET i == Lookup(e)
      p == IF pe = NoEntity THEN None ELSE Lookup(pe)
  IN
  /\ Editable
  /\ e \in alive \intersect added
  /\ pe \in (alive \intersect added) \union {NoEntity}
  /\ pe # NoEntity => e \notin Ancestors(pe)
  /\ rows' = Reparented(rows, i, p)
  /\ parentOf' = [parentOf EXCEPT ![e] = pe]
  /\ damage' = damage \union (IF LeavesSibling(rows, i, p) THEN {"sibling"} ELSE {})
  /\ UNCHANGED <<alive, issued, capacity, map, collecting, traversal, added>>

----------------------------------------------------------------------------
(* collect_garbage, one iteration after the other, and destroy.            *)

\* swap's move_instance: row from is copied to row to, but for its siblings ...
Copied(r, from, to) ==
  [k \in DOMAIN r \union {to} |->
     IF k # to THEN r[k]
     ELSE [r[from] EXCEPT !.next = IF to \in DOMAIN r THEN r[to].next ELSE None,
                          !.prev = IF to \in DOMAIN r THEN r[to].prev ELSE None]]

\* ... the next sibling, if there is one, is told ...
NextTold(r, from, to) ==
  LET next == r[from].next
      r1 == [r EXCEPT ![to].next = next]
  IN  IF IsValid(next) THEN [r1 EXCEPT ![next].prev = to] ELSE r1

\* ... and the previous one, or else the parent.
PrevTold(r, from, to) ==
  LET prev == r[from].prev
      r1 == [r EXCEPT ![to].prev = prev]
  IN  IF IsValid(prev) THEN [r1 EXCEPT ![prev].next = to]
                       ELSE [r1 EXCEPT ![r[to].parent].first = to]

\* Siblings matter for a row with a parent only; the row past the end is not
\* valid, and nobody is told of it.
Move(r, from, to) ==
  LET copied == Copied(r, from, to)
  IN  IF IsValid(r[from].parent) THEN PrevTold(NextTold(copied, from, to), from, to)
                                 ELSE copied

Swap(r, a, b) == Move(Move(Move(r, a, Size), b, a), Size, b)

HasLinks(i) == IsValid(rows[i].parent) \/ IsValid(rows[i].first)

\* Mutation: the last row is not told its new index.
DestroyUnmapped(i) ==
  LET last == Size - 1
      e == rows[i].entity
      swapped == Swap(rows, i, last)
  IN
  /\ rows' = [k \in 0 .. last - 1 |-> swapped[k]]
  /\ map' = HashRemove(map, e)
  /\ damage' = damage
       \union (IF HasLinks(i) \/ HasLinks(last) THEN {"links"} ELSE {})
       \union (IF RemovalResurrects(map, e) THEN {"map"} ELSE {})

\* destroy: row i and the last one change places, the map learns the place of
\* the last one and forgets the entity of row i.
Destroy(i) ==
  LET last == Size - 1
      e == rows[i].entity
      table == HashSet(map, rows[last].entity, i)
      swapped == Swap(rows, i, last)
  IN
  /\ rows' = [k \in 0 .. last - 1 |-> swapped[k]]
  /\ map' = HashRemove(table, e)
  /\ damage' = damage
       \union (IF HasLinks(i) \/ HasLinks(last) THEN {"links"} ELSE {})
       \union (IF RemovalResurrects(table, e) THEN {"map"} ELSE {})

CollectBegin ==
  /\ Ready
  /\ collecting' = TRUE
  /\ UNCHANGED <<alive, issued, rows, capacity, map, traversal, added, parentOf, damage>>

\* A random row whose entity is dead
CollectRow(i) ==
  /\ collecting
  /\ "map" \notin damage
  /\ rows[i].entity \notin alive
  /\ Destroy(i)
  /\ UNCHANGED <<alive, issued, capacity, collecting, traversal, added, parentOf>>

\* Four random rows in a row were alive, or none is left.
CollectEnd ==
  /\ collecting
  /\ rows # <<>> => \E i \in DOMAIN rows : rows[i].entity \in alive
  /\ collecting' = FALSE
  /\ UNCHANGED <<alive, issued, rows, capacity, map, traversal, added, parentOf, damage>>

----------------------------------------------------------------------------
Next ==
  \/ \E e \in Entities : CreateEntity(e) \/ DestroyEntity(e) \/ Add(e)
  \/ \E e \in Entities, pe \in Entities \union {NoEntity} : SetParent(e, pe)
  \/ \E e \in Entities, m \in Matrices : SetLocal(e, m)
  \/ Transform
  \/ CollectBegin
  \/ \E i \in DOMAIN rows : CollectRow(i)
  \/ CollectEnd

Spec == Init /\ [][Next]_vars

----------------------------------------------------------------------------
Rows == [entity : Entities, local : Matrices, world : Matrices,
         parent : Int, first : Int, next : Int, prev : Int]

TypeOK ==
  /\ alive \subseteq issued /\ issued \subseteq Entities
  /\ \E n \in 0 .. Cardinality(Entities) : rows \in [0 .. n - 1 -> Rows]
  /\ capacity \in Nat
  /\ \A b \in DOMAIN map.buckets : map.buckets[b] \in 0 .. Len(map.data)
  /\ Linked(map) \subseteq DOMAIN map.data
  /\ collecting \in BOOLEAN
  /\ \A n \in DOMAIN calls : {calls[n].row, calls[n].parent} \subseteq DOMAIN rows
  /\ left \in Nat
  /\ hung \in BOOLEAN
  /\ added \subseteq issued
  /\ parentOf \in [Entities -> Entities \union {NoEntity}]
  /\ damage \subseteq {"sibling", "links", "map"}

\* swap moves a row to the place past the last one (line 202), which must lie
\* inside the arrays whenever there is a row to destroy, whatever was added and
\* destroyed before; and every transform is in the arrays exactly once as long
\* as its entity lives, so collecting never loses or doubles a living one.
RowsKeptApart ==
  /\ Size > 0 => Size < capacity
  /\ \A i, k \in DOMAIN rows : rows[i].entity = rows[k].entity => i = k
  /\ \A e \in alive \intersect added : \E i \in DOMAIN rows : rows[i].entity = e

\* The map and the array are inverse: lookup finds the row of every entity that
\* has one, through all the swaps of destroy, and the map knows no other
\* entity.  It holds until the table links an entry again that erase left
\* behind in its array (hash.h:127).
MapIsInverse ==
  "map" \notin damage =>
    \A e \in Entities :
      /\ \A i \in DOMAIN rows : rows[i].entity = e => HashHas(map, e) /\ Lookup(e) = i
      /\ HashHas(map, e) => \E i \in DOMAIN rows : rows[i].entity = e

\* The children of row i as its sibling list has them.
Children(i) ==
  LET node[n \in Nat] ==
        IF n = 0 THEN rows[i].first
        ELSE IF IsValid(node[n - 1]) THEN rows[node[n - 1]].next ELSE None
  IN  {node[n] : n \in 0 .. Size} \ {None}

\* The hierarchy is sound as long as no row with links was moved and no row left
\* a previous sibling behind: the sibling lists hold the children that
\* set_parent was asked for and are linked both ways, every child's world
\* matrix is its local one times its parent's, and every traversal ends.
HierarchySound ==
  damage \subseteq {"map"} =>
    /\ ~hung
    /\ calls = <<>> => \A i \in DOMAIN rows :
         /\ Children(i) = {c \in DOMAIN rows : parentOf[rows[c].entity] = rows[i].entity}
         /\ \A c \in Children(i) :
              /\ rows[c].parent = i
              /\ rows[c].world = Times(rows[c].local, rows[i].world)
              /\ IF rows[i].first = c THEN rows[c].prev = None
                 ELSE IsValid(rows[c].prev) /\ rows[rows[c].prev].next = c

\* "CHECK(transform_component->world(transform) == glm::mat4(1.0f))"
\* (test/transform_component_test.cpp:73), for a child whose local transform is
\* the inverse of its parent's: a child's world transform is its local one times
\* its parent's, while both entities live.
ChildFollowsParent ==
  calls = <<>> /\ "map" \notin damage =>
    \A c, p \in DOMAIN rows :
      parentOf[rows[c].entity] = rows[p].entity
        /\ {rows[c].entity, rows[p].entity} \subseteq alive =>
        rows[c].world = Times(rows[c].local, rows[p].world)

\* "Removes the key from the hash if it exists." (third-party/foundation/hash.h:26):
\* an entity whose transform was collected is not in the map.
RemovedStaysRemoved ==
  ~collecting =>
    \A e \in added : HashHas(map, e) => \E i \in DOMAIN rows : rows[i].entity = e
============================================================================

--------------------------- MODULE MeshComponent ---------------------------
(***************************************************************************)
(* MeshComponent (src/src/mesh_component.cpp): the meshes of the entities, *)
(* in a vector, and a hash table from entities to its indices.  A mesh     *)
(* stands for the material and the vertex array of an instance.            *)
(***************************************************************************)
EXTENDS Integers, FoundationHash

CONSTANTS
  Entities,   \* the ids of entities, which are their hash keys
  Meshes,
  MaxData     \* bound on the instances

MeshAssumption == Entities \subseteq Nat /\ MaxData \in Nat

VARIABLES
  data,    \* data_
  map,     \* map_
  given,   \* history: the meshes that each entity was given and still has
  damage   \* history: "twice" if an entity got a second mesh, "map" if the
           \* table linked an entry again that erase had left behind

vars == <<data, map, given, damage>>

Init ==
  /\ data = <<>>
  /\ map = NewTable
  /\ given = {}
  /\ damage = {}

\* The model ends where the map has lost sight of an instance, or has an erased
\* entry back.
Ready == damage = {}

\* add: nothing looks whether the entity has a mesh already.
Add(e, mesh) ==
  /\ Ready /\ Len(data) < MaxData
  /\ data' = Append(data, [entity |-> e, mesh |-> mesh])
  /\ map' = HashSet(map, e, Len(data))
  /\ given' = given \union {<<e, mesh>>}
  /\ damage' = damage \union (IF HashHas(map, e) THEN {"twice"} ELSE {})
                 \union (IF GrowthResurrects(map, e) THEN {"map"} ELSE {})

\* Mutation: the entity is removed before the last one gets its new index.
RemappedLast(table, e, last, i) == HashSet(HashRemove(table, e), last, i)

\* The last entity learns its new index and e is removed, in this order.
Remapped(table, e, last, i) == HashRemove(HashSet(table, last, i), e)

\* destroy: the last instance is copied over instance i, counted from 0.
Destroy(i) ==
  LET gone == data[i + 1]
      last == Last(data)
  IN
  /\ Ready
  /\ data' = Front([data EXCEPT ![i + 1] = last])
  /\ map' = Remapped(map, gone.entity, last.entity, i)
  /\ given' = given \ {<<gone.entity, gone.mesh>>}
  /\ damage' = damage \union
       (IF RemovalResurrects(HashSet(map, last.entity, i), gone.entity) THEN {"map"} ELSE {})

Next ==
  \/ \E e \in Entities, mesh \in Meshes : Add(e, mesh)
  \/ \E i \in 0 .. Len(data) - 1 : Destroy(i)

Spec == Init /\ [][Next]_vars

----------------------------------------------------------------------------
\* As long as no entity has been given a second mesh, every entity keeps the
\* mesh it was given through all the moves of destroy, and lookup finds it
\* exactly where it is: the map knows no entity without one, and with two the
\* map only knows the second, and nothing once either is destroyed
\* (mesh_component.cpp:25, 35-36).  The table may not have an erased entry back.
MeshesKept ==
  damage = {} =>
    /\ {<<data[i].entity, data[i].mesh>> : i \in DOMAIN data} = given
    /\ \A e \in Entities :
         LET at == {i \in DOMAIN data : data[i].entity = e}
         IN  IF at = {} THEN ~HashHas(map, e)
             ELSE HashHas(map, e) /\ at = {HashGet(map, e, 0) + 1}
=============================================================================

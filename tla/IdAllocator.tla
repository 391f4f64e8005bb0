---------------------------- MODULE IdAllocator ----------------------------
(***************************************************************************)
(* What SlotMap and EntityManager promise: create returns an id that was   *)
(* never returned before and is not the null id; the id is alive until it  *)
(* is destroyed and never again.  The versions are finite, so the promise  *)
(* has an end: an allocator may become exhausted.                          *)
(***************************************************************************)
EXTENDS Naturals

CONSTANTS Ids, NullId

VARIABLES
  alive,      \* the ids that resolve to an object
  issued,     \* the ids that create ever returned
  exhausted   \* the allocator ran out of versions or of indices

allocatorVars == <<alive, issued, exhausted>>

Init == alive = {} /\ issued = {} /\ exhausted = FALSE

Create(id) ==
  /\ id \notin issued \union {NullId}
  /\ alive' = alive \union {id}
  /\ issued' = issued \union {id}
  /\ UNCHANGED exhausted

Destroy(id) ==
  /\ id \in alive
  /\ alive' = alive \ {id}
  /\ UNCHANGED <<issued, exhausted>>

Exhaust == exhausted'

Next ==
  \/ ~exhausted /\ \E id \in Ids : Create(id) \/ Destroy(id)
  \/ Exhaust

Spec == Init /\ [][Next]_allocatorVars
============================================================================

---------------------------- MODULE TypeErasure ----------------------------
(***************************************************************************)
(* The copy-on-write containers of src/type_erasure/type_erasure.h.  A     *)
(* container has a shared pointer to an object and a TempAllocator, which  *)
(* makes objects in a buffer inside the container or, when they do not fit, *)
(* in chunks that it frees with the container: an object lives as long as  *)
(* the container that made it, whoever shares it.                          *)
(***************************************************************************)
EXTENDS Naturals, Sequences, FiniteSets

CONSTANTS
  Containers,  \* variables of type Container
  Values,
  MaxObjects   \* bound on the objects made

ErasureAssumption == MaxObjects \in Nat

VARIABLES
  live,     \* the containers that are constructed
  objects,  \* all objects: value, the container that made it, and whether big
  self,     \* self_ of each container; 0 for none
  gone,     \* the objects whose memory is gone
  meant,    \* history: the value that each container should have
  astray    \* history: containers that took an object of another's memory

vars == <<live, objects, self, gone, meant, astray>>

Init ==
  /\ live = {}
  /\ objects = <<>>
  /\ self = [c \in Containers |-> 0]
  /\ gone = {}
  /\ meant = [c \in Containers |-> 0]
  /\ astray = {}

Fresh == Len(objects) + 1

\* Model::MakeNew with the allocator of container c.
MakeNew(c, v, big) ==
  /\ Len(objects) < MaxObjects
  /\ objects' = Append(objects, [value |-> v, by |-> c, big |-> big])

\* IsHeapAllocated: the object does not lie in the container's own buffer.
IsHeapAllocated(c) == ~(objects[self[c]].by = c /\ ~objects[self[c]].big)

Construct(c, v, big) ==
  /\ c \notin live
  /\ MakeNew(c, v, big)
  /\ live' = live \union {c}
  /\ self' = [self EXCEPT ![c] = Fresh]
  /\ meant' = [meant EXCEPT ![c] = v]
  /\ UNCHANGED <<gone, astray>>

\* Mutation: the copy always shares the object.
CopySharing(c, other) ==
  /\ c \notin live /\ other \in live
  /\ self[other] \notin gone
  /\ live' = live \union {c}
  /\ meant' = [meant EXCEPT ![c] = meant[other]]
  /\ self' = [self EXCEPT ![c] = self[other]]
  /\ astray' = IF IsHeapAllocated(other) THEN astray \union {c} ELSE astray
  /\ UNCHANGED <<objects, gone>>

\* The copy constructor shares an object that is heap allocated, and clones one
\* that lies in the buffer of the other container.
Copy(c, other) ==
  /\ c \notin live /\ other \in live
  /\ self[other] \notin gone
  /\ live' = live \union {c}
  /\ meant' = [meant EXCEPT ![c] = meant[other]]
  /\ IF IsHeapAllocated(other)
       THEN /\ self' = [self EXCEPT ![c] = self[other]]
            /\ astray' = astray \union {c}
            /\ UNCHANGED objects
       ELSE /\ MakeNew(c, objects[self[other]].value, FALSE)
            /\ self' = [self EXCEPT ![c] = Fresh]
            /\ UNCHANGED astray
  /\ UNCHANGED gone

\* operator=: a temporary makes the object and swaps pointers with c; its
\* buffer, and with it the object, ends with the assignment.
Assign(c, v, big) ==
  /\ c \in live
  /\ MakeNew(c, v, big)
  /\ self' = [self EXCEPT ![c] = Fresh]
  /\ gone' = gone \union {Fresh}
  /\ meant' = [meant EXCEPT ![c] = v]
  /\ astray' = astray \union {c}
  /\ UNCHANGED live

Unique(c) == \A d \in live \ {c} : self[d] # self[c]

\* A mutating member function: write() clones an object that is shared.
Write(c, v) ==
  /\ c \in live /\ self[c] \notin gone
  /\ IF Unique(c)
       THEN /\ objects' = [objects EXCEPT ![self[c]].value = v]
            /\ UNCHANGED <<self, astray>>
       ELSE /\ MakeNew(c, v, objects[self[c]].big)
            /\ self' = [self EXCEPT ![c] = Fresh]
            /\ astray' = astray \ {c}
  /\ meant' = [meant EXCEPT ![c] = v]
  /\ UNCHANGED <<live, gone>>

GoneWith(c) == {o \in DOMAIN objects : objects[o].by = c}

Destroy(c) ==
  /\ c \in live
  /\ live' = live \ {c}
  /\ gone' = gone \union GoneWith(c)
  /\ self' = [self EXCEPT ![c] = 0]
  /\ astray' = astray \ {c}
  /\ UNCHANGED <<objects, meant>>

Next ==
  \E c \in Containers :
    \/ \E v \in Values, big \in BOOLEAN : Construct(c, v, big) \/ Assign(c, v, big)
    \/ \E other \in Containers : Copy(c, other)
    \/ \E v \in Values : Write(c, v)
    \/ Destroy(c)

Spec == Init /\ [][Next]_vars

----------------------------------------------------------------------------
\* A container has the value that it was given, whatever is written to its
\* copies and whatever becomes of them, unless it took an object from another
\* container's memory: by an assignment, or as a copy of a container whose
\* object did not lie in its buffer (operator=, Container(const Container &)).
ValuesKept ==
  \A c \in live \ astray : self[c] \notin gone /\ objects[self[c]].value = meant[c]

\* As long as nothing is gone, copies never see what is written to another.
CopiesApart ==
  \A c \in live : self[c] \notin gone => objects[self[c]].value = meant[c]
=============================================================================

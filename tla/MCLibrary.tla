----------------------------- MODULE MCLibrary -----------------------------
(***************************************************************************)
(* An instance of Library for TLC.                                         *)
(***************************************************************************)
EXTENDS Library

\* A byte between arrays that need to be aligned.
SizesOfArrays  == <<4, 1, 8>>
AlignsOfArrays == <<4, 1, 8>>

\* Attributes whose data is smaller or larger than the shader's type, two of
\* them for the same location, and a gap.
Attribute(l, s, t, c, n) ==
  [kind |-> "attribute", location |-> l, scalar |-> s, type |-> t, components |-> c,
   normalized |-> n]
Elements ==
  {Attribute(0, "float", "float", 3, FALSE), Attribute(1, "float", "byte", 4, TRUE),
   Attribute(2, "int", "short", 2, FALSE), Attribute(1, "double", "double", 2, FALSE),
   [kind |-> "gap", size |-> 2]}
LayoutsOfTwo == UNION {[1 .. n -> Elements] : n \in 1 .. 2}

----------------------------------------------------------------------------
\* An idle component begins in one of its initial states only.
MCInit ==
  /\ subject \in LibraryParts
  /\ subject = "generator" \/ eFile = [n \in 1 .. MaxCursors |-> [kind |-> "other", parent |-> 0,
                                                                 main |-> FALSE]]
  /\ subject = "buddy" \/ bHeight = 0
  /\ subject = "heap" \/ pData = <<>>
  /\ subject = "injector" \/ dDevelopment = TRUE
  /\ LibraryStart

MCSpec == MCInit /\ [][LibraryNext]_libraryVars
=============================================================================

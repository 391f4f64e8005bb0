---------------------------- MODULE MCJobSystem ----------------------------
(* Instances of JobSystem: a root job p with children c1 and c2, in three   *)
(* programs that differ in which thread creates, runs and waits for what.   *)
EXTENDS JobSystem

CONSTANTS p, c1, c2

create(j) == [op |-> "create", job |-> j]
run(j)    == [op |-> "run", job |-> j]
wait(j)   == [op |-> "wait", job |-> j]

Family == {p, c1, c2}
Couple == {p, c1}
FamilyTree == [j \in Family |-> IF j = p THEN NoParent ELSE p]
CoupleTree == [j \in Couple |-> IF j = p THEN NoParent ELSE p]

\* The main thread forks everything and joins the root.
ForkByMain ==
  <<create(p), create(c1), create(c2), run(p), run(c1), run(c2), wait(p)>>
Leaves == [j \in Family |-> <<>>]

\* The root forks its child from inside its function.
ForkRoot == <<create(p), run(p), wait(p)>>
ForkChild == [j \in Couple |-> IF j = p THEN <<create(c1), run(c1)>> ELSE <<>>]

\* The root forks its children and joins one of them before it returns.
ForkJoinChild ==
  [j \in Couple |-> IF j = p THEN <<create(c1), run(c1), wait(c1)>> ELSE <<>>]

\* The three programs satisfy the hypothesis of the theorems of JobSystemProofs.
ASSUME ProgramIsStructured == Structured
============================================================================

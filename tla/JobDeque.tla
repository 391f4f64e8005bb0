------------------------------ MODULE JobDeque ------------------------------
(***************************************************************************)
(* What WorkStealingQueue promises its users: each thread has a double-    *)
(* ended queue of jobs.  The owner appends and removes at the back, other  *)
(* threads remove at the front, and a removed job is handed out exactly    *)
(* once.  The code does not always keep the promise: a queue may break, at *)
(* an event the implementation names, and promises nothing from then on.   *)
(***************************************************************************)
EXTENDS Naturals, Sequences, SequencesExt

CONSTANTS Queues, Jobs

VARIABLES
  contents,   \* the jobs of each queue, front (oldest) to back (youngest)
  taken,      \* how many times each job was handed out
  broken      \* the queues that stopped keeping the promise

dequeVars == <<contents, taken, broken>>

Init ==
  /\ contents = [q \in Queues |-> <<>>]
  /\ taken = [j \in Jobs |-> 0]
  /\ broken = [q \in Queues |-> FALSE]

HandOut(j) == taken' = [taken EXCEPT ![j] = @ + 1]

PushBack(q) ==
  /\ \E j \in Jobs : contents' = [contents EXCEPT ![q] = Append(@, j)]
  /\ UNCHANGED <<taken, broken>>

PopBack(q) ==
  /\ contents[q] # <<>>
  /\ contents' = [contents EXCEPT ![q] = Front(@)]
  /\ HandOut(Last(contents[q]))
  /\ UNCHANGED broken

StealFront(q) ==
  /\ contents[q] # <<>>
  /\ contents' = [contents EXCEPT ![q] = Tail(@)]
  /\ HandOut(Head(contents[q]))
  /\ UNCHANGED broken

\* A queue that is breaking, or has broken, changes in any way; the others
\* do not change with it.
Broken(q) ==
  /\ broken' = [broken EXCEPT ![q] = TRUE]
  /\ \A p \in Queues \ {q} : contents'[p] = contents[p]
  /\ \A j \in Jobs : taken'[j] >= taken[j]

Next ==
  \E q \in Queues :
    \/ ~broken[q] /\ (PushBack(q) \/ PopBack(q) \/ StealFront(q))
    \/ Broken(q)

Spec == Init /\ [][Next]_dequeVars
=============================================================================

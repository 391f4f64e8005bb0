------------------------- MODULE CountingSemaphore -------------------------
(***************************************************************************)
(* What class Semaphore promises: an atomic counter, at most Max, that     *)
(* notify increments and wait decrements once it is positive.  A wait that *)
(* finds the counter positive does not sleep through it.                   *)
(***************************************************************************)
EXTENDS Integers

CONSTANTS Threads, InitialCount, Max

VARIABLES
  count,      \* the counter
  waiting     \* the threads inside wait()

semaphoreVars == <<count, waiting>>

Init == count = InitialCount /\ waiting = {}

Notify ==
  /\ count' = IF count < Max THEN count + 1 ELSE Max
  /\ UNCHANGED waiting

BeginWait(t) ==
  /\ t \notin waiting
  /\ waiting' = waiting \union {t}
  /\ UNCHANGED count

EndWait(t) ==
  /\ t \in waiting
  /\ count > 0
  /\ count' = count - 1
  /\ waiting' = waiting \ {t}

TryWait ==
  /\ count > 0
  /\ count' = count - 1
  /\ UNCHANGED waiting

Next ==
  \/ Notify
  \/ TryWait
  \/ \E t \in Threads : BeginWait(t) \/ EndWait(t)

Safety == Init /\ [][Next]_semaphoreVars

Spec == Safety /\ WF_semaphoreVars(\E t \in Threads : EndWait(t))
============================================================================

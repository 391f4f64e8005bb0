--------------------------- MODULE MCConcurrency ---------------------------
(* Four threads on a semaphore, two workers and two clients of a pool, five *)
(* threads on a queue, and the host program.                                *)
EXTENDS Concurrency

CONSTANTS
  a, b, c, d,       \* the threads of the semaphore
  w1, w2, c1, c2,   \* the workers and the clients of the pool
  p1, p2, q1, q2, q3  \* the producers and the consumers of the queue

\* Four threads on a semaphore that starts below zero, as initialize's
\* workers_ready does, and that notify brings to its maximum.
MCThreads == {a, b, c, d}
Below     == -1

\* Two workers; one client enqueues two tasks, the other one, and both Sync.
MCPoolWorkers == {w1, w2}
MCPoolClients == {c1, c2}
MCPoolTasks   == [client \in MCPoolClients |-> IF client = c1 THEN 2 ELSE 1]

\* Two producers push twice; three items are waited for, one is only tried for.
MCQueueThreads == {p1, p2, q1, q2, q3}
MCQueueScript  == [t \in MCQueueThreads |->
  CASE t \in {p1, p2} -> <<"push", "push">>
    [] t = q1         -> <<"wait_pop", "wait_pop">>
    [] t = q2         -> <<"wait_pop">>
    [] t = q3         -> <<"try_pop">>]
=============================================================================

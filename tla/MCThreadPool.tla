---------------------------- MODULE MCThreadPool ----------------------------
(* Two workers and one client that enqueues two tasks and Syncs.            *)
EXTENDS ThreadPool

CONSTANTS w1, w2, c1

MCWorkers == {w1, w2}
OneClient == {c1}
Tasks2    == [c \in OneClient |-> 2]
============================================================================

------------------------ MODULE MCWorkStealingQueue ------------------------
(* One owner and two thieves on the owner's queue, with a ring short       *)
(* enough to wrap around and to be overrun.                                *)
EXTENDS WorkStealingQueue, TLC

CONSTANTS owner, thief1, thief2, j1, j2, j3, j4

MCThreads == {owner, thief1, thief2}
MCOwners  == {owner}
MCJobs    == {j1, j2, j3, j4}
Symmetry  == Permutations({thief1, thief2}) \union Permutations(MCJobs)
============================================================================

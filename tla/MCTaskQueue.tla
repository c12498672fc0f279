---------------------------- MODULE MCTaskQueue ----------------------------
(* The worker, two other threads and two tasks.                            *)
EXTENDS TaskQueue, TLC

CONSTANTS t1, t2, w, p1, p2

MCTasks == {t1, t2}
MCThreads == {w, p1, p2}

Symmetry == Permutations({t1, t2}) \union Permutations({p1, p2})

=============================================================================

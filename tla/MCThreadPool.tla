---------------------------- MODULE MCThreadPool ----------------------------
(* ThreadPool on small instances. *)
EXTENDS ThreadPool, TLC

CONSTANTS w1, w2, w3, t1, t2, t3, t4, t5, t6

\* No action tells one worker, or one task, from another.
Symmetry == Permutations(Workers) \cup Permutations(Tasks)
=============================================================================

------------------------------ MODULE MCRWLock ------------------------------
(* RWLock on a small set of interchangeable threads.                       *)
EXTENDS RWLock, TLC

ThreadSymmetry == Permutations(Thread)
=============================================================================

----------------------------- MODULE MCThreads -----------------------------
(* Three threads and one owning object for Threads. *)
EXTENDS Threads, TLC

CONSTANTS t1, t2, t3, o1

ThreadSymmetry == Permutations(Thread)
=============================================================================

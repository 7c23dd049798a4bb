-------------------------- MODULE MCThreadedAdapter --------------------------
(***************************************************************************)
(* A small instance of ThreadedAdapter for TLC: the threads are alike.     *)
(***************************************************************************)
EXTENDS ThreadedAdapter, TLC

ThreadsAlike == Permutations(Threads)
=============================================================================

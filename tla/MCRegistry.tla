----------------------------- MODULE MCRegistry -----------------------------
(***************************************************************************)
(* A small instance of ProcessRegistry for TLC.                            *)
(***************************************************************************)
EXTENDS ProcessRegistry, TLC

\* Nothing tells two OS processes apart.
PidsAlike == Permutations(Pids)
=============================================================================

----------------------------- MODULE Selections -----------------------------
(***************************************************************************)
(* The part of a sequence that a condition on its places leaves, written   *)
(* without recursion: the provers know nothing of SelectSeq.               *)
(***************************************************************************)
EXTENDS Naturals, Sequences, FiniteSets

\* The elements of a sequence at these places, in their order.
AtPlaces(s, places) ==
  LET Rank(n) == Cardinality({l \in places : l <= n}) IN
  [m \in 1..Cardinality(places) |-> s[CHOOSE n \in places : Rank(n) = m]]
=============================================================================

------------------------------- MODULE MCPool -------------------------------
(***************************************************************************)
(* Small instances of Pool for TLC.                                        *)
(***************************************************************************)
EXTENDS Pool, TLC

CONSTANTS w1, w2, r1, r2, s1, session

NoSessions == [c \in Callers |-> NoSession]

\* r1 is a call of no session.
TwoOfThem  == [c \in Callers |-> IF c = r1 THEN NoSession ELSE session]

Hint       == [c \in Callers |-> "hint"]
MixedModes == [c \in Callers |-> CASE c = r2 -> "strict_queue"
                                    [] c = s1 -> "strict_fail_fast"
                                    [] OTHER  -> "hint"]

\* The calls differ in these instances, so only the workers are alike.
WorkersAlike == Permutations(Workers)
=============================================================================

----------------------------- MODULE SerialCalls -----------------------------
(***************************************************************************)
(* What a worker promises to those who call it: calls wait in one line,    *)
(* are served one at a time and in the order they came, and each ends      *)
(* once.  When the worker closes nothing is served any more.               *)
(***************************************************************************)
EXTENDS Naturals, Sequences

CONSTANT Calls

VARIABLES line,    \* the calls that wait, first come first
          active,  \* the call that is served: a set of at most one
          ended,   \* the calls that are over
          open     \* the worker accepts calls

vars == <<line, active, ended, open>>

InLine(c) == \E i \in 1..Len(line) : line[i] = c

Init == line = <<>> /\ active = {} /\ ended = {} /\ open = TRUE

Come(c) ==
  /\ open /\ c \notin active \cup ended /\ ~InLine(c)
  /\ line' = Append(line, c)
  /\ UNCHANGED <<active, ended, open>>

Begin ==
  /\ active = {} /\ line # <<>>
  /\ active' = {Head(line)} /\ line' = Tail(line)
  /\ UNCHANGED <<ended, open>>

\* The call that is served ends, and the next may begin at once.
End(c) ==
  /\ active = {c}
  /\ ended' = ended \cup {c}
  /\ \/ active' = {} /\ UNCHANGED line
     \/ line # <<>> /\ active' = {Head(line)} /\ line' = Tail(line)
  /\ UNCHANGED open

Close ==
  /\ open
  /\ open' = FALSE
  /\ line' = <<>> /\ active' = {}
  /\ ended' = Calls

Next == Begin \/ Close \/ \E c \in Calls : Come(c) \/ End(c)

Spec == Init /\ [][Next]_vars
=============================================================================

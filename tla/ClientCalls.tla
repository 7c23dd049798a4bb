----------------------------- MODULE ClientCalls -----------------------------
(***************************************************************************)
(* What a pool promises to the clients that call it: a call is asked once, *)
(* may wait in the queue, runs, and is answered at most once.  What was    *)
(* answered or has timed out never runs, what has run is never queued      *)
(* again, a call is run again only after a crash and no more often than    *)
(* its limit says, and the pool forgets only calls whose client is dead.   *)
(* The one way to lose the call of a living client is the retry of a call  *)
(* that crashed.                                                           *)
(***************************************************************************)
EXTENDS Naturals

CONSTANTS Calls,
          Limit   \* how often each call may be run again

VARIABLES stage,  \* how far each call has come
          tries,  \* how often a call that runs was run before
          alive   \* the calls whose clients have asked and live

view == <<stage, tries, alive>>

Begin ==
  /\ stage = [c \in Calls |-> "new"]
  /\ tries = [c \in Calls |-> 0]
  /\ alive = {}

Move(c, to) == stage' = [stage EXCEPT ![c] = to]

\* A call that ends is answered if anybody waits for the answer.
Outcome(c) == IF c \in alive THEN "answered" ELSE "gone"

Ask(c) ==
  /\ stage[c] = "new"
  /\ Move(c, "asked")
  /\ alive' = alive \cup {c}
  /\ UNCHANGED tries

Die(c) ==
  /\ c \in alive /\ stage[c] # "answered"
  /\ alive' = alive \ {c}
  /\ UNCHANGED <<stage, tries>>

\* The queued calls of dead clients.
Forgettable == {d \in Calls : stage[d] = "queued" /\ d \notin alive}

\* The pool takes a call: it runs, waits or is refused, and calls of dead
\* clients may leave the queue.
Take(c) ==
  /\ stage[c] = "asked"
  /\ \E to \in {"running", "queued", "answered"}, D \in SUBSET Forgettable :
       stage' = [d \in Calls |-> IF d = c THEN to ELSE IF d \in D THEN "gone" ELSE stage[d]]
  /\ UNCHANGED <<tries, alive>>

\* A queued call runs, or its time is over.
Leave(c) ==
  /\ stage[c] = "queued"
  /\ \E to \in {"running", "answered"} : Move(c, to)
  /\ UNCHANGED <<tries, alive>>

Crash(c) ==
  /\ stage[c] = "running" /\ tries[c] < Limit[c]
  /\ Move(c, "crashed")
  /\ UNCHANGED <<tries, alive>>

Retry(c) ==
  /\ stage[c] = "crashed"
  /\ Move(c, "retrying")
  /\ tries' = [tries EXCEPT ![c] = @ + 1]
  /\ UNCHANGED alive

Resume(c) ==
  /\ stage[c] = "retrying"
  /\ Move(c, "running")
  /\ UNCHANGED <<tries, alive>>

Finish(c) ==
  /\ stage[c] \in {"running", "retrying"}
  /\ Move(c, Outcome(c))
  /\ tries' = [tries EXCEPT ![c] = 0]
  /\ UNCHANGED alive

Lose(c) ==
  /\ stage[c] \in {"crashed", "retrying"}
  /\ Move(c, "gone")
  /\ tries' = [tries EXCEPT ![c] = 0]
  /\ UNCHANGED alive

CallStep(c) ==
  \/ Ask(c) \/ Die(c) \/ Take(c) \/ Leave(c)
  \/ Crash(c) \/ Retry(c) \/ Resume(c) \/ Finish(c) \/ Lose(c)

\* A step of the pool that the clients can tell.
Service == Begin /\ [][view' # view /\ \E c \in Calls : CallStep(c)]_view
=============================================================================

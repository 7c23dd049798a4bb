--------------------------- MODULE CircuitBreaker ---------------------------
(***************************************************************************)
(* Snakepit.CircuitBreaker with the callers that run through it, each      *)
(* inside the retry loop of Executor.execute_with_protection/3.            *)
(*                                                                         *)
(* A caller asks the breaker (a GenServer.call), runs its function in its  *)
(* own process and reports the outcome with a cast, so several callers may *)
(* be between their admission and their report, and the breaker may have   *)
(* changed state in between.                                               *)
(***************************************************************************)
EXTENDS Naturals, Sequences, FiniteSets

CONSTANTS
  Callers,      \* processes that call through the breaker
  Threshold,    \* failure_threshold
  MaxProbes,    \* half_open_max_calls
  MaxAttempts,  \* max_attempts of the retry policy
  RetryOpen,    \* whether the policy retries {:error, :circuit_open}
  Faults        \* subset of {"killed", "reset"}

ASSUME BreakerAssumption ==
  /\ Threshold \in Nat \ {0}
  /\ MaxProbes \in Nat \ {0}
  /\ MaxAttempts \in Nat \ {0}
  /\ RetryOpen \in BOOLEAN
  /\ Faults \subseteq {"killed", "reset"}

VARIABLES
  mailbox,          \* messages the breaker has not handled, oldest first
  state,            \* "closed", "open" or "half_open"
  failure_count,    \* saturates at Threshold: the code only compares it
  half_open_calls,
  elapsed,          \* reset_timeout_ms have passed since last_failure_time
  caller,           \* stage of each caller
  attempt,          \* its attempt in the retry loop
  probes            \* history: callers admitted in the present half-open phase

breaker == <<state, failure_count, half_open_calls, elapsed>>
vars    == <<mailbox, breaker, caller, attempt, probes>>

Message == [type : {"try_call", "success", "failure"}, from : Callers]
             \cup [type : {"query", "reset"}]

Stages == {"idle", "asking", "running", "backoff", "gone"}

Init ==
  /\ mailbox = <<>>
  /\ state = "closed" /\ failure_count = 0 /\ half_open_calls = 0
  /\ elapsed = FALSE
  /\ caller = [c \in Callers |-> "idle"]
  /\ attempt = [c \in Callers |-> 0]
  /\ probes = {}

----------------------------------------------------------------------------
(* Helpers.                                                                *)

Receive(m)  == mailbox # <<>> /\ Head(mailbox) = m
Consume     == mailbox' = Tail(mailbox)
Send(m)     == mailbox' = Append(mailbox, m)
Msg(t, c)   == [type |-> t, from |-> c]

Saturate(n) == IF n < Threshold THEN n + 1 ELSE Threshold

\* maybe_transition_to_half_open/1, run by every call before it looks at the
\* state.
TurnsHalfOpen == state = "open" /\ elapsed
State  == IF TurnsHalfOpen THEN "half_open" ELSE state
Calls  == IF TurnsHalfOpen THEN 0 ELSE half_open_calls
Probes == IF TurnsHalfOpen THEN {} ELSE probes

\* should_retry?/2 and retry_for_error?/2: the loop goes on, after a backoff.
Retries(c, retriable) == retriable /\ attempt[c] < MaxAttempts

\* The stage of a caller whose attempt failed.
AfterFailure(c, retriable) ==
  IF Retries(c, retriable) THEN "backoff" ELSE "idle"

----------------------------------------------------------------------------
(* The callers.                                                            *)

\* Mutant of NextAttempt: each attempt starts the retry policy anew.
AttemptAnew(c) == 1

\* The attempt that do_retry/3 begins: a new call begins at its first.
NextAttempt(c) == IF caller[c] = "idle" THEN 1 ELSE attempt[c] + 1

\* execute_with_protection/3 begins, or an attempt follows a backoff.
Ask(c) ==
  /\ caller[c] \in {"idle", "backoff"}
  /\ Send(Msg("try_call", c))
  /\ caller' = [caller EXCEPT ![c] = "asking"]
  /\ attempt' = [attempt EXCEPT ![c] = NextAttempt(c)]
  /\ UNCHANGED <<breaker, probes>>

\* The function returned anything but {:error, _}.  The retry loop knows only
\* :ok and {:ok, _} as a success: a policy that retries all errors also
\* retries any other result.
Succeed(c) ==
  /\ caller[c] = "running"
  /\ Send(Msg("success", c))
  /\ \E retriable \in BOOLEAN :
       caller' = [caller EXCEPT ![c] = AfterFailure(c, retriable)]
  /\ UNCHANGED <<breaker, attempt, probes>>

\* The function returned an error the policy retries or not, or raised (an
\* exception is raised again and no retry follows).
Fail(c) ==
  /\ caller[c] = "running"
  /\ Send(Msg("failure", c))
  /\ \E retriable \in BOOLEAN :
       caller' = [caller EXCEPT ![c] = AfterFailure(c, retriable)]
  /\ UNCHANGED <<breaker, attempt, probes>>

\* The caller is killed, or its question to the breaker times out: no code
\* of call/2 runs after that, and nothing is reported.
Leave(c) ==
  /\ "killed" \in Faults
  /\ caller[c] \in {"asking", "running"}
  /\ caller' = [caller EXCEPT ![c] = "gone"]
  /\ UNCHANGED <<mailbox, breaker, attempt, probes>>

\* reset/1, state/1, allow_call?/1 by anyone, at most one waiting of each.
SendControl(t) ==
  /\ t = "reset" => "reset" \in Faults
  /\ ~ \E i \in 1..Len(mailbox) : mailbox[i] = [type |-> t]
  /\ Send([type |-> t])
  /\ UNCHANGED <<breaker, caller, attempt, probes>>

\* reset_timeout_ms pass.
Elapse ==
  /\ ~elapsed
  /\ elapsed' = TRUE
  /\ UNCHANGED <<mailbox, state, failure_count, half_open_calls, caller, attempt,
                 probes>>

----------------------------------------------------------------------------
(* The breaker.                                                            *)

\* Mutant of Admits: the limit of the half-open state is off by one.
AdmitsOneMore == \/ State = "closed"
                 \/ State = "half_open" /\ Calls <= MaxProbes

Admits == \/ State = "closed"
          \/ State = "half_open" /\ Calls < MaxProbes

\* handle_call(:try_call).  A caller that is gone is admitted all the same.
TryCall(c) ==
  LET probe == Admits /\ State = "half_open"
      answer == IF caller[c] # "asking" THEN caller[c]
                ELSE IF Admits THEN "running" ELSE AfterFailure(c, RetryOpen)
  IN
  /\ Receive(Msg("try_call", c))
  /\ Consume
  /\ state' = State
  /\ half_open_calls' = IF probe THEN Calls + 1 ELSE Calls
  /\ probes' = IF probe THEN Probes \cup {c} ELSE Probes
  /\ caller' = [caller EXCEPT ![c] = answer]
  /\ UNCHANGED <<failure_count, elapsed, attempt>>

\* Mutant of ClosedCount: a success that closes the circuit keeps the count.
ClosedCountKept == failure_count

\* failure_count once a success has closed a half-open circuit.
ClosedCount == 0

\* handle_cast(:record_success), whichever phase the caller was admitted in.
RecordSuccess(c) ==
  LET closes == state = "half_open" IN
  /\ Receive(Msg("success", c))
  /\ Consume
  /\ state' = IF closes THEN "closed" ELSE state
  /\ failure_count' = IF closes THEN ClosedCount ELSE failure_count
  /\ half_open_calls' = IF closes THEN 0 ELSE half_open_calls
  /\ probes' = IF closes THEN {} ELSE probes
  /\ UNCHANGED <<elapsed, caller, attempt>>

\* Mutant of Opens: a failed probe leaves the circuit half open.
OpensIgnoringProbe == state = "closed" /\ Saturate(failure_count) >= Threshold

Opens == \/ state = "closed" /\ Saturate(failure_count) >= Threshold
         \/ state = "half_open"

\* handle_cast(:record_failure).  In the open state it moves the time of the
\* last failure, and with it the next half-open phase.
RecordFailure(c) ==
  /\ Receive(Msg("failure", c))
  /\ Consume
  /\ failure_count' = Saturate(failure_count)
  /\ elapsed' = FALSE
  /\ state' = IF Opens THEN "open" ELSE state
  /\ half_open_calls' = IF Opens /\ state = "half_open" THEN 0 ELSE half_open_calls
  /\ probes' = IF Opens THEN {} ELSE probes
  /\ UNCHANGED <<caller, attempt>>

\* handle_call(:get_state), handle_call(:allow_call?).
Query ==
  /\ Receive([type |-> "query"])
  /\ Consume
  /\ state' = State /\ half_open_calls' = Calls /\ probes' = Probes
  /\ UNCHANGED <<failure_count, elapsed, caller, attempt>>

\* handle_cast(:reset).
Reset ==
  /\ Receive([type |-> "reset"])
  /\ Consume
  /\ state' = "closed" /\ failure_count' = 0 /\ half_open_calls' = 0
  /\ elapsed' = FALSE
  /\ probes' = {}
  /\ UNCHANGED <<caller, attempt>>

----------------------------------------------------------------------------
Handle == \/ \E c \in Callers : TryCall(c) \/ RecordSuccess(c) \/ RecordFailure(c)
          \/ Query
          \/ Reset

Next ==
  \/ \E c \in Callers : Ask(c) \/ Succeed(c) \/ Fail(c) \/ Leave(c)
  \/ \E t \in {"query", "reset"} : SendControl(t)
  \/ Elapse
  \/ Handle

Spec == Init /\ [][Next]_vars

\* The breaker runs; a function that was admitted ends; a backoff ends.
\* Nothing makes a caller begin a call, and no clock is needed.
Fairness ==
  /\ WF_vars(Handle)
  /\ \A c \in Callers :
       /\ WF_vars(Succeed(c) \/ Fail(c))
       /\ WF_vars(caller[c] = "backoff" /\ Ask(c))

FairSpec == Spec /\ Fairness

----------------------------------------------------------------------------
(* Properties.                                                             *)

\* Values of the variables.
TypeOK ==
  /\ mailbox \in Seq(Message)
  /\ state \in {"closed", "open", "half_open"}
  /\ failure_count \in 0..Threshold
  /\ half_open_calls \in Nat
  /\ elapsed \in BOOLEAN
  /\ caller \in [Callers -> Stages]
  /\ attempt \in [Callers -> Nat]
  /\ probes \subseteq Callers

\* A closed circuit has not reached its threshold: however reports of earlier
\* phases arrive, it never stays closed with a count that should open it, and
\* a circuit that closes again starts from a count that leaves room for
\* failures.
ClosedBelowThreshold == state = "closed" => failure_count < Threshold

\* In one half-open phase no more calls are admitted than half_open_max_calls,
\* also when callers are gone when they are admitted; outside it no slot is
\* taken.
HalfOpenLimit ==
  /\ half_open_calls <= MaxProbes
  /\ Cardinality(probes) <= half_open_calls
  /\ state # "half_open" => half_open_calls = 0

\* A message of caller c is on its way to the breaker.
Reported(c) == \E i \in 1..Len(mailbox) :
                 mailbox[i] \in {Msg("success", c), Msg("failure", c)}

\* A probe whose caller was killed before it reported: its slot is lost.
Lost(c) == caller[c] = "gone" /\ ~Reported(c)

\* Every slot of the half-open state belongs to a call that still runs, whose
\* outcome is on its way, or whose caller was killed: reports that belong to
\* an earlier phase never leave a slot without an owner.
SlotsInUse ==
  state = "half_open" =>
    /\ half_open_calls = Cardinality(probes)
    /\ \A c \in probes : caller[c] = "running" \/ Reported(c) \/ Lost(c)

\* The slots of the breaker are accounted for in each of its states: no more than
\* half_open_max_calls of them, each with its owner.
SlotsAccounted == TypeOK /\ HalfOpenLimit /\ SlotsInUse

\* A half-open circuit that has used up its probes is decided, unless the
\* caller of a probe was killed: it closes or opens.
ProbesDecide ==
  (state = "half_open" /\ half_open_calls = MaxProbes)
    ~> (state # "half_open" \/ \E c \in probes : Lost(c))

\* A protected call comes to an end, whatever the circuit does: the attempts
\* of its retry loop are bounded.
ProtectedCallEnds ==
  \A c \in Callers : (caller[c] = "asking") ~> (caller[c] \in {"idle", "gone"})
=============================================================================

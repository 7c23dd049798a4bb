------------------------ MODULE CircuitBreakerProofs ------------------------
(***************************************************************************)
(* Proofs about CircuitBreaker for any set of callers and any limits.      *)
(***************************************************************************)
EXTENDS CircuitBreaker, FiniteSetTheorems, TLAPS

----------------------------------------------------------------------------
(* Types.                                                                  *)

\* A message of the breaker's mailbox is read and removed, one is added.
LEMMA ReadMail ==
  ASSUME TypeOK, mailbox # <<>>
  PROVE  Head(mailbox) \in Message /\ Tail(mailbox) \in Seq(Message)
  BY DEF TypeOK

\* A message is added to the mailbox.
LEMMA SendTyped ==
  ASSUME TypeOK, NEW m \in Message, Send(m)
  PROVE  mailbox' \in Seq(Message)
  BY DEF TypeOK, Send

\* The messages the actions send.
LEMMA MessageKinds ==
  ASSUME NEW c \in Callers
  PROVE  /\ Msg("try_call", c) \in Message
         /\ Msg("success", c) \in Message
         /\ Msg("failure", c) \in Message
         /\ [type |-> "query"] \in Message
         /\ [type |-> "reset"] \in Message
  BY DEF Message, Msg

\* The counters and states an action may write.
LEMMA HelperTypes ==
  ASSUME TypeOK
  PROVE  /\ State \in {"closed", "open", "half_open"}
         /\ Calls \in Nat
         /\ Probes \subseteq Callers
         /\ Saturate(failure_count) \in 0..Threshold
         /\ \A r \in BOOLEAN, c \in Callers : AfterFailure(c, r) \in Stages
  <1>1. Threshold \in Nat BY BreakerAssumption
  <1>2. \A n \in 0..Threshold : Saturate(n) \in 0..Threshold
    BY <1>1 DEF Saturate
  <1>. QED BY <1>2 DEF TypeOK, State, Calls, Probes, AfterFailure, Stages

\* Every step keeps the types.
LEMMA TypeStep == TypeOK /\ [Next]_vars => TypeOK'
  <1>. SUFFICES ASSUME TypeOK, [Next]_vars PROVE TypeOK'
    OBVIOUS
  <1>. USE HelperTypes
  <1>1. ASSUME NEW c \in Callers, Ask(c) PROVE TypeOK'
    <2>1. mailbox' \in Seq(Message) BY <1>1, SendTyped, MessageKinds DEF Ask
    <2>2. NextAttempt(c) \in Nat BY DEF NextAttempt, TypeOK
    <2>. QED BY <1>1, <2>1, <2>2 DEF TypeOK, Ask, breaker, Stages
  <1>2. ASSUME NEW c \in Callers, Succeed(c) PROVE TypeOK'
    <2>1. mailbox' \in Seq(Message) BY <1>2, SendTyped, MessageKinds DEF Succeed
    <2>. QED BY <1>2, <2>1 DEF TypeOK, Succeed, breaker
  <1>3. ASSUME NEW c \in Callers, Fail(c) PROVE TypeOK'
    <2>1. mailbox' \in Seq(Message) BY <1>3, SendTyped, MessageKinds DEF Fail
    <2>. QED BY <1>3, <2>1 DEF TypeOK, Fail, breaker
  <1>4. ASSUME NEW c \in Callers, Leave(c) PROVE TypeOK'
    BY <1>4 DEF TypeOK, Leave, breaker, Stages
  <1>5. ASSUME NEW t \in {"query", "reset"}, SendControl(t) PROVE TypeOK'
    <2>1. [type |-> t] \in Message BY DEF Message
    <2>2. mailbox' \in Seq(Message) BY <1>5, <2>1, SendTyped DEF SendControl
    <2>. QED BY <1>5, <2>2 DEF TypeOK, SendControl, breaker
  <1>6. CASE Elapse
    BY <1>6 DEF TypeOK, Elapse
  <1>7. ASSUME NEW c \in Callers, TryCall(c) PROVE TypeOK'
    <2>1. mailbox' \in Seq(Message) BY <1>7, ReadMail DEF TryCall, Receive, Consume
    <2>2. caller' \in [Callers -> Stages]
      BY <1>7, BreakerAssumption DEF TryCall, TypeOK, Stages
    <2>3. half_open_calls' \in Nat /\ probes' \subseteq Callers
      BY <1>7 DEF TryCall
    <2>. QED BY <1>7, <2>1, <2>2, <2>3 DEF TypeOK, TryCall
  <1>8. ASSUME NEW c \in Callers, RecordSuccess(c) PROVE TypeOK'
    <2>1. mailbox' \in Seq(Message)
      BY <1>8, ReadMail DEF RecordSuccess, Receive, Consume
    <2>2. 0 \in 0..Threshold BY BreakerAssumption
    <2>. QED BY <1>8, <2>1, <2>2 DEF TypeOK, RecordSuccess, ClosedCount
  <1>9. ASSUME NEW c \in Callers, RecordFailure(c) PROVE TypeOK'
    <2>1. mailbox' \in Seq(Message)
      BY <1>9, ReadMail DEF RecordFailure, Receive, Consume
    <2>. QED BY <1>9, <2>1 DEF TypeOK, RecordFailure
  <1>10. CASE Query
    <2>1. mailbox' \in Seq(Message) BY <1>10, ReadMail DEF Query, Receive, Consume
    <2>. QED BY <1>10, <2>1 DEF TypeOK, Query
  <1>11. CASE Reset
    <2>1. mailbox' \in Seq(Message) BY <1>11, ReadMail DEF Reset, Receive, Consume
    <2>2. 0 \in 0..Threshold BY BreakerAssumption
    <2>. QED BY <1>11, <2>1, <2>2 DEF TypeOK, Reset
  <1>12. CASE UNCHANGED vars
    BY <1>12 DEF TypeOK, vars, breaker
  <1>. QED
    BY <1>1, <1>2, <1>3, <1>4, <1>5, <1>6, <1>7, <1>8, <1>9, <1>10, <1>11, <1>12
       DEF Next, Handle

\* The variables of the breaker and of its callers keep their types.
THEOREM BreakerTypes == Spec => []TypeOK
  <1>1. Init => TypeOK
    <2>1. SUFFICES ASSUME Init PROVE TypeOK
      OBVIOUS
    <2>2. 0 \in 0..Threshold /\ mailbox \in Seq(Message)
      BY <2>1, BreakerAssumption DEF Init
    <2>. QED BY <2>1, <2>2 DEF Init, TypeOK, Stages
  <1>. QED BY <1>1, TypeStep, PTL DEF Spec

----------------------------------------------------------------------------
(* A closed circuit is below its threshold.                                *)

\* Only a report or a reset changes the state to closed or the count while
\* it is closed: a failure that reaches the threshold opens the circuit in the
\* same callback, and a success that closes it starts a new count.
LEMMA ClosedStep ==
  TypeOK /\ ClosedBelowThreshold /\ [Next]_vars => ClosedBelowThreshold'
  <1>. SUFFICES ASSUME TypeOK, ClosedBelowThreshold, [Next]_vars
                PROVE  ClosedBelowThreshold'
    OBVIOUS
  <1>. USE DEF ClosedBelowThreshold
  <1>0. Threshold \in Nat /\ 0 < Threshold BY BreakerAssumption
  <1>1. ASSUME NEW c \in Callers, Ask(c) \/ Succeed(c) \/ Fail(c) \/ Leave(c)
        PROVE  ClosedBelowThreshold'
    BY <1>1 DEF Ask, Succeed, Fail, Leave, breaker
  <1>2. ASSUME NEW t \in {"query", "reset"}, SendControl(t)
        PROVE  ClosedBelowThreshold'
    BY <1>2 DEF SendControl, breaker
  <1>3. CASE Elapse
    BY <1>3 DEF Elapse
  <1>4. ASSUME NEW c \in Callers, TryCall(c) PROVE ClosedBelowThreshold'
    BY <1>4 DEF TryCall, State, TurnsHalfOpen
  <1>5. ASSUME NEW c \in Callers, RecordSuccess(c) PROVE ClosedBelowThreshold'
    BY <1>0, <1>5 DEF RecordSuccess, ClosedCount
  <1>6. ASSUME NEW c \in Callers, RecordFailure(c) PROVE ClosedBelowThreshold'
    <2>1. failure_count' = Saturate(failure_count) BY <1>6 DEF RecordFailure
    <2>2. Saturate(failure_count) \in 0..Threshold BY HelperTypes
    <2>3. state' = "closed" => state = "closed" /\ ~(Saturate(failure_count) >= Threshold)
      BY <1>6 DEF RecordFailure, Opens
    <2>. QED BY <1>0, <2>1, <2>2, <2>3
  <1>7. CASE Query
    BY <1>7 DEF Query, State, TurnsHalfOpen
  <1>8. CASE Reset
    BY <1>0, <1>8 DEF Reset
  <1>9. CASE UNCHANGED vars
    BY <1>9 DEF vars, breaker
  <1>. QED BY <1>1, <1>2, <1>3, <1>4, <1>5, <1>6, <1>7, <1>8, <1>9 DEF Next, Handle

\* Whatever the order of late reports, resets and questions, a circuit is
\* never closed with a count that should have opened it.
THEOREM ClosedCircuitBelowThreshold == Spec => []ClosedBelowThreshold
  <1>1. Init => ClosedBelowThreshold
    BY BreakerAssumption DEF Init, ClosedBelowThreshold
  <1>. QED BY <1>1, ClosedStep, BreakerTypes, PTL DEF Spec

----------------------------------------------------------------------------
(* The half-open state admits no more than its limit.                      *)

\* The invariant behind HalfOpenLimit: the admitted callers are a finite set.
ProbesCounted == IsFiniteSet(probes) /\ HalfOpenLimit

\* What the half-open state looks like to a callback that may have entered it.
LEMMA PhaseCounted ==
  ASSUME TypeOK, ProbesCounted
  PROVE  /\ IsFiniteSet(Probes)
         /\ Calls \in Nat /\ Calls <= MaxProbes
         /\ Cardinality(Probes) <= Calls
         /\ State # "half_open" => Calls = 0
  <1>1. MaxProbes \in Nat BY BreakerAssumption
  <1>2. IsFiniteSet({}) /\ Cardinality({}) = 0 BY FS_EmptySet
  <1>3. CASE TurnsHalfOpen
    BY <1>1, <1>2, <1>3 DEF State, Calls, Probes
  <1>4. CASE ~TurnsHalfOpen
    BY <1>4 DEF State, Calls, Probes, ProbesCounted, HalfOpenLimit, TypeOK
  <1>. QED BY <1>3, <1>4

\* Every step keeps the count of the probes.
LEMMA ProbesStep == TypeOK /\ ProbesCounted /\ [Next]_vars => ProbesCounted'
  <1>. SUFFICES ASSUME TypeOK, ProbesCounted, [Next]_vars PROVE ProbesCounted'
    OBVIOUS
  <1>0. MaxProbes \in Nat BY BreakerAssumption
  <1>e. IsFiniteSet({}) /\ Cardinality({}) = 0 BY FS_EmptySet
  <1>1. ASSUME UNCHANGED <<state, half_open_calls, probes>> PROVE ProbesCounted'
    BY <1>1 DEF ProbesCounted, HalfOpenLimit
  <1>2. ASSUME NEW c \in Callers, Ask(c) \/ Succeed(c) \/ Fail(c) \/ Leave(c)
        PROVE  ProbesCounted'
    BY <1>1, <1>2 DEF Ask, Succeed, Fail, Leave, breaker
  <1>3. ASSUME NEW t \in {"query", "reset"}, SendControl(t) PROVE ProbesCounted'
    BY <1>1, <1>3 DEF SendControl, breaker
  <1>4. CASE Elapse
    BY <1>1, <1>4 DEF Elapse
  <1>5. ASSUME NEW c \in Callers, TryCall(c) PROVE ProbesCounted'
    <2>1. CASE Admits /\ State = "half_open"
      <3>1. /\ state' = "half_open" /\ half_open_calls' = Calls + 1
            /\ probes' = Probes \cup {c}
        BY <1>5, <2>1 DEF TryCall
      <3>2. Calls < MaxProbes BY <2>1 DEF Admits
      <3>3. /\ IsFiniteSet(Probes \cup {c})
            /\ Cardinality(Probes \cup {c}) <= Cardinality(Probes) + 1
        <4>1. IsFiniteSet(Probes) /\ Cardinality(Probes) \in Nat
          BY PhaseCounted, FS_CardinalityType
        <4>. QED BY <4>1, FS_AddElement
      <3>4. Cardinality(Probes) \in Nat /\ Cardinality(Probes \cup {c}) \in Nat
        BY <3>3, PhaseCounted, FS_CardinalityType
      <3>. QED BY <1>0, <3>1, <3>2, <3>3, <3>4, PhaseCounted DEF ProbesCounted, HalfOpenLimit
    <2>2. CASE ~(Admits /\ State = "half_open")
      <3>1. state' = State /\ half_open_calls' = Calls /\ probes' = Probes
        BY <1>5, <2>2 DEF TryCall
      <3>. QED BY <3>1, PhaseCounted DEF ProbesCounted, HalfOpenLimit
    <2>. QED BY <2>1, <2>2
  <1>6. ASSUME NEW c \in Callers, RecordSuccess(c) PROVE ProbesCounted'
    <2>1. CASE state = "half_open"
      BY <1>0, <1>e, <1>6, <2>1 DEF RecordSuccess, ProbesCounted, HalfOpenLimit
    <2>2. CASE state # "half_open"
      BY <1>1, <1>6, <2>2 DEF RecordSuccess
    <2>. QED BY <2>1, <2>2
  <1>7. ASSUME NEW c \in Callers, RecordFailure(c) PROVE ProbesCounted'
    <2>1. CASE Opens
      <3>1. half_open_calls' = 0 /\ probes' = {} /\ state' = "open"
        BY <1>7, <2>1 DEF RecordFailure, ProbesCounted, HalfOpenLimit
      <3>. QED BY <1>0, <1>e, <3>1 DEF ProbesCounted, HalfOpenLimit
    <2>2. CASE ~Opens
      BY <1>1, <1>7, <2>2 DEF RecordFailure
    <2>. QED BY <2>1, <2>2
  <1>8. CASE Query
    BY <1>8, PhaseCounted DEF Query, ProbesCounted, HalfOpenLimit
  <1>9. CASE Reset
    BY <1>0, <1>9, <1>e DEF Reset, ProbesCounted, HalfOpenLimit
  <1>10. CASE UNCHANGED vars
    BY <1>1, <1>10 DEF vars, breaker
  <1>. QED
    BY <1>2, <1>3, <1>4, <1>5, <1>6, <1>7, <1>8, <1>9, <1>10 DEF Next, Handle

\* In one half-open phase the breaker admits at most half_open_max_calls
\* callers, for any number of callers, also when they are gone by then.
THEOREM ProbesLimited == Spec => []HalfOpenLimit
  <1>1. Init => ProbesCounted
    BY BreakerAssumption, FS_EmptySet DEF Init, ProbesCounted, HalfOpenLimit
  <1>2. ProbesCounted => HalfOpenLimit BY DEF ProbesCounted
  <1>. QED BY <1>1, <1>2, ProbesStep, BreakerTypes, PTL DEF Spec

----------------------------------------------------------------------------
(* Every slot of the half-open state has an owner.                         *)

Asks(c)    == {i \in 1..Len(mailbox) : mailbox[i] = Msg("try_call", c)}
Reports(c) == {i \in 1..Len(mailbox) : mailbox[i] \in {Msg("success", c), Msg("failure", c)}}

\* A caller has one question under way at a time, and asks only between two
\* attempts.
OneQuestion ==
  \A c \in Callers : /\ \A i, j \in Asks(c) : i = j
                     /\ Asks(c) # {} => caller[c] \in {"asking", "gone"}

\* A probe runs, was killed or has reported; its next question comes behind
\* its report, which ends the phase first.
ProbesOwned ==
  \A c \in probes : /\ caller[c] \in {"running", "gone"} \/ Reports(c) # {}
                    /\ \A i \in Asks(c) : \E j \in Reports(c) : j < i

\* The invariant behind SlotsInUse: the order of a caller's messages is why no
\* caller takes a second slot in one phase.
SlotsOwned ==
  /\ OneQuestion
  /\ state = "half_open" => half_open_calls = Cardinality(probes) /\ ProbesOwned

\* The breaker takes the oldest message: what is left moves up by one.
LEMMA MailTaken ==
  ASSUME TypeOK, NEW m, Receive(m), Consume, NEW c \in Callers
  PROVE  /\ \A i \in Asks(c)' : i + 1 \in Asks(c)
         /\ \A i \in Asks(c) : i # 1 => i - 1 \in Asks(c)'
         /\ \A i \in Reports(c)' : i + 1 \in Reports(c)
         /\ \A i \in Reports(c) : i # 1 => i - 1 \in Reports(c)'
         /\ 1 \in Asks(c) <=> m = Msg("try_call", c)
         /\ 1 \in Reports(c) <=> m \in {Msg("success", c), Msg("failure", c)}
  <1>1. /\ mailbox \in Seq(Message) /\ mailbox # <<>> /\ mailbox[1] = m
        /\ mailbox' = Tail(mailbox)
    BY DEF TypeOK, Receive, Consume
  <1>2. /\ Len(mailbox') = Len(mailbox) - 1 /\ Len(mailbox) \in Nat \ {0}
        /\ \A i \in 1..Len(mailbox') : mailbox'[i] = mailbox[i + 1]
    BY <1>1
  <1>. QED BY <1>1, <1>2 DEF Asks, Reports

\* A message is added behind the others.
LEMMA MailAdded ==
  ASSUME TypeOK, NEW m \in Message, Send(m), NEW c \in Callers
  PROVE  /\ Asks(c)' = IF m = Msg("try_call", c) THEN Asks(c) \cup {Len(mailbox) + 1}
                                                 ELSE Asks(c)
         /\ Reports(c) \subseteq Reports(c)'
         /\ m \in {Msg("success", c), Msg("failure", c)} => Len(mailbox) + 1 \in Reports(c)'
         /\ \A i \in Asks(c) \cup Reports(c) : i < Len(mailbox) + 1
  <1>1. mailbox \in Seq(Message) /\ mailbox' = Append(mailbox, m) BY DEF TypeOK, Send
  <1>2. /\ Len(mailbox') = Len(mailbox) + 1 /\ Len(mailbox) \in Nat
        /\ \A i \in 1..Len(mailbox) : mailbox'[i] = mailbox[i]
        /\ mailbox'[Len(mailbox) + 1] = m
    BY <1>1
  <1>. QED BY <1>2 DEF Asks, Reports

\* Questions and reports are told apart by their kind and by their caller.
LEMMA MessagesDiffer ==
  ASSUME NEW c \in Callers, NEW d \in Callers
  PROVE  /\ Msg("try_call", c) \notin {Msg("success", d), Msg("failure", d)}
         /\ Msg("try_call", c) = Msg("try_call", d) <=> c = d
         /\ \A t \in {"query", "reset"} :
              [type |-> t] \notin {Msg("try_call", d), Msg("success", d), Msg("failure", d)}
  <1>1. \A t \in {"query", "reset"} : DOMAIN [type |-> t] # DOMAIN Msg("try_call", d)
    BY DEF Msg
  <1>. QED BY <1>1 DEF Msg

\* A step that takes a message which is no report, and admits nobody, keeps
\* every slot with its owner.
LEMMA OwnersKept ==
  ASSUME TypeOK, SlotsOwned, NEW m, Receive(m), Consume,
         \A c \in Callers : m \notin {Msg("success", c), Msg("failure", c)},
         \A c \in Callers : caller'[c] = caller[c] \/ m = Msg("try_call", c),
         NEW S \in SUBSET Callers, S = {} \/ (state = "half_open" /\ S = probes),
         \A c \in S : m # Msg("try_call", c)
  PROVE  /\ OneQuestion'
         /\ \A c \in S : /\ caller'[c] \in {"running", "gone"} \/ Reports(c)' # {}
                         /\ \A i \in Asks(c)' : \E j \in Reports(c)' : j < i
  <1>1. OneQuestion'
    <2>. SUFFICES ASSUME NEW c \in Callers
                  PROVE  /\ \A i, j \in Asks(c)' : i = j
                         /\ Asks(c)' # {} => caller'[c] \in {"asking", "gone"}
      BY DEF OneQuestion
    <2>1. \A i \in Asks(c)' : i + 1 \in Asks(c) /\ i \in Nat \ {0}
      BY MailTaken DEF Asks
    <2>2. \A i, j \in Asks(c)' : i = j
      BY <2>1 DEF SlotsOwned, OneQuestion
    <2>3. Asks(c)' # {} => m # Msg("try_call", c)
      <3>1. m = Msg("try_call", c) => 1 \in Asks(c) BY MailTaken
      <3>. QED BY <2>1, <3>1 DEF SlotsOwned, OneQuestion
    <2>. QED BY <2>1, <2>2, <2>3 DEF SlotsOwned, OneQuestion
  <1>2. ASSUME NEW c \in S
        PROVE  /\ caller'[c] \in {"running", "gone"} \/ Reports(c)' # {}
               /\ \A i \in Asks(c)' : \E j \in Reports(c)' : j < i
    <2>1. c \in Callers /\ c \in probes /\ ProbesOwned BY DEF SlotsOwned
    <2>2. caller'[c] = caller[c] /\ 1 \notin Reports(c) BY <2>1, MailTaken
    <2>3. \A j \in Reports(c) : j \in Nat \ {0} /\ j - 1 \in Reports(c)'
      BY <2>1, <2>2, MailTaken DEF Reports
    <2>4. \A i \in Asks(c)' : i \in Nat /\ i + 1 \in Asks(c)
      BY <2>1, MailTaken DEF Asks
    <2>5. ASSUME NEW i \in Asks(c)' PROVE \E j \in Reports(c)' : j < i
      <3>1. PICK j \in Reports(c) : j < i + 1 BY <2>1, <2>4 DEF ProbesOwned
      <3>. QED BY <2>3, <2>4, <3>1
    <2>. QED BY <2>1, <2>2, <2>3, <2>5 DEF ProbesOwned
  <1>. QED BY <1>1, <1>2

\* Every step keeps every slot with its owner.
LEMMA SlotsStep ==
  TypeOK /\ ProbesCounted /\ SlotsOwned /\ [Next]_vars => SlotsOwned'
  <1>. SUFFICES ASSUME TypeOK, ProbesCounted, SlotsOwned, [Next]_vars PROVE SlotsOwned'
    OBVIOUS
  <1>e. IsFiniteSet({}) /\ Cardinality({}) = 0 BY FS_EmptySet
  <1>0. state # "half_open" => probes = {}
    <2>1. state # "half_open" => Cardinality(probes) = 0
      BY FS_CardinalityType DEF ProbesCounted, HalfOpenLimit
    <2>. QED BY <2>1, FS_EmptySet DEF ProbesCounted
  <1>1. ASSUME NEW c \in Callers, Ask(c) PROVE SlotsOwned'
    <2>1. Msg("try_call", c) \in Message BY MessageKinds
    <2>2. caller[c] \in {"idle", "backoff"} /\ Asks(c) = {}
      BY <1>1 DEF Ask, SlotsOwned, OneQuestion
    <2>3. ASSUME NEW d \in Callers
          PROVE  /\ Asks(d)' = IF d = c THEN {Len(mailbox) + 1} ELSE Asks(d)
                 /\ Reports(d) \subseteq Reports(d)'
                 /\ \A i \in Reports(d) : i < Len(mailbox) + 1
                 /\ caller'[d] = IF d = c THEN "asking" ELSE caller[d]
      <3>1. caller'[d] = IF d = c THEN "asking" ELSE caller[d] BY <1>1 DEF Ask, TypeOK
      <3>. QED BY <1>1, <2>1, <2>2, <3>1, MailAdded, MessagesDiffer DEF Ask
    <2>4. OneQuestion' BY <2>3 DEF SlotsOwned, OneQuestion
    <2>5. state = "half_open" => ProbesOwned'
      BY <1>1, <2>2, <2>3 DEF Ask, SlotsOwned, ProbesOwned, TypeOK
    <2>. QED BY <1>1, <2>4, <2>5 DEF Ask, breaker, SlotsOwned
  <1>2. ASSUME NEW c \in Callers, Succeed(c) \/ Fail(c) PROVE SlotsOwned'
    <2>1. PICK t \in {"success", "failure"} : Send(Msg(t, c)) /\ UNCHANGED <<breaker, probes>>
      BY <1>2 DEF Succeed, Fail
    <2>2. Msg(t, c) \in Message BY <2>1, MessageKinds
    <2>3. caller[c] = "running" /\ Asks(c) = {}
      BY <1>2 DEF Succeed, Fail, SlotsOwned, OneQuestion
    <2>4. ASSUME NEW d \in Callers
          PROVE  /\ Asks(d)' = Asks(d) /\ Reports(d) \subseteq Reports(d)'
                 /\ d = c => Reports(d)' # {}
                 /\ d # c => caller'[d] = caller[d]
      <3>1. d # c => caller'[d] = caller[d] BY <1>2 DEF Succeed, Fail, TypeOK
      <3>. QED BY <2>1, <2>2, <3>1, MailAdded, MessagesDiffer
    <2>5. OneQuestion' BY <2>3, <2>4 DEF SlotsOwned, OneQuestion
    <2>6. state = "half_open" => ProbesOwned'
      BY <2>1, <2>3, <2>4 DEF SlotsOwned, ProbesOwned, TypeOK
    <2>. QED BY <2>1, <2>5, <2>6 DEF breaker, SlotsOwned
  <1>3. ASSUME NEW c \in Callers, Leave(c) PROVE SlotsOwned'
    <2>1. \A d \in Callers : /\ Asks(d)' = Asks(d) /\ Reports(d)' = Reports(d)
                             /\ caller'[d] = IF d = c THEN "gone" ELSE caller[d]
      BY <1>3 DEF Leave, Asks, Reports, TypeOK
    <2>. QED BY <1>3, <2>1 DEF Leave, breaker, SlotsOwned, OneQuestion, ProbesOwned, TypeOK
  <1>4. ASSUME NEW t \in {"query", "reset"}, SendControl(t) PROVE SlotsOwned'
    <2>1. [type |-> t] \in Message /\ Send([type |-> t]) BY <1>4 DEF Message, SendControl
    <2>2. \A d \in Callers : Asks(d)' = Asks(d) /\ Reports(d) \subseteq Reports(d)'
      BY <2>1, MailAdded, MessagesDiffer
    <2>. QED BY <1>4, <2>2 DEF SendControl, breaker, SlotsOwned, OneQuestion, ProbesOwned, TypeOK
  <1>5. CASE Elapse
    BY <1>5 DEF Elapse, SlotsOwned, OneQuestion, ProbesOwned, Asks, Reports
  <1>6. ASSUME NEW c \in Callers, TryCall(c) PROVE SlotsOwned'
    <2>. DEFINE m == Msg("try_call", c)
    <2>1. Receive(m) /\ Consume BY <1>6 DEF TryCall
    <2>2. \A d \in Callers : m \notin {Msg("success", d), Msg("failure", d)} BY MessagesDiffer
    <2>3. \A d \in Callers : caller'[d] = caller[d] \/ m = Msg("try_call", d)
      BY <1>6 DEF TryCall, TypeOK
    <2>4. Probes \subseteq Callers /\ (Probes = {} \/ (state = "half_open" /\ Probes = probes))
      BY <1>0, HelperTypes DEF Probes
    <2>5. c \notin Probes
      <3>1. 1 \in Asks(c) BY <2>1, MailTaken
      <3>2. \A j \in Reports(c) : ~(j < 1) BY DEF Reports
      <3>. QED BY <2>4, <3>1, <3>2 DEF SlotsOwned, ProbesOwned
    <2>6. \A d \in Probes : m # Msg("try_call", d) BY <2>4, <2>5, MessagesDiffer
    <2>7. /\ OneQuestion'
          /\ \A d \in Probes : /\ caller'[d] \in {"running", "gone"} \/ Reports(d)' # {}
                               /\ \A i \in Asks(d)' : \E j \in Reports(d)' : j < i
      <3>. HIDE DEF m
      <3>. QED BY <2>1, <2>2, <2>3, <2>4, <2>6, OwnersKept
    <2>8. Asks(c)' = {}
      <3>1. 1 \in Asks(c) /\ \A i \in Asks(c)' : i + 1 \in Asks(c) /\ i \in Nat \ {0}
        BY <2>1, MailTaken DEF Asks
      <3>. QED BY <3>1 DEF SlotsOwned, OneQuestion
    <2>9. State = "half_open" => Calls = Cardinality(Probes)
      BY <1>e DEF State, Calls, Probes, SlotsOwned
    <2>10. CASE Admits /\ State = "half_open"
      <3>1. /\ state' = State /\ half_open_calls' = Calls + 1 /\ probes' = Probes \cup {c}
        BY <1>6, <2>10 DEF TryCall
      <3>2. Cardinality(Probes \cup {c}) = Cardinality(Probes) + 1
        <4>1. IsFiniteSet(Probes) BY PhaseCounted
        <4>. QED BY <2>5, <4>1, FS_AddElement
      <3>3. caller'[c] \in {"running", "gone"}
        <4>1. 1 \in Asks(c) BY <2>1, MailTaken
        <4>2. caller[c] \in {"asking", "gone"} BY <4>1 DEF SlotsOwned, OneQuestion
        <4>. QED BY <1>6, <2>10, <4>2 DEF TryCall, TypeOK
      <3>. QED BY <2>7, <2>8, <2>9, <2>10, <3>1, <3>2, <3>3 DEF SlotsOwned, ProbesOwned
    <2>11. CASE ~(Admits /\ State = "half_open")
      <3>1. state' = State /\ half_open_calls' = Calls /\ probes' = Probes
        BY <1>6, <2>11 DEF TryCall
      <3>. QED BY <2>7, <2>9, <3>1 DEF SlotsOwned, ProbesOwned
    <2>. QED BY <2>10, <2>11
  <1>7. ASSUME NEW c \in Callers, RecordSuccess(c) \/ RecordFailure(c) PROVE SlotsOwned'
    <2>1. state' # "half_open" BY <1>7 DEF RecordSuccess, RecordFailure, Opens
    <2>2. PICK m : Receive(m) /\ Consume BY <1>7 DEF RecordSuccess, RecordFailure
    <2>3. caller' = caller BY <1>7 DEF RecordSuccess, RecordFailure
    <2>4. \A d \in Callers : \A i \in Asks(d)' : i + 1 \in Asks(d) /\ i \in Nat
      BY <2>2, MailTaken DEF Asks
    <2>. QED BY <2>1, <2>3, <2>4 DEF SlotsOwned, OneQuestion
  <1>8. CASE Query
    <2>1. /\ Receive([type |-> "query"]) /\ Consume /\ caller' = caller
          /\ state' = State /\ half_open_calls' = Calls /\ probes' = Probes
      BY <1>8 DEF Query
    <2>2. Probes \subseteq Callers /\ (Probes = {} \/ (state = "half_open" /\ Probes = probes))
      BY <1>0, HelperTypes DEF Probes
    <2>3. \A d \in Callers :
            [type |-> "query"] \notin {Msg("try_call", d), Msg("success", d), Msg("failure", d)}
      BY MessagesDiffer
    <2>4. /\ OneQuestion'
          /\ \A d \in Probes : /\ caller'[d] \in {"running", "gone"} \/ Reports(d)' # {}
                               /\ \A i \in Asks(d)' : \E j \in Reports(d)' : j < i
      BY <2>1, <2>2, <2>3, OwnersKept
    <2>5. State = "half_open" => Calls = Cardinality(Probes)
      BY <1>e DEF State, Calls, Probes, SlotsOwned
    <2>. QED BY <2>1, <2>4, <2>5 DEF SlotsOwned, ProbesOwned
  <1>9. CASE Reset
    <2>1. Receive([type |-> "reset"]) /\ Consume /\ caller' = caller /\ state' = "closed"
      BY <1>9 DEF Reset
    <2>2. \A d \in Callers : \A i \in Asks(d)' : i + 1 \in Asks(d) /\ i \in Nat
      BY <2>1, MailTaken DEF Asks
    <2>. QED BY <2>1, <2>2 DEF SlotsOwned, OneQuestion
  <1>10. CASE UNCHANGED vars
    BY <1>10 DEF vars, breaker, SlotsOwned, OneQuestion, ProbesOwned, Asks, Reports
  <1>. QED
    BY <1>1, <1>2, <1>3, <1>4, <1>5, <1>6, <1>7, <1>8, <1>9, <1>10 DEF Next, Handle

\* The slots of a half-open circuit are those of its probes, and each probe
\* runs, has its report on the way or was killed, for any number of callers and
\* whatever they left in the mailbox in an earlier phase.
THEOREM SlotsAlwaysAccounted == Spec => []SlotsAccounted
  <1>1. Init => SlotsOwned /\ ProbesCounted
    <2>1. Init => ProbesCounted
      BY BreakerAssumption, FS_EmptySet DEF Init, ProbesCounted, HalfOpenLimit
    <2>. QED BY <2>1 DEF Init, SlotsOwned, OneQuestion, Asks
  <1>2. TypeOK /\ SlotsOwned /\ ProbesCounted => SlotsAccounted
    <2>1. \A c : Reported(c) <=> Reports(c) # {} BY DEF Reported, Reports
    <2>. QED BY <2>1 DEF SlotsOwned, ProbesOwned, ProbesCounted, SlotsAccounted, SlotsInUse, Lost
  <1>. QED BY <1>1, <1>2, ProbesStep, SlotsStep, BreakerTypes, PTL DEF Spec
=============================================================================

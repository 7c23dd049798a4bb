----------------------- MODULE HeartbeatMonitorProofs -----------------------
(***************************************************************************)
(* Proofs about HeartbeatMonitor for any number of references, limit of    *)
(* missed heartbeats and bound: the count of misses and the ping task are  *)
(* right, and a healthy worker is not terminated.                          *)
(***************************************************************************)
EXTENDS HeartbeatMonitor, SequenceTheorems, FiniteSetTheorems, TLAPS

----------------------------------------------------------------------------
(* The inductive invariants.                                               *)

\* Only the current task runs, and a deadline is armed for nothing else.
TaskInv ==
  /\ \A r \in Refs : stage[r] # "none" => r = ping_task_ref
  /\ ping_task_timer => ping_task_ref # None

\* While the heartbeat's timer is set, a ping went out that is not counted.
MissInv ==
  /\ missed <= since
  /\ timeout_timer => missed < since \/ since = MaxMissed

AccountInv == TypeOK /\ TaskInv /\ MissInv

----------------------------------------------------------------------------
(* The mailbox.                                                            *)

\* The messages there are.
LEMMA MessageFacts ==
  /\ \A t \in {"send_ping", "pong", "heartbeat_timeout"} : Plain(t) \in Message
  /\ \A t \in {"ok", "error", "task_timeout", "task_down"}, r \in Refs : TaskMsg(t, r) \in Message
  BY DEF Plain, TaskMsg, Message

\* A message is added to the mailbox.
LEMMA Sent ==
  ASSUME TypeOK, NEW m \in Message, Send(m)
  PROVE  mailbox' \in Seq(Message)
  BY AppendProperties DEF TypeOK, Send

\* A message is taken from it.
LEMMA Received ==
  ASSUME TypeOK, NEW m, Receive(m)
  PROVE  Tail(mailbox) \in Seq(Message) /\ monitor = "alive"
  BY HeadTailProperties DEF TypeOK, Receive

\* The flush leaves messages, and all of them if no :DOWN is among them.
LEMMA FlushedFacts ==
  ASSUME NEW S, NEW s \in Seq(S), NEW r
  PROVE  /\ Flushed(s, r) \in Seq(S)
         /\ (\A i \in 1..Len(s) : s[i] # TaskMsg("task_down", r)) => Flushed(s, r) = s
  <1>1. CASE ~\E i \in 1..Len(s) : s[i] = TaskMsg("task_down", r)
    BY <1>1 DEF Flushed
  <1>2. CASE \E i \in 1..Len(s) : s[i] = TaskMsg("task_down", r)
    <2> DEFINE k == CHOOSE i \in 1..Len(s) : s[i] = TaskMsg("task_down", r)
               t == Flushed(s, r)
    <2>1. k \in 1..Len(s) BY <1>2
    <2>2. t = [j \in 1..(Len(s) - 1) |-> IF j < k THEN s[j] ELSE s[j + 1]]
      BY <1>2 DEF Flushed, Without
    <2>3. Len(s) \in Nat /\ Len(s) - 1 \in Nat /\ k \in Nat
      BY <2>1, LenProperties
    <2> HIDE DEF k, t
    <2>4. \A j \in 1..(Len(s) - 1) : (IF j < k THEN s[j] ELSE s[j + 1]) \in S
      <3> TAKE j \in 1..(Len(s) - 1)
      <3>1. j \in 1..Len(s) /\ j + 1 \in 1..Len(s) BY <2>3
      <3>. QED BY <3>1, ElementOfSeq
    <2>5. t \in [1..(Len(s) - 1) -> S] BY <2>2, <2>4
    <2>6. t \in Seq(S) BY <2>3, <2>5, SeqDef
    <2>. QED BY <1>2, <2>6 DEF t
  <1>. QED BY <1>1, <1>2

----------------------------------------------------------------------------
(* The steps.                                                              *)

\* A failure of the worker, whatever it is called.
LEMMA FailureTypes ==
  ASSUME TypeOK, NEW why \in {"ping_failed", "heartbeat_timeout"}, Failure(why)
  PROVE  /\ monitor' \in {"alive", "stopped"} /\ worker' \in {"up", "down"}
         /\ reason' \in {"none", "crash", "ping_failed", "heartbeat_timeout"}
         /\ ping_timer' \in BOOLEAN /\ timeout_timer' = FALSE /\ beat' = FALSE
         /\ leaked' = leaked /\ since' = since
         /\ UNCHANGED <<health, owed, dependent, transport>>
  BY DEF TypeOK, Failure, CancelTimeout, NextPing, procs, worked, opts

\* The end of the current task.
LEMMA Cleared ==
  ASSUME TypeOK, TaskInv, NEW r \in Refs, r = ping_task_ref, ClearTask(r)
  PROVE  /\ ping_task_ref' = None /\ ping_task_timer' = FALSE
         /\ stage' \in [Refs -> {"none", "pinging", "ponged"}]
         /\ \A q \in Refs : stage'[q] = "none"
  BY DEF TypeOK, TaskInv, ClearTask

\* A step in which the task ends and the worker is found to have failed.
LEMMA FailureStep ==
  ASSUME AccountInv, NEW why \in {"ping_failed", "heartbeat_timeout"}, Failure(why),
         mailbox' \in Seq(Message), missed' \in 0..MaxMissed, missed' <= since,
         ping_task_ref' = None, ping_task_timer' = FALSE,
         stage' \in [Refs -> {"none", "pinging", "ponged"}],
         \A q \in Refs : stage'[q] = "none"
  PROVE  AccountInv'
  <1>1. TypeOK' BY FailureTypes DEF AccountInv, TypeOK
  <1>2. TaskInv' BY DEF TaskInv
  <1>3. MissInv' BY FailureTypes DEF AccountInv, MissInv
  <1>. QED BY <1>1, <1>2, <1>3 DEF AccountInv

\* A ping starts a task, or finds the last one still there.
LEMMA SendPingStep ==
  ASSUME AccountInv, SendPing
  PROVE  AccountInv'
  <1>1. Tail(mailbox) \in Seq(Message) BY Received DEF SendPing, AccountInv
  <1>2. mailbox' \in Seq(Message) BY <1>1, FlushedFacts DEF SendPing
  <1>3. CASE ping_task_ref # None
    <2>1. ping_task_ref \in Refs BY <1>3 DEF AccountInv, TypeOK
    <2>2. ClearTask(ping_task_ref) /\ Failure("ping_failed") /\ missed' = missed
      BY <1>3 DEF SendPing
    <2>3. missed' \in 0..MaxMissed /\ missed' <= since
      BY <2>2 DEF AccountInv, TypeOK, MissInv
    <2>. QED BY <1>2, <2>1, <2>2, <2>3, Cleared, FailureStep DEF AccountInv
  <1>4. CASE ping_task_ref = None
    <2>1. PICK r \in FreeRefs : ping_task_ref' = r /\ stage' = [stage EXCEPT ![r] = "pinging"]
      BY <1>4 DEF SendPing
    <2>2. /\ ping_task_timer' = TRUE /\ ping_timer' = ping_timer
          /\ timeout_timer' = TRUE /\ beat' = TRUE /\ leaked' = leaked
          /\ since' = Saturate(since) /\ UNCHANGED <<monitor, missed, worked, procs>>
      BY <1>4 DEF SendPing
    <2>3. r \in Refs /\ r # None BY <2>1, HeartbeatAssumption DEF FreeRefs
    <2>4. /\ since' \in 0..MaxMissed /\ missed <= since'
          /\ missed < since' \/ since' = MaxMissed
      BY <2>2, HeartbeatAssumption DEF AccountInv, TypeOK, MissInv, Saturate
    <2>5. TypeOK'
      BY <1>2, <2>1, <2>2, <2>3, <2>4 DEF AccountInv, TypeOK, worked, opts, procs
    <2>6. TaskInv'
      BY <1>4, <2>1, <2>3, HeartbeatAssumption DEF AccountInv, TypeOK, TaskInv
    <2>7. MissInv' BY <2>2, <2>4 DEF MissInv
    <2>. QED BY <2>5, <2>6, <2>7 DEF AccountInv
  <1>. QED BY <1>3, <1>4

\* A pong, for whatever ping, clears the count.
LEMMA PongStep ==
  ASSUME AccountInv, Pong
  PROVE  AccountInv'
  <1>1. mailbox' \in Seq(Message) BY Received DEF Pong, AccountInv
  <1>2. /\ missed' = 0 /\ since' = 0 /\ timeout_timer' = FALSE /\ beat' = FALSE
        /\ leaked' = leaked /\ ping_timer' = TRUE
        /\ UNCHANGED <<monitor, pinging, worked, procs>>
    BY DEF Pong, MissedAfterPong, CancelTimeout, NextPing
  <1> 0 \in 0..MaxMissed BY HeartbeatAssumption
  <1>3. TypeOK'
    BY <1>1, <1>2 DEF AccountInv, TypeOK, pinging, worked, opts, procs
  <1>4. TaskInv' BY <1>2 DEF AccountInv, TaskInv, pinging
  <1>5. MissInv' BY <1>2 DEF MissInv
  <1>. QED BY <1>3, <1>4, <1>5 DEF AccountInv

\* The messages of a ping task.
LEMMA TaskMessageStep ==
  ASSUME AccountInv, NEW r \in Refs,
         ResultOk(r) \/ ResultError(r) \/ TaskTimeout(r) \/ TaskDown(r) \/ StaleTask(r)
  PROVE  AccountInv'
  <1>1. Tail(mailbox) \in Seq(Message)
    BY Received DEF AccountInv, ResultOk, ResultError, TaskTimeout, TaskDown, StaleTask
  <1>2. mailbox' \in Seq(Message)
    BY <1>1, FlushedFacts DEF ResultOk, ResultError, TaskTimeout, TaskDown, StaleTask
  <1>3. CASE ResultOk(r) \/ TaskDown(r)
    <2>1. /\ r = ping_task_ref /\ ClearTask(r)
          /\ UNCHANGED <<monitor, timers, missed, worked, procs, since>>
      BY <1>3 DEF ResultOk, TaskDown
    <2>2. /\ ping_task_ref' = None /\ ping_task_timer' = FALSE
          /\ stage' \in [Refs -> {"none", "pinging", "ponged"}]
          /\ \A q \in Refs : stage'[q] = "none"
      BY <2>1, Cleared DEF AccountInv
    <2>3. TypeOK' BY <1>2, <2>1, <2>2 DEF AccountInv, TypeOK, timers, worked, opts, procs
    <2>4. TaskInv' BY <2>2 DEF TaskInv
    <2>5. MissInv' BY <2>1 DEF AccountInv, MissInv, timers
    <2>. QED BY <2>3, <2>4, <2>5 DEF AccountInv
  <1>4. CASE ResultError(r) \/ TaskTimeout(r)
    <2>1. /\ r = ping_task_ref /\ ClearTask(r) /\ Failure("ping_failed")
          /\ missed' = missed
      BY <1>4 DEF ResultError, TaskTimeout, StopTask
    <2>2. missed' \in 0..MaxMissed /\ missed' <= since
      BY <2>1 DEF AccountInv, TypeOK, MissInv
    <2>. QED BY <1>2, <2>1, <2>2, Cleared, FailureStep DEF AccountInv
  <1>5. CASE StaleTask(r)
    <2>1. UNCHANGED <<monitor, timers, pinging, missed, worked, procs, since>>
      BY <1>5 DEF StaleTask
    <2>2. TypeOK' BY <1>2, <2>1 DEF AccountInv, TypeOK, timers, pinging, worked, opts, procs
    <2>3. TaskInv' /\ MissInv'
      BY <2>1 DEF AccountInv, TaskInv, MissInv, timers, pinging
    <2>. QED BY <2>2, <2>3 DEF AccountInv
  <1>. QED BY <1>3, <1>4, <1>5

\* A heartbeat timeout is stale, or counts one miss for a ping that went out.
LEMMA HeartbeatTimeoutStep ==
  ASSUME AccountInv, HeartbeatTimeout
  PROVE  AccountInv'
  <1>1. Tail(mailbox) \in Seq(Message) BY Received DEF HeartbeatTimeout, AccountInv
  <1>2. mailbox' \in Seq(Message) BY <1>1, FlushedFacts DEF HeartbeatTimeout
  <1>3. /\ missed \in 0..MaxMissed /\ since \in 0..MaxMissed /\ missed <= since
        /\ timeout_timer \in BOOLEAN /\ MaxMissed \in Nat \ {0}
    BY HeartbeatAssumption DEF AccountInv, TypeOK, MissInv
  <1>4. ~StaleTimeout => Saturate(missed) \in 0..MaxMissed /\ Saturate(missed) <= since
    BY <1>3 DEF StaleTimeout, AccountInv, MissInv, Saturate
  <1>5. CASE StaleTimeout
    <2>1. UNCHANGED <<monitor, timers, pinging, missed, worked, procs, since>>
      BY <1>5 DEF HeartbeatTimeout
    <2>2. TypeOK' BY <1>2, <2>1 DEF AccountInv, TypeOK, timers, pinging, worked, opts, procs
    <2>3. TaskInv' /\ MissInv'
      BY <2>1 DEF AccountInv, TaskInv, MissInv, timers, pinging
    <2>. QED BY <2>2, <2>3 DEF AccountInv
  <1>6. CASE ~StaleTimeout /\ Saturate(missed) = MaxMissed
    <2>1. /\ missed' = MaxMissed /\ Failure("heartbeat_timeout")
          /\ IF ping_task_ref = None THEN KeepTask ELSE ClearTask(ping_task_ref)
      BY <1>6 DEF HeartbeatTimeout
    <2>2. /\ ping_task_ref' = None /\ ping_task_timer' = FALSE
          /\ stage' \in [Refs -> {"none", "pinging", "ponged"}]
          /\ \A q \in Refs : stage'[q] = "none"
      <3>1. CASE ping_task_ref = None
        BY <2>1, <3>1, HeartbeatAssumption DEF AccountInv, TypeOK, TaskInv, KeepTask, pinging
      <3>2. CASE ping_task_ref # None
        BY <2>1, <3>2, Cleared DEF AccountInv, TypeOK
      <3>. QED BY <3>1, <3>2
    <2>3. missed' \in 0..MaxMissed /\ missed' <= since BY <1>3, <1>4, <1>6, <2>1
    <2>. QED BY <1>2, <2>1, <2>2, <2>3, FailureStep
  <1>7. CASE ~StaleTimeout /\ Saturate(missed) # MaxMissed
    <2>1. /\ missed' = Saturate(missed) /\ DropTimeout /\ NextPing
          /\ UNCHANGED <<monitor, pinging, worked, procs, since>>
      BY <1>7 DEF HeartbeatTimeout
    <2>2. leaked' \in Nat /\ timeout_timer' = FALSE /\ beat' = FALSE /\ ping_timer' = TRUE
      BY <2>1 DEF DropTimeout, NextPing, AccountInv, TypeOK
    <2>3. TypeOK'
      BY <1>2, <1>4, <1>7, <2>1, <2>2 DEF AccountInv, TypeOK, pinging, worked, opts, procs
    <2>4. TaskInv' BY <2>1 DEF AccountInv, TaskInv, pinging
    <2>5. MissInv' BY <1>4, <1>7, <2>1, <2>2 DEF MissInv
    <2>. QED BY <2>3, <2>4, <2>5 DEF AccountInv
  <1>. QED BY <1>5, <1>6, <1>7

\* A timer sends its message.
LEMMA TimerStep ==
  ASSUME AccountInv, Timers
  PROVE  AccountInv'
  <1>1. CASE PingTimer \/ TimeoutTimer \/ LeakedTimer
    <2>1. PICK t \in {"send_ping", "heartbeat_timeout"} : Send(Plain(t))
      BY <1>1 DEF PingTimer, TimeoutTimer, LeakedTimer
    <2>2. /\ ping_timer' \in BOOLEAN /\ beat' \in BOOLEAN /\ leaked' \in Nat
          /\ timeout_timer' = timeout_timer /\ Quiet
      <3>1. ping_timer \in BOOLEAN /\ beat \in BOOLEAN /\ leaked \in Nat
        BY DEF AccountInv, TypeOK
      <3>2. CASE PingTimer BY <3>1, <3>2 DEF PingTimer
      <3>3. CASE TimeoutTimer BY <3>1, <3>3 DEF TimeoutTimer
      <3>4. CASE LeakedTimer
        <4>1. leaked' = leaked - 1 /\ leaked > 0 BY <3>4 DEF LeakedTimer
        <4>2. leaked' \in Nat BY <3>1, <4>1
        <4>. QED BY <3>1, <3>4, <4>2 DEF LeakedTimer
      <3>. QED BY <1>1, <3>2, <3>3, <3>4
    <2>3. mailbox' \in Seq(Message) BY <2>1, Sent, MessageFacts DEF AccountInv
    <2>4. TypeOK'
      BY <2>2, <2>3 DEF AccountInv, TypeOK, Quiet, pinging, worked, opts, procs
    <2>5. TaskInv' /\ MissInv'
      BY <2>2 DEF AccountInv, TaskInv, MissInv, Quiet, pinging
    <2>. QED BY <2>4, <2>5 DEF AccountInv
  <1>2. CASE TaskTimer
    <2>1. /\ ping_task_timer /\ ping_task_timer' = FALSE
          /\ Send(TaskMsg("task_timeout", ping_task_ref))
          /\ UNCHANGED <<monitor, timers, ping_task_ref, stage, missed, worked, procs, since>>
      BY <1>2 DEF TaskTimer
    <2>2. ping_task_ref \in Refs BY <2>1 DEF AccountInv, TypeOK, TaskInv
    <2>3. mailbox' \in Seq(Message) BY <2>1, <2>2, Sent, MessageFacts DEF AccountInv
    <2>4. TypeOK'
      BY <2>1, <2>3 DEF AccountInv, TypeOK, timers, worked, opts, procs
    <2>5. TaskInv' /\ MissInv'
      BY <2>1 DEF AccountInv, TaskInv, MissInv, timers
    <2>. QED BY <2>4, <2>5 DEF AccountInv
  <1>. QED BY <1>1, <1>2 DEF Timers

\* A ping task goes on or ends.
LEMMA TaskStepInv ==
  ASSUME AccountInv, NEW r \in Refs,
         NEW from \in {"pinging", "ponged"}, NEW to \in {"none", "ponged"},
         NEW m \in Message, TaskStep(r, from, to, m), owed' \in Nat
  PROVE  AccountInv'
  <1>1. /\ stage[r] = from /\ stage' = [stage EXCEPT ![r] = to] /\ Send(m)
        /\ UNCHANGED <<monitor, timers, ping_task_ref, ping_task_timer, missed, health,
                       opts, procs, since>>
    BY DEF TaskStep
  <1>2. mailbox' \in Seq(Message) BY <1>1, Sent DEF AccountInv
  <1>3. TypeOK' BY <1>1, <1>2 DEF AccountInv, TypeOK, timers, opts, procs
  <1>4. TaskInv' BY <1>1 DEF AccountInv, TypeOK, TaskInv
  <1>5. MissInv' BY <1>1 DEF AccountInv, MissInv, timers
  <1>. QED BY <1>3, <1>4, <1>5 DEF AccountInv

\* Every step of the monitor, its tasks, the worker and its supervisor.
LEMMA AccountStep ==
  ASSUME AccountInv, [Next]_vars
  PROVE  AccountInv'
  <1>1. CASE UNCHANGED vars
    BY <1>1 DEF AccountInv, TypeOK, TaskInv, MissInv, vars, timers, pinging, worked, opts, procs
  <1>2. CASE Handle
    BY <1>2, SendPingStep, PongStep, TaskMessageStep, HeartbeatTimeoutStep DEF Handle
  <1>3. CASE Timers
    BY <1>3, TimerStep
  <1>4. ASSUME NEW r \in Refs, TaskPong(r) \/ TaskReturns(r) \/ TaskErrs(r) \/ TaskDies(r)
        PROVE  AccountInv'
    <2>1. /\ Plain("pong") \in Message
          /\ \A t \in {"ok", "error", "task_down"} : TaskMsg(t, r) \in Message
      BY MessageFacts
    <2>2. owed \in Nat BY DEF AccountInv, TypeOK
    <2>3. CASE TaskPong(r) BY <2>1, <2>2, <2>3, TaskStepInv DEF TaskPong
    <2>4. CASE TaskReturns(r)
      <3>1. owed' \in Nat BY <2>2, <2>4 DEF TaskReturns
      <3>2. \E from \in {"pinging", "ponged"} : TaskStep(r, from, "none", TaskMsg("ok", r))
        BY <2>4 DEF TaskReturns
      <3>. QED BY <2>1, <3>1, <3>2, TaskStepInv
    <2>5. CASE TaskErrs(r) BY <2>1, <2>2, <2>5, TaskStepInv DEF TaskErrs
    <2>6. CASE TaskDies(r) BY <2>1, <2>2, <2>6, TaskStepInv DEF TaskDies
    <2>. QED BY <1>4, <2>3, <2>4, <2>5, <2>6
  <1>5. CASE WorkerPong
    <2>1. /\ owed' = owed - 1 /\ owed > 0 /\ Send(Plain("pong"))
          /\ UNCHANGED <<monitor, timers, pinging, missed, health, opts, procs, since>>
      BY <1>5 DEF WorkerPong
    <2>2. mailbox' \in Seq(Message) BY <2>1, Sent, MessageFacts DEF AccountInv
    <2>3. owed' \in Nat BY <2>1 DEF AccountInv, TypeOK
    <2>4. TypeOK'
      BY <2>1, <2>2, <2>3 DEF AccountInv, TypeOK, timers, pinging, opts, procs
    <2>5. TaskInv' /\ MissInv'
      BY <2>1 DEF AccountInv, TaskInv, MissInv, timers, pinging
    <2>. QED BY <2>4, <2>5 DEF AccountInv
  <1>6. CASE Worsen
    BY <1>6 DEF Worsen, AccountInv, TypeOK, TaskInv, MissInv, timers, pinging, opts, procs
  <1>7. CASE Crash
    BY <1>7, EmptySeq DEF Crash, AccountInv, TypeOK, TaskInv, MissInv, timers, pinging, worked, opts
  <1>8. CASE Restart
    <2>1. <<>> \in Seq(Message) BY EmptySeq
    <2>2. 0 \in 0..MaxMissed BY HeartbeatAssumption
    <2>3. stage' = [r \in Refs |-> "none"] BY <1>8 DEF Restart
    <2>4. stage' \in [Refs -> {"none", "pinging", "ponged"}] BY <2>3
    <2>5. TypeOK' BY <1>8, <2>1, <2>2, <2>4 DEF Restart, AccountInv, TypeOK, opts
    <2>6. TaskInv' BY <1>8, <2>3 DEF Restart, TaskInv
    <2>7. MissInv' BY <1>8 DEF Restart, MissInv
    <2>. QED BY <2>5, <2>6, <2>7 DEF AccountInv
  <1>. QED BY <1>1, <1>2, <1>3, <1>4, <1>5, <1>6, <1>7, <1>8 DEF Next

\* No ping went out and none was missed.
LEMMA AccountInit == Init => AccountInv
  <1> SUFFICES ASSUME Init PROVE AccountInv OBVIOUS
  <1>1. <<>> \in Seq(Message) BY EmptySeq
  <1>2. 0 \in 0..MaxMissed BY HeartbeatAssumption
  <1>3. stage \in [Refs -> {"none", "pinging", "ponged"}] BY DEF Init
  <1>4. TypeOK BY <1>1, <1>2, <1>3 DEF Init, TypeOK
  <1>5. TaskInv BY DEF Init, TaskInv
  <1>6. MissInv BY DEF Init, MissInv
  <1>. QED BY <1>4, <1>5, <1>6 DEF AccountInv

\* THEOREM: the count of misses never runs ahead of the pings and one ping task
\* runs at most (handle_info and clear_ping_task of the monitor), through stale
\* timeouts, forgotten timers, late pongs and restarts.
THEOREM PingsAlwaysAccounted == Spec => []PingsAccounted
  <1>1. AccountInv => PingsAccounted
    <2> SUFFICES ASSUME AccountInv PROVE OnePingTask
      BY DEF AccountInv, MissInv, MissesArePings, PingsAccounted
    <2> DEFINE running == {r \in Refs : stage[r] # "none"}
    <2>1. running \subseteq {ping_task_ref} BY DEF AccountInv, TaskInv
    <2>2. IsFiniteSet({ping_task_ref}) /\ Cardinality({ping_task_ref}) = 1
      BY FS_Singleton
    <2>3. Cardinality(running) <= 1 BY <2>1, <2>2, FS_Subset
    <2>. QED BY <2>3 DEF OnePingTask
  <1>2. AccountInv /\ [Next]_vars => AccountInv' BY AccountStep
  <1>. QED BY <1>1, <1>2, AccountInit, PTL DEF Spec

----------------------------------------------------------------------------
(* A worker that answers in time.                                          *)

\* The ping task of the monitor: none, or one at the given stage with its deadline
\* armed.
NoTask == /\ ping_task_ref = None /\ ~ping_task_timer
          /\ \A r \in Refs : stage[r] = "none"

TaskAt(s) == /\ ping_task_ref \in Refs /\ ping_task_timer
             /\ stage[ping_task_ref] = s

\* The timer of the next ping, the field of the heartbeat's and that timer itself.
Timing(next, set, armed) == ping_timer = next /\ timeout_timer = set /\ beat = armed

ok    == TaskMsg("ok", ping_task_ref)
ping  == Plain("send_ping")
pong  == Plain("pong")
late  == Plain("heartbeat_timeout")

\* Between two pings.
Between ==
  /\ owed = 0 /\ NoTask
  /\ \/ mailbox = <<>>     /\ Timing(TRUE, FALSE, FALSE)
     \/ mailbox = <<ping>> /\ Timing(FALSE, FALSE, FALSE)

\* The ping goes out.
Pinging == owed = 0 /\ TaskAt("pinging") /\ mailbox = <<>> /\ Timing(FALSE, TRUE, TRUE)

\* The task that waits for the pong: it arrives before the task's own end.
CallShape ==
  /\ transport = "call" /\ owed = 0
  /\ \/ TaskAt("ponged") /\ mailbox = <<pong>>     /\ Timing(FALSE, TRUE, TRUE)
     \/ TaskAt("none")   /\ mailbox = <<pong, ok>> /\ Timing(FALSE, TRUE, TRUE)
     \/ TaskAt("ponged") /\ mailbox = <<>>         /\ Timing(TRUE, FALSE, FALSE)
     \/ TaskAt("none")   /\ mailbox = <<ok>>       /\ Timing(TRUE, FALSE, FALSE)
     \/ TaskAt("none")   /\ mailbox = <<ok, ping>> /\ Timing(FALSE, FALSE, FALSE)

\* The task that does not: the worker sends the pong, and a heartbeat timeout is
\* behind it.
NotifyShape ==
  /\ transport = "notify"
  /\ \/ owed = 1 /\ TaskAt("none") /\ mailbox = <<ok>>   /\ Timing(FALSE, TRUE, TRUE)
     \/ owed = 1 /\ NoTask         /\ mailbox = <<>>     /\ Timing(FALSE, TRUE, TRUE)
     \/ owed = 0 /\ TaskAt("none") /\ mailbox = <<ok, pong>> /\ Timing(FALSE, TRUE, TRUE)
     \/ owed = 0 /\ NoTask /\ mailbox = <<pong>>       /\ Timing(FALSE, TRUE, TRUE)
     \/ owed = 0 /\ NoTask /\ mailbox = <<pong, late>> /\ Timing(FALSE, TRUE, FALSE)
     \/ owed = 0 /\ NoTask /\ mailbox = <<late>>       /\ Timing(TRUE, FALSE, FALSE)
     \/ owed = 0 /\ NoTask /\ mailbox = <<late, ping>> /\ Timing(FALSE, FALSE, FALSE)

PromptShape == leaked = 0 /\ (Between \/ Pinging \/ CallShape \/ NotifyShape)

\* The worker lives with its monitor, which brings down no worker but a dependent
\* one that answers late, and sees a prompt one in no other shape.
HealthInv ==
  /\ AccountInv
  /\ worker = "up" <=> monitor = "alive"
  /\ worker = "up" => reason = "none"
  /\ HealthyWorkerSpared
  /\ health = "prompt" /\ worker = "up" => PromptShape

\* Mailboxes of one and two messages.
LEMMA Mails ==
  /\ \A a : <<a>> # <<>> /\ Head(<<a>>) = a /\ Tail(<<a>>) = <<>>
  /\ \A a, b : <<a, b>> # <<>> /\ Head(<<a, b>>) = a /\ Tail(<<a, b>>) = <<b>>
  /\ \A a : Append(<<>>, a) = <<a>>
  /\ \A a, b : Append(<<a>>, b) = <<a, b>>
  <1>1. ASSUME NEW a PROVE <<a>> # <<>> /\ Head(<<a>>) = a /\ Tail(<<a>>) = <<>>
    OBVIOUS
  <1>2. ASSUME NEW a, NEW b
        PROVE  <<a, b>> # <<>> /\ Head(<<a, b>>) = a /\ Tail(<<a, b>>) = <<b>>
    OBVIOUS
  <1>3. ASSUME NEW a PROVE Append(<<>>, a) = <<a>>
    <2>1. <<>> \in Seq({a}) /\ <<a>> \in Seq({a}) /\ Len(<<>>) = 0 /\ Len(<<a>>) = 1
          /\ <<a>>[1] = a
      OBVIOUS
    <2>2. /\ Append(<<>>, a) \in Seq({a}) /\ Len(Append(<<>>, a)) = 1
          /\ Append(<<>>, a)[1] = a
      BY <2>1, AppendProperties
    <2>3. \A i \in 1..1 : Append(<<>>, a)[i] = <<a>>[i]
      BY <2>1, <2>2
    <2>. QED BY <2>1, <2>2, <2>3, SeqEqual
  <1>4. ASSUME NEW a, NEW b PROVE Append(<<a>>, b) = <<a, b>>
    <2>1. /\ <<a>> \in Seq({a, b}) /\ <<a, b>> \in Seq({a, b})
          /\ Len(<<a>>) = 1 /\ <<a>>[1] = a
          /\ Len(<<a, b>>) = 2 /\ <<a, b>>[1] = a /\ <<a, b>>[2] = b
      OBVIOUS
    <2> DEFINE t == Append(<<a>>, b)
    <2>2. t \in Seq({a, b}) /\ Len(t) = 2 /\ t[1] = a /\ t[2] = b
      BY <2>1, AppendProperties
    <2> HIDE DEF t
    <2>3. \A i \in 1..2 : i = 1 \/ i = 2 OBVIOUS
    <2>4. \A i \in 1..2 : t[i] = <<a, b>>[i]
      BY <2>1, <2>2, <2>3
    <2>5. t = <<a, b>> BY <2>1, <2>2, <2>4, SeqEqual
    <2>. QED BY <2>5 DEF t
  <1>. QED BY <1>1, <1>2, <1>3, <1>4

\* The messages differ.
LEMMA Differ ==
  /\ ping # pong /\ ping # late /\ pong # late
  /\ ok # ping /\ ok # pong /\ ok # late
  /\ \A t, r : TaskMsg(t, r) # ping /\ TaskMsg(t, r) # pong /\ TaskMsg(t, r) # late
  /\ \A t, u, r, s : TaskMsg(t, r) = TaskMsg(u, s) => t = u /\ r = s
  <1>1. ping.type = "send_ping" /\ pong.type = "pong" /\ late.type = "heartbeat_timeout"
    BY DEF ping, pong, late, Plain
  <1>2. ASSUME NEW t, NEW r
        PROVE  TaskMsg(t, r) # ping /\ TaskMsg(t, r) # pong /\ TaskMsg(t, r) # late
    <2>1. DOMAIN TaskMsg(t, r) = {"type", "ref"} BY DEF TaskMsg
    <2>2. DOMAIN ping = {"type"} /\ DOMAIN pong = {"type"} /\ DOMAIN late = {"type"}
      BY DEF ping, pong, late, Plain
    <2>. QED BY <2>1, <2>2
  <1>3. ASSUME NEW t, NEW u, NEW r, NEW s, TaskMsg(t, r) = TaskMsg(u, s)
        PROVE  t = u /\ r = s
    <2>1. /\ TaskMsg(t, r).type = t /\ TaskMsg(t, r).ref = r
          /\ TaskMsg(u, s).type = u /\ TaskMsg(u, s).ref = s
      BY DEF TaskMsg
    <2>. QED BY <1>3, <2>1
  <1>4. ok # ping /\ ok # pong /\ ok # late BY <1>2 DEF ok
  <1>. QED BY <1>1, <1>2, <1>3, <1>4

\* In such a mailbox nothing is flushed.
LEMMA NothingFlushed ==
  ASSUME NEW r
  PROVE  /\ Flushed(<<>>, r) = <<>>
         /\ \A m : m # TaskMsg("task_down", r) => Flushed(<<m>>, r) = <<m>>
  <1>1. Flushed(<<>>, r) = <<>> BY DEF Flushed
  <1>2. ASSUME NEW m, m # TaskMsg("task_down", r)
        PROVE  Flushed(<<m>>, r) = <<m>>
    <2>1. Len(<<m>>) = 1 /\ <<m>>[1] = m OBVIOUS
    <2>2. ~\E i \in 1..Len(<<m>>) : <<m>>[i] = TaskMsg("task_down", r)
      BY <1>2, <2>1
    <2>. QED BY <2>2 DEF Flushed
  <1>. QED BY <1>1, <1>2

\* What waits first in the mailbox tells the shapes apart.
LEMMA FirstMessage ==
  ASSUME PromptShape, NEW m, Receive(m)
  PROVE  \/ m = ping /\ Between /\ mailbox = <<ping>> /\ Timing(FALSE, FALSE, FALSE)
         \/ m = ok /\ (CallShape \/ NotifyShape) /\ TaskAt("none")
              /\ Head(mailbox) = ok
         \/ m = pong /\ (CallShape \/ NotifyShape) /\ Head(mailbox) = pong
         \/ m = late /\ NotifyShape /\ Head(mailbox) = late
  <1>1. mailbox # <<>> /\ m = Head(mailbox) BY DEF Receive
  <1>2. CASE Between
    <2>1. mailbox = <<ping>> /\ Timing(FALSE, FALSE, FALSE) BY <1>1, <1>2 DEF Between
    <2>2. m = ping BY <1>1, <2>1, Mails
    <2>. QED BY <1>2, <2>1, <2>2
  <1>3. CASE Pinging BY <1>1, <1>3 DEF Pinging
  <1>4. CASE CallShape
    <2>1. \/ TaskAt("none") /\ (mailbox = <<ok>> \/ mailbox = <<ok, ping>>)
          \/ mailbox = <<pong>> \/ mailbox = <<pong, ok>>
      BY <1>1, <1>4 DEF CallShape
    <2>2. \/ TaskAt("none") /\ Head(mailbox) = ok
          \/ Head(mailbox) = pong
      BY <2>1, Mails
    <2>. QED BY <1>1, <1>4, <2>2
  <1>5. CASE NotifyShape
    <2>1. \/ TaskAt("none") /\ (mailbox = <<ok>> \/ mailbox = <<ok, pong>>)
          \/ mailbox = <<pong>> \/ mailbox = <<pong, late>>
          \/ mailbox = <<late>> \/ mailbox = <<late, ping>>
      BY <1>1, <1>5 DEF NotifyShape
    <2>2. \/ TaskAt("none") /\ Head(mailbox) = ok
          \/ Head(mailbox) = pong \/ Head(mailbox) = late
      BY <2>1, Mails
    <2>. QED BY <1>1, <1>5, <2>2
  <1>. QED BY <1>2, <1>3, <1>4, <1>5 DEF PromptShape

\* The next ping finds no task, and no other ping is scheduled.
LEMMA PromptSendPing ==
  ASSUME TypeOK, PromptShape, SendPing
  PROVE  PromptShape' /\ UNCHANGED <<monitor, procs>>
  <1>1. Receive(ping) BY DEF SendPing, ping
  <1>2. Between /\ mailbox = <<ping>> /\ Timing(FALSE, FALSE, FALSE)
    BY <1>1, FirstMessage, Differ
  <1>3. ping_task_ref = None /\ owed = 0 BY <1>2 DEF Between, NoTask
  <1>4. PICK r \in FreeRefs : ping_task_ref' = r /\ stage' = [stage EXCEPT ![r] = "pinging"]
    BY <1>3 DEF SendPing
  <1>5. /\ mailbox' = Flushed(Tail(mailbox), ping_task_ref)
        /\ ping_task_timer' = TRUE /\ ping_timer' = ping_timer
        /\ timeout_timer' = TRUE /\ beat' = TRUE /\ leaked' = leaked
        /\ UNCHANGED <<monitor, worked, procs>>
    BY <1>3 DEF SendPing
  <1>6. mailbox' = <<>> BY <1>2, <1>5, Mails, NothingFlushed
  <1>7. TaskAt("pinging")'
    BY <1>4, <1>5, HeartbeatAssumption DEF TypeOK, TaskAt, FreeRefs
  <1>8. Pinging'
    BY <1>2, <1>3, <1>5, <1>6, <1>7 DEF Pinging, Timing, worked
  <1>. QED BY <1>5, <1>8 DEF PromptShape

\* A pong is the one that was waited for.
LEMMA PromptPong ==
  ASSUME PromptShape, Pong
  PROVE  PromptShape' /\ UNCHANGED <<monitor, procs>>
  <1>1. Receive(pong) /\ mailbox' = Tail(mailbox) BY DEF Pong, pong
  <1>2. (CallShape \/ NotifyShape) /\ Head(mailbox) = pong
    BY <1>1, FirstMessage, Differ
  <1>3. /\ ping_timer' = TRUE /\ timeout_timer' = FALSE /\ beat' = FALSE /\ leaked' = leaked
        /\ UNCHANGED <<monitor, ping_task_ref, ping_task_timer, stage, owed, transport, procs>>
    BY DEF Pong, CancelTimeout, NextPing, pinging, worked, opts
  <1>4. Timing(TRUE, FALSE, FALSE)' BY <1>3 DEF Timing
  <1>5. /\ \A s : TaskAt(s) => TaskAt(s)'
        /\ NoTask => NoTask'
        /\ ok' = ok
    BY <1>3 DEF TaskAt, NoTask, ok
  <1>6. CASE CallShape
    <2>1. \/ TaskAt("ponged") /\ mailbox = <<pong>>
          \/ TaskAt("none")   /\ mailbox = <<pong, ok>>
      <3>1. mailbox # <<ok>> /\ mailbox # <<ok, ping>> /\ mailbox # <<>>
        BY <1>1, <1>2, Mails, Differ DEF Receive
      <3>. QED BY <1>6, <3>1 DEF CallShape
    <2>2. \/ TaskAt("ponged")' /\ mailbox' = <<>>
          \/ TaskAt("none")' /\ mailbox' = <<ok'>>
      BY <1>1, <1>5, <2>1, Mails
    <2>3. CallShape'
      <3>1. transport' = "call" /\ owed' = 0 BY <1>3, <1>6 DEF CallShape
      <3>. QED BY <1>4, <2>2, <3>1 DEF CallShape
    <2>. QED BY <1>3, <2>3 DEF PromptShape
  <1>7. CASE NotifyShape
    <2>1. owed = 0 /\ NoTask /\ (mailbox = <<pong>> \/ mailbox = <<pong, late>>)
      <3>1. mailbox # <<ok>> /\ mailbox # <<ok, pong>> /\ mailbox # <<>>
              /\ mailbox # <<late>> /\ mailbox # <<late, ping>>
        BY <1>1, <1>2, Mails, Differ DEF Receive
      <3>. QED BY <1>7, <3>1 DEF NotifyShape
    <2>2. mailbox' = <<>> \/ mailbox' = <<late>>
      BY <1>1, <2>1, Mails
    <2>3. CASE mailbox' = <<>>
      <3>1. Between' BY <1>3, <1>4, <1>5, <2>1, <2>3 DEF Between
      <3>. QED BY <1>3, <3>1 DEF PromptShape
    <2>4. CASE mailbox' = <<late>>
      <3>1. NotifyShape'
        BY <1>3, <1>4, <1>5, <1>7, <2>1, <2>4 DEF NotifyShape, late
      <3>. QED BY <1>3, <3>1 DEF PromptShape
    <2>. QED BY <2>2, <2>3, <2>4
  <1>. QED BY <1>2, <1>6, <1>7

\* Only Worsen and Restart change the health of the worker; nothing else makes it a
\* dependent one.
LEMMA HealthKept ==
  ASSUME Next
  PROVE  /\ dependent' = dependent
         /\ ~Worsen /\ ~Restart => health' = health
  BY DEF Next, Handle, SendPing, Pong, ResultOk, ResultError, TaskTimeout, TaskDown,
     StaleTask, HeartbeatTimeout, Timers, PingTimer, TimeoutTimer, LeakedTimer, TaskTimer,
     TaskPong, TaskReturns, TaskErrs, TaskDies, TaskStep, WorkerPong, Worsen, Crash, Restart,
     Failure, Quiet, worked, opts

\* The task ends before or after the pong is handled.
LEMMA PromptResult ==
  ASSUME TypeOK, TaskInv, PromptShape, NEW r \in Refs, ResultOk(r)
  PROVE  PromptShape' /\ UNCHANGED <<monitor, procs>>
  <1>1. /\ Receive(TaskMsg("ok", r)) /\ r = ping_task_ref
        /\ mailbox' = Flushed(Tail(mailbox), r) /\ ClearTask(r)
        /\ UNCHANGED <<monitor, timers, worked, procs>>
    BY DEF ResultOk
  <1>2. TaskMsg("ok", r) = ok BY <1>1 DEF ok
  <1>3. (CallShape \/ NotifyShape) /\ TaskAt("none") /\ Head(mailbox) = ok /\ mailbox # <<>>
    BY <1>1, <1>2, FirstMessage, Differ DEF Receive
  <1>4. /\ ping_task_ref' = None /\ ping_task_timer' = FALSE
        /\ stage' = [stage EXCEPT ![r] = "none"]
    BY <1>1 DEF ClearTask
  <1>5. NoTask'
    <2>1. ~ping_task_timer' /\ \A q \in Refs : stage'[q] = "none"
      BY <1>1, Cleared
    <2>. QED BY <1>4, <2>1 DEF NoTask
  <1>6. /\ owed' = owed /\ transport' = transport /\ leaked' = leaked
        /\ \A n, s, b : Timing(n, s, b) => Timing(n, s, b)'
    BY <1>1 DEF timers, worked, opts, Timing
  <1>7. CASE CallShape
    <2>1. \/ mailbox = <<ok>>       /\ Timing(TRUE, FALSE, FALSE)
          \/ mailbox = <<ok, ping>> /\ Timing(FALSE, FALSE, FALSE)
      <3>1. mailbox # <<pong>> /\ mailbox # <<pong, ok>>
        BY <1>3, Mails, Differ
      <3>. QED BY <1>3, <1>7, <3>1 DEF CallShape
    <2>2. \/ mailbox' = <<>>     /\ Timing(TRUE, FALSE, FALSE)
          \/ mailbox' = <<ping>> /\ Timing(FALSE, FALSE, FALSE)
      <3>1. Tail(<<ok>>) = <<>> /\ Tail(<<ok, ping>>) = <<ping>> BY Mails
      <3>2. Flushed(<<>>, r) = <<>> /\ Flushed(<<ping>>, r) = <<ping>>
        BY Differ, NothingFlushed
      <3>. QED BY <1>1, <2>1, <3>1, <3>2
    <2>3. Between' BY <1>5, <1>6, <1>7, <2>2 DEF Between, CallShape, ping
    <2>. QED BY <1>1, <1>6, <2>3 DEF PromptShape
  <1>8. CASE NotifyShape
    <2>1. /\ Timing(FALSE, TRUE, TRUE)
          /\ \/ owed = 1 /\ mailbox = <<ok>>
             \/ owed = 0 /\ mailbox = <<ok, pong>>
      <3>1. /\ mailbox # <<pong>> /\ mailbox # <<pong, late>>
            /\ mailbox # <<late>> /\ mailbox # <<late, ping>>
        BY <1>3, Mails, Differ
      <3>. QED BY <1>3, <1>8, <3>1 DEF NotifyShape
    <2>2. \/ owed = 1 /\ mailbox' = <<>>
          \/ owed = 0 /\ mailbox' = <<pong>>
      <3>1. Tail(<<ok>>) = <<>> /\ Tail(<<ok, pong>>) = <<pong>> BY Mails
      <3>2. Flushed(<<>>, r) = <<>> /\ Flushed(<<pong>>, r) = <<pong>>
        BY Differ, NothingFlushed
      <3>. QED BY <1>1, <2>1, <3>1, <3>2
    <2>3. Timing(FALSE, TRUE, TRUE)' BY <1>6, <2>1
    <2>4. NotifyShape' BY <1>5, <1>6, <1>8, <2>2, <2>3 DEF NotifyShape, pong
    <2>. QED BY <1>1, <1>6, <2>4 DEF PromptShape
  <1>. QED BY <1>3, <1>7, <1>8

\* No other message of a task reaches the monitor of a prompt worker.
LEMMA PromptNoFailure ==
  ASSUME PromptShape, NEW r \in Refs
  PROVE  ~(ResultError(r) \/ TaskTimeout(r) \/ TaskDown(r) \/ StaleTask(r))
  <1>1. ASSUME NEW t \in {"error", "task_timeout", "task_down"}, Receive(TaskMsg(t, r))
        PROVE  FALSE
    BY <1>1, FirstMessage, Differ DEF ok
  <1>2. ASSUME Receive(TaskMsg("ok", r)), r # ping_task_ref
        PROVE  FALSE
    BY <1>2, FirstMessage, Differ DEF ok
  <1>. QED BY <1>1, <1>2 DEF ResultError, TaskTimeout, TaskDown, StaleTask

\* A heartbeat timeout is stale: the pong ahead of it was handled.
LEMMA PromptTimeout ==
  ASSUME PromptShape, HeartbeatTimeout
  PROVE  PromptShape' /\ UNCHANGED <<monitor, procs>>
  <1>1. Receive(late) BY DEF HeartbeatTimeout, late
  <1>2. NotifyShape /\ Head(mailbox) = late /\ mailbox # <<>>
    BY <1>1, FirstMessage, Differ DEF Receive
  <1>3. /\ owed = 0 /\ NoTask /\ transport = "notify"
        /\ \/ mailbox = <<late>>       /\ Timing(TRUE, FALSE, FALSE)
           \/ mailbox = <<late, ping>> /\ Timing(FALSE, FALSE, FALSE)
    <2>1. /\ mailbox # <<ok>> /\ mailbox # <<ok, pong>>
          /\ mailbox # <<pong>> /\ mailbox # <<pong, late>>
      BY <1>2, Mails, Differ
    <2>. QED BY <1>2, <2>1 DEF NotifyShape
  <1>4. StaleTimeout BY <1>3 DEF Timing, StaleTimeout
  <1>5. /\ mailbox' = Tail(mailbox)
        /\ UNCHANGED <<monitor, timers, pinging, worked, procs>>
    BY <1>4 DEF HeartbeatTimeout
  <1>6. \/ mailbox' = <<>>     /\ Timing(TRUE, FALSE, FALSE)
        \/ mailbox' = <<ping>> /\ Timing(FALSE, FALSE, FALSE)
    BY <1>3, <1>5, Mails
  <1>7. Between'
    BY <1>3, <1>5, <1>6 DEF Between, NoTask, Timing, ping, timers, pinging, worked
  <1>. QED BY <1>5, <1>7 DEF PromptShape, timers

\* The next ping is due when the task has ended.
LEMMA PromptPingTimer ==
  ASSUME PromptShape, health = "prompt", PingTimer
  PROVE  PromptShape' /\ UNCHANGED <<monitor, procs>>
  <1>1. /\ ping_timer /\ ping_timer' = FALSE
        /\ mailbox' = Append(mailbox, ping)
        /\ \A r \in Refs : stage[r] = "none"
        /\ UNCHANGED <<timeout_timer, beat, leaked, monitor, pinging, worked, procs>>
    BY DEF PingTimer, Send, Late, Quiet, ping
  <1>2. \/ Between /\ mailbox = <<>>
        \/ CallShape /\ TaskAt("none") /\ mailbox = <<ok>> /\ Timing(TRUE, FALSE, FALSE)
        \/ NotifyShape /\ owed = 0 /\ NoTask /\ mailbox = <<late>> /\ Timing(TRUE, FALSE, FALSE)
    <2>1. ~TaskAt("ponged") /\ ~TaskAt("pinging") BY <1>1 DEF TaskAt
    <2>2. \A s, b : ~Timing(FALSE, s, b) BY <1>1 DEF Timing
    <2>. QED BY <2>1, <2>2 DEF PromptShape, Between, Pinging, CallShape, NotifyShape
  <1>3. /\ NoTask => NoTask'
        /\ TaskAt("none") => TaskAt("none")'
        /\ Timing(TRUE, FALSE, FALSE) => Timing(FALSE, FALSE, FALSE)'
        /\ ok' = ok /\ owed' = owed /\ transport' = transport /\ leaked' = leaked
    BY <1>1 DEF NoTask, TaskAt, Timing, ok, pinging, worked, opts
  <1>4. CASE Between /\ mailbox = <<>>
    <2>1. owed = 0 /\ NoTask /\ Timing(TRUE, FALSE, FALSE) BY <1>4, Mails DEF Between
    <2>2. mailbox' = <<ping>> BY <1>1, <1>4, Mails
    <2>3. Between' BY <1>3, <2>1, <2>2 DEF Between, ping
    <2>. QED BY <1>1, <1>3, <2>3 DEF PromptShape
  <1>5. CASE CallShape /\ TaskAt("none") /\ mailbox = <<ok>> /\ Timing(TRUE, FALSE, FALSE)
    <2>1. mailbox' = <<ok', ping>> BY <1>1, <1>3, <1>5, Mails
    <2>2. transport = "call" /\ owed = 0 BY <1>5 DEF CallShape
    <2>3. CallShape' BY <1>3, <1>5, <2>1, <2>2 DEF CallShape, ping
    <2>. QED BY <1>1, <1>3, <2>3 DEF PromptShape
  <1>6. CASE NotifyShape /\ owed = 0 /\ NoTask /\ mailbox = <<late>> /\ Timing(TRUE, FALSE, FALSE)
    <2>1. mailbox' = <<late, ping>> BY <1>1, <1>6, Mails
    <2>2. transport = "notify" BY <1>6 DEF NotifyShape
    <2>3. NotifyShape' BY <1>3, <1>6, <2>1, <2>2 DEF NotifyShape, ping, late
    <2>. QED BY <1>1, <1>3, <2>3 DEF PromptShape
  <1>. QED BY <1>2, <1>4, <1>5, <1>6

\* The timer of the heartbeat expires with the pong in the mailbox.
LEMMA PromptTimeoutTimer ==
  ASSUME PromptShape, health = "prompt", TimeoutTimer
  PROVE  PromptShape' /\ UNCHANGED <<monitor, procs>>
  <1>1. /\ beat /\ ~ping_task_timer /\ ~(owed > 0) /\ beat' = FALSE
        /\ mailbox' = Append(mailbox, late)
        /\ UNCHANGED <<ping_timer, timeout_timer, leaked, monitor, pinging, worked, procs>>
    BY DEF TimeoutTimer, Send, Late, Quiet, late
  <1>2. NotifyShape /\ owed = 0 /\ NoTask /\ mailbox = <<pong>> /\ Timing(FALSE, TRUE, TRUE)
    <2>1. \A s : ~TaskAt(s) BY <1>1 DEF TaskAt
    <2>2. \A n, s : ~Timing(n, s, FALSE) BY <1>1 DEF Timing
    <2>3. owed # 1 BY <1>1
    <2>. QED BY <2>1, <2>2, <2>3 DEF PromptShape, Between, Pinging, CallShape, NotifyShape
  <1>3. mailbox' = <<pong, late>> BY <1>1, <1>2, Mails
  <1>4. NoTask' /\ Timing(FALSE, TRUE, FALSE)' /\ owed' = 0 /\ transport' = "notify"
    BY <1>1, <1>2 DEF NoTask, Timing, NotifyShape, pinging, worked, opts
  <1>5. NotifyShape' BY <1>3, <1>4 DEF NotifyShape, pong, late
  <1>. QED BY <1>1, <1>5 DEF PromptShape

\* The task hands over the pong, or sends the ping and ends.
LEMMA PromptTask ==
  ASSUME TypeOK, TaskInv, PromptShape, health = "prompt", NEW r \in Refs,
         TaskPong(r) \/ TaskReturns(r)
  PROVE  PromptShape' /\ UNCHANGED <<monitor, procs>>
  <1>1. PICK from \in {"pinging", "ponged"}, to \in {"none", "ponged"}, m \in {pong, TaskMsg("ok", r)} :
           /\ TaskStep(r, from, to, m)
           /\ \/ from = "pinging" /\ to = "ponged" /\ m = pong /\ transport = "call" /\ owed' = owed
              \/ from = "ponged" /\ to = "none" /\ m = TaskMsg("ok", r) /\ owed' = owed
              \/ /\ from = "pinging" /\ to = "none" /\ m = TaskMsg("ok", r) /\ transport = "notify"
                 /\ owed' = IF owed < MaxOwed THEN owed + 1 ELSE owed
    BY DEF TaskPong, TaskReturns, pong
  <1>2. /\ stage[r] = from /\ stage' = [stage EXCEPT ![r] = to] /\ mailbox' = Append(mailbox, m)
        /\ UNCHANGED <<monitor, timers, ping_task_ref, ping_task_timer, opts, procs>>
    BY <1>1 DEF TaskStep, Send
  <1>3. r = ping_task_ref /\ TaskMsg("ok", r) = ok' /\ stage'[r] = to
    BY <1>2 DEF TaskInv, TypeOK, ok
  <1>4. /\ transport' = transport /\ leaked' = leaked
        /\ \A n, s, b : Timing(n, s, b) => Timing(n, s, b)'
        /\ \A s : TaskAt(s) => (TaskAt(to)' /\ s = from)
        /\ ~NoTask
    BY <1>2, <1>3, HeartbeatAssumption DEF timers, opts, Timing, TaskAt, NoTask
  <1>5. CASE from = "pinging"
    <2>1. Pinging
      <3>1. ~TaskAt("ponged") /\ ~TaskAt("none") BY <1>4, <1>5
      <3>. QED BY <1>4, <3>1 DEF PromptShape, Between, CallShape, NotifyShape
    <2>2. mailbox' = <<m>> /\ owed = 0 /\ TaskAt(to)' /\ Timing(FALSE, TRUE, TRUE)'
      BY <1>2, <1>4, <2>1, Mails DEF Pinging
    <2>3. CASE to = "ponged"
      <3>1. m = pong /\ transport' = "call" /\ owed' = 0 BY <1>1, <1>4, <1>5, <2>2, <2>3
      <3>2. CallShape' BY <2>2, <2>3, <3>1 DEF CallShape, pong
      <3>. QED BY <1>2, <1>4, <3>2 DEF PromptShape
    <2>4. CASE to = "none"
      <3>1. m = ok' /\ transport' = "notify" /\ owed' = 1
        BY <1>1, <1>3, <1>4, <1>5, <2>2, <2>4, HeartbeatAssumption
      <3>2. NotifyShape' BY <2>2, <2>4, <3>1 DEF NotifyShape
      <3>. QED BY <1>2, <1>4, <3>2 DEF PromptShape
    <2>. QED BY <2>3, <2>4
  <1>6. CASE from = "ponged"
    <2>1. to = "none" /\ m = ok' /\ owed' = owed BY <1>1, <1>3, <1>6
    <2>2. /\ CallShape
          /\ \/ mailbox = <<pong>> /\ Timing(FALSE, TRUE, TRUE)
             \/ mailbox = <<>>     /\ Timing(TRUE, FALSE, FALSE)
      <3>1. ~TaskAt("pinging") /\ ~TaskAt("none") BY <1>4, <1>6
      <3>. QED BY <1>4, <3>1 DEF PromptShape, Between, Pinging, CallShape, NotifyShape
    <2>3. /\ \/ mailbox' = <<pong, ok'>> /\ Timing(FALSE, TRUE, TRUE)'
             \/ mailbox' = <<ok'>>       /\ Timing(TRUE, FALSE, FALSE)'
      BY <1>2, <1>4, <2>1, <2>2, Mails
    <2>4. transport' = "call" /\ owed' = 0 /\ TaskAt("none")'
      <3>1. TaskAt("ponged")
        BY <2>2, <1>4, <1>6, Mails DEF CallShape
      <3>. QED BY <1>4, <2>1, <2>2, <3>1 DEF CallShape
    <2>5. CallShape' BY <2>3, <2>4 DEF CallShape, pong
    <2>. QED BY <1>2, <1>4, <2>5 DEF PromptShape
  <1>. QED BY <1>5, <1>6

\* The worker sends the pong it owes.
LEMMA PromptWorkerPong ==
  ASSUME PromptShape, WorkerPong
  PROVE  PromptShape' /\ UNCHANGED <<monitor, procs>>
  <1>1. /\ owed > 0 /\ owed' = owed - 1 /\ mailbox' = Append(mailbox, pong)
        /\ UNCHANGED <<monitor, timers, pinging, opts, procs>>
    BY DEF WorkerPong, Send, pong
  <1>2. /\ NotifyShape /\ owed = 1 /\ Timing(FALSE, TRUE, TRUE)
        /\ \/ TaskAt("none") /\ mailbox = <<ok>>
           \/ NoTask /\ mailbox = <<>>
    <2>1. owed # 0 BY <1>1
    <2>. QED BY <2>1 DEF PromptShape, Between, Pinging, CallShape, NotifyShape
  <1>3. /\ NoTask => NoTask'
        /\ TaskAt("none") => TaskAt("none")'
        /\ Timing(FALSE, TRUE, TRUE)'
        /\ ok' = ok /\ owed' = 0 /\ transport' = "notify" /\ leaked' = leaked
    BY <1>1, <1>2 DEF NoTask, TaskAt, Timing, ok, NotifyShape, timers, pinging, opts
  <1>4. \/ TaskAt("none")' /\ mailbox' = <<ok', pong>>
        \/ NoTask' /\ mailbox' = <<pong>>
    BY <1>1, <1>2, <1>3, Mails
  <1>5. NotifyShape' BY <1>3, <1>4 DEF NotifyShape, pong
  <1>. QED BY <1>1, <1>3, <1>5 DEF PromptShape

\* The steps that a prompt worker and its monitor take.
LEMMA PromptStep ==
  ASSUME AccountInv, PromptShape, health = "prompt", Next, ~Worsen, ~Crash, ~Restart
  PROVE  PromptShape' /\ UNCHANGED <<monitor, procs, dependent, health>>
  <1>1. PromptShape' /\ UNCHANGED <<monitor, procs>>
    <2>1. CASE Handle
      BY <2>1, PromptSendPing, PromptPong, PromptResult, PromptNoFailure, PromptTimeout
         DEF Handle, AccountInv
    <2>2. CASE Timers
      <3>1. ~LeakedTimer BY DEF PromptShape, LeakedTimer
      <3>2. ~TaskTimer BY DEF TaskTimer, Late
      <3>. QED BY <2>2, <3>1, <3>2, PromptPingTimer, PromptTimeoutTimer DEF Timers
    <2>3. ASSUME NEW r \in Refs, TaskPong(r) \/ TaskReturns(r) \/ TaskErrs(r) \/ TaskDies(r)
          PROVE  PromptShape' /\ UNCHANGED <<monitor, procs>>
      BY <2>3, PromptTask DEF AccountInv, TaskErrs, TaskDies
    <2>4. CASE WorkerPong
      BY <2>4, PromptWorkerPong
    <2>. QED BY <2>1, <2>2, <2>3, <2>4 DEF Next
  <1>2. UNCHANGED <<dependent, health>> BY HealthKept
  <1>. QED BY <1>1, <1>2

\* A failure brings down a dependent worker with its monitor, and no other.
LEMMA FailureEnds ==
  ASSUME TypeOK, worker = "up" <=> monitor = "alive", worker = "up", reason = "none",
         NEW why \in {"ping_failed", "heartbeat_timeout"}, Failure(why)
  PROVE  /\ worker' = "up" <=> monitor' = "alive"
         /\ worker' = "up" => reason' = "none"
         /\ worker' = "down" => dependent
  BY DEF TypeOK, Failure, procs

\* What the steps of the monitor and its tasks do to the worker, whatever its health.
LEMMA WorkerKept ==
  ASSUME TypeOK, worker = "up" <=> monitor = "alive", worker = "up" => reason = "none",
         Next, ~Crash, ~Restart
  PROVE  \/ UNCHANGED <<monitor, procs>>
         \/ /\ worker = "up"
            /\ worker' = "up" <=> monitor' = "alive"
            /\ worker' = "up" => reason' = "none"
            /\ worker' = "down" => dependent
  <1>1. ASSUME NEW m, Receive(m) PROVE worker = "up" /\ reason = "none"
    BY <1>1 DEF Receive
  <1>2. CASE \E why \in {"ping_failed", "heartbeat_timeout"} :
               Failure(why) /\ (SendPing \/ HeartbeatTimeout
                                  \/ \E r \in Refs : ResultError(r) \/ TaskTimeout(r))
    <2>1. worker = "up" /\ reason = "none"
      BY <1>1, <1>2 DEF SendPing, HeartbeatTimeout, ResultError, TaskTimeout
    <2>. QED BY <1>2, <2>1, FailureEnds
  <1>3. CASE ~\E why \in {"ping_failed", "heartbeat_timeout"} :
               Failure(why) /\ (SendPing \/ HeartbeatTimeout
                                  \/ \E r \in Refs : ResultError(r) \/ TaskTimeout(r))
    <2>1. CASE Handle
      <3>1. ASSUME SendPing PROVE UNCHANGED <<monitor, procs>>
        BY <1>3, <3>1 DEF SendPing
      <3>2. ASSUME HeartbeatTimeout PROVE UNCHANGED <<monitor, procs>>
        BY <1>3, <3>2 DEF HeartbeatTimeout
      <3>3. ASSUME NEW r \in Refs, ResultError(r) \/ TaskTimeout(r)
            PROVE  UNCHANGED <<monitor, procs>>
        BY <1>3, <3>3 DEF ResultError, TaskTimeout
      <3>4. ASSUME NEW r \in Refs, ResultOk(r) \/ TaskDown(r) \/ StaleTask(r)
            PROVE  UNCHANGED <<monitor, procs>>
        BY <3>4 DEF ResultOk, TaskDown, StaleTask
      <3>5. ASSUME Pong PROVE UNCHANGED <<monitor, procs>>
        BY <3>5 DEF Pong
      <3>. QED BY <2>1, <3>1, <3>2, <3>3, <3>4, <3>5 DEF Handle
    <2>2. CASE Timers \/ WorkerPong \/ Worsen
      BY <2>2 DEF Timers, PingTimer, TimeoutTimer, LeakedTimer, TaskTimer, Quiet,
         WorkerPong, Worsen, procs
    <2>3. ASSUME NEW r \in Refs, TaskPong(r) \/ TaskReturns(r) \/ TaskErrs(r) \/ TaskDies(r)
          PROVE  UNCHANGED <<monitor, procs>>
      BY <2>3 DEF TaskPong, TaskReturns, TaskErrs, TaskDies, TaskStep
    <2>. QED BY <2>1, <2>2, <2>3 DEF Next
  <1>. QED BY <1>2, <1>3

\* A monitor that has just been started.
LEMMA FreshShape ==
  ASSUME owed = 0, ping_task_ref = None, ping_task_timer = FALSE,
         \A r \in Refs : stage[r] = "none", mailbox = <<>>, leaked = 0,
         ping_timer = TRUE, timeout_timer = FALSE, beat = FALSE
  PROVE  PromptShape
  BY DEF PromptShape, Between, NoTask, Timing

\* Every step keeps the shape, and failures to late, dependent workers.
LEMMA HealthStep ==
  ASSUME HealthInv, [Next]_vars
  PROVE  HealthInv'
  <1>1. AccountInv' BY AccountStep DEF HealthInv
  <1>2. /\ TypeOK /\ TypeOK' /\ (worker = "up" <=> monitor = "alive")
        /\ (worker = "up" => reason = "none")
    BY <1>1 DEF HealthInv, AccountInv
  <1>3. CASE UNCHANGED vars
    BY <1>1, <1>3 DEF HealthInv, HealthyWorkerSpared, PromptShape, Between, Pinging,
       CallShape, NotifyShape, NoTask, TaskAt, Timing, ok, ping, pong, late,
       vars, timers, pinging, worked, opts, procs
  <1>4. CASE Crash
    <2>1. worker' = "down" /\ monitor' = "stopped" /\ reason' = "crash"
      BY <1>4 DEF Crash
    <2>. QED BY <1>1, <2>1 DEF HealthInv, HealthyWorkerSpared
  <1>5. CASE Restart
    <2>1. PromptShape'
      <3>1. stage' = [r \in Refs |-> "none"] BY <1>5 DEF Restart
      <3>. QED BY <1>5, <3>1 DEF Restart, PromptShape, Between, NoTask, Timing
    <2>2. worker' = "up" /\ monitor' = "alive" /\ reason' = "none"
      BY <1>5 DEF Restart
    <2>. QED BY <1>1, <2>1, <2>2 DEF HealthInv, HealthyWorkerSpared
  <1>6. CASE Worsen
    <2>1. worker = "up" /\ health' # "prompt" /\ UNCHANGED <<monitor, procs>>
      BY <1>6 DEF Worsen
    <2>. QED BY <1>1, <1>2, <2>1 DEF HealthInv, HealthyWorkerSpared, procs
  <1>7. CASE Next /\ ~Worsen /\ ~Crash /\ ~Restart
    <2>1. dependent' = dependent /\ health' = health BY <1>7, HealthKept
    <2>2. CASE UNCHANGED <<monitor, procs>>
      <3>1. health' = "prompt" /\ worker' = "up" => PromptShape'
        BY <1>7, <2>1, <2>2, PromptStep DEF HealthInv, procs
      <3>. QED BY <1>1, <1>2, <2>1, <2>2, <3>1 DEF HealthInv, HealthyWorkerSpared, procs
    <2>3. CASE ~UNCHANGED <<monitor, procs>>
      <3>1. /\ worker = "up" /\ (worker' = "up" <=> monitor' = "alive")
            /\ (worker' = "up" => reason' = "none") /\ (worker' = "down" => dependent)
        BY <1>2, <1>7, <2>3, WorkerKept
      <3>2. health # "prompt"
        BY <1>7, <2>3, <3>1, PromptStep DEF HealthInv
      <3>3. worker' \in {"up", "down"} BY <1>2 DEF TypeOK
      <3>. QED BY <1>1, <2>1, <3>1, <3>2, <3>3 DEF HealthInv, HealthyWorkerSpared
    <2>. QED BY <2>2, <2>3
  <1>. QED BY <1>3, <1>4, <1>5, <1>6, <1>7

\* THEOREM: a worker that answers in time is not terminated by its monitor, and an
\* independent one never is (handle_worker_failure of the monitor), whatever stale
\* timeouts, results and pongs wait in the mailbox and however often it restarts.
THEOREM HealthySpared == Spec => []HealthyWorkerSpared
  <1>1. Init => HealthInv
    <2> SUFFICES ASSUME Init PROVE HealthInv OBVIOUS
    <2>1. AccountInv BY AccountInit
    <2>2. PromptShape BY FreshShape DEF Init
    <2>. QED BY <2>1, <2>2 DEF Init, HealthInv, HealthyWorkerSpared
  <1>2. HealthInv /\ [Next]_vars => HealthInv' BY HealthStep
  <1>3. HealthInv => HealthyWorkerSpared BY DEF HealthInv
  <1>. QED BY <1>1, <1>2, <1>3, PTL DEF Spec

=============================================================================

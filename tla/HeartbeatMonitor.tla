-------------------------- MODULE HeartbeatMonitor --------------------------
(***************************************************************************)
(* Snakepit.HeartbeatMonitor: the process that pings one worker, the task  *)
(* of each ping, its three timers, the worker, and the Worker.Starter that *)
(* supervises the worker.                                                  *)
(*                                                                         *)
(* Time is abstract: an armed timer fires at some moment, except where two *)
(* timers are ordered by the code (the deadline of a ping task is one      *)
(* millisecond before that of the heartbeat it belongs to), and except     *)
(* that a worker whose health is "prompt" answers before the deadlines.    *)
(***************************************************************************)
EXTENDS Naturals, Sequences, FiniteSets

CONSTANTS
  Refs,        \* bound: references of ping tasks, used again once forgotten
  MaxMissed,   \* max_missed_heartbeats
  MaxLeaked,   \* bound: heartbeat timers that are armed but forgotten
  MaxMail,     \* bound: messages waiting when another is sent
  MaxOwed,     \* bound: pongs a worker has not sent yet
  None

ASSUME HeartbeatAssumption ==
  /\ None \notin Refs
  /\ MaxMissed \in Nat \ {0}
  /\ MaxLeaked \in Nat /\ MaxMail \in Nat /\ MaxOwed \in Nat \ {0}

VARIABLES
  dependent,      \* may the monitor terminate the worker; never changes
  transport,      \* "call": ping_fun waits for the pong (the gRPC heartbeat);
                  \* "notify": it returns at once and the worker pongs later
  mailbox,        \* messages of the monitor, oldest first
  monitor,        \* "alive" or "stopped"
  ping_timer,     \* the timer of :send_ping is armed
  timeout_timer,  \* the field is not nil
  beat,           \* the timer the field names is armed
  leaked,         \* armed heartbeat timers that no field names
  ping_task_ref,
  ping_task_timer,
  stage,          \* what each ping task is doing
  missed,         \* missed_heartbeats, saturating at MaxMissed
  health,         \* of the worker, only getting worse: "prompt"; "troubled":
                  \* answers may be late or errors, ping tasks may be killed;
                  \* "silent": nothing is answered
  owed,           \* pongs the worker will send ("notify")
  worker,         \* "up", "down", and why it went down:
  reason,         \* "none", "crash", "ping_failed", "heartbeat_timeout"
  since           \* history: pings since the last pong, saturating

timers   == <<ping_timer, timeout_timer, beat, leaked>>
pinging  == <<ping_task_ref, ping_task_timer, stage>>
procs    == <<worker, reason>>
opts     == <<dependent, transport>>
worked   == <<health, owed, opts>>
vars     == <<mailbox, monitor, timers, pinging, missed, worked, procs, since>>

Plain(t)      == [type |-> t]
TaskMsg(t, r) == [type |-> t, ref |-> r]

Message == [type : {"send_ping", "pong", "heartbeat_timeout"}]
             \cup [type : {"ok", "error", "task_timeout", "task_down"}, ref : Refs]

\* A monitor that has just been started.
Init ==
  /\ dependent \in BOOLEAN /\ transport \in {"call", "notify"}
  /\ mailbox = <<>> /\ monitor = "alive"
  /\ ping_timer = TRUE
  /\ timeout_timer = FALSE /\ beat = FALSE /\ leaked = 0
  /\ ping_task_ref = None /\ ping_task_timer = FALSE
  /\ stage = [r \in Refs |-> "none"]
  /\ missed = 0 /\ since = 0
  /\ health = "prompt" /\ owed = 0
  /\ worker = "up" /\ reason = "none"

----------------------------------------------------------------------------
(* Helpers.                                                                *)

Receive(m)  == monitor = "alive" /\ mailbox # <<>> /\ Head(mailbox) = m
Send(m)     == Len(mailbox) < MaxMail /\ mailbox' = Append(mailbox, m)

Saturate(n) == IF n < MaxMissed THEN n + 1 ELSE MaxMissed

Mentioned(r) == \E i \in 1..Len(mailbox) : "ref" \in DOMAIN mailbox[i] /\ mailbox[i].ref = r
FreeRefs == {r \in Refs : stage[r] = "none" /\ r # ping_task_ref /\ ~Mentioned(r)}

\* A sequence without its i-th element.
Without(queue, i) ==
  [j \in 1..(Len(queue) - 1) |-> IF j < i THEN queue[j] ELSE queue[j + 1]]

\* Process.demonitor(ref, [:flush]): takes the :DOWN of r out of the mailbox,
\* if it is there (a monitor sends one at most), and none will come.
Flushed(queue, r) ==
  IF \E i \in 1..Len(queue) : queue[i] = TaskMsg("task_down", r)
  THEN Without(queue, CHOOSE i \in 1..Len(queue) : queue[i] = TaskMsg("task_down", r))
  ELSE queue

\* clear_ping_task/1, with the task killed: its pid is exited before or after,
\* whichever path leads here (a task that has returned is not hurt by it).
ClearTask(r) ==
  /\ ping_task_ref' = None
  /\ ping_task_timer' = FALSE
  /\ stage' = [stage EXCEPT ![r] = "none"]

KeepTask == UNCHANGED pinging

\* schedule_next_ping/1.
NextPing == ping_timer' = TRUE

\* Mutant of CancelTimeout: the timer is neither cancelled nor forgotten.
CancelTimeoutNot == UNCHANGED <<timeout_timer, beat, leaked>>

\* cancel_timer(timeout_timer) and timeout_timer: nil.
CancelTimeout == timeout_timer' = FALSE /\ beat' = FALSE /\ UNCHANGED leaked

\* timeout_timer: nil alone: a timer that is still armed is forgotten.
DropTimeout ==
  /\ timeout_timer' = FALSE /\ beat' = FALSE
  /\ leaked' = IF beat /\ leaked < MaxLeaked THEN leaked + 1 ELSE leaked

\* Mutant of Failure: an independent monitor schedules no further ping.
FailureNoPing(why) ==
  /\ UNCHANGED <<worked, since>>
  /\ IF dependent
     THEN /\ worker' = "down" /\ reason' = why
          /\ monitor' = "stopped"
          /\ ping_timer' = FALSE /\ CancelTimeout
     ELSE /\ UNCHANGED <<procs, monitor, ping_timer>>
          /\ CancelTimeout

\* handle_worker_failure/2 once the task is cleared.  The exit signal makes
\* the worker stop with {:shutdown, why}; the monitor's terminate/2 cancels
\* its timers.
Failure(why) ==
  /\ UNCHANGED <<worked, since>>
  /\ IF dependent
     THEN /\ worker' = "down" /\ reason' = why
          /\ monitor' = "stopped"
          /\ ping_timer' = FALSE /\ CancelTimeout
     ELSE /\ UNCHANGED <<procs, monitor>>
          /\ NextPing /\ CancelTimeout

----------------------------------------------------------------------------
(* The callbacks of the monitor.                                           *)

\* handle_info(:send_ping): a ping while one is in flight counts as a
\* failure of the worker.  A ping timer that a late pong or a timeout armed
\* again, while this message was in the mailbox, stays armed.
SendPing ==
  /\ Receive(Plain("send_ping"))
  /\ mailbox' = Flushed(Tail(mailbox), ping_task_ref)
  /\ IF ping_task_ref # None
     THEN /\ ClearTask(ping_task_ref)
          /\ Failure("ping_failed")
          /\ UNCHANGED missed
     ELSE /\ \E r \in FreeRefs :
               /\ ping_task_ref' = r
               /\ stage' = [stage EXCEPT ![r] = "pinging"]
          /\ ping_task_timer' = TRUE
          /\ timeout_timer' = TRUE /\ beat' = TRUE
          /\ UNCHANGED <<ping_timer, leaked>>
          /\ since' = Saturate(since)
          /\ UNCHANGED <<monitor, missed, worked, procs>>

\* missed_heartbeats once a pong has arrived.
MissedAfterPong == 0

\* handle_cast({:pong, _}), for whatever ping it was sent.
Pong ==
  /\ Receive(Plain("pong"))
  /\ mailbox' = Tail(mailbox)
  /\ missed' = MissedAfterPong
  /\ since' = 0
  /\ CancelTimeout /\ NextPing
  /\ UNCHANGED <<monitor, pinging, worked, procs>>

\* handle_info({ref, result}) of the current task.
ResultOk(r) ==
  /\ Receive(TaskMsg("ok", r)) /\ r = ping_task_ref
  /\ mailbox' = Flushed(Tail(mailbox), r)
  /\ ClearTask(r)
  /\ UNCHANGED <<monitor, timers, missed, worked, procs, since>>

ResultError(r) ==
  /\ Receive(TaskMsg("error", r)) /\ r = ping_task_ref
  /\ mailbox' = Flushed(Tail(mailbox), r)
  /\ ClearTask(r)
  /\ Failure("ping_failed")
  /\ UNCHANGED missed

\* Mutant of StopTask: the task that missed its deadline is not killed.
StopTaskNot(r) ==
  /\ ping_task_ref' = None /\ ping_task_timer' = FALSE
  /\ UNCHANGED stage

\* Process.exit(task, :kill) and clear_ping_task/1.
StopTask(r) == ClearTask(r)

\* handle_info({:ping_task_timeout, ref}) of the current task.
TaskTimeout(r) ==
  /\ Receive(TaskMsg("task_timeout", r)) /\ r = ping_task_ref
  /\ mailbox' = Flushed(Tail(mailbox), r)
  /\ StopTask(r)
  /\ Failure("ping_failed")
  /\ UNCHANGED missed

\* handle_info({:DOWN, ref, ...}) of the current task, which was killed: the
\* heartbeat timeout will notice.
TaskDown(r) ==
  /\ Receive(TaskMsg("task_down", r)) /\ r = ping_task_ref
  /\ mailbox' = Tail(mailbox)
  /\ ClearTask(r)
  /\ UNCHANGED <<monitor, timers, missed, worked, procs, since>>

\* A result, :DOWN or deadline of a task that is no longer the current one.
StaleTask(r) ==
  /\ \E t \in {"ok", "error", "task_timeout", "task_down"} : Receive(TaskMsg(t, r))
  /\ r # ping_task_ref
  /\ mailbox' = Tail(mailbox)
  /\ UNCHANGED <<monitor, timers, pinging, missed, worked, procs, since>>

\* Mutant of StaleTimeout: asks whether the timer is armed, not whether it is set.
StaleTimeoutFired == ~beat

\* The clause handle_info(:heartbeat_timeout, %{timeout_timer: nil}).
StaleTimeout == ~timeout_timer

\* handle_info(:heartbeat_timeout).  A failure stops the current task.
HeartbeatTimeout ==
  /\ Receive(Plain("heartbeat_timeout"))
  /\ \/ /\ StaleTimeout
        /\ mailbox' = Tail(mailbox)
        /\ UNCHANGED <<monitor, timers, pinging, missed, worked, procs, since>>
     \/ /\ ~StaleTimeout /\ Saturate(missed) = MaxMissed
        /\ missed' = MaxMissed
        /\ mailbox' = Flushed(Tail(mailbox), ping_task_ref)
        /\ IF ping_task_ref = None THEN KeepTask ELSE ClearTask(ping_task_ref)
        /\ Failure("heartbeat_timeout")
     \/ /\ ~StaleTimeout /\ Saturate(missed) # MaxMissed
        /\ missed' = Saturate(missed)
        /\ mailbox' = Tail(mailbox)
        /\ DropTimeout /\ NextPing
        /\ UNCHANGED <<monitor, pinging, worked, procs, since>>

----------------------------------------------------------------------------
(* Timers, tasks and the worker.                                           *)

\* A timer of the monitor expires and its message is delivered.
Quiet == UNCHANGED <<monitor, pinging, missed, worked, procs, since>>

Late == health # "prompt"

PingTimer ==
  /\ monitor = "alive" /\ ping_timer
  /\ \A r \in Refs : stage[r] # "none" => Late
  /\ ping_timer' = FALSE
  /\ Send(Plain("send_ping"))
  /\ UNCHANGED <<timeout_timer, beat, leaked>> /\ Quiet

\* The heartbeat deadline lies after that of the ping task.
TimeoutTimer ==
  /\ monitor = "alive" /\ beat /\ ~ping_task_timer
  /\ owed > 0 => Late
  /\ beat' = FALSE
  /\ Send(Plain("heartbeat_timeout"))
  /\ UNCHANGED <<ping_timer, timeout_timer, leaked>> /\ Quiet

LeakedTimer ==
  /\ monitor = "alive" /\ leaked > 0
  /\ leaked' = leaked - 1
  /\ Send(Plain("heartbeat_timeout"))
  /\ UNCHANGED <<ping_timer, timeout_timer, beat>> /\ Quiet

TaskTimer ==
  /\ monitor = "alive" /\ ping_task_timer /\ Late
  /\ ping_task_timer' = FALSE
  /\ Send(TaskMsg("task_timeout", ping_task_ref))
  /\ UNCHANGED <<monitor, timers, ping_task_ref, stage, missed, worked, procs,
                 since>>

\* A step of a ping task, which sends m to its monitor.  (The task of a
\* stopped monitor is killed.)
TaskStep(r, from, to, m) ==
  /\ monitor = "alive" /\ stage[r] = from
  /\ stage' = [stage EXCEPT ![r] = to]
  /\ Send(m)
  /\ UNCHANGED <<monitor, timers, ping_task_ref, ping_task_timer, missed, health,
                 opts, procs, since>>

\* "call": the worker answered, notify_pong/2 from the task.
TaskPong(r) ==
  /\ transport = "call" /\ health # "silent"
  /\ TaskStep(r, "pinging", "ponged", Plain("pong"))
  /\ UNCHANGED owed

\* The task returns :ok: after the pong, or (notify) once the ping is sent.
TaskReturns(r) ==
  \/ TaskStep(r, "ponged", "none", TaskMsg("ok", r)) /\ UNCHANGED owed
  \/ /\ transport = "notify"
     /\ TaskStep(r, "pinging", "none", TaskMsg("ok", r))
     /\ owed' = IF owed < MaxOwed THEN owed + 1 ELSE owed

\* execute_ping/2 returns an error, or catches one.
TaskErrs(r) ==
  /\ health # "prompt"
  /\ TaskStep(r, "pinging", "none", TaskMsg("error", r))
  /\ UNCHANGED owed

\* The task is killed.
TaskDies(r) ==
  /\ health # "prompt"
  /\ TaskStep(r, "pinging", "none", TaskMsg("task_down", r))
  /\ UNCHANGED owed

\* "notify": the worker sends a pong it owes.
WorkerPong ==
  /\ worker = "up" /\ monitor = "alive" /\ health # "silent" /\ owed > 0
  /\ owed' = owed - 1
  /\ Send(Plain("pong"))
  /\ UNCHANGED <<monitor, timers, pinging, missed, health, opts, procs, since>>

\* The worker becomes slow or unreliable, or stops answering.
Worsen ==
  /\ worker = "up"
  /\ health' \in IF health = "prompt" THEN {"troubled", "silent"} ELSE {"silent"}
  /\ health' # health
  /\ UNCHANGED <<mailbox, monitor, timers, pinging, missed, owed, opts, procs, since>>

\* The worker ends by itself; its terminate/2 stops the monitor, which kills
\* its task.  What waited in the monitor's mailbox is lost.
Crash ==
  /\ worker = "up"
  /\ worker' = "down" /\ reason' = "crash"
  /\ monitor' = "stopped" /\ mailbox' = <<>>
  /\ UNCHANGED <<timers, pinging, missed, worked, since>>

\* Worker.Starter supervises with restart: :transient, so it starts the worker
\* again after an abnormal exit and not after {:shutdown, _}.  The new worker
\* starts a monitor of its own.
Restart ==
  /\ worker = "down" /\ reason = "crash"
  /\ mailbox' = <<>> /\ monitor' = "alive"
  /\ ping_timer' = TRUE
  /\ timeout_timer' = FALSE /\ beat' = FALSE /\ leaked' = 0
  /\ ping_task_ref' = None /\ ping_task_timer' = FALSE
  /\ stage' = [r \in Refs |-> "none"]
  /\ missed' = 0 /\ since' = 0
  /\ health' = "prompt" /\ owed' = 0
  /\ worker' = "up" /\ reason' = "none"
  /\ UNCHANGED opts

----------------------------------------------------------------------------
Handle ==
  \/ SendPing
  \/ Pong
  \/ \E r \in Refs : \/ ResultOk(r)
                     \/ ResultError(r)
                     \/ TaskTimeout(r)
                     \/ TaskDown(r)
                     \/ StaleTask(r)
  \/ HeartbeatTimeout

Timers == PingTimer \/ TimeoutTimer \/ LeakedTimer \/ TaskTimer

Next ==
  \/ Handle
  \/ Timers
  \/ \E r \in Refs : TaskPong(r) \/ TaskReturns(r) \/ TaskErrs(r) \/ TaskDies(r)
  \/ WorkerPong
  \/ Worsen
  \/ Crash
  \/ Restart

Spec == Init /\ [][Next]_vars

\* The monitor runs, every timer that is armed expires, a ping that can be
\* answered is, a prompt worker pongs, the supervisor does its work.
Fairness ==
  /\ WF_vars(Handle)
  /\ WF_vars(PingTimer) /\ WF_vars(TimeoutTimer)
  /\ WF_vars(LeakedTimer) /\ WF_vars(TaskTimer)
  /\ \A r \in Refs : WF_vars(TaskPong(r)) /\ WF_vars(TaskReturns(r))
  /\ WF_vars(health = "prompt" /\ WorkerPong)
  /\ WF_vars(Restart)

FairSpec == Spec /\ Fairness

----------------------------------------------------------------------------
(* Properties.                                                             *)

\* Values of the variables.
TypeOK ==
  /\ mailbox \in Seq(Message)
  /\ monitor \in {"alive", "stopped"}
  /\ ping_timer \in BOOLEAN /\ timeout_timer \in BOOLEAN /\ beat \in BOOLEAN
  /\ leaked \in Nat
  /\ ping_task_ref \in Refs \cup {None} /\ ping_task_timer \in BOOLEAN
  /\ stage \in [Refs -> {"none", "pinging", "ponged"}]
  /\ missed \in 0..MaxMissed /\ since \in 0..MaxMissed
  /\ dependent \in BOOLEAN /\ transport \in {"call", "notify"}
  /\ health \in {"prompt", "troubled", "silent"} /\ owed \in Nat
  /\ worker \in {"up", "down"}
  /\ reason \in {"none", "crash", "ping_failed", "heartbeat_timeout"}

\* The counter never runs ahead of the pings: there were at least as many
\* pings since the last pong as heartbeats are counted missed, whatever stale
\* timeouts, forgotten timers and late pongs are in the mailbox.
MissesArePings == missed <= since

\* At most one ping task runs, also when pings time out and the monitor goes
\* on (an independent worker).
OnePingTask == Cardinality({r \in Refs : stage[r] # "none"}) <= 1

\* A worker that answers in time is not terminated by its monitor, and an
\* independent worker never is, whatever stale timeouts wait in the mailbox.
HealthyWorkerSpared ==
  reason \in {"ping_failed", "heartbeat_timeout"} => dependent /\ health # "prompt"

\* A dependent worker that stops answering is terminated (or ends by itself).
HungWorkerStopped ==
  (dependent /\ health = "silent") ~> (worker = "down" \/ health = "prompt")

\* The monitor never falls silent: as long as it lives it pings again and
\* again, whatever becomes of a ping.
KeepsPinging == []<>(ping_task_ref # None \/ monitor = "stopped")

\* The monitor's count of misses and its ping task are what its pings were,
\* through stale timeouts, forgotten timers and late pongs.
PingsAccounted == TypeOK /\ MissesArePings /\ OnePingTask
=============================================================================

------------------------------ MODULE WorkerRpc ------------------------------
(***************************************************************************)
(* The RPC queue of Snakepit.GRPCWorker: calls and periodic health checks  *)
(* wait in rpc_request_queue, one at a time runs in a monitored task, and  *)
(* the worker process stays free to handle its mailbox.                    *)
(*                                                                         *)
(* A call is its own token and its own monitor: each runs in one task.     *)
(* The {ref, result} message that a task of Task.Supervisor also sends is  *)
(* ignored by the code and left out.  Signals of one process to another    *)
(* arrive in order, so a result is ahead of the :DOWN of its task.         *)
(***************************************************************************)
EXTENDS Naturals, Sequences, FiniteSets, Selections

CONSTANTS
  Clients,  \* calls by clients: execute, execute_stream, get_health, get_info
  Checks,   \* bound: the periodic health checks of a behaviour
  Faults    \* subset of FaultKinds

FaultKinds ==
  { "task_killed",     \* the task of a call ends abnormally
    "caller_timeout",  \* GenServer.call gives up
    "python_exit",     \* the Python process ends
    "supervisor",      \* Worker.Starter sends :shutdown
    "heartbeat",       \* the heartbeat monitor exits
    "system" }         \* the pool is gone or the system is stopping

Calls == Clients \cup Checks

ASSUME RpcAssumption == Clients \cap Checks = {} /\ Faults \subseteq FaultKinds

VARIABLES
  mailbox,       \* messages of the worker, oldest first
  queue,         \* rpc_request_queue
  pending,       \* pending_rpc_calls
  monitors,      \* pending_rpc_monitors
  task,          \* the process of each call
  caller,        \* the client of each call
  replies,       \* how often GenServer.reply was called for it
  health_timer,  \* the timer of :health_check is armed
  worker,        \* "up" or "down"
  exit,          \* why it stopped
  python,        \* the Python process runs
  stopping       \* the pool is gone, or Shutdown.in_progress?

rpc  == <<queue, pending, monitors, task>>
ends == <<worker, exit, python, stopping>>
vars == <<mailbox, rpc, caller, replies, health_timer, ends>>

Msg(t, c) == [type |-> t, call |-> c]
Signal(t) == [type |-> t]

Message == [type : {"call"}, call : Clients]
             \cup [type : {"health_check"}, call : Checks]
             \cup [type : {"result", "down"}, call : Calls]
             \cup [type : {"exit_stop", "exit_error", "port_down",
                           "EXIT_shutdown", "EXIT_heartbeat"}]

Init ==
  /\ mailbox = <<>>
  /\ queue = <<>> /\ pending = {} /\ monitors = {}
  /\ task = [c \in Calls |-> "none"]
  /\ caller = [c \in Clients |-> "idle"]
  /\ replies = [c \in Clients |-> 0]
  /\ health_timer = TRUE
  /\ worker = "up" /\ exit = "none" /\ python = TRUE /\ stopping = FALSE

----------------------------------------------------------------------------
(* Helpers.                                                                *)

Receive(m) == worker = "up" /\ mailbox # <<>> /\ Head(mailbox) = m
Send(m)    == mailbox' = Append(mailbox, m)
InMail(m)  == \E i \in 1..Len(mailbox) : mailbox[i] = m
Queued(c)  == \E i \in 1..Len(queue) : queue[i] = c

\* maybe_reply_pending_call/2 for every call of cs: health checks have no
\* caller, and a caller that gave up drops the answer.
Reply(cs) ==
  /\ replies' = [c \in Clients |-> IF c \in cs THEN replies[c] + 1 ELSE replies[c]]
  /\ caller' = [c \in Clients |-> IF c \in cs /\ caller[c] = "waiting"
                                  THEN "answered" ELSE caller[c]]

\* Mutant of Push: the newest call is served first.
PushFront(q, c) == <<c>> \o q

\* :queue.in(request, queue).
Push(q, c) == Append(q, c)

\* maybe_start_next_rpc_call/1 finds nothing pending and something queued.
MayStart(q, running) == running = {} /\ q # <<>>

\* maybe_start_next_rpc_call/1 on a state with queue q and pending calls
\* running; start_async_rpc_call/2 and put_pending_rpc_call/3 for the head.
StartNext(q, running) ==
  IF MayStart(q, running)
  THEN LET c == Head(q) IN
       /\ queue' = Tail(q)
       /\ pending' = running \cup {c}
       /\ monitors' = running \cup {c}
       /\ task' = [task EXCEPT ![c] = "running"]
  ELSE queue' = q /\ pending' = running /\ monitors' = running /\ UNCHANGED task

\* A sequence without its i-th element.
Without(q, i) == [j \in 1..(Len(q) - 1) |-> IF j < i THEN q[j] ELSE q[j + 1]]

\* Process.demonitor(ref, [:flush]): takes the :DOWN of c out of the mailbox,
\* if it is there (a monitor sends one at most).
Flush(q, c) ==
  IF \E i \in 1..Len(q) : q[i] = Msg("down", c)
  THEN Without(q, CHOOSE i \in 1..Len(q) : q[i] = Msg("down", c))
  ELSE q

----------------------------------------------------------------------------
(* Calls.                                                                  *)

\* A client calls the worker.
Ask(c) ==
  /\ worker = "up" /\ caller[c] = "idle"
  /\ caller' = [caller EXCEPT ![c] = "waiting"]
  /\ Send(Msg("call", c))
  /\ UNCHANGED <<rpc, replies, health_timer, ends>>

\* Its GenServer.call times out.  The worker is not told: the call keeps its
\* place and will run.
CallerTimeout(c) ==
  /\ "caller_timeout" \in Faults /\ caller[c] = "waiting"
  /\ caller' = [caller EXCEPT ![c] = "gave_up"]
  /\ UNCHANGED <<mailbox, rpc, replies, health_timer, ends>>

\* enqueue_async_rpc_call/3 from handle_call.
Enqueue(c) ==
  /\ Receive(Msg("call", c))
  /\ mailbox' = Tail(mailbox)
  /\ StartNext(Push(queue, c), pending)
  /\ UNCHANGED <<caller, replies, health_timer, ends>>

\* The health timer fires.
HealthTimer(k) ==
  /\ worker = "up" /\ health_timer
  /\ task[k] = "none" /\ ~Queued(k) /\ ~InMail(Msg("health_check", k))
  /\ health_timer' = FALSE
  /\ Send(Msg("health_check", k))
  /\ UNCHANGED <<rpc, caller, replies, ends>>

\* handle_info(:health_check): the timer is armed again at once, so checks
\* pile up behind a long call.
HealthCheck(k) ==
  /\ Receive(Msg("health_check", k))
  /\ mailbox' = Tail(mailbox)
  /\ health_timer' = TRUE
  /\ StartNext(Push(queue, k), pending)
  /\ UNCHANGED <<caller, replies, ends>>

\* The task sends {:grpc_async_rpc_result, token, result}: whatever the call
\* did, raised or threw.
TaskReturns(c) ==
  /\ task[c] = "running"
  /\ task' = [task EXCEPT ![c] = "returned"]
  /\ IF worker = "up" THEN Send(Msg("result", c)) ELSE UNCHANGED mailbox
  /\ UNCHANGED <<queue, pending, monitors, caller, replies, health_timer, ends>>

\* The task is killed, before or after it has sent its result.  (Once the
\* worker has demonitored it nobody would notice.)
TaskKilled(c) ==
  /\ "task_killed" \in Faults /\ c \in monitors /\ task[c] \in {"running", "returned"}
  /\ task' = [task EXCEPT ![c] = "dead"]
  /\ Send(Msg("down", c))
  /\ UNCHANGED <<queue, pending, monitors, caller, replies, health_timer, ends>>

\* handle_info({:grpc_async_rpc_result, token, _}).
Result(c) ==
  /\ Receive(Msg("result", c))
  /\ IF c \in pending
     THEN /\ mailbox' = Flush(Tail(mailbox), c)
          /\ Reply({c})
          /\ StartNext(queue, pending \ {c})
     ELSE /\ mailbox' = Tail(mailbox)
          /\ UNCHANGED <<rpc, caller, replies>>
  /\ UNCHANGED <<health_timer, ends>>

\* Mutant of AfterDown: the death of a task does not start the next call.
AfterDownIdle(c) ==
  /\ queue' = queue /\ pending' = pending \ {c} /\ monitors' = pending \ {c}
  /\ UNCHANGED task

\* The end of handle_info({:DOWN, ...}) for the task of a pending call.
AfterDown(c) == StartNext(queue, pending \ {c})

\* handle_info({:DOWN, ref, :process, _, reason}) with an abnormal reason.
\* (With :normal nothing happens: the result is ahead and flushes it.)
Down(c) ==
  /\ Receive(Msg("down", c))
  /\ mailbox' = Tail(mailbox)
  /\ IF c \in monitors
     THEN Reply({c}) /\ AfterDown(c)
     ELSE UNCHANGED <<rpc, caller, replies>>
  /\ UNCHANGED <<health_timer, ends>>

----------------------------------------------------------------------------
(* The end of the worker.                                                  *)

\* Mutant of Answered: the calls that wait in the queue are forgotten.
AnsweredRunning == pending

\* The calls cancel_pending_rpc_calls/2 answers.
Answered == pending \cup {c \in Calls : Queued(c)}

\* terminate/2: the task of the pending call is killed and every call the
\* worker knows of is answered.  Those still in the mailbox are not; their
\* GenServer.call exits with the worker.
Stop(why) ==
  /\ worker' = "down" /\ exit' = why /\ python' = FALSE
  /\ replies' = [c \in Clients |-> IF c \in Answered THEN replies[c] + 1 ELSE replies[c]]
  /\ caller' = [c \in Clients |->
       IF caller[c] # "waiting" THEN caller[c]
       ELSE IF c \in Answered THEN "answered"
       ELSE IF InMail(Msg("call", c)) THEN "exited" ELSE caller[c]]
  /\ task' = [c \in Calls |-> IF c \in pending THEN "dead" ELSE task[c]]
  /\ mailbox' = <<>>
  /\ queue' = <<>> /\ pending' = {} /\ monitors' = {}
  /\ health_timer' = FALSE
  /\ UNCHANGED stopping

\* Mutant of ShuttingDown: the mailbox is not searched.
ShuttingDownFlag == stopping

\* The effective shutdown status of the port handlers: an exit signal of the
\* supervisor (or of the heartbeat monitor) waits in the mailbox, the pool is
\* gone, or the system is stopping.
ShuttingDown == \/ stopping
                \/ InMail(Signal("EXIT_shutdown"))
                \/ InMail(Signal("EXIT_heartbeat"))

\* handle_info({port, {:exit_status, _}}) for a shutdown status (0, 137, 143)
\* or another one, and handle_info({:DOWN, _, :port, ...}).
PortGone ==
  \/ /\ \E t \in {"exit_stop", "port_down"} : Receive(Signal(t))
     /\ Stop(IF ShuttingDown THEN "shutdown" ELSE "crash")
  \/ /\ Receive(Signal("exit_error"))
     /\ Stop("crash")

\* handle_info({:EXIT, _, :shutdown}) and {:EXIT, heartbeat_monitor, _}.
Told ==
  \/ Receive(Signal("EXIT_shutdown")) /\ Stop("shutdown")
  \/ Receive(Signal("EXIT_heartbeat")) /\ Stop("heartbeat")

\* The Python process ends.
PythonExit ==
  /\ "python_exit" \in Faults /\ worker = "up" /\ python
  /\ python' = FALSE
  /\ \E t \in {"exit_stop", "exit_error", "port_down"} : Send(Signal(t))
  /\ UNCHANGED <<rpc, caller, replies, health_timer, worker, exit, stopping>>

\* The supervisor or the heartbeat monitor signals the worker.  Bound: one
\* signal waits at a time, since the first to be handled stops the worker.
ExitSignal(t, fault) ==
  /\ fault \in Faults /\ worker = "up"
  /\ \A s \in {"EXIT_shutdown", "EXIT_heartbeat"} : ~InMail(Signal(s))
  /\ Send(Signal(t))
  /\ UNCHANGED <<rpc, caller, replies, health_timer, ends>>

SystemStops ==
  /\ "system" \in Faults /\ worker = "up" /\ ~stopping
  /\ stopping' = TRUE
  /\ UNCHANGED <<mailbox, rpc, caller, replies, health_timer, worker, exit, python>>

----------------------------------------------------------------------------
Handle ==
  \/ \E c \in Calls : Result(c) \/ Down(c)
  \/ \E c \in Clients : Enqueue(c)
  \/ \E k \in Checks : HealthCheck(k)
  \/ PortGone
  \/ Told

Next ==
  \/ Handle
  \/ \E c \in Clients : Ask(c) \/ CallerTimeout(c)
  \/ \E k \in Checks : HealthTimer(k)
  \/ \E c \in Calls : TaskReturns(c) \/ TaskKilled(c)
  \/ PythonExit
  \/ ExitSignal("EXIT_shutdown", "supervisor")
  \/ ExitSignal("EXIT_heartbeat", "heartbeat")
  \/ SystemStops

Spec == Init /\ [][Next]_vars

\* The worker handles its mailbox; a call returns because its gRPC deadline
\* makes it.
Fairness == WF_vars(Handle) /\ \A c \in Calls : WF_vars(TaskReturns(c))

FairSpec == Spec /\ Fairness

----------------------------------------------------------------------------
(* Properties.                                                             *)

\* Values of the variables.
TypeOK ==
  /\ mailbox \in Seq(Message)
  /\ queue \in Seq(Calls)
  /\ pending \subseteq Calls /\ monitors \subseteq Calls
  /\ task \in [Calls -> {"none", "running", "returned", "dead"}]
  /\ caller \in [Clients -> {"idle", "waiting", "answered", "gave_up", "exited"}]
  /\ replies \in [Clients -> 0..1]
  /\ health_timer \in BOOLEAN
  /\ worker \in {"up", "down"}
  /\ exit \in {"none", "shutdown", "heartbeat", "crash"}
  /\ python \in BOOLEAN /\ stopping \in BOOLEAN

\* No two calls run at once, also when tasks are killed or the worker stops.
OneAtATime == \A c, d \in Calls : task[c] = "running" /\ task[d] = "running" => c = d

\* The two maps agree, and a call that is pending will be heard of: its task
\* runs, or its result or its death is in the mailbox.
PendingWillEnd ==
  /\ monitors = pending
  /\ \A c \in pending : \/ task[c] = "running"
                        \/ InMail(Msg("result", c))
                        \/ InMail(Msg("down", c))

\* No call waits in the queue of an idle worker.
NeverIdle == queue # <<>> => pending # {}

\* Where a call can be.
Places(c) == (IF InMail(Msg("call", c)) THEN 1 ELSE 0)
           + (IF Queued(c) THEN 1 ELSE 0)
           + (IF c \in pending THEN 1 ELSE 0)

\* A client that waits is waiting for something: its call is in one place of
\* a living worker, and never in two; and it is answered at most once.
WaitsSomewhere ==
  \A c \in Clients :
    /\ caller[c] = "waiting" => Places(c) = 1
    /\ Places(c) + replies[c] <= 1

\* Calls run one at a time, and none is stranded: where a call waits there is a
\* task, a message or a pending call that will bring it on.
NoCallStranded ==
  TypeOK /\ OneAtATime /\ PendingWillEnd /\ NeverIdle /\ WaitsSomewhere

\* A Python process that ends with a shutdown status after the supervisor has
\* asked the worker to stop, or the system is stopping, is not taken for a
\* crash, whichever message comes first.
NoFalseCrash ==
  [][exit' = "crash" /\ exit = "none" /\ Head(mailbox).type # "exit_error" =>
       ~stopping /\ ~InMail(Signal("EXIT_shutdown"))]_vars

\* Every call comes to an end.
CallEnds == \A c \in Clients : (caller[c] = "waiting") ~> (caller[c] # "waiting")

\* The requests among the messages of a mailbox, and the calls they ask for.
IsRequest(m) == m.type \in {"call", "health_check"}
Requests(q)  == {n \in 1..Len(q) : IsRequest(q[n])}
AskedIn(q)   == LET asks == AtPlaces(q, Requests(q))
                IN [n \in 1..Len(asks) |-> asks[n].call]

\* The line: calls in the mailbox have taken their place in it; a health check
\* takes it when its timer fires.
InOrder == queue \o AskedIn(mailbox)

\* The calls that are over.
Over  == {c \in Calls : task[c] # "none" /\ c \notin pending}
Ended == IF worker = "up" THEN Over ELSE Calls

\* The worker serves its calls as SerialCalls describes.
Serial == INSTANCE SerialCalls
            WITH line <- InOrder, active <- pending, ended <- Ended,
                 open <- (worker = "up")
ServesInOrder == Serial!Spec
=============================================================================

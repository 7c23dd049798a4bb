# Snakepit in TLA+

Snakepit keeps pools of external Python workers behind an Elixir OTP
application: clients call `Snakepit.execute/3`, a pool process finds a free
worker or queues the call, a task runs it over gRPC on a Python process, and a
set of supporting processes starts, watches, recycles, restarts and kills
those Python processes. This directory holds TLA+ models of its concurrent
parts, TLC configurations that check them on small instances, and TLAPS proofs
of the properties that matter most for every instance.

## Inventory of the system

| part | state | operations | what is hard |
| --- | --- | --- | --- |
| **Pool** (`pool/pool.ex`, `dispatcher`, `event_handler`, `scheduler`, `queue`, `state`, `client_reply`) | per pool: workers, ready workers, available workers, load of each, request queue, cancelled requests; affinity cache | `execute`, `execute_stream`, `checkout_worker`, `checkin_worker`, `queue_timeout`, `worker_ready`, init merge | queue timeouts against checkins, dead clients, restarted workers, affinity written asynchronously |
| **Pool initialization** (`pool/initializer.ex`) | init task, `await_ready` waiters | start workers in batches, report, answer the waiters | workers report before the merge; the task fails or is stopped |
| **Worker supervision** (`worker_supervisor`, `worker_starter`, `registry`) | one supervisor per worker, a registry of processes | start, restart, stop, wait for resource cleanup | a restart races a replacement |
| **GRPC worker** (`grpc_worker.ex`, `grpc_worker/bootstrap.ex`) | pending call, queue of calls, health timer, port of the Python process | execute, result, task death, health check, terminate | a result and a `:DOWN` of one task in either order |
| **Crash barrier** (`crash_barrier.ex`, `taint_registry.ex`) | taint records | classify, taint, retry | a retry in the task of the failed call |
| **Lifecycle manager** (`worker/lifecycle_manager.ex`) | tracked workers with ages and counts, recycle tasks | track, check, recycle, reconcile | stale snapshots, double replacement |
| **Process registry** (`pool/process_registry.ex`) | ETS + DETS records of OS processes | reserve, activate, unregister, orphan cleanup | a crash between two writes, pid reuse |
| **Process manager and killer, shutdown** | OS processes | SIGTERM, wait, SIGKILL | deadlines, processes that ignore a signal |
| **Heartbeat monitor** (`heartbeat_monitor.ex`) | missed counter, timers, ping task | ping, pong, timeout | a late pong |
| **Circuit breaker, retry policy, executor, health monitor** | state, failure counters, half-open calls | call, success, failure | concurrent half-open probes |
| **Session store, tool registry, bridge server** | ETS tables | create, update, expire, register, execute | expiry against update |
| **Thread profile capacity** (`capacity_store.ex`) | load counters | increment, decrement | counters at their limits |
| **Telemetry stream, listener, ETS owner, async fallback** | streams, ports, tables, tasks | connect, retry, restart | reconnection, restarts |
| **Python gRPC server** (`grpc_server.py`, `heartbeat.py`; `grpc_server_threaded.py` for multi-threaded workers) | the start-up stage, the shutdown event, the channels to Elixir, heartbeat clients by session, sessions with registered tools | session RPCs, `ExecuteTool`, heartbeats, signals, `close()` | one event loop that synchronous stubs and tools hold, threads that outlive their calls, a lost Elixir |
| **Python streaming call** (`ExecuteStreamingTool` of both servers) | a bounded queue, a producer task, a watcher, a cancel event | produce, put, yield, watch, clean up | a thread, three coroutines and a client that leaves share one queue |
| **Python telemetry stream** (`telemetry/stream.py`) | a pre-stream buffer, a live queue, the loop, a count of drops | emit, flush, close, control | threads that act on a loop they read earlier |
| **Python serialization** (`serialization.py`, `zero_copy.py`, `session_context.py`) | none | encode, decode, choose the type of a result | special floats, large integers, what JSON cannot say |
| **Python threaded adapters** (`base_adapter_threaded.py`, `adapters/threaded_showcase.py`, `thread_safety_checker.py`) | tracker, lock, statistics, history, caches, global checker | nested wrapped calls, lock sections, enable, reset | threads between the sections, exceptions |
| **Python adapters and registration, logging, tracing** | tools by reflection, log handlers, spans | discover, register, export | mostly sequential |

Calls between them are `GenServer.call`s (the caller waits, with a timeout),
casts and plain messages (timers, task results, `:DOWN`), and shared ETS
tables. `PROJECT.json` lists every part with its files and its status, and
under `hazards` the places where each can go wrong.

## Modules

### Pool

`Pool.tla` models one pool of `Snakepit.Pool` with its clients, its tasks, its
timers and the worker processes it hears of.

The pool process is a GenServer: every callback runs to its end, so one action
models one callback with every helper it calls (compaction of the queue,
checkout, affinity lookup, bookkeeping of the load, timers). `mailbox` is its
message queue. The order of messages matters (a queue drive is a cast that the
pool sends to itself, and calls that were already in the mailbox run first),
so it is a sequence. Everything else acts between two callbacks and can only
append to the mailbox.

| variable | code |
| --- | --- |
| `workers`, `ready`, `available`, `load` | `pool_state.workers`, `.ready_workers`, `.available`, `.worker_loads` |
| `queue`, `clock` | `pool_state.request_queue`; an entry carries a stamp for its place, as `queued_at` does |
| `timers`, `cancelled` | the armed queue timers, `pool_state.cancelled_requests` |
| `tainted` | the unexpired records of the taint registry |
| `cache`, `stored`, `storing` | the affinity cache, `last_worker_id` of the sessions, the tasks that are about to write it |
| `task` | the process that runs a call (for a stream, the client itself) |
| `client`, `replies` | the client processes, and how often each was replied to |
| `init`, `life`, `boots` | the initialization task and the worker processes |

A checkout is `Checkout(session)`, the set of answers `checkout_worker/4` may
give (the order of a MapSet decides between free workers). A checkin is
`ServeQueue` after the load was lowered; a drive of the queue is `ServeQueue`
alone. A call that is run has a `task` record with the worker it holds and the
attempt it makes. A caller's `GenServer.call` timeout needs no action: the
client lives on, the pool answers it all the same and the answer is dropped.

The kinds of fault a behaviour may contain are a constant, so that each run
names what it assumes. Bounds: `MaxBoots` lives of a worker; each client makes
one call.

`MCPool.tla` gives the constants their values.

Runs of the pool:

| run | instance | question |
| --- | --- | --- |
| `PoolCrash` | 2 workers, a call that crashes and is retried, a call and a stream of one session in the two strict affinity modes, queue of 1; taints and cached affinities expire, checkouts time out, streams and clients die | does the pool implement `ClientCalls`, is a worker ever believed freer than it is, or idle beside work it could do |
| `PoolLive` | 1 worker that restarts or disappears, 2 calls and a stream, queue of 2, cancelled entries expire, clients die, fairness | is every call accounted for and answered, does every worker get its slots back, is it overfilled at most once per life |
| `PoolRetryLost` (violation) | one worker, one call that crashes, one retry | the retry that the changelog announces never comes back |

Two workers and three callers are enough for a full pool with a call in the
queue, or refused because the worker of its session is busy; one worker and a queue of two for the order of the
queue; every message kind can then overtake every other. Workers are
interchangeable and `PoolCrash` uses that as a symmetry; the
runs with a liveness property use none.

Fairness (`FairSpec`): the scheduler runs every process, a call on a worker
ends because its gRPC deadline does, a timer that is armed fires, a worker
that boots reports. Nothing is assumed of clients and faults.

`PoolProofs.tla` proves every safety property of these runs, and the refinement, for every
value of the constants. From `PoolAssumption` alone:

- `TypeCorrect`: the types, with the fact that a task that runs a call has a
  worker (a checkin must name one);
- `OfferedWorkersFree`: a worker the pool offers is listed, ready and below its
  capacity. `AvailableIsFree` is inductive relative to the types; the argument
  is that each change of a load refreshes the membership of that worker
  (`RefreshFree`), and that readiness and the merge only restrict it;
- `CallsInOneStage` and `NoCallAnsweredTwice`: `AnsweredOnce` is not inductive,
  because it says nothing of what may still answer. `OneStage` is: the
  question of a call is in the mailbox at most once, and excludes a queue
  entry, which excludes a task that has begun; a reply excludes all of them.
- `QueuedCallsTimeOut`: a queued call of a living client has its timer armed or its
  timeout in the mailbox, and no cancelled request is in the queue. The second part is
  why the clause that skips a cancelled entry is never taken. `TimeoutsSure` adds that a
  cancelled request was answered and can never be queued again;
- `LoadAlwaysCoversWork`: the load of a worker is at least the number of tasks and streams
  that hold it and of checkins under way. `LoadCovers` adds that the holders are a finite
  set, so that they can be counted; every step settles its account (`Settles`): it adds to
  the work no more than to the load;
- `OnlyRetriesLose`: a step after which a waiting client's call is nowhere, though it was
  somewhere before, is one of two (`RetryGivesUp`): the retry of a call that was dispatched
  at once, or the checkout of a retry that times out. This is the action property behind
  `PoolRetryLost`: no other path loses a call, under any faults.

- `FreeWorkersServe`: while a call is queued that a worker could run, an offered worker
  that runs nothing has a message on its way that drives the queue (`WorkConserving`).
  With several slots each event starts one queued call at most, so a worker that runs
  something may keep a free slot while a call waits. The invariant says that each step which
  offers an idle worker or queues a call beside it is accompanied by a drive (`Driven`). A
  tainted worker is not driven for, but its load is not zero either: the call that crashed
  never gave its slot back (`LeaksCounted`: the load is more than the work);
- `OverfillLimited`: a worker is overfilled at most once in each of its lives
  (`OverfilledOncePerLife`). A drive runs a queued call without looking at the load
  (`event_handler.ex:185`); every life of a worker brings one drive, so load plus drives
  due is at most capacity plus lives (`OneDrivePerLife`);
- `ClientsServed`: the pool implements `ClientCalls`, under every fault. The refinement
  needs the one-stage invariant, `TimeoutsSure` (a timeout never meets a call that a task
  runs) and `FirstTries` (only a task that began has tried). Every step
  of the pool moves one call or leaves all where they were (`StillKept`, `ClientStep`); a
  drive of the queue starts the first call it serves and nothing else (`ServeQueueServes`).

`ClientCalls.tla` is what the pool promises its callers: the stage of each call (idle,
asked, queued, run by a worker, answered, lost), with the moves between them. A call is queued or run only after it
was asked, is tried again only as often as the policy allows, and is over once. `Client` in `Pool.tla` is the refinement
mapping and `ServesClients` the property.

Two theorems have a hypothesis, because the code does not keep the property without
it (TLC finds a behaviour for each). `PoolLive` is an instance that satisfies both
hypotheses.

- `CallsNeverLost` needs `NoRetries` (no crash happens, or the policy never retries, or
  the limit is zero): the retry of a call that was dispatched at once is lost, which
  `PoolRetryLost` shows. The invariant is `WaitingHeld`: the call of a living client that
  waits is in the mailbox, queued with a timer, or in a task that will reply;
- `NothingIsLeftOver` needs `NothingCutShort` (no call crashes, no stream is killed): a
  killed stream never checks in, nor does the task of a call that crashed, so the slot is
  never given back. `LoadExact` turns the `>=` of `LoadCovers` into an equation.

Model-checked only: the liveness property `EveryCallAnswered`.

### WorkerRpc and SerialCalls

`WorkerRpc.tla` models the RPC queue of `GRPCWorker`. The worker process never
waits for Python: a call (or a periodic health check) joins `rpc_request_queue`
and, when nothing is pending, is run by a monitored task; its result, or the
`:DOWN` of the task, answers the caller and starts the next one. The worker
stops on the exit of Python, on a `:shutdown` of its supervisor or on the exit
of its heartbeat monitor, and its `terminate/2` answers every call it knows.

| variable | code |
| --- | --- |
| `mailbox`, `queue` | the message queue of the worker, `rpc_request_queue` |
| `pending`, `monitors` | `pending_rpc_calls`, `pending_rpc_monitors` |
| `task`, `caller`, `replies` | the task of each call, its client, and how often it was replied to |
| `health_timer` | the timer of `:health_check` |
| `worker`, `exit`, `python`, `stopping` | the processes, why the worker stopped, and what `pool_alive?/1` and `system_stopping?/0` see |

`SerialCalls.tla` is what a worker promises its callers: one line, one call at a
time, first come first served, each over once. `ServesInOrder` in `WorkerRpc`
is that specification under the mapping line = queue followed by the requests
still in the mailbox, active = `pending`, ended = calls whose task is no longer
pending, open = the worker is up.

Run `Worker`: two calls and a health check under every fault (tasks killed
before or after their result, callers that give up, Python exits of each kind,
both exit signals, a system that stops). Two calls and a check are enough for
one running and two waiting. Bounds: each client calls once, `Checks` health
checks, one exit signal at a time (the first stops the worker). Fairness: the
worker handles its mailbox, and a call returns because its gRPC deadline makes
it. `CHECK_DEADLOCK FALSE`: a worker that stopped does nothing more.
`NoCallStranded` joins what keeps a call alive: one runs at a time, a pending one
will be heard of, no call waits beside an idle worker, and a client that waits has
its call in one place.

`WorkerRpcProofs.tla` proves `CallsNeverStranded` for any clients, checks and faults,
from `RpcAssumption`. `NoCallStranded` is not inductive: that a task that is started
was not started before, and that a result or a death is that of a task which no longer
runs, follows from where messages are. `IInv` adds this path of a call: once in the
mailbox, then once in the queue, then in its task (`CallInv`), and a client is waiting
only while its call is on it and answered only when it has left (`ClientInv`). One
lemma per kind of step, two of them shared: a call joins the queue (`Queues`), a
pending call ends (`Ends`). `PlannedStopIsNoCrash` proves the action property
`NoFalseCrash`.
`CallsServedInOrder` proves the refinement, `ServesInOrder`, without any hypothesis: the
initial states are those of `SerialCalls` and each step is one of its steps or a
stutter. The line is a selection from two sequences (queue, then the requests in the
mailbox), and `SelectSeq` is opaque to the provers, so it is written with `AtPlaces` of
`Selections.tla`, the sub-sequence at a set of places. The lemmas say that two place sets
of one sequence that name the same elements give one line, and that an append, a tail and
the flush of `terminate/2` change it at one end; where an induction over the line would be
the way, the proof takes the least counterexample (`LeastNat`) instead.

### HeartbeatMonitor

`HeartbeatMonitor.tla` models the monitor of one worker with its three timers
(`ping_timer`; `timeout_timer` and `beat`, the field and the timer it names, for
the code may set the field to nil and leave the timer armed, which `leaked`
counts; `ping_task_timer`), the ping tasks (`stage`), `missed_heartbeats` and the
worker. Cancelling a timer does not take back a message that was already sent,
so timeouts may be stale when they are handled. A pong or a timeout that is late arms the
next ping while a `:send_ping` may be in the mailbox already; handling that one leaves the
timer armed, and the second `:send_ping` may meet a ping in flight, which the code takes
for a failure (`heartbeat_monitor.ex:294`).

`dependent` and `transport` are options of the monitor: any choice of them is an
initial state. With `transport = "call"` the ping waits for the pong inside its
task, as the gRPC heartbeat does; with `"notify"` the worker pongs later. The
`health` of the worker only gets worse until it is restarted: a prompt one
answers before the deadlines; of a troubled one answers may be late or errors
and tasks may be killed; a silent one never answers.

Run `Heartbeat` checks all this at once (`PingsAccounted` is the count of misses and
the one ping task). Bounds:
three ping references (one in flight, two named by stale messages), four
messages in the mailbox, one forgotten timer, one pong owed; `missed` saturates
at `MaxMissed` because the code only compares it. Fairness: the monitor runs,
armed timers expire, a ping that can be answered is, a prompt worker pongs, the
supervisor restarts a worker that crashed. `CHECK_DEADLOCK FALSE`: a worker that its monitor terminated stays down.

`HeartbeatMonitorProofs.tla` proves two of its properties from `HeartbeatAssumption`,
for any references, limit of misses and bounds. `PingsAlwaysAccounted` needs two
strengthenings: only the current task runs (`TaskInv`), and while the heartbeat's timer
is set one ping went out that is not counted yet (`MissInv`). `HealthySpared` needs to
know what a prompt worker's monitor can be in: `PromptShape` lists the fifteen
shapes of its mailbox, task and timers, among them the stale heartbeat timeout behind a
pong; in none of them does a handler find a failure. The proof has one lemma per step
from one shape to the next.

### CircuitBreaker

`CircuitBreaker.tla` models the breaker and the callers around it. `call/2` asks
with a `GenServer.call`, runs the function in the caller and reports with a
cast; between the two the breaker may have changed state, and the report does
not say which phase it belongs to. Each caller is inside the retry loop of
`Executor.execute_with_protection/3` (`attempt`). `elapsed` stands for the
comparison of the clock with `last_failure_time`; `failure_count` saturates at
the threshold; `probes` is history: who holds the slots of the half-open phase.

Run `Circuit`: two callers that may be killed, threshold two, one probe, two
attempts, resets by an operator. Two callers are the least that can be in two
phases at once. `SlotsAccounted` says, with the types, that at most `MaxProbes` probes are
admitted and whose each slot of a half-open circuit is (`TypeOK`, `HalfOpenLimit`,
`SlotsInUse`). Fairness: the breaker handles its mailbox, an admitted function
ends, a backoff ends; no clock is needed. 

`CircuitBreakerProofs.tla` proves from `BreakerAssumption`, for every set of
callers: `BreakerTypes`; `ClosedCircuitBelowThreshold` (inductive relative to the
types: a failure that reaches the threshold opens the circuit in the same
callback, a success that closes it zeroes the count); `ProbesLimited` (`HalfOpenLimit`), whose
invariant `ProbesCounted` adds that the admitted callers are a finite set, so
that their number can be counted up; `SlotsAlwaysAccounted`, whose invariant
`SlotsOwned` says for each slot of a half-open circuit which caller holds it, and that the
caller runs, has its report on the way or was killed. Model-checked only: the liveness
properties `ProbesDecide` and `ProtectedCallEnds`.

### Lifecycle

`Lifecycle.tla` models the manager that recycles workers with its two kinds of
task (a periodic check over a copy of its table, with one job per worker that is
due, and a task for each recycle that is asked for or that the request limit
causes), the WorkerSupervisor that serves their requests, and per worker id the
starter and the worker process.

| variable | code |
| --- | --- |
| `workers`, `mailbox` | `state.workers` (which incarnation, `request_count`), the message queue |
| `check_timer`, `lifecycle_task` | the timer of `:lifecycle_check`, `lifecycle_task_ref` with what the check has collected |
| `jobs` | each run of `do_recycle_worker/1` with its place in it: look the pid up, terminate, start, resolve, track |
| `starter`, `child`, `boot` | the Worker.Starter of an id, its worker process and which incarnation that is |
| `manager` | the process: up, stopped by its `terminate/2` or killed without it |
| `cut`, `stale` | history: a recycle ended between its stop and its start; a recycle found its worker gone |

The manager does not trap exits, so it can end in two ways: a callback that raises or a
`GenServer.stop` runs `terminate/2`, which sends a kill signal to every task, and a `:shutdown` of its supervisor
or a kill ends it without. Its tasks are not linked to it. In the second case they go on; in
the first each goes on until its signal arrives (`SignalArrives`), so that a task may still
ask for a stop or a replacement then. A task that is killed while it waits for the supervisor
leaves its request behind (`by = "nobody"`), which is served all the same. A task that gets the
answer to its stop asks for the replacement in the same step. Which worker is due
by its age or its memory is a choice of the check. The code's clause for a tick
that finds a check running is kept although no behaviour takes it: the timer is
only armed again when a check ends. `:health_check` only logs and
`untrack_worker/1` has no caller; neither is modelled. What the pool does with
workers that come and go is in `Pool`. The restart of the manager by its supervisor, which
tracks nothing of what lives then, and the shutdown of the whole tree are not modelled.

Run `Lifecycle`: one worker with one other id for its replacement, two recycles
at a time, a limit of one request, one fault of any kind in a behaviour
(`MaxFaults`), each id in two incarnations. An id is used again once nothing
mentions it, so behaviours do not end. Two ids are the least with which a pool of
one can grow, two jobs the least that can meet on one worker. Requests and
operators wait while a message is in the mailbox (`MaxMail`); what the system
itself sends does not. The run uses no fairness: that the checks go on is stated
as an invariant, something that leads to the next check is always there.
`CHECK_DEADLOCK FALSE`: a stopped manager whose worker exited does nothing more.
`PoolAccounted` says, with the types, that dead workers leave the table, that the
checks go on, and that recycling changes the size of the pool only in the two ways
its history variables name.

`LifecycleProofs.tla` proves every property of the run from `LifecycleAssumption` and
`NoneAssumption`, for any workers, limits and number of faults:

- `TypeCorrect`: the types, with the fact that at most one report of a check is under way;
- `DeadBeforeReplaced`: `StoppedBeforeReplaced` is inductive once a process that comes to
  life is known to be new (`RevivedIsNew`: no entry, job or message has its pid), for a
  dead worker must not come back between the stop and the start of its recycle. It holds
  also for the tasks that outlive the manager;
- `LimitIsKept`: a tracked worker at its request limit has a recycle on the way;
- `PoolIsAccounted`: the dead leave the table, a check is on its way while the manager
  lives, and the size of the pool follows from what each job has done so far, each job
  counted by its place (`SizeByJob`), unless a recycle was cut short, which may lose a
  worker, or found its worker gone, which may add one (`cut`, `stale`).

What the manager still tracks after a check is a selection from its table, written with
`AtPlaces` of `Selections.tla` like the line of `WorkerRpc`.

### ProcessRegistry and MCRegistry

`ProcessRegistry.tla` models the records that Snakepit keeps of its Python processes, so
that none of them outlives the application for long: the registry with its two tables and
its cleanups, the workers that register, the OS processes, the ends of the application.

| variable | code |
| --- | --- |
| `app`, `registry`, `run`, `beam` | how the application stands or ended; the registry; `beam_run_id`, as a number that each start of the registry takes next, and the first one of this BEAM |
| `ets`, `dets`, `disk` | the two tables; what `:dets.sync` or the auto-save of DETS wrote last |
| `casts`, `retries` | `:unregister` messages in the mailbox, the `:unregister_retry` timers |
| `cleanup` | how far `cleanup_orphaned_processes/7` has come and the entries it found |
| `phase`, `named`, `process_pid` | how far a worker's `init` is, the run id it put on the command line, the pid in its state |
| `proc`, `cmd` | each OS process (alive, or doomed once it was sent a signal) and the run id on its command line; 0 is any program that is not a worker of this instance |
| `known`, `scan` | history: which processes were on record on disk when this BEAM started; whether `:rogue_cleanup` is enabled |

A cleanup takes four steps (read, kill, remove, scan), at the start inside the registry,
which then serves nobody, and later in a task beside it. `Mishaps` are the faults: the
BEAM or the registry crashes, a worker is killed without `terminate/2`, an `init` fails,
a cleanup task dies, the cleanup at the end of the application runs out of its time.

Abstractions. Run ids never repeat. A pid is used again only after the worker that had
it has heard of the exit. The kills of one cleanup are one step (a task that dies has killed
all or none of what it found): the look at a command line and the SIGKILL by pid up to two
seconds later (`process_killer.ex:679`) have no other process between them. Its two reads of DETS are one, since no entry of an
earlier run is written once the registry serves. An `init` takes less than a minute, so
of this run only reservations of workers that failed for good are "abandoned". The queue of
cleanups is that one may start whenever none runs. The process group and the mark
`terminating?` are left out, for no decision of these handlers depends on them.

Run `Registry`: one worker id, two OS processes (symmetric), three starts of the registry,
one retry of an `:unregister`, every fault any number of times. Three starts are a BEAM that
crashes, one whose cleanup is cut short and one that finishes the work; one id is enough
for the entries of several lives to meet, and two processes for a pid to be used again while
its earlier owner's record remains. `OrphansGone`: once the registry serves, no server of an
earlier BEAM lives that was on record when this one started or that the scan sees, and
after an orderly stop none of the last run does. `RunningRecorded`: with the types, a
worker of this run whose process lives is in both tables. `CleanupSparesWorkers` (an action
property): a cleanup kills no other program, and a process of this run only for a reservation.
`CHECK_DEADLOCK FALSE`: after the last start nothing need happen. Liveness is not claimed:
a process that does not react to SIGKILL stays.

The proofs are the second part of `LifecycleProofs.tla`, for any worker ids, pids, restarts
and faults, from `RegistryAssumption`. None of the three properties is inductive.
`RegistryInv`, proved as `RegistryInvariant`, has five parts: the entries are well-formed and
of runs that have begun, those in ETS of this run (`EntriesWell`); a process a worker holds
has that worker's run id on its command line, and the run ids of workers are those of this
BEAM, of an earlier registry while one starts (`Attached`); the startup cleanup works on
all that DETS holds, which is of earlier runs, and a later one sees only reservations
of failed workers (`CleanupKnows`); the record of a running worker (`OnRecord`); and an orphan
on record is in DETS until the cleanup kills it (`OrphansKnown`). `NoOrphanSurvives` and
`RecordsKept` are two of its parts; `WorkersAreSpared` follows from the first three: what
the cleanup kills has the run id of an entry or none of this run.

What the model shows: the reservation of a worker whose `init` failed for good makes the
next cleanup kill every process with the current run id, that is all workers of the pool
(`kill_abandoned_reservation`, `process_registry.ex:1227`; `CleanupSparesWorkers` names this
exception). A restart of the registry alone takes a new run id, so its startup cleanup kills
the living workers of the same BEAM. A worker that restarts while the process of its
predecessor still lives overwrites its record, and only the scan or `ApplicationCleanup`
finds the process then. A retry or a cleanup of an old record may delete the reservation
of the next worker with its id; `activate_worker` writes it again.
`ApplicationCleanup` has three seconds and each kill may wait two (`application_cleanup.ex:46`),
so it can leave processes ("cut"), which the next start finds if they are on record.

### BridgeServer and MCBridgeServer

`BridgeServer.tla` models the servicer of a Python worker from `main()` to the exit of
the interpreter, in either of the two servers (`threaded`, an initial choice). The
RPCs are coroutines of one event loop: what runs between two awaits is one action, and
every action of the loop needs `LoopFree`, for a call of the synchronous stub
(`InitializeSession` inside `ExecuteTool`, `RegisterTools`) or a tool that runs on
the loop holds it. Threads of tools run beside it.

| variable | code |
| --- | --- |
| `config` | `HeartbeatConfig` made from the command line overridden by the environment (`Resolved`, `FromMapping`, `Coerced`) |
| `stage`, `attempts`, `shutdown_event` | where `serve_with_shutdown` is, the attempts of `wait_for_elixir_server`, the `asyncio.Event` |
| `elixir`, `channel` | whether Elixir answers, refuses or hangs; the client channels |
| `call` | each RPC: its kind and session, the await it is in, its adapter, how its tool runs (coroutine, thread, on the loop) |
| `registered_sessions` | `_registered_sessions` |
| `active_requests` | the count of the threaded server |
| `heartbeat_clients`, `client` | the registry by session; each `HeartbeatClient` with its task and missed count |
| `leftovers` | the clients `close()` has taken out of the registry and not stopped yet |

Elixir may change at any time, tools may never end, calls may be cancelled at every
await, signals come at any time. Nothing of that is fair; the loop runs what is ready,
a ping ends (it has a timeout), the grace period of the server ends.

Run `Bridge`: one session, two calls of any kind, two attempts to connect, two
sets of options (a limit of two with the flag overridden by the environment; an
independent worker with limit zero, which the code accepts). Two calls are the least
that can race for the heartbeat client of a session; more sessions add nothing to one
of them, as the registry treats each alone. `EveryHeartbeatOwned`: no loop is lost or
doubled. `AdapterReleased`: who cleans an adapter, and when; the threaded server's
count. `StopsWhenItShould` has two parts. `ShutsDown`: once the event is set the loop ends, if no synchronous call or tool
holds it for ever (`[]<>(LoopFree \/ Down)` is a premise the code does not give).
The hang itself, a loop that a tool holds for ever, has no property: nothing in the code
prevents it. `DiesWithElixir`: a dependent worker shuts down when Elixir is gone for good.
`CHECK_DEADLOCK FALSE`: a process that exited does nothing more.

`BridgeServerProofs.tla` proves `HeartbeatsOwned` for any sessions, calls and options,
from `BridgeAssumption` and `OptionsAssumption` (what an option may hold). The property
is not inductive: `IInv` adds that a call that is under way and a client that was
created have a session (or the registry would be read outside its domain), that
nothing is left over unless the server is closing (or `close()` would drop a client it
still had to stop), and that the last attempt to connect ends the start-up (for the
types). Each lemma about a way the registry changes (`EnsuredOwned`, `CleanupOwned`,
`CloseOwned`, `StopOwned`) shows that no other loop loses its place.
`AdaptersReleased` proves `AdapterReleased`. `TidyCall` says at which await a call may hold
an adapter and where its tool may still run (behind its call only if that was cancelled);
`Counted` that the count of the threaded server is the number of tool calls under way, a
finite set that each step changes by the one call it is about.
The last part of the module is about `StreamingTool`, below.

Not modelled here: the RPCs that change nothing (`Ping`, `Heartbeat`, health), the
process group, the readiness file. Things the model shows that a reader should know:
an adapter is cleaned while the thread of its cancelled tool still runs; a client
created during `close()` is stopped by nobody (the process ends); an empty answer to
`RegisterTools` counts as a registration; a heartbeat outlives its session on the
Elixir side until `CleanupSession` comes; a signal that comes while the worker waits
for Elixir is noticed only afterwards; and the threaded server has no heartbeats, so
it does not die with Elixir.

### TypeSerializer

`TypeSerializer.tla` is the pure part: what `encode_any` and `decode_any` do with one
value of each class (booleans, small, large and huge integers, special floats, texts,
None, lists, arrays, dictionaries with integer keys, objects JSON cannot say,
zero-copy references), with either JSON library, on the JSON and the binary path; the
type `ExecuteTool` gives a result; what Elixir reads. `RoundTrip` compares decoding
after encoding with a reference (`Meaning`); `ResultsReadable` says that every tool
result gives an answer, and that plain data is what Elixir reads. Both are constant
formulas over all the values of the module. `MCBridgeServer` states them where values
cross the bridge, as `ResultsArrive`, at the step that answers a tool call. A container holds at most a few members and
`BinaryThreshold` stands for ten kilobytes: the code compares only the outer length.

### StreamingTool and StreamingCall

`StreamingTool.tla` models one `ExecuteStreamingTool` call: the handler that gRPC
iterates (`pc`), the producer task, the thread of a synchronous iterator, the watcher
that polls the context, the queue (`maxsize`), the cancel event, the client. Both servers are
covered (`server`, with `active` for the threaded one's count); whether the
context can be polled (`watched`) and what the tool returns (`kind`) are initial
choices. `queue`, `pending`, `holding` and `delivered` are the places of a chunk.
`StreamingCall.tla` states what such a call promises, as properties of that model.

Run `Streaming`: a queue of two and up to four chunks, so that the queue fills
while a chunk is being put and another is being sent. `ChunksDelivered` is the
conjunction of two invariants. `ChunksInOrder`: while the
client reads, every chunk built is on its way once, in order. `EndedMeansComplete`: a
stream that ended well was whole. `NothingHeld`, an action property, has two parts. `HeldAfterEnd`: a call
that is over has no task left and is not counted. The one thing that may be left is the
chunk of a synchronous tool whose thread waits for its put: nobody takes from the queue any
more, so a thread that finds it full waits for ever, with the coroutine it submitted.
`EndReleases`, of the step that ends the call: the iterator is closed unless a thread is
inside it, and the adapter cleaned unless there was none yet or the call was cancelled before
the stream began. `StreamEnds`: a stream
whose tool is over or whose client has left ends. Fairness: the loop, gRPC and a
thread that waits for its put; nothing of the tool. `StreamEnds` has one exception,
`Stranded`: a synchronous tool whose payload `json.dumps` refuses sets the cancel
event, so nobody puts the sentinel. A producer that is cancelled is taken to end there: a
tool that turns the cancellation into an error of its own (`grpc_server.py:860`) is not
modelled. `CHECK_DEADLOCK FALSE`: a call that is over stays so.

The theorems are the last part of `BridgeServerProofs.tla`, for the handler belongs to
that server; they hold for any queue size and number of chunks from one up
(`StreamAssumption`). `ChunksReachClientInOrder` proves `ChunksInOrder`, stated over the row
of all places: the numbers of the chunks in it are 1 to `produced`, increasing. That is
not inductive, for it says nothing of who may put next. `StreamInv` adds what exists
before the stream begins and after it (`Begun`), that one task or thread has the chunk that
is being put and the epilogue follows the last put (`Handed`), and, while the client
reads, that the chunks are numbered on from place to place with nothing but an end behind
them (`Ordered`), the final one among them (`FinalComes`). `EndIsComplete` proves
`EndedMeansComplete`: the sentinel is only met when the producer has ended and the queue
held all the rest. `StreamReachesClient` puts the two together (`ChunksDelivered`). `NothingStaysHeld` proves
`NothingHeld`, both parts: `Begun` says what a thread may still be doing behind a call that
ended, for which it needs that the cancel event is set by then. `StreamEnds` is a liveness
property and is only model-checked.

### TelemetryStream

`TelemetryStream.tla` models the events a worker sends to Elixir: `pre` and `queue` are
the two buffers, `callbacks` what threads handed to `call_soon_threadsafe`, `inHand` a
thread between reading `_loop` and acting on it, `attached` whether `_loop` is set,
`rpc` the StreamTelemetry calls, `taken` what they took. `entered` and `left` count for
the properties; `muted` and `shared` remember a sentinel that met a full queue and two
calls that were open at once.

Run `Telemetry`: the loop and one thread, two calls, buffers of two, three events:
either buffer saturates, the calls can overlap. `Accounted` is the conservation
of events; `LoopEventsInOrder` the order of the loop's own events through flush and
reconnection; `CloseEndsStream` that close() ends an open call. Fairness: callbacks,
the calls and a thread that holds an event; nothing of Elixir.
`CHECK_DEADLOCK FALSE`: a closed stream may have nothing left to do.

`TelemetryStreamProofs.tla` proves `EveryEventAccounted` for any threads, calls and
sizes. The types are inductive by themselves, in two halves (flags and contents); the
balance is stated with additions only, and each action moves one item from one
summand to another or adds it to both sides. `LoopOrderKept` proves
`LoopEventsInOrder`: the loop's own events are sorted in each buffer and each of them
stands behind those of the parts that are sent before (`InOrder`): while the loop
enqueues its events directly the pre-stream buffer holds none of them (`Direct`), one call
at a time flushes it (`OneAttaching`), and what other threads post is not the loop's
(`Foreign`).

The model shows: events of a thread may arrive out of order (its callback waits while
the loop's own events go straight to the queue, and later ones of the thread may find
`_loop` unset); `dropped_count` counts sentinels too; an event emitted after close()
may land behind the sentinel.

### ThreadedAdapter, MCThreadedAdapter

`ThreadedAdapter.tla` models threads that share one adapter, as
`README_THREADING.md:223` does with a pool (both servers make an adapter for each
request, so there the lock and statistics are never contended). A step lies between
two points where another thread can see the shared state: `pc` is the place in the two
nested `thread_safe_method` wrappers, `tracker` the `RequestTracker`, `lock` the
adapter's RLock (no path enters it twice), `stats`, `history` and `cached` what the
showcase keeps, `checker` the global checker with `timing` for `track_execution`.

Run `Threaded`: two threads (symmetric), three calls, two switches of the
checker. `InsideExact`: the tracker and the lock know who is inside, on every path out.
`StatsAddUp`: outside the lock the sums agree and readers are never behind what
they copied. `CheckerConsistent`: what the checker notes fits the accesses it saw. A warning
of the checker never comes to be: its message asks a frame for a filename
(`thread_safety_checker.py:145` with 347), which raises an AttributeError, so the call of the
second thread is refused, with strict mode or without, and the warning counts as issued
(`Recorded`). Strict mode is left out for that reason.
No liveness is claimed: tools may run for ever. `CHECK_DEADLOCK FALSE`: the calls are
bounded.

`ThreadedAdapterProofs.tla` proves `TrackerAndLockExact` for any finite set of threads
and any bounds. `InsideExact` is inductive relative to the shape of the variables
(`Exact`), because `Depth` and `Critical` say for each point what the tracker and the
lock must be.
`CheckerFitsAccesses` proves `CheckerConsistent` from the types of the checker alone
(`Judged`): one access adds one thread, and a larger set of threads takes no warning back.
`StatisticsAddUp` proves `StatsAddUp`. Its invariant `AddUp` adds to `Exact` that the
totals are sums over the threads, with the entries that are on their way (`Sums`), and that
a reader's copy is never more than it will show (`ReadersRight`). The sum is `Total`, a
cardinality of unit places and not a fold, so that the provers see it; its lemmas are those
of a sum: it splits off one thread, changes by what one thread changes, and is bounded by
its parts.

## Statements of the documentation that the code does not keep

The run with `expect: violation` shows one (`findings` in `PROJECT.json`): a call
that was dispatched at once and crashes is retried by a task that calls itself, and
is lost (`PoolRetryLost`; `dispatcher.ex:168` against `CHANGELOG.md:672`). The models
show these as well, without a run of their own.

Elixir:

- `docs/20251229/documentation-overhaul/02-workers-sessions.md:42`: a worker runs one
  call at a time. It does, but the pool may give it more: a queue drive runs a queued call
  on the worker it was sent for, also when checkouts handled in between have filled it
  (`event_handler.ex:185`), and the call waits in the worker's own line (`SerialCalls`).
- `docs/20251229/documentation-overhaul/03-hardware-reliability.md:224`: a half-open
  circuit closes or opens again. A probe whose caller is killed keeps its slot
  (`circuit_breaker.ex:200`); when all are lost, nothing decides.
- `guides/configuration.md:262`: a worker stopped by its heartbeat is restarted. It
  stops with `:shutdown` (`grpc_worker.ex:571`), which its transient supervisor takes
  for a planned end.
- `CHANGELOG.md:1146`: recycling replaces workers. A recycle that exceeds the action
  timeout is killed between its stop and its start (`lifecycle_manager.ex:507`).
- The comment at `pool.ex:252`: the `after` block of a stream "ALWAYS executes,
  preventing worker leaks on crashes". A streaming client that is killed never
  runs it; its slot stays taken (`NothingLeftOver` fails with the fault
  `stream_killed`).
- `lifecycle_manager.ex:39`: the manager "monitors all workers across all
  pools". The end of a check forgets the recycled ids whatever lives under them
  by then (`lifecycle_manager.ex:318`): a worker that was restarted during the
  check is tracked no more. The task's late `track` message for a replacement
  that was restarted meanwhile does the same (`lifecycle_manager.ex:753`), and so
  does a recycle task that is killed before it looked its worker up.
- `CHANGELOG.md:48`: the manager's `terminate/2` kills its tasks. A supervisor that shuts the
  manager down never runs it, for the manager does not trap exits
  (`lifecycle_manager.ex:135`); the test of it (`lifecycle_manager_test.exs:204`) calls
  `terminate(:shutdown, ...)` itself.
- `lifecycle_manager.ex:51`: "Gracefully replaces workers when recycling". A
  recycle that finds its worker dead takes it for stopped and starts a
  replacement (`lifecycle_manager.ex:708`); if the starter had restarted it, or
  another recycle replaced it, the pool has grown by one.
- `guides/configuration.md:217`: strict queueing "guarantees same-worker
  routing". `store_session_affinity` (`pool.ex:1558`) writes from a task that
  races the session's next checkout.
- `guides/configuration.md:446`: a worker that restarts too often "is permanently
  removed from the pool". Nothing in the pool monitors a worker, so
  `handle_down` (`event_handler.ex:58`) does not hear of it.
- `guides/configuration.md:461`: the circuit opens after "consecutive failures".
  The count is cumulative: a success in the closed state leaves it
  (`circuit_breaker.ex:223`).
- `README.md:788`: "On application restart, orphaned processes from previous runs are
  killed". That holds for those on record on disk, and for the others only if the scan
  for rogue processes is enabled: a reservation is not synced (`process_registry.ex:487`),
  so a BEAM that crashes before the next flush or auto-save leaves no record of the process, and the
  comment there, "Persist reservation metadata to DETS before worker spawn path
  advances", promises more than an insert.
- `guides/configuration.md:299`: "Missed heartbeats before declaring worker dead".
  A gRPC ping that gets no answer ends in `handle_worker_failure` at once
  (`heartbeat_monitor.ex:171`), whatever the number is.

Python:

- `grpc_server.py:869`: the sentinel "MUST be delivered so consumer terminates". See
  `Stranded` above.
- `base_adapter.py:13` and `guides/python-adapters.md:85`: the adapter is
  cleaned at the end of each request. In a streaming call `cleanup()` runs twice when
  the iteration fails, and never when the call is cancelled during `initialize` or
  `execute_tool`.
- The docstring of the servicer in `grpc_server_threaded.py:221`: tools are dispatched
  to a thread pool. Tools that are not asynchronous run on the event loop.
- `guides/graceful-serialization.md:14`: JSON values "pass through unchanged" and objects
  with conversion methods are converted. A result that is a tuple, an array or a datetime
  by itself becomes its `str()`, None becomes "None", and an integer becomes a float:
  one too large for a float fails the call, one beyond 2^53 is rounded.
- `thread_safety_checker.py:82`: strict mode raises "instead of warnings". In both modes
  building the message fails (`thread_safety_checker.py:145`), the first call of a second thread
  is refused with an AttributeError, and no warning is given.
- The comment at `grpc_server.py:841`: "Queue full or cancelled - stop producing". The put of
  a thread waits while the queue is full; when the call ends then, nobody makes room, and the
  thread, one of the executor's, waits for ever (`HeldAfterEnd` names the case).
- The statistics of a threaded adapter count one call as two active ones, for
  `execute_tool` and the tool are both wrapped.

## What is proved and what is only checked

Proofs hold for every value of the constants under the named assumptions.
Eight modules hold them:

| module | theorems |
| --- | --- |
| `PoolProofs` | `TypeCorrect`, `OfferedWorkersFree`, `CallsInOneStage`, `NoCallAnsweredTwice`, `QueuedCallsTimeOut`, `LoadAlwaysCoversWork`, `OnlyRetriesLose`, `FreeWorkersServe`, `OverfillLimited`, `ClientsServed`; with a hypothesis `CallsNeverLost`, `NothingIsLeftOver` |
| `CircuitBreakerProofs` | `BreakerTypes`, `ClosedCircuitBelowThreshold`, `ProbesLimited`, `SlotsAlwaysAccounted` |
| `WorkerRpcProofs` | `CallsNeverStranded`, `PlannedStopIsNoCrash`, `CallsServedInOrder` |
| `HeartbeatMonitorProofs` | `PingsAlwaysAccounted`, `HealthySpared` |
| `LifecycleProofs` | `TypeCorrect`, `DeadBeforeReplaced`, `LimitIsKept`, `PoolIsAccounted`; of the process registry `RegistryInvariant`, `NoOrphanSurvives`, `RecordsKept`, `WorkersAreSpared` |
| `BridgeServerProofs` | `HeartbeatsOwned`, `AdaptersReleased`; of a streaming call `ChunksReachClientInOrder`, `EndIsComplete`, `StreamReachesClient`, `NothingStaysHeld` |
| `TelemetryStreamProofs` | `EveryEventAccounted`, `LoopOrderKept` |
| `ThreadedAdapterProofs` | `TrackerAndLockExact`, `StatisticsAddUp`, `CheckerFitsAccesses` |

The hypotheses of the two theorems of `PoolProofs` restrict the faults or the
configuration to those under which the code keeps the property; what happens without them
is in the list above or in `PoolRetryLost`. All other theorems hold under every fault
their module models.

Checked by TLC only, on the instances listed:

- liveness under fairness (`EveryCallAnswered`, `ProbesDecide`, `ProtectedCallEnds`,
  `HungWorkerStopped`, `KeepsPinging`, `StopsWhenItShould`, `StreamEnds`,
  `CloseEndsStream`, `CallEnds`): `tlapm` reasons neither about fairness nor about
  `ENABLED`. `SerialCalls` states no
  fairness, so its refinement is proved whole;
- `ResultsArrive`: it compares a recursive encoding with its
  meaning over the values of `TypeSerializer`. What a recursive definition computes for
  every value is an induction over data, which the provers cannot do, and over the values
  of the module TLC's evaluation is already complete.

## Not modelled

The core of the Elixir side is modelled (`Pool` with `ClientCalls`, `WorkerRpc` with
`SerialCalls`, `HeartbeatMonitor`, `CircuitBreaker`, `Lifecycle`, `ProcessRegistry`), and
so is the Python side (`BridgeServer`, `StreamingTool`, `TelemetryStream`,
`TypeSerializer`, `ThreadedAdapter`). What is left, with the reason for each part in
`PROJECT.json`:

1. The initialization of the pool in batches with the `await_ready` waiters, composed with
   the merge of `Pool`; the session store, the tool registry and the capacity store; the
   supervision tree as a whole: worth modelling, not done.
2. An abstract specification of a worker slot, implemented by `Lifecycle`.

Of no interest to a model: configuration, installation of the Python environment, error formatting,
logging, tracing, hardware detection, the discovery of tools by reflection, the
demonstration tools of the adapters, generated protocol code: sequential code, I/O or
pure formatting.

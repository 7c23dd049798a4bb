-------------------------------- MODULE Pool --------------------------------
(***************************************************************************)
(* One pool of Snakepit.Pool: the GenServer that owns the workers' load,   *)
(* the request queue and the session affinity cache, the client calls that *)
(* reach it, and the tasks it spawns to run a call on a worker.            *)
(*                                                                         *)
(* The GenServer is one process: a step that handles a message takes the   *)
(* head of `mailbox' and runs the whole callback.  Everything else         *)
(* (clients, tasks, timers, workers) acts between two callbacks and can    *)
(* only append to the mailbox, so a callback works on what the world was   *)
(* when its message was sent.                                              *)
(*                                                                         *)
(* No process monitors a worker (the pool receives no :DOWN for one), so   *)
(* a worker that crashes, restarts or disappears is visible to the pool    *)
(* only through the {:worker_ready, id} call of its next life.             *)
(***************************************************************************)
EXTENDS Naturals, Sequences, FiniteSets

CONSTANTS
  Workers,       \* worker ids of the pool
  Requests,      \* client calls of Pool.execute/3, each made once
  Streams,       \* client calls of Pool.execute_stream/4, each made once
  Sessions,      \* session ids
  SessionOf,     \* the :session_id option of each call, or NoSession
  Capacity,      \* effective capacity of a worker (1, or threads_per_worker)
  MaxQueue,      \* max_queue_size
  AffinityOf,    \* the affinity mode of each call: of its opts, else of the pool
  RetryPolicy,   \* crash_barrier.retry: :always, :idempotent or :never
  Idempotent,    \* the requests whose args carry idempotent: true
  MaxRetries,    \* retry_limit/1 of the crash barrier
  Faults,        \* the kinds of fault a behaviour may contain
  MaxBoots,      \* bound: lives of a worker
  NoWorker, NoSession

FaultKinds ==
  { "client_down",       \* a waiting client process dies
    "stream_killed",     \* a streaming client is killed or its call times out
    "checkout_timeout",  \* the retry's checkout call times out
    "crash",             \* a call ends in a crash the enabled barrier classifies
    "worker_restart",    \* a worker dies and its Worker.Starter restarts it
    "worker_gone",       \* a worker dies for good
    "taint_expires",     \* taint_duration_ms elapses
    "cache_expires",     \* an affinity cache entry or a session expires
    "retention" }        \* cancelled entries outlive their retention

Callers == Requests \cup Streams

ASSUME PoolAssumption ==
  /\ Requests \cap Streams = {}
  /\ NoWorker \notin Workers
  /\ NoSession \notin Sessions
  /\ SessionOf \in [Callers -> Sessions \cup {NoSession}]
  /\ Capacity \in Nat \ {0}
  /\ MaxQueue \in Nat
  /\ AffinityOf \in [Callers -> {"hint", "strict_queue", "strict_fail_fast"}]
  /\ RetryPolicy \in {"always", "idempotent", "never"}
  /\ Idempotent \subseteq Requests
  /\ MaxRetries \in Nat
  /\ Faults \subseteq FaultKinds
  /\ MaxBoots \in Nat

VARIABLES
  mailbox,      \* messages the pool process has not handled yet, oldest first
  init,         \* the initialization task: "running", "reported", "merged"
  initialized,  \* pool_state.initialized
  workers, ready, available,  \* the pool's three sets of worker ids
  load,         \* pool_state.worker_loads (absent = 0)
  queue,        \* pool_state.request_queue, ordered by `at'
  clock,        \* queued_at of the next queued request
  timers,       \* requests whose queue timer is armed
  cancelled,    \* pool_state.cancelled_requests
  tainted,      \* workers with an unexpired record in the taint registry
  cache,        \* the affinity cache table: session -> worker
  stored,       \* SessionStore: last_worker_id of each session
  storing,      \* store_worker_session tasks that have not run yet
  task,         \* the process that runs each call
  client,       \* the client process of each request
  replies,      \* how often each request has been replied to
  life,         \* the worker processes
  boots         \* how many lives each worker has begun

admin   == <<init, initialized>>
fleet   == <<workers, ready>>
slots   == <<available, load>>
waiting == <<queue, clock, timers, cancelled>>
sticky  == <<cache, stored, storing>>
clients == <<client, replies>>
procs   == <<life, boots>>
vars    == <<mailbox, admin, fleet, slots, waiting, tainted, sticky, task,
             clients, procs>>

----------------------------------------------------------------------------
(* Data.                                                                   *)

FromMsg(kind, c)   == [type |-> kind, from |-> c]
WorkerMsg(kind, w) == [type |-> kind, worker |-> w]
InitComplete       == [type |-> "init_complete"]

Message ==
  [type : {"execute", "checkout", "queue_timeout"}, from : Callers]
    \cup [type : {"checkin", "skip", "ready"}, worker : Workers]
    \cup {InitComplete}

Entry == [from : Requests, affinity : Workers \cup {NoWorker}, at : Nat]

Task == [phase   : {"none", "spawned", "running", "backoff", "checkout", "done"},
         worker  : Workers \cup {NoWorker},
         attempt : Nat,
         queued  : BOOLEAN]

Idle     == [phase |-> "none", worker |-> NoWorker, attempt |-> 0, queued |-> FALSE]
Finished == [Idle EXCEPT !.phase = "done"]

Init ==
  /\ mailbox = <<>>
  /\ init = "running" /\ initialized = FALSE
  /\ workers = {} /\ ready = {} /\ available = {}
  /\ load = [w \in Workers |-> 0]
  /\ queue = {} /\ clock = 0 /\ timers = {} /\ cancelled = {}
  /\ tainted = {}
  /\ cache = [s \in Sessions |-> NoWorker]
  /\ stored = [s \in Sessions |-> NoWorker]
  /\ storing = {}
  /\ task = [c \in Callers |-> Idle]
  /\ client = [r \in Requests |-> "idle"]
  /\ replies = [r \in Requests |-> 0]
  /\ life = [w \in Workers |-> "booting"]
  /\ boots = [w \in Workers |-> 1]

----------------------------------------------------------------------------
(* Helpers of the callbacks.                                               *)

Receive(m) == mailbox # <<>> /\ Head(mailbox) = m
Consume    == mailbox' = Tail(mailbox)
Send(m)    == mailbox' = Append(mailbox, m)

\* GenServer.reply/2 (or a {:reply, ...} return) to the caller of request r.
Reply(r) == replies' = [replies EXCEPT ![r] = @ + 1]

\* Mutant of ReplyIfAlive: the liveness test inverted.
ReplyIfDead(r) ==
  IF client[r] # "live" THEN Reply(r) ELSE UNCHANGED replies

\* ClientReply.reply_and_checkin/7: a dead client gets no reply.
ReplyIfAlive(r) ==
  IF client[r] = "live" THEN Reply(r) ELSE UNCHANGED replies

\* Mutant of Refresh: the load is not compared with the capacity.
RefreshUnchecked(av, w, n) ==
  IF w \in ready \cap workers THEN av \cup {w} ELSE av \ {w}

\* Membership of w in `available' once its load is n.
Refresh(av, w, n) ==
  IF n < Capacity /\ w \in ready \cap workers THEN av \cup {w} ELSE av \ {w}

IncrementLoad(w) ==
  /\ load' = [load EXCEPT ![w] = @ + 1]
  /\ available' = Refresh(available, w, load[w] + 1)

\* What prune_cancelled_requests and trim_cancelled_requests may leave.
Kept == IF "retention" \in Faults THEN SUBSET cancelled ELSE {cancelled}

\* Queue.compact_pool_queue/3: what is left of the queue, and the requests it
\* drops, when `kept' is what is left of the cancelled ones.
Compacted(kept) == {e \in queue : client[e.from] = "live" /\ e.from \notin kept}

Dropped(kept) == {e.from : e \in queue \ Compacted(kept)}

\* Queue.drop_request_from_queue/2
Without(r) == {e \in queue : e.from # r}

\* get_preferred_worker/2: the cache, else the session store.
Preferred(s) ==
  IF s = NoSession THEN NoWorker
  ELSE IF cache[s] # NoWorker THEN cache[s] ELSE stored[s]

CacheLookup(s) ==
  cache' = IF s = NoSession THEN cache ELSE [cache EXCEPT ![s] = Preferred(s)]

PreferredStatus(w) ==
  CASE w \in tainted       -> "tainted"
    [] w \in workers /\ w \notin tainted /\ w \in available -> "available"
    [] w \in workers /\ w \notin tainted /\ w \notin available -> "busy"
    [] OTHER               -> "missing"

Grant(w)  == [status |-> "ok", worker |-> w]
Refuse(s) == [status |-> s, worker |-> NoWorker]

\* checkout_any_available/2: the first untainted available worker, in the
\* order of a MapSet, which says nothing about the workers.
AnyAvailable ==
  IF available \ tainted = {} THEN {Refuse("no_workers")}
  ELSE {Grant(w) : w \in available \ tainted}

\* checkout_worker/4 for call c, as the set of answers it may give.
Checkout(c) ==
  LET p == Preferred(SessionOf[c])
      status == PreferredStatus(p)
  IN  CASE p = NoWorker \/ (AffinityOf[c] = "hint" /\ status # "available") -> AnyAvailable
        [] p # NoWorker /\ status = "available" -> {Grant(p)}
        [] p # NoWorker /\ status = "busy" /\ AffinityOf[c] = "strict_queue" ->
             {[status |-> "affinity_busy", worker |-> p]}
        [] p # NoWorker /\ status = "busy" /\ AffinityOf[c] = "strict_fail_fast" ->
             {Refuse("worker_busy")}
        [] OTHER -> {Refuse("session_worker_unavailable")}

\* maybe_store_session_affinity/2 starts a task that writes the store.
StoreAffinity(s, w) ==
  storing' = IF s = NoSession THEN storing ELSE storing \cup {<<s, w>>}

Spawn(w, queued) ==
  [phase |-> "spawned", worker |-> w, attempt |-> 0, queued |-> queued]

Resumed(t, w) == [t EXCEPT !.phase = "running", !.worker = w]
Backoff(t)    == [t EXCEPT !.phase = "backoff", !.worker = NoWorker]

\* Mutant of Retrying: the attempt is not counted.
RetryingUncounted(t) == [t EXCEPT !.phase = "checkout"]

Retrying(t) == [t EXCEPT !.phase = "checkout", !.attempt = t.attempt + 1]

----------------------------------------------------------------------------
(* Clients.                                                                *)

\* Pool.execute/3: a GenServer.call into the pool's mailbox.
Call(r) ==
  /\ client[r] = "idle"
  /\ client' = [client EXCEPT ![r] = "live"]
  /\ Send(FromMsg("execute", r))
  /\ UNCHANGED <<admin, fleet, slots, waiting, tainted, sticky, task, replies, procs>>

\* The client process dies while it waits.
ClientDown(r) ==
  /\ "client_down" \in Faults
  /\ client[r] = "live" /\ replies[r] = 0
  /\ client' = [client EXCEPT ![r] = "down"]
  /\ UNCHANGED <<mailbox, admin, fleet, slots, waiting, tainted, sticky, task, replies, procs>>

\* Pool.execute_stream/4: check a worker out, run on it in the caller's own
\* process, check it in.
StreamCall(s) ==
  /\ task[s] = Idle
  /\ task' = [task EXCEPT ![s].phase = "checkout"]
  /\ Send(FromMsg("checkout", s))
  /\ UNCHANGED <<admin, fleet, slots, waiting, tainted, sticky, clients, procs>>

StreamEnd(s) ==
  /\ task[s].phase = "running"
  /\ task' = [task EXCEPT ![s] = Finished]
  /\ Send(WorkerMsg("checkin", task[s].worker))
  /\ UNCHANGED <<admin, fleet, slots, waiting, tainted, sticky, clients, procs>>

\* The streaming process is killed, or its checkout call times out: its
\* `after' block does not run, its checkout message stays in the mailbox.
StreamKilled(s) ==
  /\ "stream_killed" \in Faults
  /\ task[s].phase \in {"checkout", "running"}
  /\ task' = [task EXCEPT ![s] = Finished]
  /\ UNCHANGED <<mailbox, admin, fleet, slots, waiting, tainted, sticky, clients, procs>>

----------------------------------------------------------------------------
(* Pool callbacks: Dispatcher.execute/7.                                   *)

\* Mutant of TimersLeft: compaction cancels the timers of the whole queue.
TimersAllCancelled(kept) == timers \ {e.from : e \in queue}

\* The queue is compacted before the checkout; the timers of the dropped
\* entries are cancelled whatever becomes of the compacted queue.
TimersLeft(kept) == timers \ Dropped(kept)

RejectUninitialized(r) ==
  /\ Receive(FromMsg("execute", r))
  /\ ~initialized
  /\ Consume
  /\ Reply(r)
  /\ UNCHANGED <<admin, fleet, slots, waiting, tainted, sticky, task, client, procs>>

\* A worker was checked out: a task will run the call on it.
Dispatch(r) ==
  /\ Receive(FromMsg("execute", r))
  /\ initialized
  /\ \E c \in Checkout(r), kept \in Kept :
       /\ c.status = "ok"
       /\ IncrementLoad(c.worker)
       /\ StoreAffinity(SessionOf[r], c.worker)
       /\ task' = [task EXCEPT ![r] = Spawn(c.worker, FALSE)]
       /\ queue' = Compacted(kept)
       /\ cancelled' = kept \ Dropped(kept)
       /\ timers' = TimersLeft(kept)
  /\ CacheLookup(SessionOf[r])
  /\ Consume
  /\ UNCHANGED <<admin, fleet, clock, tainted, stored, clients, procs>>

\* Scheduler.handle_no_workers_available/8 with room in the queue.
Enqueue(r) ==
  /\ Receive(FromMsg("execute", r))
  /\ initialized
  /\ \E c \in Checkout(r), kept \in Kept :
       /\ c.status \in {"no_workers", "affinity_busy"}
       /\ Cardinality(Compacted(kept)) < MaxQueue
       /\ queue' = Compacted(kept) \cup {[from |-> r, affinity |-> c.worker, at |-> clock]}
       /\ cancelled' = kept \ Dropped(kept)
       /\ timers' = TimersLeft(kept) \cup {r}
  /\ clock' = clock + 1
  /\ CacheLookup(SessionOf[r])
  /\ Consume
  /\ UNCHANGED <<admin, fleet, slots, tainted, stored, storing, task, clients, procs>>

Saturate(r) ==
  /\ Receive(FromMsg("execute", r))
  /\ initialized
  /\ \E c \in Checkout(r), kept \in Kept :
       /\ c.status \in {"no_workers", "affinity_busy"}
       /\ Cardinality(Compacted(kept)) >= MaxQueue
       /\ queue' = Compacted(kept)
       /\ cancelled' = kept \ Dropped(kept)
       /\ timers' = TimersLeft(kept)
  /\ Reply(r)
  /\ CacheLookup(SessionOf[r])
  /\ Consume
  /\ UNCHANGED <<admin, fleet, slots, clock, tainted, stored, storing, task, client, procs>>

\* A strict affinity mode refuses the call: the reply carries the state of
\* before the compaction.
RefuseSticky(r) ==
  /\ Receive(FromMsg("execute", r))
  /\ initialized
  /\ \E c \in Checkout(r), kept \in Kept :
       /\ c.status \in {"worker_busy", "session_worker_unavailable"}
       /\ timers' = TimersLeft(kept)
  /\ Reply(r)
  /\ CacheLookup(SessionOf[r])
  /\ Consume
  /\ UNCHANGED <<admin, fleet, slots, queue, clock, cancelled, tainted, stored,
                 storing, task, client, procs>>

HandleExecute(r) ==
  \/ RejectUninitialized(r) \/ Dispatch(r) \/ Enqueue(r) \/ Saturate(r) \/ RefuseSticky(r)

----------------------------------------------------------------------------
(* Pool callbacks: {:checkout_worker, ...}, called by a streaming client   *)
(* or by a task that retries.                                              *)

\* The caller takes the reply if it still waits for it.
GrantCheckout(c) ==
  /\ Receive(FromMsg("checkout", c))
  /\ \E a \in Checkout(c) :
       /\ a.status = "ok"
       /\ IncrementLoad(a.worker)
       /\ StoreAffinity(SessionOf[c], a.worker)
       /\ task' = IF task[c].phase = "checkout"
                  THEN [task EXCEPT ![c] = Resumed(@, a.worker)]
                  ELSE task
  /\ CacheLookup(SessionOf[c])
  /\ Consume
  /\ UNCHANGED <<admin, fleet, waiting, tainted, stored, clients, procs>>

\* A refused retry answers its client with the crash it was retrying.
RefuseCheckout(c) ==
  /\ Receive(FromMsg("checkout", c))
  /\ \E a \in Checkout(c) : a.status # "ok"
  /\ IF task[c].phase = "checkout"
     THEN /\ task' = [task EXCEPT ![c] = Finished]
          /\ IF c \in Requests THEN ReplyIfAlive(c) ELSE UNCHANGED replies
     ELSE UNCHANGED <<task, replies>>
  /\ CacheLookup(SessionOf[c])
  /\ Consume
  /\ UNCHANGED <<admin, fleet, slots, waiting, tainted, stored, storing, client, procs>>

----------------------------------------------------------------------------
(* Pool callbacks: EventHandler.handle_checkin/5.                          *)

First(entries) == CHOOSE e \in entries : \A f \in entries : e.at <= f.at

Compatible(w) == {e \in queue : e.affinity \in {NoWorker, w}}

\* select_queue_worker/2: a tainted worker hands the queue to another one.
QueueWorkers(w, av) == IF w \in tainted THEN av \ tainted ELSE {w}

\* No worker may take a request, or none is compatible with it.
LeaveQueue(w, ld, av, kept) ==
  /\ \/ QueueWorkers(w, av) = {}
     \/ \E q \in QueueWorkers(w, av) : Compatible(q) = {}
  /\ load' = ld
  /\ available' = av
  /\ cancelled' = kept
  /\ Consume
  /\ UNCHANGED <<queue, timers, task>>

\* handle_cancelled_request/1: skip the entry and drive the queue again.
SkipCancelled(e, q, ld, av, kept) ==
  /\ e.from \in kept
  /\ load' = ld
  /\ available' = av
  /\ cancelled' = kept \ {e.from}
  /\ mailbox' = Append(Tail(mailbox), WorkerMsg("skip", q))
  /\ UNCHANGED task

\* handle_valid_request/1: q takes one more call, free slot or not.
RunQueued(e, q, ld, av, kept) ==
  /\ e.from \notin kept
  /\ load' = [ld EXCEPT ![q] = @ + 1]
  /\ available' = Refresh(av, q, ld[q] + 1)
  /\ cancelled' = kept
  /\ task' = [task EXCEPT ![e.from] = Spawn(q, TRUE)]
  /\ Consume

PopQueue(q, ld, av, kept) ==
  \E e \in queue :
    /\ Compatible(q) # {} /\ e = First(Compatible(q))
    /\ queue' = queue \ {e}
    /\ timers' = timers \ {e.from}
    /\ SkipCancelled(e, q, ld, av, kept) \/ RunQueued(e, q, ld, av, kept)

\* process_next_queued_request/6, after a first part of the callback has
\* left the loads `ld' and the available workers `av'.
ServeQueue(w, ld, av) ==
  \E kept \in Kept :
    \/ LeaveQueue(w, ld, av, kept)
    \/ \E q \in QueueWorkers(w, av) : PopQueue(q, ld, av, kept)

\* Mutants of Decremented: a checkin frees the whole worker, or nothing.
ResetLoad(w) == 0
SameLoad(w)  == load[w]

Decremented(w) == IF load[w] = 0 THEN 0 ELSE load[w] - 1

\* Mutant of Checkin: the queue is not served.
CheckinOnly(w) ==
  /\ Receive(WorkerMsg("checkin", w))
  /\ load' = [load EXCEPT ![w] = Decremented(w)]
  /\ available' = Refresh(available, w, Decremented(w))
  /\ Consume
  /\ UNCHANGED <<admin, fleet, waiting, tainted, sticky, task, clients, procs>>

\* {:checkin_worker, pool, worker}
Checkin(w) ==
  /\ Receive(WorkerMsg("checkin", w))
  /\ ServeQueue(w, [load EXCEPT ![w] = Decremented(w)], Refresh(available, w, Decremented(w)))
  /\ UNCHANGED <<admin, fleet, clock, tainted, sticky, clients, procs>>

\* {:checkin_worker, pool, worker, :skip_decrement}
DriveQueue(w) ==
  /\ Receive(WorkerMsg("skip", w))
  /\ ServeQueue(w, load, available)
  /\ UNCHANGED <<admin, fleet, clock, tainted, sticky, clients, procs>>

----------------------------------------------------------------------------
(* Pool callbacks: queue timeouts, worker readiness, initialization.       *)

\* EventHandler.handle_queue_timeout/3
QueueTimeout(r) ==
  /\ Receive(FromMsg("queue_timeout", r))
  /\ IF \E e \in queue : e.from = r
     THEN /\ queue' = Without(r)
          /\ timers' = timers \ {r}
          /\ Reply(r)
          /\ \E kept \in Kept : cancelled' = kept \cup {r}
     ELSE UNCHANGED <<queue, timers, replies, cancelled>>
  /\ Consume
  /\ UNCHANGED <<admin, fleet, slots, clock, tainted, sticky, task, client, procs>>

\* mark_worker_ready/2
WorkerReady(w) ==
  /\ Receive(WorkerMsg("ready", w))
  /\ workers' = workers \cup {w}
  /\ ready' = ready \cup {w}
  /\ available' = IF load[w] < Capacity THEN available \cup {w} ELSE available \ {w}
  /\ initialized' = TRUE
  /\ mailbox' = Append(Tail(mailbox), WorkerMsg("skip", w))
  /\ UNCHANGED <<init, load, waiting, tainted, sticky, task, clients, procs>>

\* {ref, {:pool_init_complete, pools}}: merge_pool_state/2
MergeInit ==
  /\ Receive(InitComplete)
  /\ init' = "merged"
  /\ initialized' = TRUE
  /\ workers' = Workers \cup workers
  /\ ready' = ready \cap workers'
  /\ available' = available \cap ready'
  /\ Consume
  /\ UNCHANGED <<load, waiting, tainted, sticky, task, clients, procs>>

----------------------------------------------------------------------------
(* The tasks that run the calls.                                           *)

\* Mutant of TaskAbort: the worker is not checked in.
TaskAbortOnly(r) ==
  /\ task[r].phase = "spawned" /\ client[r] = "down"
  /\ task' = [task EXCEPT ![r] = Finished]
  /\ UNCHANGED <<mailbox, admin, fleet, slots, waiting, tainted, sticky, clients, procs>>

\* The client died before the task looked: the worker goes back unused.
TaskAbort(r) ==
  /\ task[r].phase = "spawned" /\ client[r] = "down"
  /\ task' = [task EXCEPT ![r] = Finished]
  /\ Send(WorkerMsg("checkin", task[r].worker))
  /\ UNCHANGED <<admin, fleet, slots, waiting, tainted, sticky, clients, procs>>

TaskStart(r) ==
  /\ task[r].phase = "spawned" /\ client[r] = "live"
  /\ task' = [task EXCEPT ![r].phase = "running"]
  /\ UNCHANGED <<mailbox, admin, fleet, slots, waiting, tainted, sticky, clients, procs>>

\* The worker answered, failed, timed out or was not found: anything the
\* crash barrier does not classify.
TaskResult(r) ==
  /\ task[r].phase = "running"
  /\ task' = [task EXCEPT ![r] = Finished]
  /\ ReplyIfAlive(r)
  /\ Send(WorkerMsg("checkin", task[r].worker))
  /\ UNCHANGED <<admin, fleet, slots, waiting, tainted, sticky, client, procs>>

\* CrashBarrier.retry_allowed?/3
RetryAllowed(r) ==
  /\ task[r].attempt < MaxRetries
  /\ RetryPolicy = "always" \/ (RetryPolicy = "idempotent" /\ r \in Idempotent)

\* Mutant of TaskCrash: the client is told of the crash that is retried.
TaskCrashReplies(r) ==
  /\ "crash" \in Faults
  /\ task[r].phase = "running"
  /\ tainted' = tainted \cup {task[r].worker}
  /\ task' = [task EXCEPT ![r] = IF RetryAllowed(r) THEN Backoff(@) ELSE Finished]
  /\ ReplyIfAlive(r)
  /\ UNCHANGED <<mailbox, admin, fleet, slots, waiting, sticky, client, procs>>

\* attempt_with_retry/8: the worker is tainted and never checked in.
TaskCrash(r) ==
  /\ "crash" \in Faults
  /\ task[r].phase = "running"
  /\ tainted' = tainted \cup {task[r].worker}
  /\ IF RetryAllowed(r)
     THEN /\ task' = [task EXCEPT ![r] = Backoff(@)]
          /\ UNCHANGED replies
     ELSE /\ task' = [task EXCEPT ![r] = Finished]
          /\ ReplyIfAlive(r)
  /\ UNCHANGED <<mailbox, admin, fleet, slots, waiting, sticky, client, procs>>

\* checkout_worker_for_retry/4.  A task that serves a queued request calls
\* the pool process.  A task spawned by the dispatcher was given its own pid
\* as the pool's: the call to itself exits, and the task dies unanswered.
TaskRetry(r) ==
  /\ task[r].phase = "backoff"
  /\ IF task[r].queued
     THEN /\ task' = [task EXCEPT ![r] = Retrying(@)]
          /\ Send(FromMsg("checkout", r))
     ELSE /\ task' = [task EXCEPT ![r] = Finished]
          /\ UNCHANGED mailbox
  /\ UNCHANGED <<admin, fleet, slots, waiting, tainted, sticky, clients, procs>>

\* The checkout call of a retry times out: the task exits.
TaskTimeout(r) ==
  /\ "checkout_timeout" \in Faults
  /\ task[r].phase = "checkout"
  /\ task' = [task EXCEPT ![r] = Finished]
  /\ UNCHANGED <<mailbox, admin, fleet, slots, waiting, tainted, sticky, clients, procs>>

\* SessionStore.store_worker_session/2, in its own task.
TaskStore(s, w) ==
  /\ <<s, w>> \in storing
  /\ storing' = storing \ {<<s, w>>}
  /\ stored' = [stored EXCEPT ![s] = w]
  /\ UNCHANGED <<mailbox, admin, fleet, slots, waiting, tainted, cache, task, clients, procs>>

----------------------------------------------------------------------------
(* Timers and workers.                                                     *)

TimerFires(r) ==
  /\ r \in timers
  /\ timers' = timers \ {r}
  /\ Send(FromMsg("queue_timeout", r))
  /\ UNCHANGED <<admin, fleet, slots, queue, clock, cancelled, tainted, sticky, task,
                 clients, procs>>

TaintExpires(w) ==
  /\ "taint_expires" \in Faults
  /\ w \in tainted
  /\ tainted' = tainted \ {w}
  /\ UNCHANGED <<mailbox, admin, fleet, slots, waiting, sticky, task, clients, procs>>

\* The cache entry outlives affinity_cache_ttl_seconds.
CacheExpires(s) ==
  /\ "cache_expires" \in Faults
  /\ cache[s] # NoWorker
  /\ cache' = [cache EXCEPT ![s] = NoWorker]
  /\ UNCHANGED <<mailbox, admin, fleet, slots, waiting, tainted, stored, storing, task,
                 clients, procs>>

\* The initialization task has started the workers.
InitReport ==
  /\ init = "running"
  /\ init' = "reported"
  /\ Send(InitComplete)
  /\ UNCHANGED <<initialized, fleet, slots, waiting, tainted, sticky, task, clients, procs>>

\* The worker process is connected and calls {:worker_ready, id}.
WorkerReports(w) ==
  /\ life[w] = "booting"
  /\ life' = [life EXCEPT ![w] = "reported"]
  /\ Send(WorkerMsg("ready", w))
  /\ UNCHANGED <<admin, fleet, slots, waiting, tainted, sticky, task, clients, boots>>

\* The process dies and its Worker.Starter starts the next one.
WorkerRestart(w) ==
  /\ "worker_restart" \in Faults
  /\ life[w] # "gone" /\ boots[w] < MaxBoots
  /\ life' = [life EXCEPT ![w] = "booting"]
  /\ boots' = [boots EXCEPT ![w] = @ + 1]
  /\ UNCHANGED <<mailbox, admin, fleet, slots, waiting, tainted, sticky, task, clients>>

\* Its Worker.Starter gives up (max_restarts), or the worker is recycled.
WorkerGone(w) ==
  /\ "worker_gone" \in Faults
  /\ life[w] # "gone"
  /\ life' = [life EXCEPT ![w] = "gone"]
  /\ UNCHANGED <<mailbox, admin, fleet, slots, waiting, tainted, sticky, task, clients, boots>>

----------------------------------------------------------------------------
(* The specification.                                                      *)

PoolStep ==
  \/ \E r \in Requests : HandleExecute(r) \/ QueueTimeout(r)
  \/ \E c \in Callers : GrantCheckout(c) \/ RefuseCheckout(c)
  \/ \E w \in Workers : Checkin(w) \/ DriveQueue(w) \/ WorkerReady(w)
  \/ MergeInit

TaskStep(r) ==
  TaskAbort(r) \/ TaskStart(r) \/ TaskResult(r) \/ TaskCrash(r) \/ TaskRetry(r) \/ TaskTimeout(r)

WorkerStep(w) == WorkerReports(w) \/ WorkerRestart(w) \/ WorkerGone(w)

\* Nothing is left to happen: every call was made and every process rests.
Quiescent ==
  /\ mailbox = <<>> /\ init = "merged" /\ timers = {} /\ storing = {}
  /\ \A r \in Requests : client[r] # "idle"
  /\ \A c \in Callers : task[c].phase \in {"none", "done"}
  /\ \A s \in Streams : task[s].phase = "done"
  /\ \A w \in Workers : life[w] # "booting"
  /\ UNCHANGED vars

Next ==
  \/ PoolStep
  \/ \E r \in Requests : Call(r) \/ ClientDown(r) \/ TaskStep(r) \/ TimerFires(r)
  \/ \E s \in Streams : StreamCall(s) \/ StreamEnd(s) \/ StreamKilled(s)
  \/ \E s \in Sessions : CacheExpires(s) \/ \E w \in Workers : TaskStore(s, w)
  \/ \E w \in Workers : WorkerStep(w) \/ TaintExpires(w)
  \/ InitReport
  \/ Quiescent

Spec == Init /\ [][Next]_vars

\* The scheduler runs every runnable process, a call on a worker ends (its
\* gRPC deadline), a timer fires, a worker that boots reports.
Fairness ==
  /\ WF_vars(PoolStep)
  /\ \A r \in Requests : WF_vars(TaskStep(r)) /\ WF_vars(TimerFires(r))
  /\ \A s \in Streams : WF_vars(StreamEnd(s))
  /\ \A s \in Sessions, w \in Workers : WF_vars(TaskStore(s, w))
  /\ \A w \in Workers : WF_vars(WorkerReports(w))
  /\ WF_vars(InitReport)

FairSpec == Spec /\ Fairness

----------------------------------------------------------------------------
(* Properties.                                                             *)

Active(c) == task[c].phase \in {"spawned", "running"}

\* The variables have the types their declarations give them, and a task that
\* runs a call has a worker to run it on.
TypeOK ==
  /\ mailbox \in Seq(Message)
  /\ init \in {"running", "reported", "merged"} /\ initialized \in BOOLEAN
  /\ workers \subseteq Workers /\ ready \subseteq Workers /\ available \subseteq Workers
  /\ load \in [Workers -> Nat]
  /\ queue \subseteq Entry /\ clock \in Nat
  /\ timers \subseteq Requests /\ cancelled \subseteq Requests
  /\ tainted \subseteq Workers
  /\ cache \in [Sessions -> Workers \cup {NoWorker}]
  /\ stored \in [Sessions -> Workers \cup {NoWorker}]
  /\ storing \subseteq Sessions \X Workers
  /\ task \in [Callers -> Task]
  /\ \A c \in Callers : Active(c) => task[c].worker \in Workers
  /\ client \in [Requests -> {"idle", "live", "down"}]
  /\ replies \in [Requests -> Nat]
  /\ life \in [Workers -> {"booting", "reported", "gone"}]
  /\ boots \in [Workers -> Nat]

\* A worker the pool offers to the next call has reported ready, is in the
\* pool's list and has a free slot, across checkouts, checkins, readiness
\* reports of restarted workers and the merge that ends the initialization
\* (State.ensure_worker_available/2, increment_worker_load/2,
\* decrement_worker_load/2, merge_pool_state/2).
AvailableIsFree ==
  \A w \in available : w \in ready \cap workers /\ load[w] < Capacity

Holders(w)    == {c \in Callers : Active(c) /\ task[c].worker = w}
Pending(m)    == {i \in DOMAIN mailbox : mailbox[i] = m}

\* The load the pool records for a worker covers every task that holds it
\* and every checkin under way: the pool never believes a worker freer than
\* it is, whichever of checkout, queue pop, retry and stream took it.
LoadCoversWork ==
  \A w \in Workers :
    load[w] >= Cardinality(Holders(w)) + Cardinality(Pending(WorkerMsg("checkin", w)))

\* No request is replied to twice: not by its queue timeout and the task
\* that a checkin started for it, nor by a retry and its first attempt.
AnsweredOnce == \A r \in Requests : replies[r] <= 1

Asked(r)  == {i \in DOMAIN mailbox : mailbox[i] = FromMsg("execute", r)}
Queued(r) == {e \in queue : e.from = r}

InOneStage(r) ==
  /\ \A i, j \in Asked(r) : i = j
  /\ \A e, f \in Queued(r) : e = f
  /\ Asked(r) # {} => Queued(r) = {} /\ task[r].phase = "none"
  /\ Queued(r) # {} => task[r].phase = "none"
  /\ replies[r] # 0 => /\ Asked(r) = {} /\ Queued(r) = {}
                       /\ task[r].phase \in {"none", "done"}
  /\ client[r] = "idle" => /\ Asked(r) = {} /\ Queued(r) = {} /\ replies[r] = 0
                           /\ task[r].phase = "none"
  /\ replies[r] <= 1

\* A call is in one stage at a time: asked (its message waits), queued, run
\* by its task, answered; each at most once.  This is why nothing is answered
\* twice: the step that replies ends every other stage.
OneStage == \A r \in Requests : InOneStage(r)

Places(r) ==
  Cardinality(Asked(r))
    + Cardinality(Queued(r))
    + (IF task[r].phase \in {"spawned", "running", "backoff", "checkout"} THEN 1 ELSE 0)

\* A live client that waits for its reply is held in exactly one place: the
\* mailbox, the queue or a task.  Compaction, timeouts, pops and refusals
\* never drop it silently and never duplicate it.
NeverLost ==
  \A r \in Requests : client[r] = "live" /\ replies[r] = 0 => Places(r) = 1

\* A queued request of a live client cannot wait forever: its queue timer is
\* armed or the timeout message is on its way, although compaction cancels
\* timers of entries that a refused call then keeps in the queue.
QueuedWillTimeOut ==
  \A e \in queue :
    client[e.from] = "live" =>
      e.from \in timers \/ Pending(FromMsg("queue_timeout", e.from)) # {}

\* A cancelled request is never in the queue, so the branch of the checkin
\* that skips one (handle_cancelled_request/1) is never taken.
CancelledLeftQueue == \A e \in queue : e.from \notin cancelled

\* Every call of a living client is somewhere, and one that is queued will hear of
\* its timeout.
CallsAccounted == TypeOK /\ NeverLost /\ QueuedWillTimeOut

\* Work waits only for workers: while a request that a worker could run is
\* queued, a worker that runs nothing and is on offer has a message on its way
\* that will drive the queue.  (A worker that runs a call and has more slots
\* may stay so: each event starts one queued call at most.)
WorkConserving ==
  \A w \in available :
    load[w] = 0 /\ Compatible(w) # {} => Pending(WorkerMsg("skip", w)) # {}

\* The drives of w's queue under way, and those its readiness reports will bring.
DrivesDue(w) ==
  Cardinality(Pending(WorkerMsg("skip", w))) + Cardinality(Pending(WorkerMsg("ready", w)))
    + (IF life[w] = "booting" THEN 1 ELSE 0)

\* A drive gives its worker a call although checkouts handled since it was sent
\* may have filled it.  Nothing else goes beyond the slots, and each life of a
\* worker brings one drive: that is all the calls a worker can hold too many.
OverfilledOncePerLife ==
  \A w \in Workers : load[w] + DrivesDue(w) <= Capacity + boots[w]

AtRest == mailbox = <<>> /\ \A c \in Callers : task[c].phase \in {"none", "done"}

\* When no call is running or under way, every worker is free again: no path
\* (reply, dead client, queue pop, stream) forgets its checkin.
AllReturned == AtRest => \A w \in Workers : load[w] = 0

\* Nothing outlives the calls: neither a cancelled entry nor a slot taken.
NothingLeftOver == CancelledLeftQueue /\ AllReturned

\* How far the pool has come with the call of request r.
Stage(r) ==
  CASE replies[r] # 0 -> "answered"
    [] replies[r] = 0 /\ client[r] = "idle" -> "new"
    [] replies[r] = 0 /\ Asked(r) # {} -> "asked"
    [] replies[r] = 0 /\ Queued(r) # {} -> "queued"
    [] replies[r] = 0 /\ Active(r) -> "running"
    [] replies[r] = 0 /\ task[r].phase = "backoff" -> "crashed"
    [] replies[r] = 0 /\ task[r].phase = "checkout" -> "retrying"
    [] OTHER -> "gone"

\* How often the crash barrier would run the call of request r again.
RetriesOf(r) ==
  IF RetryPolicy = "always" \/ (RetryPolicy = "idempotent" /\ r \in Idempotent)
  THEN MaxRetries ELSE 0

Client == INSTANCE ClientCalls WITH
            Calls <- Requests,
            Limit <- [r \in Requests |-> RetriesOf(r)],
            stage <- [r \in Requests |-> Stage(r)],
            tries <- [r \in Requests |-> task[r].attempt],
            alive <- {r \in Requests : client[r] = "live"}

\* The pool serves its clients as ClientCalls describes: whatever the order of
\* timeouts, pops, compactions, crashes, retries and deaths, a call goes
\* through its stages forward only, and leaves them for one of the reasons
\* given there.
ServesClients == Client!Service

\* Every client that waits is eventually answered, unless it dies.
EveryCallAnswered ==
  \A r \in Requests :
    client[r] = "live" ~> replies[r] > 0 \/ client[r] = "down"

=============================================================================

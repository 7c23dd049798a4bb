------------------------------ MODULE Lifecycle ------------------------------
(***************************************************************************)
(* Snakepit.Worker.LifecycleManager: the process that tracks the workers   *)
(* and recycles those that are due, the tasks in which it stops a worker   *)
(* and starts its replacement, and the WorkerSupervisor with one           *)
(* Worker.Starter and one worker process per worker id.                    *)
(*                                                                         *)
(* A worker process is named by its pid <<id, boot>>: a worker that its    *)
(* starter restarted has the same id and another boot.  An id is used      *)
(* again once nothing mentions it, which stands for the unique integer of  *)
(* a new id.  A monitor that is left behind when a worker is tracked twice *)
(* is not modelled: its :DOWN finds no worker with that pid.               *)
(***************************************************************************)
EXTENDS Naturals, Sequences, FiniteSets, Selections

CONSTANTS
  Ids,          \* worker ids
  Initial,      \* the ids of the workers the pool was configured with
  Boots,        \* bound: incarnations of an id that are mentioned at one time
  MaxRequests,  \* worker_max_requests
  Jobs,         \* bound: recycle jobs at one time, numbered from 1
  MaxMail,      \* bound: messages waiting when another comes from outside
  Faults,       \* the kinds of fault that may happen
  MaxFaults,    \* bound: how many happen in a behaviour
  None

ASSUME LifecycleAssumption ==
  /\ IsFiniteSet(Ids) /\ Initial \subseteq Ids
  /\ Boots \subseteq Nat /\ 1 \in Boots
  /\ MaxRequests \in Nat \ {0}
  /\ Jobs \subseteq Nat \ {0} /\ IsFiniteSet(Jobs)
  /\ MaxMail \in Nat /\ MaxFaults \in Nat
  /\ Faults \subseteq {"timeout", "start_fails", "tasks_killed", "stop", "crash", "exit"}
  /\ None \notin Ids

VARIABLES
  manager,        \* "up", or how it ended: "stopped" by its terminate/2, which
                  \* kills its tasks, or "killed" without it
  workers,        \* what the manager tracks of each id, or None
  mailbox,        \* messages of the manager, oldest first
  check_timer,    \* the timer of :lifecycle_check is armed
  lifecycle_task, \* the check that runs: the ids it has recycled, or None
  jobs,           \* do_recycle_worker/1 in a task, or a request left behind
  starter,        \* is there a Worker.Starter with this id
  child,          \* the worker process: "none", "booting", "up"
  boot,           \* which incarnation it is
  faults,         \* how many faults have happened
  cut,            \* history: a recycle ended between its stop and its start
  stale           \* history: a recycle found its worker gone

fleet == <<starter, child, boot>>
history == <<faults, cut, stale>>
vars  == <<manager, workers, mailbox, check_timer, lifecycle_task, jobs, fleet, history>>

Pid     == Ids \X Boots
Tracked == [boot : Boots, request_count : 0..MaxRequests]
Message ==
  [type : {"lifecycle_check", "check_down"}]
    \cup [type : {"check_complete"}, ids : SUBSET Ids]
    \cup [type : {"track", "DOWN"}, pid : Pid]
    \cup [type : {"increment_requests", "recycle_worker"}, id : Ids]
Job == [by : {"check", "recycle", "nobody"}, pid : Pid, new : Pid,
        stage : {"lookup", "terminating", "starting", "resolve", "track"}]

ASSUME NoneAssumption ==
  (\A ids \in SUBSET Ids : ids # None) /\ None \notin Tracked /\ None \notin Job

\* A manager that has just tracked the workers of a started pool.
Init ==
  /\ manager = "up" /\ mailbox = <<>>
  /\ check_timer = TRUE /\ lifecycle_task = None
  /\ workers = [i \in Ids |-> IF i \in Initial THEN [boot |-> 1, request_count |-> 0]
                                               ELSE None]
  /\ jobs = [k \in Jobs |-> None]
  /\ starter = [i \in Ids |-> i \in Initial]
  /\ child = [i \in Ids |-> IF i \in Initial THEN "up" ELSE "none"]
  /\ boot = [i \in Ids |-> 1]
  /\ faults = 0 /\ cut = FALSE /\ stale = FALSE

----------------------------------------------------------------------------
(* Helpers.                                                                *)

Plain(t)     == [type |-> t]
PidMsg(t, p) == [type |-> t, pid |-> p]
IdMsg(t, i)  == [type |-> t, id |-> i]

Receive(m)  == manager = "up" /\ mailbox # <<>> /\ Head(mailbox) = m
Room        == Len(mailbox) < MaxMail

Fault(kind) ==
  kind \in Faults /\ faults < MaxFaults /\ faults' = faults + 1

\* A message to a manager that has stopped is lost.
Delivered(queue, m) == IF manager = "up" THEN Append(queue, m) ELSE queue

Alive(p)     == child[p[1]] # "none" /\ boot[p[1]] = p[2]
TrackedIds   == {i \in Ids : workers[i] # None}
PidOf(i)     == <<i, workers[i].boot>>
IsTracked(p) == workers[p[1]] # None /\ workers[p[1]].boot = p[2]

Running == {k \in Jobs : jobs[k] # None}
Free    == Jobs \ Running
Checking == {k \in Running : jobs[k].by = "check"}

Named(p) ==
  \/ IsTracked(p)
  \/ \E k \in Running : p \in {jobs[k].pid, jobs[k].new}
  \/ \E n \in 1..Len(mailbox) : "pid" \in DOMAIN mailbox[n] /\ mailbox[n].pid = p

\* An id that nothing mentions.
Fresh(i) ==
  /\ ~starter[i] /\ workers[i] = None
  /\ \A b \in Boots : ~Named(<<i, b>>)
  /\ \A n \in 1..Len(mailbox) :
       /\ "id" \in DOMAIN mailbox[n] => mailbox[n].id # i
       /\ "ids" \in DOMAIN mailbox[n] => i \notin mailbox[n].ids
  /\ lifecycle_task # None => i \notin lifecycle_task

\* should_recycle_requests?/1
AtLimit(i) == workers[i].request_count >= MaxRequests

\* A task that begins do_recycle_worker/1.
NewJob(by, p) == [by |-> by, pid |-> p, stage |-> "lookup", new |-> p]

FirstFree == CHOOSE k \in Free : \A l \in Free : k <= l

\* pop_worker/2 and maybe_demonitor_worker/1: no :DOWN of the tracked pid is
\* left or will come.
Untracked(queue, ids) ==
  AtPlaces(queue, {n \in 1..Len(queue) :
    ~(queue[n].type = "DOWN" /\ queue[n].pid[1] \in ids /\ IsTracked(queue[n].pid))})

Untrack(ids) == workers' = [i \in Ids |-> IF i \in ids THEN None ELSE workers[i]]

----------------------------------------------------------------------------
(* The callbacks of the manager.                                           *)

\* Process.monitor/1: the :DOWN of a process that is gone comes at once.
Monitor(queue, p) == IF Alive(p) THEN queue ELSE Append(queue, PidMsg("DOWN", p))

\* handle_cast({:track, ...}): the entry of that id is replaced.
Track(p) ==
  /\ Receive(PidMsg("track", p))
  /\ workers' = [workers EXCEPT ![p[1]] = [boot |-> p[2], request_count |-> 0]]
  /\ mailbox' = Monitor(Tail(mailbox), p)
  /\ UNCHANGED <<manager, check_timer, lifecycle_task, jobs, fleet, history>>

\* Mutant of Limit: a worker may serve one request more.
LimitLate(n) == n > MaxRequests

Limit(n) == n >= MaxRequests

\* request_count is only compared with its limit.
Count(n) == IF n > MaxRequests THEN MaxRequests ELSE n

\* handle_cast({:increment_requests, id})
IncrementRequests(i) ==
  /\ Receive(IdMsg("increment_requests", i))
  /\ IF workers[i] = None
     THEN mailbox' = Tail(mailbox) /\ UNCHANGED workers
     ELSE LET n == workers[i].request_count + 1 IN
          /\ workers' = [workers EXCEPT ![i].request_count = Count(n)]
          /\ mailbox' = IF Limit(n)
                        THEN Append(Tail(mailbox), IdMsg("recycle_worker", i))
                        ELSE Tail(mailbox)
  /\ UNCHANGED <<manager, check_timer, lifecycle_task, jobs, fleet, history>>

\* handle_cast({:recycle_worker, id, _}), and handle_call({:recycle, _, id}),
\* which does the same: a tracked worker is forgotten and recycled in a task.
RecycleWorker(i) ==
  /\ Receive(IdMsg("recycle_worker", i))
  /\ IF workers[i] = None
     THEN mailbox' = Tail(mailbox) /\ UNCHANGED <<workers, jobs>>
     ELSE /\ Free # {}
          /\ mailbox' = Untracked(Tail(mailbox), {i})
          /\ Untrack({i})
          /\ jobs' = [jobs EXCEPT ![FirstFree] = NewJob("recycle", PidOf(i))]
  /\ UNCHANGED <<manager, check_timer, lifecycle_task, fleet, history>>

\* Numbers of the jobs of the workers that are due, in some order.
Assigned(due) ==
  {f \in [due -> Free] : \A i, j \in due : f[i] = f[j] => i = j}

\* handle_info(:lifecycle_check): a check of a copy of what is tracked.  The
\* workers over their limit are due, any other may have outlived its TTL or
\* grown beyond its memory.
LifecycleCheck ==
  /\ Receive(Plain("lifecycle_check"))
  /\ mailbox' = Tail(mailbox)
  /\ IF lifecycle_task # None
     THEN UNCHANGED <<lifecycle_task, jobs>>
     ELSE /\ lifecycle_task' = {}
          /\ \E due \in SUBSET TrackedIds :
               /\ {i \in TrackedIds : AtLimit(i)} \subseteq due
               /\ Assigned(due) # {}
               /\ LET f == CHOOSE g \in Assigned(due) : TRUE IN
                  jobs' = [k \in Jobs |-> IF \E i \in due : f[i] = k
                                          THEN NewJob("check", PidOf(CHOOSE i \in due : f[i] = k))
                                          ELSE jobs[k]]
  /\ UNCHANGED <<manager, workers, check_timer, fleet, history>>

\* schedule_lifecycle_check/0
Schedule == check_timer' = TRUE

\* handle_info({ref, {:lifecycle_check_complete, recycled}})
CheckComplete(ids) ==
  /\ Receive([type |-> "check_complete", ids |-> ids])
  /\ mailbox' = Untracked(Tail(mailbox), ids)
  /\ Untrack(ids)
  /\ lifecycle_task' = None
  /\ Schedule
  /\ UNCHANGED <<manager, jobs, fleet, history>>

\* handle_info({:DOWN, ref, ...}) of the check, which was killed.
CheckDown ==
  /\ Receive(Plain("check_down"))
  /\ mailbox' = Tail(mailbox)
  /\ lifecycle_task' = None
  /\ Schedule
  /\ UNCHANGED <<manager, workers, jobs, fleet, history>>

\* handle_worker_down_by_pid/3
WorkerDown(p) ==
  /\ Receive(PidMsg("DOWN", p))
  /\ mailbox' = Tail(mailbox)
  /\ IF IsTracked(p) THEN Untrack({p[1]}) ELSE UNCHANGED workers
  /\ UNCHANGED <<manager, check_timer, lifecycle_task, jobs, fleet, history>>

----------------------------------------------------------------------------
(* The tasks: do_recycle_worker/1 and what it asks of WorkerSupervisor.    *)

\* The task ends; a check collects the ids its jobs report, whatever they did.
\* (Nobody waits for the check of a manager that has ended.)
Finish(k) ==
  /\ jobs' = [jobs EXCEPT ![k] = None]
  /\ lifecycle_task' = IF jobs[k].by = "check" /\ manager = "up"
                       THEN lifecycle_task \cup {jobs[k].pid[1]}
                       ELSE lifecycle_task

Goto(k, stage) ==
  jobs' = [jobs EXCEPT ![k].stage = stage] /\ UNCHANGED lifecycle_task

AtStage(k, stage) == k \in Running /\ jobs[k].stage = stage
Task(k, stage)    == AtStage(k, stage) /\ jobs[k].by # "nobody"

\* Mutant of StopWorker: the replacement is started without a stop.
StopWorkerNot(k) ==
  /\ Task(k, "lookup")
  /\ Goto(k, "starting") /\ UNCHANGED stale
  /\ UNCHANGED <<manager, workers, mailbox, check_timer, fleet, faults, cut>>

\* profile_module.stop_worker(pid) looks the pid up: a worker that is not
\* found counts as stopped.
StopWorker(k) ==
  /\ Task(k, "lookup")
  /\ IF Alive(jobs[k].pid)
     THEN Goto(k, "terminating") /\ UNCHANGED stale
     ELSE Goto(k, "starting") /\ stale' = TRUE
  /\ UNCHANGED <<manager, workers, mailbox, check_timer, fleet, faults, cut>>

\* The process p ends.
Down(p) == mailbox' = IF IsTracked(p) THEN Delivered(mailbox, PidMsg("DOWN", p)) ELSE mailbox

\* Mutant of NotFound: an error of the supervisor counts as a stop.
NotFoundGoesOn(k) == Goto(k, "starting")

\* terminate_child answers {:error, :not_found}: no replacement is started.
NotFound(k) ==
  IF jobs[k].by = "nobody" THEN jobs' = [jobs EXCEPT ![k] = None] /\ UNCHANGED lifecycle_task
                           ELSE Finish(k)

\* DynamicSupervisor.terminate_child(starter), whether or not the task that
\* asked for it still waits: the starter and whatever worker it has end.
TerminateChild(k) ==
  /\ AtStage(k, "terminating")
  /\ LET i == jobs[k].pid[1] IN
     IF starter[i]
     THEN /\ starter' = [starter EXCEPT ![i] = FALSE]
          /\ child' = [child EXCEPT ![i] = "none"]
          /\ IF child[i] = "none" THEN UNCHANGED mailbox ELSE Down(<<i, boot[i]>>)
          /\ IF jobs[k].by = "nobody"
             THEN /\ jobs' = [jobs EXCEPT ![k] = None]
                  /\ cut' = TRUE /\ UNCHANGED lifecycle_task
             ELSE Goto(k, "starting") /\ UNCHANGED cut
     ELSE /\ NotFound(k)
          /\ UNCHANGED <<starter, child, mailbox, cut>>
  /\ UNCHANGED <<manager, workers, check_timer, boot, faults, stale>>

\* DynamicSupervisor.start_child: the worker's init runs inside.
StartChild(k) ==
  /\ AtStage(k, "starting")
  /\ \E i \in Ids :
       /\ Fresh(i)
       /\ starter' = [starter EXCEPT ![i] = TRUE]
       /\ child' = [child EXCEPT ![i] = "booting"]
       /\ boot' = [boot EXCEPT ![i] = 1]
       /\ jobs' = [jobs EXCEPT ![k] =
                     IF jobs[k].by = "nobody" THEN None
                     ELSE [jobs[k] EXCEPT !.stage = "resolve", !.new = <<i, 1>>]]
  /\ UNCHANGED <<manager, workers, mailbox, check_timer, lifecycle_task, history>>

\* start_child fails (also when the bound leaves no id).
StartFails(k) ==
  /\ AtStage(k, "starting")
  /\ IF \E i \in Ids : Fresh(i) THEN Fault("start_fails") ELSE UNCHANGED faults
  /\ NotFound(k)
  /\ cut' = TRUE
  /\ UNCHANGED <<manager, workers, mailbox, check_timer, fleet, stale>>

\* resolve_worker_pid/2: the pid the starter has now; {:error, _} when it has
\* none.
ResolvePid(k) ==
  /\ Task(k, "resolve")
  /\ LET i == jobs[k].new[1] IN
     IF child[i] # "none"
     THEN /\ jobs' = [jobs EXCEPT ![k].stage = "track", ![k].new = <<i, boot[i]>>]
          /\ UNCHANGED lifecycle_task
     ELSE Finish(k)
  /\ UNCHANGED <<manager, workers, mailbox, check_timer, fleet, history>>

\* track_worker/4, and the task ends.
TrackReplacement(k) ==
  /\ Task(k, "track")
  /\ mailbox' = Delivered(mailbox, PidMsg("track", jobs[k].new))
  /\ Finish(k)
  /\ UNCHANGED <<manager, workers, check_timer, fleet, history>>

\* What is left of a job whose task is killed: a request to the supervisor is
\* served all the same.
Killed(j) ==
  IF j # None /\ j.stage \in {"terminating", "starting"} THEN [j EXCEPT !.by = "nobody"]
  ELSE None

\* A job of a check exceeds lifecycle_worker_action_timeout_ms and is killed
\* (on_timeout: :kill_task); its worker is not reported as recycled.
ActionTimeout(k) ==
  /\ Fault("timeout") /\ UNCHANGED <<cut, stale>>
  /\ k \in Checking
  /\ jobs' = [jobs EXCEPT ![k] = Killed(jobs[k])]
  /\ UNCHANGED <<manager, workers, mailbox, check_timer, lifecycle_task, fleet>>

\* Every job of the check has ended: its task sends the result.
Reported == \E n \in 1..Len(mailbox) : mailbox[n].type \in {"check_complete", "check_down"}

CheckEnds ==
  /\ manager = "up" /\ lifecycle_task # None /\ ~Reported /\ Checking = {}
  /\ mailbox' = Append(mailbox, [type |-> "check_complete", ids |-> lifecycle_task])
  /\ UNCHANGED <<manager, workers, check_timer, lifecycle_task, jobs, fleet, history>>

EndTasks == jobs' = [k \in Jobs |-> Killed(jobs[k])]

\* The TaskSupervisor is restarted: all the tasks end.
TasksKilled ==
  /\ Fault("tasks_killed") /\ UNCHANGED <<cut, stale>>
  /\ Running # {} \/ lifecycle_task # None
  /\ EndTasks
  /\ mailbox' = IF lifecycle_task # None /\ ~Reported
                THEN Append(mailbox, Plain("check_down"))
                ELSE mailbox
  /\ UNCHANGED <<manager, workers, check_timer, lifecycle_task, fleet>>

\* The manager ends and what it knew is gone.  Its tasks are not linked to it.
\* (It happens once, so that it is not counted among the faults.)
Ended(how) ==
  /\ manager = "up" /\ "stop" \in Faults
  /\ manager' = how
  /\ mailbox' = <<>> /\ check_timer' = FALSE /\ lifecycle_task' = None
  /\ Untrack(Ids)
  /\ UNCHANGED <<jobs, fleet, history>>

\* A callback raises, or the manager is asked to stop: terminate/2 sends each
\* of its tasks an exit signal.
Terminate == Ended("stopped")

\* Its supervisor shuts it down, or it is killed: it does not trap exits, so
\* that terminate/2 does not run, and its tasks run on.
KilledManager == Ended("killed")

\* The exit signal reaches a task, which may have gone on in the meantime.
SignalArrives(k) ==
  /\ manager = "stopped" /\ k \in Running /\ jobs[k].by # "nobody"
  /\ jobs' = [jobs EXCEPT ![k] = Killed(jobs[k])]
  /\ UNCHANGED <<manager, workers, mailbox, check_timer, lifecycle_task, fleet, history>>

----------------------------------------------------------------------------
(* Timers, workers and callers.                                            *)

TimerFires ==
  /\ manager = "up" /\ check_timer
  /\ check_timer' = FALSE
  /\ mailbox' = Append(mailbox, Plain("lifecycle_check"))
  /\ UNCHANGED <<manager, workers, lifecycle_task, jobs, fleet, history>>

\* complete_worker_initialization/3 of the worker with this id.
Ready(i) ==
  /\ child[i] = "booting"
  /\ child' = [child EXCEPT ![i] = "up"]
  /\ mailbox' = Delivered(mailbox, PidMsg("track", <<i, boot[i]>>))
  /\ UNCHANGED <<manager, workers, check_timer, lifecycle_task, jobs, starter, boot,
                 history>>

\* The worker ends abnormally and its starter (restart: :transient) starts it
\* again.
Crash(i) ==
  /\ child[i] # "none" /\ Fault("crash") /\ UNCHANGED <<cut, stale>>
  /\ \E b \in Boots : /\ b # boot[i] /\ ~Named(<<i, b>>)
                      /\ boot' = [boot EXCEPT ![i] = b]
  /\ child' = [child EXCEPT ![i] = "booting"]
  /\ Down(<<i, boot[i]>>)
  /\ UNCHANGED <<manager, workers, check_timer, lifecycle_task, jobs, starter>>

\* The worker ends with :normal or :shutdown: its starter stays without it.
Exit(i) ==
  /\ child[i] # "none" /\ Fault("exit") /\ UNCHANGED <<cut, stale>>
  /\ child' = [child EXCEPT ![i] = "none"]
  /\ Down(<<i, boot[i]>>)
  /\ UNCHANGED <<manager, workers, check_timer, lifecycle_task, jobs, starter, boot>>

\* The pool counts a call of the worker that succeeded.
Served(i) ==
  /\ manager = "up" /\ child[i] = "up" /\ Room
  /\ mailbox' = Append(mailbox, IdMsg("increment_requests", i))
  /\ UNCHANGED <<manager, workers, check_timer, lifecycle_task, jobs, fleet, history>>

\* An operator calls recycle_worker/2.
AskRecycle(i) ==
  /\ manager = "up" /\ workers[i] # None /\ Room
  /\ mailbox' = Append(mailbox, IdMsg("recycle_worker", i))
  /\ UNCHANGED <<manager, workers, check_timer, lifecycle_task, jobs, fleet, history>>

----------------------------------------------------------------------------
Handle ==
  \/ \E p \in Pid : Track(p) \/ WorkerDown(p)
  \/ \E i \in Ids : IncrementRequests(i) \/ RecycleWorker(i)
  \/ LifecycleCheck
  \/ \E ids \in SUBSET Ids : CheckComplete(ids)
  \/ CheckDown

Step(k) ==
  \/ StopWorker(k)
  \/ TerminateChild(k)
  \/ StartChild(k)
  \/ StartFails(k)
  \/ ResolvePid(k)
  \/ TrackReplacement(k)

Next ==
  \/ Handle
  \/ \E k \in Jobs : Step(k) \/ ActionTimeout(k) \/ SignalArrives(k)
  \/ CheckEnds
  \/ TasksKilled
  \/ Terminate
  \/ KilledManager
  \/ TimerFires
  \/ \E i \in Ids : Ready(i) \/ Crash(i) \/ Exit(i) \/ Served(i) \/ AskRecycle(i)

Spec == Init /\ [][Next]_vars

----------------------------------------------------------------------------
(* Properties.                                                             *)

\* Values of the variables.
TypeOK ==
  /\ manager \in {"up", "stopped", "killed"}
  /\ workers \in [Ids -> Tracked \cup {None}]
  /\ mailbox \in Seq(Message)
  /\ check_timer \in BOOLEAN
  /\ lifecycle_task \in (SUBSET Ids) \cup {None}
  /\ jobs \in [Jobs -> Job \cup {None}]
  /\ starter \in [Ids -> BOOLEAN]
  /\ child \in [Ids -> {"none", "booting", "up"}] /\ boot \in [Ids -> Boots]
  /\ faults \in 0..MaxFaults /\ cut \in BOOLEAN /\ stale \in BOOLEAN

\* A worker that died is tracked no longer than it takes its :DOWN to be
\* handled, also when it died before its track message was handled.
DeadLeaveTracking ==
  \A i \in TrackedIds :
    manager = "up" /\ ~Alive(PidOf(i))
      => \E n \in 1..Len(mailbox) : mailbox[n] = PidMsg("DOWN", PidOf(i))

\* A replacement is only asked for once the process it replaces is dead, in
\* whatever order tasks, restarts and stops of that worker come, and also by a
\* task that outlives the manager.
StoppedBeforeReplaced ==
  \A k \in Running :
    jobs[k].stage \in {"starting", "resolve", "track"} => ~Alive(jobs[k].pid)

\* A tracked worker that reached its limit of requests has a recycle on the way.
DueIsRecycled ==
  \A i \in TrackedIds :
    manager = "up" /\ AtLimit(i)
      => \E n \in 1..Len(mailbox) : mailbox[n] = IdMsg("recycle_worker", i)

Starters == {i \in Ids : starter[i]}
Owed     == {k \in Running : jobs[k].stage = "starting"}

\* Recycling keeps the size of the pool, counting the replacements that tasks
\* have yet to start, those that outlive the manager included: it shrinks only
\* by a recycle that ended after its stop, and grows only by one that found its
\* worker gone.
SizeAccounted ==
  LET size == Cardinality(Starters) + Cardinality(Owed) IN
  /\ ~cut => size >= Cardinality(Initial)
  /\ ~stale => size <= Cardinality(Initial)

\* The checks go on, whatever becomes of the task of one of them: the timer is
\* armed, or a check runs, or a message that leads to either is on its way.
CheckOnItsWay ==
  manager = "up" => \/ check_timer
                    \/ lifecycle_task # None
                    \/ \E n \in 1..Len(mailbox) : mailbox[n].type = "lifecycle_check"

\* The manager's books and the pool agree: the size of the pool is accounted for,
\* the dead leave the table, and a check that looks at the rest is on its way.
PoolAccounted == TypeOK /\ DeadLeaveTracking /\ SizeAccounted /\ CheckOnItsWay
=============================================================================

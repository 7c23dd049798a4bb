--------------------------- MODULE ProcessRegistry ---------------------------
(***************************************************************************)
(* Snakepit.Pool.ProcessRegistry with the workers that register at it, the *)
(* Python processes they start, the cleanups that kill orphans, and the    *)
(* ends of the application, orderly and not.                               *)
(*                                                                         *)
(* A run id is a number: each start of the registry takes the next one.    *)
(* It is on the command line of each Python process (cmd; 0 for a program  *)
(* that is not a worker of this instance).  A process that was sent a      *)
(* signal is doomed: alive to process_alive?/1 for a while, then dead.     *)
(***************************************************************************)
EXTENDS Naturals

CONSTANTS
  WorkerIds,  \* worker ids; they are the same in each BEAM
  Pids,       \* OS process ids, which are used again
  NoPid,
  MaxRuns,    \* bound: how often the registry starts
  Attempts,   \* unregister_cleanup_attempts
  Scans,      \* the values of :rogue_cleanup, enabled
  Mishaps     \* the kinds of fault that may happen

ASSUME RegistryAssumption ==
  /\ NoPid \notin Pids
  /\ MaxRuns \in Nat /\ Attempts \in Nat \ {0}
  /\ Scans \subseteq BOOLEAN
  /\ Mishaps \subseteq 
       {"beam_crash", "registry_crash", "worker_killed", "init_fails", "task_dies", "stop_cut"}

VARIABLES
  app,       \* "up", "stopping", or how it ended: "stopped", "cut", "crashed"
  registry,  \* "off", "starting" (its startup cleanup runs) or "up"
  run,       \* beam_run_id
  beam,      \* the first run id since the application started
  scan,      \* :rogue_cleanup, enabled
  ets, dets, \* the two tables
  disk,      \* what :dets.sync or its auto_save wrote last
  casts,     \* the workers whose :unregister waits in the mailbox
  retries,   \* the timers of {:unregister_retry, id, pid, attempts_left}
  cleanup,   \* how far the cleanup has come that runs, and the entries it found
  phase,     \* each worker: "none", in its init, "up", or "gone" for good
  named,     \* the run id it was given for its process
  process_pid, \* the OS process of its state
  proc,      \* each OS process: "none", "alive" or "doomed"
  cmd,       \* the run id on its command line
  known      \* history: processes on record on disk when the BEAM started

tables  == <<ets, dets>>
timers  == <<casts, retries>>
control == <<app, registry, run, beam, scan, known>>
actors   == <<phase, named, process_pid>>
system  == <<proc, cmd>>
regVars == <<control, tables, disk, timers, cleanup, actors, system>>

----------------------------------------------------------------------------
(* Entries and processes.                                                  *)

Entry == [status : {"none", "reserved", "active"}, run : Nat, pid : Pids \cup {NoPid}]

NoEntry        == [status |-> "none", run |-> 0, pid |-> NoPid]
Reservation    == [status |-> "reserved", run |-> run, pid |-> NoPid]
Activation(w)  == [status |-> "active", run |-> run, pid |-> process_pid[w]]
NoEntries      == [w \in WorkerIds |-> NoEntry]

\* ProcessKiller.process_alive?/1, also true of a process that took the pid over.
ProcessAlive(p) == p \in Pids /\ proc[p] # "none"

\* kill_with_escalation/2: SIGTERM, and SIGKILL to those that do not react.
Kill(S) == proc' = [p \in Pids |-> IF p \in S /\ proc[p] = "alive" THEN "doomed" ELSE proc[p]]

\* Mutant of Matches: the pid of an entry is trusted.
MatchesPid(e, p) ==
  \/ e.status = "reserved" /\ cmd[p] = e.run
  \/ e.status = "active" /\ p = e.pid

\* The processes a cleanup kills for entry e: those with the run id of e, and
\* for an active entry only the one it names.  The check of the command line
\* finds out that a pid was used again.
Matches(e, p) ==
  \/ e.status = "reserved" /\ cmd[p] = e.run
  \/ e.status = "active" /\ p = e.pid /\ cmd[p] = e.run

Found(entries) == {p \in Pids : \E w \in WorkerIds : Matches(entries[w], p)}

Drop(table, S) == [w \in WorkerIds |-> IF w \in S THEN NoEntry ELSE table[w]]

InitRegistry ==
  /\ app = "stopped" /\ registry = "off"
  /\ run = 0 /\ beam = 0 /\ scan \in Scans
  /\ ets = NoEntries /\ dets = NoEntries /\ disk = NoEntries
  /\ casts = {} /\ retries = {}
  /\ cleanup = [stage |-> "none", seen |-> NoEntries]
  /\ phase = [w \in WorkerIds |-> "none"]
  /\ named = [w \in WorkerIds |-> 0]
  /\ process_pid = [w \in WorkerIds |-> NoPid]
  /\ proc = [p \in Pids |-> "none"] /\ cmd = [p \in Pids |-> 0]
  /\ known = {}

----------------------------------------------------------------------------
(* The registry and its application.                                       *)

\* init/1 of a registry: a new run id, an empty ETS table, the DETS file.  Its
\* startup cleanup runs before the first message.
FreshRegistry(entries) ==
  /\ run' = run + 1
  /\ registry' = "starting"
  /\ ets' = NoEntries /\ dets' = entries /\ disk' = entries
  /\ casts' = {} /\ retries' = {}
  /\ cleanup' = [stage |-> "read", seen |-> NoEntries]

StartApplication ==
  /\ registry = "off" /\ run < MaxRuns
  /\ FreshRegistry(disk)
  /\ app' = "up" /\ beam' = run + 1
  /\ known' = Found(disk)
  /\ UNCHANGED <<scan, actors, system>>

\* An exception in the registry: terminate/2 ends its task and closes DETS, and
\* the supervisor (one_for_one) starts it again beside the workers.
RegistryRestarts ==
  /\ "registry_crash" \in Mishaps /\ registry # "off" /\ run < MaxRuns
  /\ FreshRegistry(dets)
  /\ UNCHANGED <<app, beam, scan, known, actors, system>>

\* What is left of the Elixir side when its BEAM has ended.
BeamEnds(how, entries) ==
  /\ app' = how /\ registry' = "off"
  /\ ets' = NoEntries /\ dets' = entries /\ disk' = entries
  /\ casts' = {} /\ retries' = {}
  /\ cleanup' = [stage |-> "none", seen |-> NoEntries]
  /\ phase' = [w \in WorkerIds |-> "none"]
  /\ named' = [w \in WorkerIds |-> 0]
  /\ process_pid' = [w \in WorkerIds |-> NoPid]
  /\ UNCHANGED <<run, beam, scan, known, cmd>>

BeamCrashes ==
  /\ "beam_crash" \in Mishaps /\ app \in {"up", "stopping"}
  /\ BeamEnds("crashed", disk)
  /\ UNCHANGED proc

BeginStop ==
  /\ app = "up"
  /\ app' = "stopping"
  /\ UNCHANGED <<registry, run, beam, scan, known>>
  /\ UNCHANGED <<tables, disk, timers, cleanup, actors, system>>

\* Mutant of Orphans: only what the registry has on record.
OrphansOnRecord == {p \in Pids : cmd[p] = run /\ \E w \in WorkerIds : ets[w].pid = p}

\* ApplicationCleanup.find_orphaned_processes/5: of this run, and no worker lives.
Orphans == {p \in Pids : cmd[p] = run}

\* The workers have ended; ApplicationCleanup kills what they left one by one,
\* as long as its time lasts, and the registry writes its table.
EndStop ==
  /\ app = "stopping" /\ registry = "up"
  /\ \A w \in WorkerIds : phase[w] \in {"none", "gone"}
  /\ \/ Kill(Orphans) /\ BeamEnds("stopped", dets)
     \/ /\ "stop_cut" \in Mishaps
        /\ \E S \in SUBSET Orphans : S # Orphans /\ Kill(S)
        /\ BeamEnds("cut", dets)

\* flush_dets/1, or the auto_save of DETS.
Sync ==
  /\ app \in {"up", "stopping"} /\ disk # dets
  /\ disk' = dets
  /\ UNCHANGED <<control, tables, timers, cleanup, actors, system>>

----------------------------------------------------------------------------
(* Orphan cleanup: cleanup_orphaned_processes/7, by the registry before it *)
(* serves anybody, later by a task beside it.                              *)

Proceed(stage, seen) == cleanup' = [stage |-> stage, seen |-> seen]

\* The timer of the extra passes, or manual_orphan_cleanup/0.
StartCleanup ==
  /\ registry = "up" /\ cleanup.stage = "none"
  /\ Proceed("read", NoEntries)
  /\ UNCHANGED <<control, tables, disk, timers, actors, system>>

\* find_stale_entries/3 and find_abandoned_reservations/2.  Of this run, only a
\* reservation whose init failed for good can be a minute old.
CleanupReads ==
  /\ cleanup.stage = "read"
  /\ \E old \in SUBSET {w \in WorkerIds : phase[w] = "gone" /\ dets[w].status = "reserved"} :
       Proceed("kill", Drop(dets, {w \in WorkerIds : dets[w].run = run /\ w \notin old}))
  /\ UNCHANGED <<control, tables, disk, timers, actors, system>>

CleanupKills ==
  /\ cleanup.stage = "kill"
  /\ Kill(Found(cleanup.seen))
  /\ Proceed("remove", cleanup.seen)
  /\ UNCHANGED <<control, tables, disk, timers, actors, cmd>>

\* remove_dets_entries/2, which syncs.
CleanupRemoves ==
  /\ cleanup.stage = "remove"
  /\ dets' = Drop(dets, {w \in WorkerIds : cleanup.seen[w] # NoEntry})
  /\ disk' = dets'
  /\ Proceed("scan", NoEntries)
  /\ UNCHANGED <<control, ets, timers, actors, system>>

\* find_rogue_processes/8: servers of this instance with another run id.
Rogues == {p \in Pids : cmd[p] \notin {0, run}}

\* cleanup_rogue_processes/5; then the startup cleanup is over, or the task.
CleanupScans ==
  /\ cleanup.stage = "scan"
  /\ Kill(IF scan THEN Rogues ELSE {})
  /\ Proceed("none", NoEntries)
  /\ registry' = "up"
  /\ UNCHANGED <<app, run, beam, scan, known, tables, disk, timers, actors, cmd>>

\* {:DOWN, ref, ...} of the task.
CleanupDies ==
  /\ "task_dies" \in Mishaps /\ registry = "up" /\ cleanup.stage # "none"
  /\ Proceed("none", NoEntries)
  /\ UNCHANGED <<control, tables, disk, timers, actors, system>>

----------------------------------------------------------------------------
(* A worker: GRPCWorker with its Bootstrap.                                *)

\* reserve_worker/1.  An :unregister of the same id was sent before.
Reserve(w) ==
  /\ app = "up" /\ registry = "up"
  /\ phase[w] = "none" /\ w \notin casts
  /\ phase' = [phase EXCEPT ![w] = "reserved"]
  /\ dets' = [dets EXCEPT ![w] = Reservation]
  /\ UNCHANGED <<control, ets, disk, timers, cleanup, named, process_pid, system>>

\* get_beam_run_id/0, for the command line.
NameRun(w) ==
  /\ registry = "up" /\ phase[w] = "reserved"
  /\ phase' = [phase EXCEPT ![w] = "named"]
  /\ named' = [named EXCEPT ![w] = run]
  /\ UNCHANGED <<control, tables, disk, timers, cleanup, process_pid, system>>

\* A pid is not used again before the worker that had it has heard of its exit.
Unused(p) == proc[p] = "none" /\ \A w \in WorkerIds : process_pid[w] # p

Spawn(w, p) ==
  /\ phase[w] = "named" /\ Unused(p)
  /\ phase' = [phase EXCEPT ![w] = "spawned"]
  /\ process_pid' = [process_pid EXCEPT ![w] = p]
  /\ proc' = [proc EXCEPT ![p] = "alive"]
  /\ cmd' = [cmd EXCEPT ![p] = named[w]]
  /\ UNCHANGED <<control, tables, disk, timers, cleanup, named>>

\* activate_worker/5 writes both tables.
Activate(w) ==
  /\ registry = "up" /\ phase[w] = "spawned"
  /\ phase' = [phase EXCEPT ![w] = "up"]
  /\ ets' = [ets EXCEPT ![w] = Activation(w)]
  /\ dets' = [dets EXCEPT ![w] = Activation(w)]
  /\ UNCHANGED <<control, disk, timers, cleanup, named, process_pid, system>>

\* The Elixir process of w is no more.
Leave(w, to) ==
  /\ phase' = [phase EXCEPT ![w] = to]
  /\ named' = [named EXCEPT ![w] = 0]
  /\ process_pid' = [process_pid EXCEPT ![w] = NoPid]

\* init fails, without terminate/2; its supervisor tries again at once or never.
InitFails(w) ==
  /\ "init_fails" \in Mishaps /\ phase[w] \in {"reserved", "named", "spawned"}
  /\ \E to \in {"none", "gone"} : Leave(w, to)
  /\ UNCHANGED <<control, tables, disk, timers, cleanup, system>>

\* terminate/2 kills the process and unregisters.
TerminateWorker(w) ==
  /\ phase[w] = "up"
  /\ Leave(w, "none")
  /\ Kill({process_pid[w]})
  /\ casts' = casts \cup {w}
  /\ UNCHANGED <<control, tables, disk, retries, cleanup, cmd>>

\* Its supervisor kills the worker, whose process stays.
WorkerKilled(w) ==
  /\ "worker_killed" \in Mishaps /\ phase[w] \notin {"none", "gone"}
  /\ Leave(w, "none")
  /\ UNCHANGED <<control, tables, disk, timers, cleanup, system>>

----------------------------------------------------------------------------
(* Entries that leave the tables.                                          *)

ElixirAlive(w) == phase[w] = "up" /\ process_pid[w] = ets[w].pid

Forget(S) ==
  /\ ets' = Drop(ets, S)
  /\ dets' = Drop(dets, S)

\* mark_terminating/1 writes the entry of ETS into both tables.
Keep(S) ==
  /\ dets' = [w \in WorkerIds |-> IF w \in S THEN ets[w] ELSE dets[w]]
  /\ UNCHANGED ets

\* handle_cast({:unregister, _}): an entry outlives its process.
Unregister(w) ==
  /\ registry = "up" /\ w \in casts
  /\ casts' = casts \ {w}
  /\ IF ProcessAlive(ets[w].pid)
     THEN /\ Keep({w})
          /\ retries' = retries \cup {<<w, ets[w].pid, Attempts>>}
     ELSE /\ Forget({w})
          /\ UNCHANGED retries
  /\ UNCHANGED <<control, disk, cleanup, actors, system>>

\* Mutant of UnregisterRetry: the entry is not compared.
UnregisterRetryAny(w, p, n) ==
  /\ registry = "up" /\ <<w, p, n>> \in retries
  /\ retries' = (retries \ {<<w, p, n>>}) \cup
       (IF ProcessAlive(p) /\ n > 1 THEN {<<w, p, n - 1>>} ELSE {})
  /\ IF ~ProcessAlive(p) THEN Forget({w}) ELSE UNCHANGED tables
  /\ UNCHANGED <<control, disk, casts, cleanup, actors, system>>

\* handle_info({:unregister_retry, ...}): the entry may be another one by now.
UnregisterRetry(w, p, n) ==
  /\ registry = "up" /\ <<w, p, n>> \in retries
  /\ retries' = (retries \ {<<w, p, n>>}) \cup
       (IF ets[w].pid = p /\ ProcessAlive(p) /\ n > 1 THEN {<<w, p, n - 1>>} ELSE {})
  /\ IF ets[w].pid = p /\ ~ProcessAlive(p) THEN Forget({w}) ELSE UNCHANGED tables
  /\ UNCHANGED <<control, disk, casts, cleanup, actors, system>>

\* do_cleanup_dead_workers/1, every 30 seconds or when asked.
CleanupDeadWorkers ==
  LET dead == {w \in WorkerIds : ets[w] # NoEntry /\ ~ElixirAlive(w)}
      left == {w \in dead : ProcessAlive(ets[w].pid)}
  IN /\ registry = "up" /\ dead # {}
     /\ ets' = Drop(ets, dead \ left)
     /\ dets' = [w \in WorkerIds |-> IF w \in left THEN ets[w]
                                     ELSE IF w \in dead THEN NoEntry ELSE dets[w]]
     /\ UNCHANGED <<control, disk, timers, cleanup, actors, system>>

----------------------------------------------------------------------------
(* The operating system.                                                   *)

ProcessEnds(p) ==
  /\ proc[p] # "none"
  /\ proc' = [proc EXCEPT ![p] = "none"]
  /\ cmd' = [cmd EXCEPT ![p] = 0]
  /\ UNCHANGED <<control, tables, disk, timers, cleanup, actors>>

\* Another program gets the pid.
ProgramStarts(p) ==
  /\ Unused(p)
  /\ proc' = [proc EXCEPT ![p] = "alive"]
  /\ UNCHANGED <<control, tables, disk, timers, cleanup, actors, cmd>>

RegistryNext ==
  \/ StartApplication \/ RegistryRestarts \/ BeamCrashes \/ BeginStop \/ EndStop \/ Sync
  \/ StartCleanup \/ CleanupReads \/ CleanupKills
  \/ CleanupRemoves \/ CleanupScans \/ CleanupDies
  \/ \E w \in WorkerIds :
       \/ Reserve(w) \/ NameRun(w) \/ Activate(w) \/ InitFails(w)
       \/ TerminateWorker(w) \/ WorkerKilled(w) \/ Unregister(w)
       \/ \E p \in Pids : Spawn(w, p) \/ \E n \in 1..Attempts : UnregisterRetry(w, p, n)
  \/ CleanupDeadWorkers
  \/ \E p \in Pids : ProcessEnds(p) \/ ProgramStarts(p)

RegistrySpec == InitRegistry /\ [][RegistryNext]_regVars

----------------------------------------------------------------------------
(* Properties.                                                             *)

RegistryTypes ==
  /\ app \in {"up", "stopping", "stopped", "cut", "crashed"}
  /\ registry \in {"off", "starting", "up"}
  /\ registry = "off" <=> app \notin {"up", "stopping"}
  /\ run \in Nat /\ beam \in 0..run /\ scan \in BOOLEAN /\ known \subseteq Pids
  /\ ets \in [WorkerIds -> Entry] /\ dets \in [WorkerIds -> Entry]
  /\ disk \in [WorkerIds -> Entry]
  /\ casts \subseteq WorkerIds /\ retries \subseteq WorkerIds \X Pids \X (1..Attempts)
  /\ cleanup \in [stage : {"none", "read", "kill", "remove", "scan"},
                  seen : [WorkerIds -> Entry]]
  /\ cleanup.stage # "none" => registry # "off"
  /\ phase \in [WorkerIds -> {"none", "reserved", "named", "spawned", "up", "gone"}]
  /\ named \in [WorkerIds -> 0..run] /\ process_pid \in [WorkerIds -> Pids \cup {NoPid}]
  /\ proc \in [Pids -> {"none", "alive", "doomed"}] /\ cmd \in [Pids -> 0..run]

\* "On application restart, orphaned processes from previous runs are killed":
\* once the registry serves, no process of an earlier BEAM lives that the scan
\* could see or that was on record when the application started, wherever BEAM
\* or registry crashed before.  And after an orderly stop no process of the last
\* run does (ApplicationCleanup, cleanup_orphaned_processes/7).
OrphansGone ==
  \A p \in Pids : proc[p] = "alive" /\ cmd[p] # 0 =>
    /\ registry = "up" /\ cmd[p] < beam => ~scan /\ p \notin known
    /\ app = "stopped" => cmd[p] # run

\* A worker that was started under this registry and whose process lives is on
\* record in both tables, also while retries, cleanups and reports of an earlier
\* worker with its id, or of an earlier process with its pid, are under way.
RunningRecorded ==
  /\ RegistryTypes
  /\ registry = "up" =>
       \A w \in WorkerIds :
         phase[w] = "up" /\ named[w] = run /\ ProcessAlive(process_pid[w]) =>
           ets[w] = Activation(w) /\ dets[w] = Activation(w)

\* No cleanup kills another program, nor the process of a worker of this run, unless
\* a reservation of this run was taken for abandoned.
WorkersSpared ==
  \A p \in Pids : proc[p] = "alive" /\ proc'[p] = "doomed" =>
    /\ cmd[p] # 0
    /\ \/ \A w \in WorkerIds : named[w] = run => process_pid[w] # p
       \/ \E w \in WorkerIds : cleanup.seen[w] = Reservation

CleanupSparesWorkers == [][CleanupKills \/ CleanupScans => WorkersSpared]_regVars
=============================================================================

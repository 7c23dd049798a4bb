--------------------------- MODULE ThreadedAdapter ---------------------------
(***************************************************************************)
(* One ThreadSafeAdapter shared by several threads: the request tracker,   *)
(* the adapter's lock, the statistics and the history it protects, the     *)
(* cache of each thread (base_adapter_threaded.py and its showcase,        *)
(* adapters/threaded_showcase.py), and the checker that wraps the calls    *)
(* (thread_safety_checker.py).                                             *)
(*                                                                         *)
(* Each thread runs a function decorated with check_thread_safe that calls *)
(* adapter.execute_tool, as the guides do with a thread pool.  execute_tool*)
(* and the tool it dispatches to are both wrapped by thread_safe_method.   *)
(* A step is what a thread does between two points where another thread    *)
(* can see or change the shared state; RequestTracker and the checker hold *)
(* their own lock for one step only, so their operations are atomic.       *)
(*                                                                         *)
(* All compute calls carry the same data, so a cache holds one key.        *)
(***************************************************************************)
EXTENDS Naturals, FiniteSets

CONSTANTS
  Threads,
  NoThread,
  MaxCalls,      \* bound: calls of all threads
  MaxSwitches    \* bound: calls of enable_checking, disable_checking and reset

ASSUME Assumptions ==
  /\ IsFiniteSet(Threads) /\ NoThread \notin Threads
  /\ MaxCalls \in Nat /\ MaxSwitches \in Nat

VARIABLES
  pc,        \* where each thread is
  tool,      \* the tool it calls
  calls,     \* the calls made so far
  tracker,   \* RequestTracker
  lock,      \* the thread that holds adapter._lock
  stats,     \* global_stats
  history,   \* entries of request_history
  cached,    \* the threads whose compute_cache holds the key
  read,      \* what get_adapter_stats or get_history has read so far
  checker,   \* the global ThreadSafetyChecker
  timing,    \* the checker whose track_execution each thread is in, 0: none
  switches

vars == <<pc, tool, calls, tracker, lock, stats, history, cached, read,
          checker, timing, switches>>

\* "raises": the tool's body raises; "unknown": call_tool finds no such method;
\* "work": matrix_multiply and stress_test, which only update the statistics.
Tools == {"compute", "work", "batch", "get_adapter_stats", "get_history",
          "clear_caches", "raises", "unknown"}

Points == {"idle", "check", "execute", "dispatch", "body", "update", "count",
           "use", "log", "shown", "return", "leave"}

NothingRead == [copied |-> 0, entries |-> 0, shown |-> 0, answered |-> FALSE]

\* strict_mode is left out: a warning fails before it is looked at (Recorded).
ANewChecker(generation, on) ==
  [generation |-> generation, enabled |-> on,
   accessed |-> {}, issued |-> FALSE, refused |-> 0,
   calls |-> [t \in Threads |-> 0], known |-> {}]

Init ==
  /\ pc = [t \in Threads |-> "idle"]
  /\ tool = [t \in Threads |-> "clear_caches"]
  /\ calls = 0
  /\ tracker = [total |-> 0, byThread |-> [t \in Threads |-> 0],
                active |-> [t \in Threads |-> 0]]
  /\ lock = NoThread
  /\ stats = [total |-> 0, usage |-> [t \in Threads |-> 0], max |-> 0]
  /\ history = 0
  /\ cached = {}
  /\ read = [t \in Threads |-> NothingRead]
  /\ checker = ANewChecker(1, FALSE)
  /\ timing = [t \in Threads |-> 0]
  /\ switches = 0

-----------------------------------------------------------------------------
(* Helpers                                                                 *)

Goto(t, point) == pc' = [pc EXCEPT ![t] = point]

At(t, point) == pc[t] = point

\* The call of t is over and its locals are gone.
Ends(t) ==
  /\ Goto(t, "idle")
  /\ tool' = [tool EXCEPT ![t] = "clear_caches"]
  /\ read' = [read EXCEPT ![t] = NothingRead]

StartRequest(k, t) ==
  [k EXCEPT !.total = @ + 1, !.byThread[t] = @ + 1, !.active[t] = @ + 1]

\* Mutant of EndRequest: the count of the thread is cleared.
EndAllRequests(k, t) == [k EXCEPT !.active[t] = 0]

EndRequest(k, t) == [k EXCEPT !.active[t] = IF @ > 0 THEN @ - 1 ELSE 0]

\* The sum of the counts f of the threads: the number of things counted.
Units(f) == UNION {{t} \X (1..f[t]) : t \in DOMAIN f}

Total(f) == Cardinality(Units(f))

\* get_stats()["total_active_requests"]
Active(k) == Total(k.active)

\* Mutant of Recorded: the warning is tried again for every access.
RecordedEachTime(c, t) ==
  LET threads == c.accessed \cup {t}
      warns   == Cardinality(threads) > 1
  IN  [c EXCEPT !.accessed = threads,
                !.calls[t] = @ + 1,
                !.known    = @ \cup {t},
                !.issued   = @ \/ warns,
                !.refused  = IF warns THEN @ + 1 ELSE @]

\* What holding the checker's lock for one access changes.  The warning is noted
\* as issued, and then its message cannot be built: it asks the frame of the
\* caller for a filename, which a frame does not have, and the AttributeError
\* refuses the call, in strict mode or not, before any warning is given.
Recorded(c, t) ==
  LET threads == c.accessed \cup {t}
      warns   == Cardinality(threads) > 1 /\ ~c.issued
  IN  [c EXCEPT !.accessed = threads,
                !.calls[t] = @ + 1,
                !.known    = @ \cup {t},
                !.issued   = @ \/ warns,
                !.refused  = IF warns THEN @ + 1 ELSE @]

-----------------------------------------------------------------------------
(* check_thread_safe                                                       *)

Call(t, x) ==
  /\ At(t, "idle") /\ calls < MaxCalls
  /\ calls' = calls + 1
  /\ tool' = [tool EXCEPT ![t] = x]
  /\ Goto(t, "check")
  /\ UNCHANGED <<tracker, lock, stats, history, cached, read, checker, timing, switches>>

\* A refused call raises before the function and its timing start.
CheckMethodAccess(t) ==
  /\ At(t, "check")
  /\ checker' = IF checker.enabled THEN Recorded(checker, t) ELSE checker
  /\ IF checker'.refused > checker.refused THEN Ends(t)
     ELSE Goto(t, "execute") /\ UNCHANGED <<tool, read>>
  /\ UNCHANGED <<calls, tracker, lock, stats, history, cached,
                 timing, switches>>

Switch ==
  /\ switches < MaxSwitches
  /\ switches' = switches + 1
  /\ UNCHANGED <<pc, tool, calls, tracker, lock, stats, history, cached, read, timing>>

EnableChecking ==
  /\ Switch
  /\ checker' = ANewChecker(checker.generation + 1, TRUE)

DisableChecking ==
  /\ Switch
  /\ checker' = [checker EXCEPT !.enabled = FALSE]

Forgotten(c) == ANewChecker(c.generation, c.enabled)

Reset ==
  /\ Switch
  /\ checker' = Forgotten(checker)

-----------------------------------------------------------------------------
(* thread_safe_method around execute_tool, and around the tool             *)

\* track_execution reads the global again: it may be another checker by now.
ExecuteTool(t) ==
  /\ At(t, "execute")
  /\ timing' = [timing EXCEPT ![t] = IF checker.enabled THEN checker.generation ELSE 0]
  /\ tracker' = StartRequest(tracker, t)
  /\ Goto(t, "dispatch")
  /\ UNCHANGED <<tool, calls, lock, stats, history, cached, read, checker, switches>>

\* call_tool raises on an unknown name, inside the wrapper of execute_tool only.
CallTool(t) ==
  /\ At(t, "dispatch")
  /\ IF tool[t] = "unknown"
     THEN Goto(t, "leave") /\ UNCHANGED tracker
     ELSE Goto(t, "body") /\ tracker' = StartRequest(tracker, t)
  /\ UNCHANGED <<tool, calls, lock, stats, history, cached, read, checker,
                 timing, switches>>

\* The finally of a wrapper runs whether its function returned or raised.
LeaveTool(t) ==
  /\ At(t, "return")
  /\ tracker' = EndRequest(tracker, t)
  /\ Goto(t, "leave")
  /\ UNCHANGED <<tool, calls, lock, stats, history, cached, read, checker,
                 timing, switches>>

\* The time goes to the checker the tracking began with, replaced or not.
LeaveExecuteTool(t) ==
  /\ At(t, "leave")
  /\ tracker' = EndRequest(tracker, t)
  /\ checker' = IF timing[t] = checker.generation
                THEN [checker EXCEPT !.known = @ \cup {t}] ELSE checker
  /\ timing' = [timing EXCEPT ![t] = 0]
  /\ Ends(t)
  /\ UNCHANGED <<calls, lock, stats, history, cached, switches>>

-----------------------------------------------------------------------------
(* The tools of the showcase                                               *)

InTool(t, x) == At(t, "body") /\ tool[t] = x

\* Mutant of Acquires: the lock is not waited for.
AcquiresAnyway(t, point) ==
  /\ lock' = t
  /\ Goto(t, point)

Acquires(t, point) ==
  /\ lock = NoThread
  /\ lock' = t
  /\ Goto(t, point)

Releases(t, point) ==
  /\ lock' = NoThread
  /\ Goto(t, point)


\* A hit returns at once and leaves the statistics alone.
ComputeIntensive(t) ==
  /\ InTool(t, "compute")
  /\ Goto(t, IF t \in cached THEN "return" ELSE "update")
  /\ cached' = cached \cup {t}
  /\ UNCHANGED <<tool, calls, tracker, lock, stats, history, read, checker,
                 timing, switches>>

ClearCaches(t) ==
  /\ InTool(t, "clear_caches")
  /\ cached' = cached \ {t}
  /\ Goto(t, "return")
  /\ UNCHANGED <<tool, calls, tracker, lock, stats, history, read, checker,
                 timing, switches>>

ToolRaises(t) ==
  /\ InTool(t, "raises")
  /\ Goto(t, "return")
  /\ UNCHANGED <<tool, calls, tracker, lock, stats, history, cached, read,
                 checker, timing, switches>>

\* _update_global_stats: the writes of CountRequest and CountUsage under the lock.
UpdateGlobalStats(t) ==
  /\ At(t, "update") \/ InTool(t, "work")
  /\ Acquires(t, "count")
  /\ UNCHANGED <<tool, calls, tracker, stats, history, cached, read, checker,
                 timing, switches>>

BatchProcess(t) ==
  /\ InTool(t, "batch")
  /\ Acquires(t, "count")
  /\ UNCHANGED <<tool, calls, tracker, stats, history, cached, read, checker,
                 timing, switches>>

CountRequest(t) ==
  /\ At(t, "count")
  /\ stats' = [stats EXCEPT !.total = @ + 1]
  /\ Goto(t, IF tool[t] = "batch" THEN "log" ELSE "use")
  /\ UNCHANGED <<tool, calls, tracker, lock, history, cached, read, checker,
                 timing, switches>>

CountUsage(t) ==
  /\ At(t, "use")
  /\ stats' = [stats EXCEPT !.usage[t] = @ + 1,
                            !.max = IF Active(tracker) > @ THEN Active(tracker) ELSE @]
  /\ Releases(t, "return")
  /\ UNCHANGED <<tool, calls, tracker, history, cached, read, checker,
                 timing, switches>>

LogBatch(t) ==
  /\ At(t, "log")
  /\ history' = history + 1
  /\ Releases(t, "return")
  /\ UNCHANGED <<tool, calls, tracker, stats, cached, read, checker, timing, switches>>

\* get_adapter_stats and get_history copy while they hold the lock ...
CopyStats(t) ==
  /\ InTool(t, "get_adapter_stats") /\ lock = NoThread
  /\ read' = [read EXCEPT ![t].copied = stats.total, ![t].entries = history]
  /\ Goto(t, "shown")
  /\ UNCHANGED <<tool, calls, tracker, lock, stats, history, cached, checker,
                 timing, switches>>

CopyRecent(t) ==
  /\ InTool(t, "get_history") /\ lock = NoThread
  /\ read' = [read EXCEPT ![t].copied = history]
  /\ Goto(t, "shown")
  /\ UNCHANGED <<tool, calls, tracker, lock, stats, history, cached, checker,
                 timing, switches>>

\* ... and read once more without it: the copy of global_stats is shallow, its
\* thread_usage is the dictionary the other threads update; get_history reports
\* the length of the list itself.
Shown(t) ==
  IF tool[t] = "get_history" THEN history
  ELSE Total(stats.usage) + read[t].entries

AnswerReading(t) ==
  /\ At(t, "shown")
  /\ read' = [read EXCEPT ![t].shown = Shown(t), ![t].answered = TRUE]
  /\ Goto(t, "return")
  /\ UNCHANGED <<tool, calls, tracker, lock, stats, history, cached, checker,
                 timing, switches>>

-----------------------------------------------------------------------------
ThreadStep(t) ==
  \/ CheckMethodAccess(t) \/ ExecuteTool(t) \/ CallTool(t)
  \/ LeaveTool(t) \/ LeaveExecuteTool(t)
  \/ ComputeIntensive(t) \/ ClearCaches(t) \/ ToolRaises(t)
  \/ UpdateGlobalStats(t) \/ BatchProcess(t)
  \/ CountRequest(t) \/ CountUsage(t) \/ LogBatch(t)
  \/ CopyStats(t) \/ CopyRecent(t) \/ AnswerReading(t)

Next ==
  \/ \E t \in Threads : ThreadStep(t) \/ \E x \in Tools : Call(t, x)
  \/ EnableChecking \/ DisableChecking \/ Reset

Spec == Init /\ [][Next]_vars

-----------------------------------------------------------------------------
(* Properties                                                              *)

TypeOK ==
  /\ pc \in [Threads -> Points]
  /\ tool \in [Threads -> Tools]
  /\ calls \in 0..MaxCalls
  /\ tracker \in [total : Nat, byThread : [Threads -> Nat], active : [Threads -> 0..2]]
  /\ lock \in Threads \cup {NoThread}
  /\ stats \in [total : Nat, usage : [Threads -> Nat], max : 0..(2 * Cardinality(Threads))]
  /\ history \in Nat
  /\ cached \subseteq Threads
  /\ \A t \in Threads : /\ read[t].copied \in Nat /\ read[t].entries \in Nat
                        /\ read[t].shown \in Nat  /\ read[t].answered \in BOOLEAN
  /\ timing \in [Threads -> 0..(MaxSwitches + 1)]
  /\ switches \in 0..MaxSwitches

Depth(point) == CASE point \in {"idle", "check", "execute"} -> 0
                  [] point \in {"dispatch", "leave"} -> 1
                  [] OTHER -> 2

Critical == {"count", "use", "log"}

\* The tracker and the lock know who is inside: the active count of a thread is the
\* number of wrapped methods it is in, on every path out of them, an unknown tool and
\* a tool that raises included (RequestTracker, the finally of thread_safe_method);
\* and the lock is held exactly by the thread in a critical section, so that no
\* thread waits for one that has left (acquire_lock).
InsideExact ==
  \A t \in Threads :
    /\ tracker.active[t] = Depth(pc[t])
    /\ lock = t <=> pc[t] \in Critical

\* Outside the lock the statistics add up: each counted request was counted for
\* its thread or logged in the history, it had gone through both wrappers, and
\* the largest concurrency seen covers one of them.  What a reader shows is never
\* behind what it copied, although the thread usage and the length of the history
\* are read after the lock is released (get_adapter_stats, get_history).
StatsAddUp ==
  /\ TypeOK
  /\ tracker.total = Total(tracker.byThread)
  /\ lock = NoThread =>
       /\ stats.total = Total(stats.usage) + history
       /\ Total(stats.usage) > 0 => stats.max >= 2
  /\ 2 * stats.total <= tracker.total
  /\ \A t \in Threads : read[t].answered => read[t].copied <= read[t].shown

\* What the checker reports (ThreadSafetyChecker.get_report) fits what it saw: it
\* notes a warning exactly when two threads have come, that costs one call and no
\* more, which is refused, and the threads of its access map all have statistics,
\* whatever was reset, replaced or switched off while calls were inside
\* track_execution.
CheckerConsistent ==
  /\ checker.issued <=> Cardinality(checker.accessed) > 1
  /\ checker.refused = IF checker.issued THEN 1 ELSE 0
  /\ checker.accessed = {t \in Threads : checker.calls[t] > 0}
  /\ checker.accessed \subseteq checker.known

=============================================================================

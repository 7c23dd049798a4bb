---------------------------- MODULE BridgeServer ----------------------------
(***************************************************************************)
(* The gRPC server of a Python worker (grpc_server.py with heartbeat.py,   *)
(* or grpc_server_threaded.py): start-up, the session and tool RPCs, the   *)
(* registration of the tools, the heartbeat client of each session, and    *)
(* the shutdown that a signal or a lost heartbeat starts. The threaded     *)
(* server is the same servicer without heartbeats and without threads for  *)
(* its tools: what is not asynchronous in a tool holds its loop.           *)
(*                                                                         *)
(* The RPCs are coroutines of one event loop: what runs between two awaits *)
(* is one step, and locks are never held across one. A call of the         *)
(* synchronous stub, or a tool that runs on the loop, holds it. Every RPC  *)
(* that may create a heartbeat client creates at most one, so a client is  *)
(* named by the call that created it.                                      *)
(***************************************************************************)
EXTENDS Integers, FiniteSets

CONSTANTS
  Sessions,
  Calls,      \* the RPCs Elixir makes, each one once
  Options,    \* heartbeat options of the command line and of the environment
  MaxRetries, \* max_retries of wait_for_elixir_server
  None

ASSUME BridgeAssumption ==
  None \notin Calls /\ IsFiniteSet(Calls) /\ MaxRetries \in Nat \ {0}

\* What the options may hold: a whole number or a flag.
ASSUME OptionsAssumption ==
  \A given \in Options : \A options \in {given.cli, given.env} :
    \A f \in DOMAIN options :
      IF f = "max_missed" THEN options[f] \in Int ELSE options[f] \in BOOLEAN

VARIABLES
  config,          \* HeartbeatConfig; never changes
  threaded,        \* which of the two servers; never changes
  stage,           \* "init", "connecting", "serving", "closing", "stopping",
                   \* "exiting", "exited", "failed"
  attempts,
  shutdown_event,
  elixir,          \* "up", "down" (refuses), "hung" (accepts and does not answer)
  channel,         \* the client channels to Elixir are open
  call,            \* the RPCs
  registered_sessions,
  active_requests, \* kept by the threaded server
  heartbeat_clients,
  client,          \* the HeartbeatClient each call created
  leftovers        \* clients close() has taken and not stopped yet

fixed  == <<config, threaded>>
books  == <<registered_sessions, active_requests>>
server == <<stage, attempts, shutdown_event, channel, leftovers>>
beats  == <<heartbeat_clients, client>>
vars   == <<fixed, server, elixir, call, books, beats>>

(***************************************************************************)
(* Configuration: the environment overrides the command line.              *)
(***************************************************************************)
Defaults == [enabled |-> TRUE, max_missed |-> 3, dependent |-> TRUE]

Resolved(cli, env) ==
  [f \in DOMAIN cli \cup DOMAIN env |-> IF f \in DOMAIN env THEN env[f] ELSE cli[f]]

\* A negative max_missed_heartbeats keeps the default; zero is taken as it is.
Coerced(f, value) ==
  IF f = "max_missed" /\ value < 0 THEN Defaults.max_missed ELSE value

Given(options, f) ==
  IF f \in DOMAIN options THEN Coerced(f, options[f]) ELSE Defaults[f]

FromMapping(options) ==
  [enabled    |-> Given(options, "enabled"),
   max_missed |-> Given(options, "max_missed"),
   dependent  |-> Given(options, "dependent")]

NoCall == [kind |-> "none", session |-> None, pc |-> "idle", cancelled |-> FALSE,
           adapter |-> "none", tool |-> "none", mode |-> "none"]

NoClient == [session |-> None, task |-> "none", missed |-> 0]

Init ==
  /\ threaded \in BOOLEAN
  /\ IF threaded
       THEN config = [Defaults EXCEPT !.enabled = FALSE, !.dependent = FALSE]
       ELSE \E given \in Options :
              config = FromMapping(Resolved(given.cli, given.env))
  /\ stage = "init" /\ attempts = 0 /\ shutdown_event = FALSE
  /\ elixir = "up" /\ channel = FALSE
  /\ call = [c \in Calls |-> NoCall]
  /\ registered_sessions = {} /\ active_requests = 0
  /\ heartbeat_clients = [s \in Sessions |-> None]
  /\ client = [c \in Calls |-> NoClient]
  /\ leftovers = {}

Running(c) == call[c].tool = "running"

OnLoop(c) == call[c].mode = "loop"

Blocks(c) == call[c].pc \in {"sync", "register"} \/ (Running(c) /\ OnLoop(c))

LoopFree == stage \notin {"exiting", "exited", "failed"}
              /\ \A c \in Calls : ~Blocks(c)

ElixirChanges ==
  /\ elixir' \in {"up", "down", "hung"} \ {elixir}
  /\ UNCHANGED <<fixed, server, call, books, beats>>

(***************************************************************************)
(* Start-up and signals.                                                   *)
(***************************************************************************)
\* main() has installed the handler; the event exists from now on.
Begin ==
  /\ stage = "init" /\ stage' = "connecting"
  /\ UNCHANGED <<fixed, attempts, shutdown_event, channel, leftovers, elixir, call,
                 books, beats>>

\* The adapter may not be there, or the port; a process that fails takes its
\* channels with it.
Connect ==
  /\ stage = "connecting" /\ elixir = "up" /\ ~threaded
  /\ stage' \in {"serving", "failed"} /\ channel' = (stage' = "serving")
  /\ UNCHANGED <<fixed, attempts, shutdown_event, leftovers, elixir, call, books,
                 beats>>

\* Here the adapter may also be one that is not marked thread-safe.
ConnectThreaded ==
  /\ stage = "connecting" /\ elixir = "up" /\ threaded
  /\ stage' \in {"serving", "failed"} /\ channel' = (stage' = "serving")
  /\ UNCHANGED <<fixed, attempts, shutdown_event, leftovers, elixir, call, books,
                 beats>>

ConnectFails ==
  /\ stage = "connecting" /\ elixir # "up"
  /\ attempts' = attempts + 1
  /\ stage' = IF attempts' >= MaxRetries THEN "failed" ELSE stage
  /\ UNCHANGED <<fixed, shutdown_event, channel, leftovers, elixir, call, books, beats>>

\* handle_signal: before the event exists the signal is lost.
Signal ==
  /\ stage # "init" /\ ~shutdown_event
  /\ LoopFree
  /\ shutdown_event' = TRUE
  /\ UNCHANGED <<fixed, stage, attempts, channel, leftovers, elixir, call, books, beats>>

(***************************************************************************)
(* Heartbeat clients.                                                      *)
(***************************************************************************)
Beating(c) == client[c].task = "running"

\* Mutant of Ensured: the client of the session is not looked up.
EnsuredAlways(c, s) ==
  /\ client' = [client EXCEPT ![c] = [session |-> s, task |-> "running", missed |-> 0]]
  /\ heartbeat_clients' = [heartbeat_clients EXCEPT ![s] = c]

\* _ensure_heartbeat_client, then client.start().
Ensured(c, s) ==
  IF config.enabled /\ heartbeat_clients[s] = None
    THEN /\ client' = [client EXCEPT ![c] =
                         [session |-> s, task |-> "running", missed |-> 0]]
         /\ heartbeat_clients' = [heartbeat_clients EXCEPT ![s] = c]
    ELSE UNCHANGED beats

\* One round of the loop. The answer comes or the timeout strikes: the sleep, and a
\* task cancelled while its ping is out, are no states of their own.
PingAnswered(c) ==
  /\ LoopFree /\ Beating(c) /\ elixir = "up" /\ channel
  /\ client' = [client EXCEPT ![c].missed = 0]
  /\ UNCHANGED <<fixed, server, elixir, call, books, heartbeat_clients>>

\* The count saturates here at the threshold, from where every miss calls the
\* handler.
AtThreshold(missed) == missed >= config.max_missed

\* Mutant of Escalates: the flag is inverted.
EscalatesInverted(missed) == AtThreshold(missed) /\ ~config.dependent

Escalates(missed) == AtThreshold(missed) /\ config.dependent

PingMissed(c) ==
  /\ LoopFree /\ Beating(c) /\ (elixir # "up" \/ ~channel)
  /\ LET missed == client[c].missed + 1 IN
       /\ client' = [client EXCEPT ![c].missed = IF AtThreshold(@) THEN @ ELSE missed]
       /\ shutdown_event' = (shutdown_event \/ Escalates(missed))
  /\ UNCHANGED <<fixed, stage, attempts, channel, leftovers, elixir, call, books,
                 heartbeat_clients>>

\* The cancelled task runs its finally clause.
ClientEnds(c) ==
  /\ LoopFree /\ client[c].task = "cancelled"
  /\ client' = [client EXCEPT ![c].task = "ended"]
  /\ UNCHANGED <<fixed, server, elixir, call, books, heartbeat_clients>>

(***************************************************************************)
(* RPCs.                                                                   *)
(***************************************************************************)
\* GetSession does what InitializeSession does.
Kinds == {"InitializeSession", "CleanupSession", "ExecuteTool"}

\* An asynchronous tool is awaited; another one gets a thread, unless the call is
\* thread-sensitive.
Modes == {"coroutine", "thread", "loop"}

\* The threaded server calls whatever is not asynchronous on its loop.
ThreadedModes == {"coroutine", "loop"}

Goto(c, pc) == call' = [call EXCEPT ![c].pc = pc]

\* What remains of a call that has returned: the thread of its tool, if it runs.
Finish(c, adapter) ==
  LET ended == [NoCall EXCEPT !.pc = "done", !.adapter = adapter] IN
  call' = [call EXCEPT ![c] =
             IF Running(c) /\ call[c].mode = "thread"
               THEN [ended EXCEPT !.tool = "running", !.mode = "thread",
                                  !.cancelled = call[c].cancelled]
               ELSE ended]

RequestStarted == active_requests' = IF threaded THEN active_requests + 1
                                                 ELSE active_requests

RequestEnded ==
  active_requests' = IF threaded THEN active_requests - 1 ELSE active_requests

\* ExecuteTool begins with InitializeSession over the synchronous stub.
Arrive(c) ==
  /\ LoopFree /\ stage \in {"serving", "closing"} /\ call[c].pc = "idle"
  /\ \E kind \in Kinds, s \in Sessions :
       /\ call' = [call EXCEPT ![c] =
            [NoCall EXCEPT !.kind = kind, !.session = s,
                           !.pc = IF kind = "ExecuteTool" THEN "sync" ELSE "proxy"]]
       /\ IF kind = "ExecuteTool" THEN RequestStarted ELSE UNCHANGED active_requests
  /\ UNCHANGED <<fixed, server, elixir, registered_sessions, beats>>

ProxyAnswers(c) ==
  /\ LoopFree /\ call[c].pc = "proxy" /\ call[c].kind # "CleanupSession"
  /\ elixir = "up" /\ channel /\ ~call[c].cancelled
  /\ Finish(c, "none") /\ Ensured(c, call[c].session)
  /\ UNCHANGED <<fixed, server, elixir, books>>

\* Elixir refuses, the channel is closed, or the call was cancelled.
ProxyFails(c) ==
  /\ LoopFree /\ call[c].pc = "proxy" /\ call[c].kind # "CleanupSession"
  /\ elixir # "hung" \/ ~channel \/ call[c].cancelled
  /\ Finish(c, "none")
  /\ UNCHANGED <<fixed, server, elixir, books, beats>>

\* The misses of a cancelled loop count for nothing.
Stopped(x) ==
  [client EXCEPT ![x] = IF Beating(x) THEN [@ EXCEPT !.task = "cancelled", !.missed = 0]
                                      ELSE @]

\* CleanupSession stops the heartbeat whether or not Elixir answers; pop and
\* cancel are one step, the end of the task is awaited.
CleanupProxied(c) ==
  /\ LoopFree /\ call[c].pc = "proxy" /\ call[c].kind = "CleanupSession"
  /\ elixir # "hung" \/ ~channel \/ call[c].cancelled
  /\ LET s == call[c].session IN
       IF heartbeat_clients[s] = None
         THEN Finish(c, "none") /\ UNCHANGED beats
         ELSE /\ client' = Stopped(heartbeat_clients[s])
              /\ heartbeat_clients' = [heartbeat_clients EXCEPT ![s] = None]
              /\ Goto(c, "joining")
  /\ UNCHANGED <<fixed, server, elixir, books>>

CleanupJoined(c) ==
  /\ LoopFree /\ call[c].pc = "joining"
  /\ \A x \in Calls : client[x].session = call[c].session => client[x].task # "cancelled"
  /\ Finish(c, "none")
  /\ UNCHANGED <<fixed, server, elixir, books, beats>>

\* The adapter, once its tools are registered, is initialized and runs the tool;
\* what it does until then may raise.
RunsTool(c) ==
  \/ \E mode \in IF threaded THEN ThreadedModes ELSE Modes :
       call' = [call EXCEPT ![c].pc = "tool", ![c].adapter = "live",
                            ![c].tool = "running", ![c].mode = mode]
  \/ call' = [call EXCEPT ![c].pc = "finally", ![c].adapter = "live"]

\* The synchronous stub has no timeout; its errors are logged. Then the client
\* and the adapter, whose constructor may raise. A session's tools are registered
\* by its first call; the threaded server tries at every call.
SyncReturns(c) ==
  /\ call[c].pc = "sync" /\ elixir # "hung"
  /\ Ensured(c, call[c].session)
  /\ \/ Goto(c, "finally")
     \/ /\ threaded \/ call[c].session \notin registered_sessions
        /\ call' = [call EXCEPT ![c].pc = "register", ![c].adapter = "live"]
     \/ ~threaded /\ call[c].session \in registered_sessions /\ RunsTool(c)
  /\ UNCHANGED <<fixed, server, elixir, books>>

\* RegisterTools over the synchronous stub: a refusal, or an error, gives an empty
\* list, which is not None: the session counts as registered.
RegisterReturns(c) ==
  /\ call[c].pc = "register" /\ elixir # "hung"
  /\ RunsTool(c)
  /\ registered_sessions' = IF threaded THEN registered_sessions
                             ELSE registered_sessions \cup {call[c].session}
  /\ UNCHANGED <<fixed, server, elixir, active_requests, beats>>

\* The tool returns or raises; a thread whose call was cancelled just ends.
ToolEnds(c) ==
  /\ Running(c) /\ (call[c].mode = "coroutine" => LoopFree)
  /\ call' = [call EXCEPT
       ![c].tool = IF call[c].pc = "done" THEN "none" ELSE "ended",
       ![c].mode = IF call[c].pc = "done" THEN "none" ELSE @,
       ![c].pc   = IF OnLoop(c) THEN "finally" ELSE @]
  /\ UNCHANGED <<fixed, server, elixir, books, beats>>

\* Mutant of Awaited: the result of the thread is not waited for.
NotAwaited(c) == call[c].pc = "tool"

Awaited(c) == call[c].pc = "tool" /\ (call[c].tool = "ended" \/ call[c].cancelled)

\* A thread cannot be cancelled: it runs on when its call was. A coroutine ends.
ToolReturns(c) ==
  /\ LoopFree /\ Awaited(c)
  /\ call' = [call EXCEPT ![c].pc = "finally",
                          ![c].tool = IF call[c].mode = "coroutine" THEN "ended" ELSE @]
  /\ UNCHANGED <<fixed, server, elixir, books, beats>>

\* The deadline of the caller, or the end of the grace period.
CancelCall(c) ==
  /\ LoopFree /\ call[c].pc \in {"proxy", "tool"} /\ ~call[c].cancelled
  /\ call' = [call EXCEPT ![c].cancelled = TRUE]
  /\ UNCHANGED <<fixed, server, elixir, books, beats>>

CleanAdapter(c) ==
  /\ LoopFree /\ call[c].pc = "finally"
  /\ RequestEnded
  /\ Finish(c, IF call[c].adapter = "live" THEN "cleaned" ELSE "none")
  /\ UNCHANGED <<fixed, server, elixir, registered_sessions, beats>>

(***************************************************************************)
(* Shutdown: servicer.close(), then server.stop() with its grace period.   *)
(***************************************************************************)
Registered == {heartbeat_clients[s] : s \in Sessions} \ {None}

BeginClose ==
  /\ LoopFree /\ stage = "serving" /\ shutdown_event /\ ~threaded
  /\ stage' = "closing"
  /\ leftovers' = Registered
  /\ heartbeat_clients' = [s \in Sessions |-> None]
  /\ UNCHANGED <<fixed, attempts, shutdown_event, channel, elixir, call, books,
                 client>>

StopNext ==
  /\ LoopFree /\ stage = "closing"
  /\ \E x \in leftovers :
       client' = Stopped(x) /\ leftovers' = leftovers \ {x}
  /\ UNCHANGED <<fixed, stage, attempts, shutdown_event, channel, elixir, call, books,
                 heartbeat_clients>>

CloseChannels ==
  /\ LoopFree /\ stage = "closing" /\ leftovers = {}
  /\ \A c \in Calls : client[c].task # "cancelled"
  /\ stage' = "stopping" /\ channel' = FALSE
  /\ UNCHANGED <<fixed, attempts, shutdown_event, leftovers, elixir, call, books, beats>>

\* The threaded server has only its channels to close.
CloseThreaded ==
  /\ LoopFree /\ stage = "serving" /\ shutdown_event /\ threaded
  /\ stage' = "stopping" /\ channel' = FALSE
  /\ UNCHANGED <<fixed, attempts, shutdown_event, leftovers, elixir, call, books,
                 beats>>

\* Mutant of Drained: the server waits for the threads of the tools.
ThreadsDrained ==
  \A c \in Calls : call[c].pc \in {"idle", "done"} /\ ~Running(c)

Drained == \A c \in Calls : call[c].pc \in {"idle", "done"}

StopServer ==
  /\ LoopFree /\ stage = "stopping" /\ Drained
  /\ stage' = "exiting"
  /\ UNCHANGED <<fixed, attempts, shutdown_event, channel, leftovers, elixir, call, books,
                 beats>>

\* The interpreter joins the threads of the default executor.
Exit ==
  /\ stage = "exiting"
  /\ \A c \in Calls : ~Running(c)
  /\ stage' = "exited"
  /\ UNCHANGED <<fixed, attempts, shutdown_event, channel, leftovers, elixir, call, books,
                 beats>>

LoopStep ==
  \/ Begin \/ Connect \/ ConnectThreaded \/ ConnectFails
  \/ BeginClose \/ StopNext \/ CloseChannels \/ CloseThreaded \/ StopServer \/ Exit

ClientStep(c) == PingAnswered(c) \/ PingMissed(c) \/ ClientEnds(c)

CallStep(c) ==
  \/ ProxyAnswers(c) \/ ProxyFails(c) \/ CleanupProxied(c) \/ CleanupJoined(c)
  \/ SyncReturns(c) \/ RegisterReturns(c) \/ ToolReturns(c) \/ CleanAdapter(c)

Next ==
  \/ ElixirChanges \/ Signal \/ LoopStep
  \/ \E c \in Calls : \/ Arrive(c) \/ CallStep(c) \/ ToolEnds(c) \/ CancelCall(c)
                      \/ ClientStep(c)

\* The loop runs what is ready; a ping has a timeout; the grace period ends.
\* Nothing is assumed of Elixir, of the callers or of the tools.
Fairness ==
  /\ WF_vars(LoopStep)
  /\ \A c \in Calls :
       /\ WF_vars(ClientStep(c))
       /\ WF_vars(CallStep(c))
       /\ WF_vars(stage = "stopping" /\ CancelCall(c))

Spec == Init /\ [][Next]_vars /\ Fairness

(***************************************************************************)
(* Properties.                                                             *)
(***************************************************************************)

Stages == {"init", "connecting", "serving", "closing", "stopping", "exiting", "exited",
           "failed"}

CallRecord ==
  [kind : Kinds \cup {"none"}, session : Sessions \cup {None},
   pc : {"idle", "sync", "register", "proxy", "tool", "finally", "joining", "done"},
   cancelled : BOOLEAN, adapter : {"none", "live", "cleaned"},
   tool : {"none", "running", "ended"}, mode : Modes \cup {"none"}]

ClientRecord ==
  [session : Sessions \cup {None}, missed : Nat,
   task : {"none", "running", "cancelled", "ended"}]

\* The type of every variable; the limit of missed heartbeats is no negative one.
TypeOK ==
  /\ config \in [enabled : BOOLEAN, max_missed : Nat, dependent : BOOLEAN]
  /\ threaded \in BOOLEAN
  /\ stage \in Stages /\ attempts \in 0..MaxRetries /\ shutdown_event \in BOOLEAN
  /\ elixir \in {"up", "down", "hung"} /\ channel \in BOOLEAN
  /\ call \in [Calls -> CallRecord] /\ registered_sessions \subseteq Sessions
  /\ heartbeat_clients \in [Sessions -> Calls \cup {None}]
  /\ client \in [Calls -> ClientRecord]
  /\ leftovers \subseteq Calls

\* Every heartbeat loop that has not been cancelled is the one registered for its
\* session, or is about to be stopped by close(): no cleanup, tool call or shutdown
\* that interleaves with another loses a loop, or starts a second one.
EveryHeartbeatOwned ==
  /\ TypeOK
  /\ \A c \in Calls :
       Beating(c) => heartbeat_clients[client[c].session] = c \/ c \in leftovers

ToolCalls == {c \in Calls : call[c].pc \in {"sync", "register", "tool", "finally"}}

\* A tool call that is over has cleaned the adapter it created; only a cancelled
\* call cleans one that a thread is still using; and the threaded server counts
\* exactly the tool calls that are under way, however they end.
AdapterReleased ==
  /\ \A c \in Calls :
       /\ call[c].pc = "done" => call[c].adapter # "live"
       /\ call[c].adapter = "cleaned" /\ Running(c) => call[c].cancelled
  /\ threaded => active_requests = Cardinality(ToolCalls)

Down == stage \in {"exiting", "exited", "failed"}

\* "Waits ONLY for the shutdown signal": once the event is set, the loop ends,
\* whatever calls, heartbeats and tools are under way and however Elixir behaves,
\* if no synchronous call or tool holds the loop for ever.
ShutsDown == []<>(LoopFree \/ Down) => (shutdown_event ~> Down)

\* A dependent worker whose Elixir is lost for good shuts down, if it has a
\* session and its loop is not held by the synchronous stub or by a tool.
DiesWithElixir ==
  /\ config.dependent
  /\ <>[](elixir # "up" /\ Registered # {})
  /\ []<>LoopFree
  => <>Down

\* A worker ends when it is told to and when nobody needs it any more.
StopsWhenItShould == ShutsDown /\ DiesWithElixir
=============================================================================

------------------------- MODULE BridgeServerProofs -------------------------
(***************************************************************************)
(* Proofs about BridgeServer for any sessions, calls and options: no       *)
(* heartbeat loop is lost or doubled, and every tool call cleans the       *)
(* adapter it created and is counted while it is under way.                *)
(*                                                                         *)
(* IInv adds to the first property what makes it inductive: a call that is *)
(* under way and a client that was created have a session, close() leaves  *)
(* nothing behind when it ends, and the last attempt to connect is the     *)
(* end of the server. For the second one, TidyCall says where in its code  *)
(* a call may hold an adapter and have a tool running.                     *)
(*                                                                         *)
(* The last part is about StreamingTool, the handler of this server that   *)
(* has a module of its own: its chunks, its end and what it holds.         *)
(***************************************************************************)
EXTENDS BridgeServer, StreamingCall, FiniteSetTheorems, SequenceTheorems, TLAPS

\* Where a call may hold an adapter, and where its tool may run: an adapter is in
\* use between its creation and the finally clause; a tool that outlives its call
\* was cancelled, and runs in a thread.
TidyCall(r) ==
  /\ r.adapter = "live" => r.pc \in {"register", "tool", "finally"}
  /\ r.adapter = "cleaned" => r.pc = "done"
  /\ r.tool = "running" => r.pc \in {"tool", "finally", "done"}
  /\ r.tool = "running" /\ r.pc # "tool" => r.cancelled
  /\ r.mode = "loop" => r.pc \in {"tool", "finally"}

NamedCall ==
  {r \in CallRecord :
     (r.pc \notin {"idle", "done"} => r.session \in Sessions) /\ TidyCall(r)}

NamedClient == {r \in ClientRecord : r.task # "none" => r.session \in Sessions}

Owned == \A c \in Calls :
           Beating(c) => heartbeat_clients[client[c].session] = c \/ c \in leftovers

ServerTyped ==
  /\ stage \in Stages /\ attempts \in 0..MaxRetries /\ shutdown_event \in BOOLEAN
  /\ channel \in BOOLEAN /\ leftovers \subseteq Calls
  /\ stage # "closing" => leftovers = {}
  /\ stage \in {"init", "connecting"} => attempts < MaxRetries

CallsTyped == call \in [Calls -> NamedCall]

BooksTyped == registered_sessions \subseteq Sessions

BeatsTyped ==
  /\ heartbeat_clients \in [Sessions -> Calls \cup {None}]
  /\ client \in [Calls -> NamedClient]

FixedTyped ==
  /\ config \in [enabled : BOOLEAN, max_missed : Nat, dependent : BOOLEAN]
  /\ threaded \in BOOLEAN

IInv ==
  /\ FixedTyped /\ elixir \in {"up", "down", "hung"}
  /\ ServerTyped /\ CallsTyped /\ BooksTyped /\ BeatsTyped /\ Owned

----------------------------------------------------------------------------
(* The calls.                                                              *)

\* One call changes.
LEMMA CallUpdated ==
  ASSUME CallsTyped, NEW c \in Calls, NEW r \in NamedCall, call' = [call EXCEPT ![c] = r]
  PROVE  CallsTyped'
  BY DEF CallsTyped

\* A call without an adapter goes on to the next stretch of its code.
LEMMA Going ==
  ASSUME CallsTyped, NEW c \in Calls, call[c].session \in Sessions,
         call[c].pc \in {"sync", "proxy"},
         Goto(c, "joining") \/ Goto(c, "finally")
  PROVE  CallsTyped'
  <1>1. call[c] \in NamedCall BY DEF CallsTyped
  <1>2. PICK p \in {"joining", "finally"} : call' = [call EXCEPT ![c].pc = p]
    BY DEF Goto
  <1>3. call' = [call EXCEPT ![c] = [call[c] EXCEPT !.pc = p]]
    BY <1>2 DEF CallsTyped
  <1>4. [call[c] EXCEPT !.pc = p] \in NamedCall
    BY <1>1 DEF NamedCall, CallRecord, TidyCall
  <1>. QED BY <1>3, <1>4, CallUpdated

\* A call is over, its tool perhaps still running in a thread: then it was
\* cancelled, as the call no longer waits for the tool.
LEMMA Finishing ==
  ASSUME CallsTyped, NEW c \in Calls, NEW a \in {"none", "cleaned"}, Finish(c, a),
         call[c].pc # "tool"
  PROVE  CallsTyped'
  <1> DEFINE ended == [NoCall EXCEPT !.pc = "done", !.adapter = a]
             rest == [ended EXCEPT !.tool = "running", !.mode = "thread",
                                   !.cancelled = call[c].cancelled]
  <1>1. ended \in NamedCall BY DEF NoCall, NamedCall, CallRecord, TidyCall
  <1>2. call[c].cancelled \in BOOLEAN /\ (Running(c) => call[c].cancelled)
    BY DEF CallsTyped, NamedCall, CallRecord, TidyCall, Running
  <1>3. ASSUME Running(c) PROVE rest \in NamedCall
    <2>1. rest \in CallRecord BY <1>1, <1>2 DEF NamedCall, CallRecord, Modes
    <2>2. rest.pc = "done" /\ rest.mode = "thread" /\ rest.adapter = a
          /\ rest.cancelled = call[c].cancelled
      BY <1>1 DEF NamedCall, CallRecord, NoCall
    <2>3. TidyCall(rest) BY <1>2, <1>3, <2>2 DEF TidyCall
    <2>. QED BY <2>1, <2>2, <2>3 DEF NamedCall
  <1>4. \/ call' = [call EXCEPT ![c] = ended]
        \/ Running(c) /\ call' = [call EXCEPT ![c] = rest]
    BY DEF Finish
  <1>. QED BY <1>1, <1>3, <1>4, CallUpdated

\* A call runs its tool, or fails before it does.
LEMMA RunningTool ==
  ASSUME CallsTyped, NEW c \in Calls, call[c].session \in Sessions, RunsTool(c),
         call[c].pc \in {"sync", "register"}
  PROVE  CallsTyped'
  <1>1. call[c] \in NamedCall BY DEF CallsTyped
  <1>2. CASE call' = [call EXCEPT ![c].pc = "finally", ![c].adapter = "live"]
    <2>1. [call[c] EXCEPT !.pc = "finally", !.adapter = "live"] \in NamedCall
      BY <1>1 DEF NamedCall, CallRecord, TidyCall
    <2>2. call' = [call EXCEPT ![c] = [call[c] EXCEPT !.pc = "finally",
                                                      !.adapter = "live"]]
      BY <1>2 DEF CallsTyped
    <2>. QED BY <2>1, <2>2, CallUpdated
  <1>3. ASSUME NEW mode \in Modes,
               call' = [call EXCEPT ![c].pc = "tool", ![c].adapter = "live",
                                    ![c].tool = "running", ![c].mode = mode]
        PROVE  CallsTyped'
    <2>1. [call[c] EXCEPT !.pc = "tool", !.adapter = "live", !.tool = "running",
                          !.mode = mode] \in NamedCall
      BY <1>1 DEF NamedCall, CallRecord, TidyCall
    <2>2. call' = [call EXCEPT ![c] =
                     [call[c] EXCEPT !.pc = "tool", !.adapter = "live",
                                     !.tool = "running", !.mode = mode]]
      BY <1>3 DEF CallsTyped
    <2>. QED BY <2>1, <2>2, CallUpdated
  <1>4. ThreadedModes \subseteq Modes BY DEF ThreadedModes, Modes
  <1>. QED BY <1>2, <1>3, <1>4 DEF RunsTool

\* Every step of a call keeps the calls typed.
LEMMA CallsStayTyped ==
  ASSUME CallsTyped, [Next]_vars
  PROVE  CallsTyped'
<1>1. CASE UNCHANGED call BY <1>1 DEF CallsTyped
<1>2. CASE ElixirChanges \/ Signal \/ LoopStep
  BY <1>1, <1>2
     DEF ElixirChanges, Signal, LoopStep, Begin, Connect, ConnectThreaded, ConnectFails,
         BeginClose, StopNext, CloseChannels, CloseThreaded, StopServer, Exit
<1>3. ASSUME NEW c \in Calls,
             Arrive(c) \/ CallStep(c) \/ ToolEnds(c) \/ CancelCall(c) \/ ClientStep(c)
      PROVE  CallsTyped'
  <2>1. call[c] \in NamedCall BY DEF CallsTyped
  <2>2. call[c].pc \notin {"idle", "done"} => call[c].session \in Sessions
    BY <2>1 DEF NamedCall
  <2>3. CASE Arrive(c)
    <3>1. PICK how \in Kinds, s \in Sessions :
            call' = [call EXCEPT ![c] =
              [NoCall EXCEPT !.kind = how, !.session = s,
                             !.pc = IF how = "ExecuteTool" THEN "sync" ELSE "proxy"]]
      BY <2>3 DEF Arrive
    <3>2. [NoCall EXCEPT !.kind = how, !.session = s,
                         !.pc = IF how = "ExecuteTool" THEN "sync" ELSE "proxy"]
            \in NamedCall
      BY DEF NoCall, NamedCall, CallRecord, TidyCall
    <3>. QED BY <3>1, <3>2, CallUpdated
  <2>4. CASE ProxyAnswers(c)
    BY <2>4, Finishing DEF ProxyAnswers
  <2>5. CASE ProxyFails(c)
    BY <2>5, Finishing DEF ProxyFails
  <2>6. CASE CleanupProxied(c)
    <3>1. call[c].session \in Sessions BY <2>2, <2>6 DEF CleanupProxied
    <3>. QED BY <2>6, <3>1, Finishing, Going DEF CleanupProxied
  <2>7. CASE CleanupJoined(c)
    BY <2>7, Finishing DEF CleanupJoined
  <2>8. CASE SyncReturns(c)
    <3>1. call[c].session \in Sessions BY <2>2, <2>8 DEF SyncReturns
    <3>2. CASE Goto(c, "finally") BY <2>8, <3>1, <3>2, Going DEF SyncReturns
    <3>3. CASE call' = [call EXCEPT ![c].pc = "register", ![c].adapter = "live"]
      <4>1. call' = [call EXCEPT ![c] = [call[c] EXCEPT !.pc = "register",
                                                        !.adapter = "live"]]
        BY <3>3 DEF CallsTyped
      <4>2. [call[c] EXCEPT !.pc = "register", !.adapter = "live"] \in NamedCall
        BY <2>1, <2>8, <3>1 DEF NamedCall, CallRecord, TidyCall, SyncReturns
      <4>. QED BY <4>1, <4>2, CallUpdated
    <3>4. CASE RunsTool(c) BY <2>8, <3>1, <3>4, RunningTool DEF SyncReturns
    <3>. QED BY <2>8, <3>2, <3>3, <3>4 DEF SyncReturns
  <2>9. CASE RegisterReturns(c)
    <3>1. call[c].session \in Sessions BY <2>2, <2>9 DEF RegisterReturns
    <3>. QED BY <2>9, <3>1, RunningTool DEF RegisterReturns
  <2>10. CASE ToolReturns(c)
    <3> DEFINE t == IF call[c].mode = "coroutine" THEN "ended" ELSE call[c].tool
    <3>1. call[c].session \in Sessions BY <2>2, <2>10 DEF ToolReturns, Awaited
    <3>2. call' = [call EXCEPT ![c] = [call[c] EXCEPT !.pc = "finally", !.tool = t]]
      BY <2>10 DEF ToolReturns, CallsTyped
    <3>3. [call[c] EXCEPT !.pc = "finally", !.tool = t] \in NamedCall
      <4>1. call[c].pc = "tool" BY <2>10 DEF ToolReturns, Awaited
      <4>2. call[c] \in CallRecord /\ TidyCall(call[c]) BY <2>1 DEF NamedCall
      <4>3. t \in {"ended", call[c].tool} OBVIOUS
      <4> HIDE DEF t
      <4>4. [call[c] EXCEPT !.pc = "finally", !.tool = t] \in CallRecord
        BY <4>2, <4>3 DEF CallRecord
      <4>5. t = "running" => call[c].tool = "running" BY <4>3
      <4>6. TidyCall([call[c] EXCEPT !.pc = "finally", !.tool = t])
        BY <2>10, <4>1, <4>2, <4>5, SMTT(30) DEF TidyCall, CallRecord, ToolReturns, Awaited
      <4>. QED BY <3>1, <4>2, <4>4, <4>6 DEF NamedCall, CallRecord
    <3>. QED BY <3>2, <3>3, CallUpdated
  <2>11. CASE CleanAdapter(c)
    BY <2>11, Finishing DEF CleanAdapter
  <2>12. CASE ToolEnds(c)
    <3> DEFINE t == IF call[c].pc = "done" THEN "none" ELSE "ended"
               m == IF call[c].pc = "done" THEN "none" ELSE call[c].mode
               p == IF OnLoop(c) THEN "finally" ELSE call[c].pc
    <3>1. call' = [call EXCEPT ![c] = [call[c] EXCEPT !.tool = t, !.mode = m, !.pc = p]]
      BY <2>12 DEF ToolEnds, CallsTyped
    <3>2. OnLoop(c) => call[c].session \in Sessions /\ call[c].pc \in {"tool", "finally"}
      BY <2>1, <2>2 DEF NamedCall, TidyCall, OnLoop
    <3>3. [call[c] EXCEPT !.tool = t, !.mode = m, !.pc = p] \in NamedCall
      <4>1. CASE OnLoop(c)
        <5>1. [call[c] EXCEPT !.tool = "ended", !.pc = "finally"] \in NamedCall
          BY <2>1, <3>2, <4>1 DEF NamedCall, CallRecord, TidyCall
        <5>2. [call[c] EXCEPT !.tool = t, !.mode = m, !.pc = p]
                = [call[c] EXCEPT !.tool = "ended", !.pc = "finally"]
          BY <2>1, <3>2, <4>1 DEF NamedCall, CallRecord
        <5>. QED BY <5>1, <5>2
      <4>2. CASE ~OnLoop(c) /\ call[c].pc = "done"
        <5>1. [call[c] EXCEPT !.tool = "none", !.mode = "none"] \in NamedCall
          BY <2>1, <4>2 DEF NamedCall, CallRecord, TidyCall
        <5>2. [call[c] EXCEPT !.tool = t, !.mode = m, !.pc = p]
                = [call[c] EXCEPT !.tool = "none", !.mode = "none"]
          BY <2>1, <4>2 DEF NamedCall, CallRecord
        <5>. QED BY <5>1, <5>2
      <4>3. CASE ~OnLoop(c) /\ call[c].pc # "done"
        <5>1. [call[c] EXCEPT !.tool = "ended"] \in NamedCall
          BY <2>1, <4>3 DEF NamedCall, CallRecord, TidyCall
        <5>2. [call[c] EXCEPT !.tool = t, !.mode = m, !.pc = p]
                = [call[c] EXCEPT !.tool = "ended"]
          BY <2>1, <4>3 DEF NamedCall, CallRecord
        <5>. QED BY <5>1, <5>2
      <4>. QED BY <4>1, <4>2, <4>3
    <3>. QED BY <3>1, <3>3, CallUpdated
  <2>13. CASE CancelCall(c)
    <3>1. call' = [call EXCEPT ![c] = [call[c] EXCEPT !.cancelled = TRUE]]
      BY <2>13 DEF CancelCall, CallsTyped
    <3>2. [call[c] EXCEPT !.cancelled = TRUE] \in NamedCall
      BY <2>1 DEF NamedCall, CallRecord, TidyCall
    <3>. QED BY <3>1, <3>2, CallUpdated
  <2>14. CASE ClientStep(c)
    BY <1>1, <2>14 DEF ClientStep, PingAnswered, PingMissed, ClientEnds
  <2>. QED BY <1>3, <2>3, <2>4, <2>5, <2>6, <2>7, <2>8, <2>9, <2>10, <2>11, <2>12, <2>13,
              <2>14 DEF CallStep
<1>. QED BY <1>1, <1>2, <1>3 DEF Next, vars

----------------------------------------------------------------------------
(* The request counter of the threaded server.                             *)

Counted == threaded => active_requests = Cardinality(ToolCalls)

\* A step that leaves the set of the tool calls and the counter alone.
LEMMA CountKept ==
  ASSUME Counted, ToolCalls' = ToolCalls, UNCHANGED <<threaded, active_requests>>
  PROVE  Counted'
  BY DEF Counted

\* A call that moves keeps its place in, or out of, the set of the tool calls.
LEMMA SameToolCalls ==
  ASSUME CallsTyped, NEW c \in Calls, NEW r, call' = [call EXCEPT ![c] = r],
         r.pc \in {"sync", "register", "tool", "finally"} <=> c \in ToolCalls
  PROVE  ToolCalls' = ToolCalls
<1>1. \A x \in Calls : call'[x] = IF x = c THEN r ELSE call[x] BY DEF CallsTyped
<1>. QED BY <1>1 DEF ToolCalls

\* A call that is no tool call ends as none.
LEMMA FinishedOutside ==
  ASSUME CallsTyped, NEW c \in Calls, NEW a, Finish(c, a)
  PROVE  ToolCalls' = ToolCalls \ {c}
<1>1. \A x \in Calls \ {c} : call'[x] = call[x] BY DEF Finish, CallsTyped
<1>2. call'[c].pc = "done" BY DEF Finish, CallsTyped, NoCall
<1>. QED BY <1>1, <1>2 DEF ToolCalls

\* Every step keeps the counter right: it is raised when a tool call arrives and
\* lowered in the finally clause, the only place where a tool call ends.
LEMMA CountStays ==
  ASSUME CallsTyped, FixedTyped, Counted, [Next]_vars
  PROVE  Counted'
<1>1. IsFiniteSet(ToolCalls) /\ IsFiniteSet(ToolCalls')
  BY BridgeAssumption, FS_Subset DEF ToolCalls
<1>2. ASSUME threaded PROVE active_requests \in Nat
  BY <1>1, <1>2, FS_CardinalityType DEF Counted
<1>3. CASE UNCHANGED <<threaded, active_requests, call>>
  BY <1>3 DEF Counted, ToolCalls
<1>4. CASE ElixirChanges \/ Signal \/ LoopStep
  <2>1. UNCHANGED <<threaded, active_requests, call>>
    BY <1>4 DEF ElixirChanges, Signal, LoopStep, Begin, Connect, ConnectThreaded,
                ConnectFails, BeginClose, StopNext, CloseChannels, CloseThreaded,
                StopServer, Exit, fixed, books
  <2>. QED BY <1>3, <2>1
<1>5. ASSUME NEW c \in Calls,
             Arrive(c) \/ CallStep(c) \/ ToolEnds(c) \/ CancelCall(c) \/ ClientStep(c)
      PROVE  Counted'
  <2>1. call[c] \in NamedCall BY DEF CallsTyped
  <2>2. CASE ClientStep(c)
    BY <1>3, <2>2 DEF ClientStep, PingAnswered, PingMissed, ClientEnds, fixed, books
  <2>3. CASE Arrive(c)
    <3>1. PICK how \in Kinds, s \in Sessions :
            /\ call' = [call EXCEPT ![c] =
                 [NoCall EXCEPT !.kind = how, !.session = s,
                                !.pc = IF how = "ExecuteTool" THEN "sync" ELSE "proxy"]]
            /\ IF how = "ExecuteTool" THEN RequestStarted ELSE UNCHANGED active_requests
      BY <2>3 DEF Arrive
    <3>2. call[c].pc = "idle" /\ UNCHANGED threaded BY <2>3 DEF Arrive, fixed
    <3>3. c \notin ToolCalls BY <3>2 DEF ToolCalls
    <3>4. \A x \in Calls \ {c} : call'[x] = call[x] BY <3>1 DEF CallsTyped
    <3>5. CASE how = "ExecuteTool"
      <4>1. call'[c].pc = "sync" BY <3>1, <3>5 DEF CallsTyped, NoCall
      <4>2. ToolCalls' = ToolCalls \cup {c} BY <3>4, <4>1 DEF ToolCalls
      <4>3. Cardinality(ToolCalls') = Cardinality(ToolCalls) + 1
        BY <1>1, <3>3, <4>2, FS_AddElement
      <4>4. threaded => active_requests' = active_requests + 1
        BY <3>1, <3>5 DEF RequestStarted
      <4>. QED BY <3>2, <4>3, <4>4 DEF Counted
    <3>6. CASE how # "ExecuteTool"
      <4>1. call'[c].pc = "proxy" BY <3>1, <3>6 DEF CallsTyped, NoCall
      <4>2. ToolCalls' = ToolCalls BY <3>3, <3>4, <4>1 DEF ToolCalls
      <4>. QED BY <3>1, <3>2, <3>6, <4>2, CountKept
    <3>. QED BY <3>5, <3>6
  <2>4. CASE CleanAdapter(c)
    <3>1. c \in ToolCalls /\ UNCHANGED threaded
      BY <2>4 DEF CleanAdapter, ToolCalls, fixed
    <3>2. ToolCalls' = ToolCalls \ {c}
      BY <2>4, FinishedOutside DEF CleanAdapter
    <3>3. Cardinality(ToolCalls') = Cardinality(ToolCalls) - 1
      BY <1>1, <3>1, <3>2, FS_RemoveElement
    <3>4. threaded => active_requests' = active_requests - 1
      BY <2>4 DEF CleanAdapter, RequestEnded
    <3>. QED BY <3>1, <3>3, <3>4 DEF Counted
  <2>5. CASE ProxyAnswers(c) \/ ProxyFails(c) \/ CleanupJoined(c)
    <3>1. /\ call[c].pc \in {"proxy", "joining"} /\ Finish(c, "none")
          /\ UNCHANGED <<threaded, active_requests>>
      BY <2>5 DEF ProxyAnswers, ProxyFails, CleanupJoined, fixed, books
    <3>2. ToolCalls' = ToolCalls
      BY <3>1, FinishedOutside DEF ToolCalls
    <3>. QED BY <3>1, <3>2, CountKept
  <2>6. CASE CleanupProxied(c)
    <3>1. /\ call[c].pc = "proxy" /\ (Finish(c, "none") \/ Goto(c, "joining"))
          /\ UNCHANGED <<threaded, active_requests>>
      BY <2>6 DEF CleanupProxied, fixed, books
    <3>2. CASE Finish(c, "none")
      BY <3>1, <3>2, FinishedOutside, CountKept DEF ToolCalls
    <3>3. CASE Goto(c, "joining")
      <4>1. call' = [call EXCEPT ![c] = [call[c] EXCEPT !.pc = "joining"]]
        BY <3>3 DEF Goto, CallsTyped
      <4>2. [call[c] EXCEPT !.pc = "joining"].pc = "joining"
        BY <2>1 DEF NamedCall, CallRecord
      <4>3. c \notin ToolCalls BY <3>1 DEF ToolCalls
      <4>. QED BY <3>1, <4>1, <4>2, <4>3, SameToolCalls, CountKept
    <3>. QED BY <3>1, <3>2, <3>3
  <2>7. CASE SyncReturns(c) \/ RegisterReturns(c) \/ ToolReturns(c)
    <3>1. c \in ToolCalls /\ UNCHANGED <<threaded, active_requests>>
      BY <2>7 DEF SyncReturns, RegisterReturns, ToolReturns, Awaited, ToolCalls, fixed, books
    <3>2. /\ \A x \in Calls \ {c} : call'[x] = call[x]
          /\ call'[c].pc \in {"register", "tool", "finally"}
      BY <2>1, <2>7
         DEF CallsTyped, NamedCall, CallRecord, SyncReturns, RegisterReturns, ToolReturns,
             RunsTool, Goto
    <3>3. ToolCalls' = ToolCalls BY <3>1, <3>2 DEF ToolCalls
    <3>. QED BY <3>1, <3>3, CountKept
  <2>8. CASE ToolEnds(c)
    <3> DEFINE p == IF OnLoop(c) THEN "finally" ELSE call[c].pc
    <3>1. UNCHANGED <<threaded, active_requests>>
      BY <2>8 DEF ToolEnds, fixed, books
    <3>2. \A x \in Calls \ {c} : call'[x] = call[x] BY <2>8 DEF ToolEnds, CallsTyped
    <3>3. call'[c].pc = p
      BY <2>1, <2>8 DEF ToolEnds, CallsTyped, NamedCall, CallRecord
    <3>4. OnLoop(c) => call[c].pc \in {"tool", "finally"}
      BY <2>1 DEF NamedCall, TidyCall, OnLoop
    <3>5. ToolCalls' = ToolCalls BY <3>2, <3>3, <3>4 DEF ToolCalls
    <3>. QED BY <3>1, <3>5, CountKept
  <2>9. CASE CancelCall(c)
    <3>1. UNCHANGED <<threaded, active_requests>>
      BY <2>9 DEF CancelCall, fixed, books
    <3>2. \A x \in Calls : call'[x].pc = call[x].pc
      BY <2>1, <2>9 DEF CancelCall, CallsTyped, NamedCall, CallRecord
    <3>3. ToolCalls' = ToolCalls BY <3>2 DEF ToolCalls
    <3>. QED BY <3>1, <3>3, CountKept
  <2>. QED BY <1>5, <2>2, <2>3, <2>4, <2>5, <2>6, <2>7, <2>8, <2>9 DEF CallStep
<1>6. CASE UNCHANGED vars BY <1>3, <1>6 DEF vars, fixed, books
<1>. QED BY <1>4, <1>5, <1>6 DEF Next

----------------------------------------------------------------------------
(* The stages of the server and the heartbeat clients.                     *)

\* close() begins and ends with nothing left over; the attempts are counted up to
\* the last one.
LEMMA ServerStaysTyped ==
  ASSUME ServerTyped, BeatsTyped, FixedTyped, [Next]_vars
  PROVE  ServerTyped'
<1>1. CASE UNCHANGED server BY <1>1 DEF ServerTyped, server
<1>2. MaxRetries \in Nat \ {0} BY BridgeAssumption
<1>3. CASE Begin BY <1>3 DEF ServerTyped, Begin, Stages
<1>4. CASE Connect BY <1>4 DEF ServerTyped, Connect, Stages
<1>5. CASE ConnectThreaded BY <1>5 DEF ServerTyped, ConnectThreaded, Stages
<1>6. CASE ConnectFails
  <2>1. attempts + 1 \in 0..MaxRetries
    BY <1>2, <1>6 DEF ServerTyped, ConnectFails
  <2>2. stage' \in {"connecting", "failed"} /\ (stage' = "connecting" => attempts' < MaxRetries)
    BY <1>2, <1>6, <2>1 DEF ServerTyped, ConnectFails
  <2>. QED BY <1>6, <2>1, <2>2 DEF ServerTyped, ConnectFails, Stages
<1>7. CASE BeginClose
  <2>1. Registered \subseteq Calls BY DEF Registered, BeatsTyped
  <2>. QED BY <1>7, <2>1 DEF ServerTyped, BeginClose, Stages
<1>8. CASE StopNext BY <1>8 DEF ServerTyped, StopNext
<1>9. CASE CloseChannels BY <1>9 DEF ServerTyped, CloseChannels, Stages
<1>10. CASE CloseThreaded BY <1>10 DEF ServerTyped, CloseThreaded, Stages
<1>11. CASE StopServer BY <1>11 DEF ServerTyped, StopServer, Stages
<1>12. CASE Exit BY <1>12 DEF ServerTyped, Exit, Stages
<1>13. CASE Signal BY <1>13 DEF ServerTyped, Signal
<1>14. CASE ElixirChanges BY <1>1, <1>14 DEF ElixirChanges
<1>15. ASSUME NEW c \in Calls, PingMissed(c)
       PROVE  ServerTyped'
  <2>1. shutdown_event' \in BOOLEAN
    <3>1. Escalates(client[c].missed + 1) \in BOOLEAN
      BY DEF Escalates, AtThreshold, FixedTyped
    <3>2. shutdown_event' = (shutdown_event \/ Escalates(client[c].missed + 1))
      BY <1>15 DEF PingMissed
    <3>. QED BY <3>1, <3>2, Zenon
  <2>. QED BY <1>15, <2>1 DEF ServerTyped, PingMissed
<1>16. ASSUME NEW c \in Calls,
              Arrive(c) \/ CallStep(c) \/ ToolEnds(c) \/ CancelCall(c)
                \/ PingAnswered(c) \/ ClientEnds(c)
       PROVE  ServerTyped'
  BY <1>1, <1>16
     DEF Arrive, CallStep, ToolEnds, CancelCall, PingAnswered, ClientEnds, ProxyAnswers,
         ProxyFails, CleanupProxied, CleanupJoined, SyncReturns, RegisterReturns,
         ToolReturns, CleanAdapter
<1>17. CASE UNCHANGED vars BY <1>1, <1>17 DEF vars
<1>. QED
  BY <1>3, <1>4, <1>5, <1>6, <1>7, <1>8, <1>9, <1>10, <1>11, <1>12, <1>13, <1>14, <1>15,
     <1>16, <1>17
     DEF Next, LoopStep, ClientStep

\* What the loops and their owners are, after a step.
BeatsRight == BeatsTyped /\ Owned

\* A step that leaves clients and tasks alone.
LEMMA BeatsKept ==
  ASSUME BeatsRight, UNCHANGED <<beats, leftovers>>
  PROVE  BeatsRight'
  BY DEF BeatsRight, BeatsTyped, Owned, Beating, beats

\* A client is created only where none is registered, so no other one loses its
\* place.
LEMMA EnsuredOwned ==
  ASSUME BeatsRight, NEW c \in Calls, NEW s \in Sessions, Ensured(c, s),
         UNCHANGED leftovers
  PROVE  BeatsRight'
<1>1. CASE UNCHANGED beats BY <1>1, BeatsKept
<1>2. CASE /\ heartbeat_clients[s] = None
           /\ client' = [client EXCEPT ![c] =
                           [session |-> s, task |-> "running", missed |-> 0]]
           /\ heartbeat_clients' = [heartbeat_clients EXCEPT ![s] = c]
  <2>1. [session |-> s, task |-> "running", missed |-> 0] \in NamedClient
    BY DEF NamedClient, ClientRecord
  <2>2. BeatsTyped' BY <1>2, <2>1 DEF BeatsRight, BeatsTyped
  <2>3. ASSUME NEW x \in Calls, Beating(x)'
        PROVE  heartbeat_clients'[client'[x].session] = x \/ x \in leftovers'
    <3>1. CASE x = c BY <1>2, <3>1 DEF BeatsRight, BeatsTyped
    <3>2. CASE x # c
      <4>1. client'[x] = client[x] BY <1>2, <3>2 DEF BeatsRight, BeatsTyped
      <4>2. Beating(x) BY <2>3, <4>1 DEF Beating
      <4>3. client[x].session \in Sessions
        BY <4>2 DEF BeatsRight, BeatsTyped, NamedClient, Beating
      <4>4. heartbeat_clients[client[x].session] = x \/ x \in leftovers
        BY <4>2 DEF BeatsRight, Owned
      <4>5. x # None BY BridgeAssumption
      <4>6. client[x].session # s \/ x \in leftovers BY <1>2, <4>4, <4>5
      <4>. QED BY <1>2, <4>1, <4>3, <4>4, <4>6 DEF BeatsRight, BeatsTyped
    <3>. QED BY <3>1, <3>2
  <2>. QED BY <2>2, <2>3 DEF BeatsRight, Owned
<1>. QED BY <1>1, <1>2 DEF Ensured

\* A record of a client is written in place: a loop that still runs keeps its
\* session.
LEMMA ClientUpdated ==
  ASSUME BeatsRight, NEW c \in Calls, NEW r \in NamedClient,
         client' = [client EXCEPT ![c] = r],
         r.task = "running" => Beating(c) /\ r.session = client[c].session,
         UNCHANGED <<heartbeat_clients, leftovers>>
  PROVE  BeatsRight'
<1>1. BeatsTyped' BY DEF BeatsRight, BeatsTyped
<1>2. ASSUME NEW x \in Calls, Beating(x)'
      PROVE  Beating(x) /\ client'[x].session = client[x].session
  BY <1>2 DEF BeatsRight, BeatsTyped, Beating
<1>. QED BY <1>1, <1>2 DEF BeatsRight, Owned

\* A client that is stopped beats no more, and no other one begins to.
LEMMA StoppedClients ==
  ASSUME BeatsTyped, NEW x \in Calls, client' = Stopped(x)
  PROVE  /\ client' \in [Calls -> NamedClient]
         /\ ~Beating(x)'
         /\ \A y \in Calls : Beating(y)' =>
              Beating(y) /\ client'[y].session = client[y].session
<1> DEFINE r == IF Beating(x) THEN [client[x] EXCEPT !.task = "cancelled", !.missed = 0]
                              ELSE client[x]
<1>1. client[x] \in NamedClient BY DEF BeatsTyped
<1>2. Beating(x) => [client[x] EXCEPT !.task = "cancelled", !.missed = 0] \in NamedClient
  <2>1. [client[x] EXCEPT !.task = "cancelled", !.missed = 0] \in ClientRecord
    BY <1>1 DEF NamedClient, ClientRecord
  <2>2. Beating(x) => client[x].session \in Sessions
    BY <1>1 DEF NamedClient, Beating
  <2>. QED BY <1>1, <2>1, <2>2 DEF NamedClient, ClientRecord, Beating
<1>3. r \in NamedClient /\ r.task # "running"
  BY <1>1, <1>2 DEF NamedClient, ClientRecord, Beating
<1>4. client' = [client EXCEPT ![x] = r] BY DEF Stopped, BeatsTyped
<1>5. client' \in [Calls -> NamedClient] BY <1>3, <1>4 DEF BeatsTyped
<1>6. client'[x] = r /\ \A y \in Calls \ {x} : client'[y] = client[y]
  BY <1>4 DEF BeatsTyped
<1>. QED BY <1>3, <1>5, <1>6 DEF Beating

\* The cleanup of a session stops the loop it takes out of the registry.
LEMMA CleanupOwned ==
  ASSUME BeatsRight, NEW s \in Sessions, heartbeat_clients[s] # None,
         client' = Stopped(heartbeat_clients[s]),
         heartbeat_clients' = [heartbeat_clients EXCEPT ![s] = None],
         UNCHANGED leftovers
  PROVE  BeatsRight'
<1>1. PICK x \in Calls : x = heartbeat_clients[s] BY DEF BeatsRight, BeatsTyped
<1>2. /\ client' \in [Calls -> NamedClient]
      /\ ~Beating(x)'
      /\ \A y \in Calls : Beating(y)' =>
              Beating(y) /\ client'[y].session = client[y].session
  BY <1>1, StoppedClients DEF BeatsRight
<1>3. BeatsTyped' BY <1>2 DEF BeatsRight, BeatsTyped
<1>4. ASSUME NEW y \in Calls, Beating(y)'
      PROVE  heartbeat_clients'[client'[y].session] = y \/ y \in leftovers'
  <2>1. y # x BY <1>2, <1>4
  <2>2. Beating(y) /\ client'[y].session = client[y].session BY <1>2, <1>4
  <2>3. client[y].session \in Sessions
    BY <2>2 DEF BeatsRight, BeatsTyped, NamedClient, Beating
  <2>4. heartbeat_clients[client[y].session] = y \/ y \in leftovers
    BY <2>2 DEF BeatsRight, Owned
  <2>. QED BY <1>1, <2>1, <2>2, <2>3, <2>4 DEF BeatsRight, BeatsTyped
<1>. QED BY <1>3, <1>4 DEF BeatsRight, Owned

\* close() takes every loop of the registry with it.
LEMMA CloseOwned ==
  ASSUME BeatsRight, leftovers = {}, leftovers' = Registered, UNCHANGED client,
         heartbeat_clients' = [s \in Sessions |-> None]
  PROVE  BeatsRight'
<1>1. BeatsTyped' BY DEF BeatsRight, BeatsTyped
<1>2. ASSUME NEW y \in Calls, Beating(y)'
      PROVE  y \in leftovers'
  <2>1. Beating(y) BY <1>2 DEF Beating
  <2>2. client[y].session \in Sessions
    BY <2>1 DEF BeatsRight, BeatsTyped, NamedClient, Beating
  <2>3. heartbeat_clients[client[y].session] = y BY <2>1 DEF BeatsRight, Owned
  <2>4. y # None BY BridgeAssumption
  <2>. QED BY <2>2, <2>3, <2>4 DEF Registered
<1>. QED BY <1>1, <1>2 DEF BeatsRight, Owned

\* The shutdown stops one of the clients left.
LEMMA StopOwned ==
  ASSUME BeatsRight, leftovers \subseteq Calls, StopNext
  PROVE  BeatsRight'
<1>1. PICK x \in leftovers : client' = Stopped(x) /\ leftovers' = leftovers \ {x}
  BY DEF StopNext
<1>2. x \in Calls OBVIOUS
<1>3. /\ client' \in [Calls -> NamedClient]
      /\ ~Beating(x)'
      /\ \A y \in Calls : Beating(y)' =>
              Beating(y) /\ client'[y].session = client[y].session
  BY <1>1, <1>2, StoppedClients DEF BeatsRight
<1>4. UNCHANGED heartbeat_clients BY DEF StopNext
<1>5. BeatsTyped' BY <1>3, <1>4 DEF BeatsRight, BeatsTyped
<1>6. ASSUME NEW y \in Calls, Beating(y)'
      PROVE  heartbeat_clients'[client'[y].session] = y \/ y \in leftovers'
  <2>1. y # x BY <1>3, <1>6
  <2>2. Beating(y) /\ client'[y].session = client[y].session BY <1>3, <1>6
  <2>3. heartbeat_clients[client[y].session] = y \/ y \in leftovers
    BY <2>2 DEF BeatsRight, Owned
  <2>. QED BY <1>1, <1>4, <2>1, <2>2, <2>3
<1>. QED BY <1>5, <1>6 DEF BeatsRight, Owned

\* Every step keeps the loops owned.
LEMMA BeatsStayRight ==
  ASSUME IInv, [Next]_vars
  PROVE  BeatsRight'
<1>1. BeatsRight /\ CallsTyped /\ ServerTyped BY DEF IInv, BeatsRight
<1>2. CASE UNCHANGED vars BY <1>1, <1>2, BeatsKept DEF vars, beats, server
<1>3. CASE ElixirChanges BY <1>1, <1>3, BeatsKept DEF ElixirChanges, server
<1>4. CASE Signal BY <1>1, <1>4, BeatsKept DEF Signal
<1>5. CASE LoopStep
  <2>1. CASE BeginClose
    <3>1. leftovers = {} BY <1>1, <2>1 DEF BeginClose, ServerTyped
    <3>. QED BY <1>1, <2>1, <3>1, CloseOwned DEF BeginClose
  <2>2. CASE StopNext BY <1>1, <2>2, StopOwned DEF ServerTyped
  <2>3. CASE \/ Begin \/ Connect \/ ConnectThreaded \/ ConnectFails
             \/ CloseChannels \/ CloseThreaded \/ StopServer \/ Exit
    BY <1>1, <2>3, BeatsKept
       DEF Begin, Connect, ConnectThreaded, ConnectFails, CloseChannels, CloseThreaded,
           StopServer, Exit
  <2>. QED BY <1>5, <2>1, <2>2, <2>3 DEF LoopStep
<1>6. ASSUME NEW c \in Calls, Arrive(c) \/ ToolEnds(c) \/ CancelCall(c)
      PROVE  BeatsRight'
  BY <1>1, <1>6, BeatsKept DEF Arrive, ToolEnds, CancelCall, server
<1>7. ASSUME NEW c \in Calls, CallStep(c)
      PROVE  BeatsRight'
  <2>1. call[c].pc \notin {"idle", "done"} => call[c].session \in Sessions
    BY <1>1 DEF CallsTyped, NamedCall
  <2>2. CASE ProxyAnswers(c)
    <3>1. call[c].session \in Sessions BY <2>1, <2>2 DEF ProxyAnswers
    <3>. QED BY <1>1, <2>2, <3>1, EnsuredOwned DEF ProxyAnswers, server
  <2>3. CASE SyncReturns(c)
    <3>1. call[c].session \in Sessions BY <2>1, <2>3 DEF SyncReturns
    <3>. QED BY <1>1, <2>3, <3>1, EnsuredOwned DEF SyncReturns, server
  <2>4. CASE CleanupProxied(c)
    <3>1. call[c].session \in Sessions BY <2>1, <2>4 DEF CleanupProxied
    <3>2. UNCHANGED leftovers BY <2>4 DEF CleanupProxied, server
    <3>3. CASE heartbeat_clients[call[c].session] = None
      BY <1>1, <2>4, <3>2, <3>3, BeatsKept DEF CleanupProxied
    <3>4. CASE heartbeat_clients[call[c].session] # None
      BY <1>1, <2>4, <3>1, <3>2, <3>4, CleanupOwned DEF CleanupProxied
    <3>. QED BY <3>3, <3>4
  <2>5. CASE \/ ProxyFails(c) \/ CleanupJoined(c) \/ RegisterReturns(c)
             \/ ToolReturns(c) \/ CleanAdapter(c)
    BY <1>1, <2>5, BeatsKept
       DEF ProxyFails, CleanupJoined, RegisterReturns, ToolReturns, CleanAdapter, server
  <2>. QED BY <1>7, <2>2, <2>3, <2>4, <2>5 DEF CallStep
<1>8. ASSUME NEW c \in Calls, ClientStep(c)
      PROVE  BeatsRight'
  <2>1. client[c] \in NamedClient BY <1>1 DEF BeatsRight, BeatsTyped
  <2>2. CASE PingAnswered(c)
    <3>1. [client[c] EXCEPT !.missed = 0] \in NamedClient
      BY <2>1 DEF NamedClient, ClientRecord
    <3>2. client' = [client EXCEPT ![c] = [client[c] EXCEPT !.missed = 0]]
      BY <1>1, <2>2 DEF PingAnswered, BeatsRight, BeatsTyped
    <3>3. [client[c] EXCEPT !.missed = 0].session = client[c].session
      BY <2>1 DEF NamedClient, ClientRecord
    <3>. QED BY <1>1, <2>2, <3>1, <3>2, <3>3, ClientUpdated DEF PingAnswered, server
  <2>3. CASE PingMissed(c)
    <3> DEFINE m == IF AtThreshold(client[c].missed) THEN client[c].missed
                                                     ELSE client[c].missed + 1
    <3>1. client[c].missed \in Nat BY <2>1 DEF NamedClient, ClientRecord
    <3>2. [client[c] EXCEPT !.missed = m] \in NamedClient
      BY <2>1, <3>1 DEF NamedClient, ClientRecord
    <3>3. client' = [client EXCEPT ![c] = [client[c] EXCEPT !.missed = m]]
      BY <1>1, <2>3 DEF PingMissed, BeatsRight, BeatsTyped
    <3>4. [client[c] EXCEPT !.missed = m].session = client[c].session
      BY <2>1 DEF NamedClient, ClientRecord
    <3>. QED BY <1>1, <2>3, <3>2, <3>3, <3>4, ClientUpdated DEF PingMissed, server
  <2>4. CASE ClientEnds(c)
    <3>1. client[c].session \in Sessions
      BY <2>1, <2>4 DEF ClientEnds, NamedClient
    <3>2. [client[c] EXCEPT !.task = "ended"] \in NamedClient
      BY <2>1, <3>1 DEF NamedClient, ClientRecord
    <3>3. client' = [client EXCEPT ![c] = [client[c] EXCEPT !.task = "ended"]]
      BY <1>1, <2>4 DEF ClientEnds, BeatsRight, BeatsTyped
    <3>4. [client[c] EXCEPT !.task = "ended"].task = "ended"
      BY <2>1 DEF NamedClient, ClientRecord
    <3>. QED BY <1>1, <2>4, <3>2, <3>3, <3>4, ClientUpdated DEF ClientEnds, server
  <2>. QED BY <1>8, <2>2, <2>3, <2>4 DEF ClientStep
<1>. QED BY <1>2, <1>3, <1>4, <1>5, <1>6, <1>7, <1>8 DEF Next

----------------------------------------------------------------------------
(* The theorems.                                                           *)

\* Whatever the options and the environment say, the configuration is one.
LEMMA ConfigTyped ==
  ASSUME NEW given \in Options
  PROVE  FromMapping(Resolved(given.cli, given.env))
           \in [enabled : BOOLEAN, max_missed : Nat, dependent : BOOLEAN]
<1> DEFINE options == Resolved(given.cli, given.env)
<1>1. \A f \in DOMAIN options :
        IF f = "max_missed" THEN options[f] \in Int ELSE options[f] \in BOOLEAN
  BY OptionsAssumption DEF Resolved
<1>2. FromMapping(options).max_missed \in Nat
  BY <1>1 DEF FromMapping, Given, Coerced, Defaults
<1>3. FromMapping(options).enabled \in BOOLEAN
  BY <1>1 DEF FromMapping, Given, Coerced, Defaults
<1>4. FromMapping(options).dependent \in BOOLEAN
  BY <1>1 DEF FromMapping, Given, Coerced, Defaults
<1>. QED BY <1>2, <1>3, <1>4 DEF FromMapping

\* A server that has just been started.
LEMMA InitIInv == Init => IInv
<1> SUFFICES ASSUME Init PROVE IInv
  OBVIOUS
<1>1. FixedTyped
  <2>1. [Defaults EXCEPT !.enabled = FALSE, !.dependent = FALSE]
          \in [enabled : BOOLEAN, max_missed : Nat, dependent : BOOLEAN]
    BY DEF Defaults
  <2>2. threaded \in BOOLEAN
        /\ config \in [enabled : BOOLEAN, max_missed : Nat, dependent : BOOLEAN]
    BY <2>1, ConfigTyped DEF Init
  <2>. QED BY <2>2 DEF FixedTyped
<1>2. ServerTyped
  <2>1. MaxRetries \in Nat \ {0} BY BridgeAssumption
  <2>2. attempts \in 0..MaxRetries /\ attempts < MaxRetries BY <2>1 DEF Init
  <2>3. shutdown_event \in BOOLEAN /\ channel \in BOOLEAN BY DEF Init
  <2>4. stage \in Stages /\ leftovers = {} /\ leftovers \subseteq Calls BY DEF Init, Stages
  <2>. QED BY <2>2, <2>3, <2>4, Zenon DEF ServerTyped
<1>3. CallsTyped
  <2>1. NoCall \in NamedCall BY DEF NoCall, NamedCall, CallRecord, TidyCall
  <2>. QED BY <2>1 DEF Init, CallsTyped
<1>4. BeatsTyped /\ Owned
  <2>1. NoClient \in NamedClient /\ NoClient.task = "none"
    BY DEF NoClient, NamedClient, ClientRecord
  <2>. QED BY <2>1 DEF Init, BeatsTyped, Owned, Beating
<1>. QED BY <1>1, <1>2, <1>3, <1>4 DEF IInv, Init, BooksTyped

\* Every step keeps the invariant.
LEMMA NextIInv == IInv /\ [Next]_vars => IInv'
<1> SUFFICES ASSUME IInv, [Next]_vars PROVE IInv'
  OBVIOUS
<1>1. FixedTyped' /\ elixir' \in {"up", "down", "hung"}
  <2>1. FixedTyped /\ elixir \in {"up", "down", "hung"} BY DEF IInv
  <2>2. CASE ElixirChanges \/ Signal \/ UNCHANGED vars
    BY <2>1, <2>2 DEF FixedTyped, vars, fixed, ElixirChanges, Signal
  <2>3. CASE LoopStep
    <3>1. UNCHANGED <<fixed, elixir>>
      BY <2>3 DEF LoopStep, Begin, Connect, ConnectThreaded, ConnectFails, BeginClose,
                  StopNext, CloseChannels, CloseThreaded, StopServer, Exit
    <3>. QED BY <2>1, <3>1 DEF FixedTyped, fixed
  <2>4. ASSUME NEW c \in Calls, Arrive(c) \/ ToolEnds(c) \/ CancelCall(c) \/ ClientStep(c)
        PROVE  UNCHANGED <<fixed, elixir>>
    BY <2>4 DEF Arrive, ToolEnds, CancelCall, ClientStep, PingAnswered, PingMissed, ClientEnds
  <2>5. ASSUME NEW c \in Calls, CallStep(c)
        PROVE  UNCHANGED <<fixed, elixir>>
    BY <2>5 DEF CallStep, ProxyAnswers, ProxyFails, CleanupProxied, CleanupJoined,
                SyncReturns, RegisterReturns, ToolReturns, CleanAdapter
  <2>6. CASE UNCHANGED <<fixed, elixir>> BY <2>1, <2>6 DEF FixedTyped, fixed
  <2>. QED BY <2>2, <2>3, <2>4, <2>5, <2>6 DEF Next
<1>2. ServerTyped' BY ServerStaysTyped DEF IInv
<1>3. CallsTyped' BY CallsStayTyped DEF IInv
<1>4. BooksTyped'
  <2>1. CASE UNCHANGED registered_sessions BY <2>1 DEF IInv, BooksTyped
  <2>2. ASSUME NEW c \in Calls, RegisterReturns(c)
        PROVE  BooksTyped'
    <3>1. call[c].session \in Sessions
      BY <2>2 DEF IInv, CallsTyped, NamedCall, RegisterReturns
    <3>. QED BY <2>2, <3>1 DEF IInv, BooksTyped, RegisterReturns
  <2>3. CASE ElixirChanges \/ Signal \/ LoopStep \/ UNCHANGED vars
    <3>1. UNCHANGED registered_sessions
      BY <2>3 DEF vars, books, ElixirChanges, Signal, LoopStep, Begin, Connect,
                  ConnectThreaded, ConnectFails, BeginClose, StopNext, CloseChannels,
                  CloseThreaded, StopServer, Exit
    <3>. QED BY <2>1, <3>1
  <2>4. ASSUME NEW c \in Calls, Arrive(c) \/ ToolEnds(c) \/ CancelCall(c) \/ ClientStep(c)
        PROVE  UNCHANGED registered_sessions
    BY <2>4 DEF books, Arrive, ToolEnds, CancelCall, ClientStep, PingAnswered, PingMissed,
                ClientEnds
  <2>5. ASSUME NEW c \in Calls, CallStep(c), ~RegisterReturns(c)
        PROVE  UNCHANGED registered_sessions
    BY <2>5 DEF books, CallStep, ProxyAnswers, ProxyFails, CleanupProxied, CleanupJoined,
                SyncReturns, ToolReturns, CleanAdapter
  <2>. QED BY <2>1, <2>2, <2>3, <2>4, <2>5 DEF Next
<1>5. BeatsTyped' /\ Owned' BY BeatsStayRight DEF BeatsRight
<1>. QED BY <1>1, <1>2, <1>3, <1>4, <1>5 DEF IInv

\* No heartbeat loop is lost or doubled: EveryHeartbeatOwned holds for any number of
\* sessions and calls, in any order of cleanups, tool calls and the shutdown.
THEOREM HeartbeatsOwned == Spec => []EveryHeartbeatOwned
<1>1. IInv => EveryHeartbeatOwned
  <2>1. NamedCall \subseteq CallRecord /\ NamedClient \subseteq ClientRecord
    BY DEF NamedCall, NamedClient
  <2>2. IInv => TypeOK
    BY <2>1 DEF IInv, TypeOK, FixedTyped, ServerTyped, CallsTyped, BooksTyped, BeatsTyped
  <2>3. IInv => Owned BY DEF IInv
  <2>. QED BY <2>2, <2>3 DEF EveryHeartbeatOwned, Owned
<1>. QED BY <1>1, InitIInv, NextIInv, PTL DEF Spec

\* The counter of a server that has just been started.
LEMMA InitCounted == Init => Counted
<1> SUFFICES ASSUME Init PROVE Counted
  OBVIOUS
<1>1. ToolCalls = {} BY DEF Init, ToolCalls, NoCall
<1>. QED BY <1>1, FS_EmptySet DEF Init, Counted

\* Every adapter is cleaned by the call that created it, and the threaded server
\* counts exactly the tool calls under way: AdapterReleased holds for any calls, however
\* they are cancelled and however their tools end.
THEOREM AdaptersReleased == Spec => []AdapterReleased
<1>1. IInv /\ Counted => AdapterReleased
  <2> SUFFICES ASSUME IInv, Counted PROVE AdapterReleased
    OBVIOUS
  <2>1. ASSUME NEW c \in Calls
        PROVE  /\ call[c].pc = "done" => call[c].adapter # "live"
               /\ call[c].adapter = "cleaned" /\ Running(c) => call[c].cancelled
    <3>1. call[c] \in NamedCall BY DEF IInv, CallsTyped
    <3>. QED BY <3>1 DEF NamedCall, TidyCall, Running
  <2>. QED BY <2>1 DEF AdapterReleased, Counted
<1>2. IInv /\ Counted /\ [Next]_vars => IInv' /\ Counted'
  BY NextIInv, CountStays DEF IInv
<1>. QED BY <1>1, <1>2, InitIInv, InitCounted, PTL DEF Spec
----------------------------------------------------------------------------
(***************************************************************************)
(* The other half of the server: StreamingTool, one ExecuteStreamingTool   *)
(* call, with the properties of StreamingCall.                             *)
(*                                                                         *)
(* The invariant says where each chunk is while the client reads: those    *)
(* delivered, the one gRPC is sending, those that lead the queue and the   *)
(* one being put are numbered without a gap (Ordered), because one task or *)
(* thread puts at a time (Handed) and only an end, a failure or a sentinel,*)
(* stands behind the chunks, once nothing more will be put (Shut); and the *)
(* chunk that was marked as the last one is among them (FinalComes).       *)
(***************************************************************************)
\* The assumption of StreamingCall, for the lemmas to name.
StreamBounds == MaxQueue \in Nat \ {0} /\ MaxChunks \in Nat \ {0}

----------------------------------------------------------------------------
(* The inductive invariant of a stream.                                    *)

\* Before the stream begins nothing of it exists, and outside it nothing is held.
Begun ==
  /\ active = (IF servicer = "threaded" /\ pc \notin {"setup", "done"} THEN 1 ELSE 0)
  /\ pc \in {"setup", "initialize", "execute"} =>
       /\ producer = "none" /\ watcher = "none" /\ thread = "none" /\ iterator = "none"
       /\ queue = <<>> /\ delivered = <<>> /\ holding = Stream!NoChunk /\ pending = Stream!NoChunk
       /\ produced = 0 /\ ~marked_final /\ ~cancelled /\ outcome = "none"
  /\ Stream!Streaming /\ kind = "sync" => iterator = "open"
  /\ pc = "joining" => producer = "ended" /\ watcher = "ended" /\ cancelled
  /\ pc = "done" => /\ producer \in {"none", "ended"} /\ watcher \in {"none", "ended"}
                    /\ iterator = "open" =>
                         kind = "sync" /\ thread \in {"iterating", "returned", "raised"}
                    /\ thread = "waiting" => iterator = "closed"
                    /\ producer = "ended" => cancelled
                    /\ producer = "none" => thread = "none"
  /\ outcome # "none" <=> pc \in {"stopping", "joining", "done"}
  /\ pc = "yielded" <=> holding # Stream!NoChunk

\* Who has the chunk that is being put; the epilogue comes after the last put.
Handed ==
  /\ pending # Stream!NoChunk <=> producer = "put" \/ thread = "waiting"
  /\ producer = "put" => kind # "sync"
  /\ thread # "none" => kind = "sync"
  /\ producer \in {"final", "failed", "sentinel"} => thread \notin {"iterating", "waiting"}
  /\ producer \notin {"sentinel", "ended"} => produced <= MaxChunks

\* Nothing will be put any more.
Shut == producer \in {"sentinel", "ended"} /\ thread \notin {"iterating", "waiting"}

\* The chunks that have left the queue.
Gone == Len(delivered) + (IF pc = "yielded" THEN 1 ELSE 0)

\* The queue holds the chunks that follow those, n of them, and then other items.
Follows(n) ==
  /\ \A j \in 1..n : queue[j].tag = "chunk" /\ queue[j].n = Gone + j
  /\ \A j \in (n + 1)..Len(queue) : queue[j].tag # "chunk"
  /\ produced = Gone + n + (IF pending = Stream!NoChunk THEN 0 ELSE 1)
  /\ n # Len(queue) => Shut

Reading == ~clientGone /\ outcome = "none"

\* What the client reads is in order and on its way.
Ordered ==
  /\ \A i \in 1..Len(delivered) : delivered[i].n = i
  /\ holding # Stream!NoChunk => holding.n = Len(delivered) + 1
  /\ pending # Stream!NoChunk => pending.n = produced
  /\ \E n \in 0..Len(queue) : Follows(n)

\* The chunk that was marked as the last one is on its way, and the sentinel
\* comes behind it, or behind a failure.
Final(item) == item.tag = "chunk" /\ item.final
Fails(j)    == queue[j] = Stream!Failure
FinalComes ==
  /\ marked_final => \/ \E i \in 1..Len(delivered) : Final(delivered[i])
                     \/ \E i \in 1..Len(queue) : Final(queue[i])
                     \/ Final(holding) \/ Final(pending)
  /\ cancelled => thread = "gaveup"
  /\ producer = "sentinel" => marked_final \/ \E j \in 1..Len(queue) : Fails(j)
  /\ \A j \in 1..Len(queue) :
       queue[j] = Stream!Sentinel => /\ producer = "ended"
                                     /\ marked_final \/ \E k \in 1..(j - 1) : Fails(k)

\* An orderly end leaves nothing behind.
Complete ==
  outcome = "ok" /\ ~clientGone =>
    /\ Shut /\ producer = "ended" /\ produced = Len(delivered)
    /\ \E i \in 1..Len(delivered) : Final(delivered[i])

StreamInv == /\ Stream!TypeOK /\ Begun /\ Handed
             /\ Reading => Ordered /\ FinalComes
             /\ Complete

----------------------------------------------------------------------------
(* Items and queues.                                                       *)

\* What kind of item is what.
LEMMA ItemFacts ==
  ASSUME StreamBounds
  PROVE
  /\ Stream!NoChunk.tag = "none" /\ Stream!Sentinel.tag = "sentinel"
  /\ Stream!Failure.tag = "error"
  /\ ~Stream!NoChunk.final /\ ~Stream!Sentinel.final /\ ~Stream!Failure.final
  /\ Stream!NoChunk \notin Stream!Chunk /\ Stream!Sentinel \in Stream!Items
  /\ Stream!Failure \in Stream!Items /\ Stream!Sentinel # Stream!Failure
  /\ \A item \in Stream!Chunk :
       /\ item.tag = "chunk" /\ item.final \in BOOLEAN /\ item.n \in Nat
       /\ item \in Stream!Items /\ item # Stream!NoChunk
       /\ item # Stream!Sentinel /\ item # Stream!Failure
  /\ \A item \in Stream!Items : item.tag = "chunk" => item \in Stream!Chunk
  /\ \A item \in Stream!Items :
       item \notin Stream!Chunk => item = Stream!Sentinel \/ item = Stream!Failure
  BY DEF StreamBounds, Stream!Item, Stream!NoChunk, Stream!Sentinel, Stream!Failure, Stream!Chunk,
       Stream!Items

\* A chunk that is built follows the last one.
LEMMA BuiltFacts ==
  ASSUME StreamBounds, NEW final \in BOOLEAN, produced \in 0..MaxChunks
  PROVE  /\ Stream!Built(final) \in Stream!Chunk /\ Stream!Built(final).n = produced + 1
         /\ Stream!Built(final).final = final
  <1>1. produced + 1 \in 1..(MaxChunks + 1) BY DEF StreamBounds
  <1>. QED BY <1>1 DEF Stream!Built, Stream!Item, Stream!Chunk

\* An item joins a queue that has room for it.
LEMMA PutIn ==
  ASSUME NEW S, NEW q \in Seq(S), NEW item \in S
  PROVE  /\ Append(q, item) \in Seq(S) /\ Len(Append(q, item)) = Len(q) + 1
         /\ \A i \in 1..Len(q) : Append(q, item)[i] = q[i]
         /\ Append(q, item)[Len(q) + 1] = item
         /\ Len(q) \in Nat /\ Len(q) + 1 \in 1..Len(Append(q, item))
         /\ \A i \in 1..Len(q) : i \in 1..Len(Append(q, item))
         /\ \A i \in 1..Len(Append(q, item)) : i \in 1..Len(q) \/ i = Len(q) + 1
  <1> DEFINE r == Append(q, item)
  <1>1. /\ r \in Seq(S) /\ Len(r) = Len(q) + 1 /\ Len(q) \in Nat
        /\ \A i \in 1..Len(q) : r[i] = q[i]
        /\ r[Len(q) + 1] = item
    BY AppendProperties, LenProperties
  <1> HIDE DEF r
  <1>2. /\ Len(q) + 1 \in 1..Len(r)
        /\ \A i \in 1..Len(q) : i \in 1..Len(r)
        /\ \A i \in 1..Len(r) : i \in 1..Len(q) \/ i = Len(q) + 1
    BY <1>1
  <1>. QED BY <1>1, <1>2 DEF r

\* The first item leaves a queue.
LEMMA TakenOut ==
  ASSUME NEW S, NEW q \in Seq(S), q # <<>>
  PROVE  /\ Head(q) \in S /\ Head(q) = q[1] /\ 1 \in 1..Len(q) /\ Len(q) \in Nat
         /\ Tail(q) \in Seq(S) /\ Len(Tail(q)) = Len(q) - 1 /\ Len(Tail(q)) \in Nat
         /\ \A i \in 1..Len(Tail(q)) : Tail(q)[i] = q[i + 1] /\ i + 1 \in 1..Len(q)
         /\ \A i \in 1..Len(q) : i # 1 => i - 1 \in 1..Len(Tail(q)) /\ Tail(q)[i - 1] = q[i]
  <1> DEFINE r == Tail(q)
  <1>1. /\ Head(q) \in S /\ Head(q) = q[1] /\ Len(q) \in Nat /\ Len(q) # 0
        /\ r \in Seq(S) /\ Len(r) = Len(q) - 1
        /\ \A i \in 1..Len(r) : r[i] = q[i + 1]
    BY HeadTailProperties, EmptySeq, LenProperties
  <1> HIDE DEF r
  <1>2. /\ 1 \in 1..Len(q) /\ Len(r) \in Nat
        /\ \A i \in 1..Len(r) : i + 1 \in 1..Len(q)
    BY <1>1
  <1>3. ASSUME NEW i \in 1..Len(q), i # 1 PROVE i - 1 \in 1..Len(r) /\ r[i - 1] = q[i]
    <2>1. i - 1 \in 1..Len(r) /\ i - 1 + 1 = i BY <1>1, <1>3
    <2>. QED BY <1>1, <2>1
  <1>. QED BY <1>1, <1>2, <1>3 DEF r

----------------------------------------------------------------------------
(* The types, what is held, and who puts.                                  *)

\* The types are kept.
LEMMA TypesKept ==
  ASSUME StreamBounds, Stream!TypeOK, Begun, Handed, Stream!Next
  PROVE  Stream!TypeOK'
  <1>1. MaxQueue \in Nat /\ MaxQueue >= 1 /\ MaxChunks \in Nat /\ Len(queue) \in Nat
    BY LenProperties DEF StreamBounds, Stream!TypeOK
  <1>2. CASE \/ Stream!Setup \/ Stream!Initialized \/ Stream!FailSetup \/ Stream!FailEarly
             \/ Stream!CancelEarly \/ Stream!Release
    BY <1>1, <1>2, ItemFacts DEF Stream!TypeOK, Begun, Stream!Setup, Stream!Initialized,
         Stream!FailSetup, Stream!FailEarly, Stream!CancelEarly, Stream!Release,
         Stream!RecordStart, Stream!RecordEnd, Stream!Cleaned, Stream!Closed, Stream!config,
         Stream!tool, Stream!release
  <1>3. CASE \/ Stream!StartStream \/ Stream!ClientLeaves \/ Stream!CancelHandler
             \/ Stream!StopTasks \/ Stream!AsyncRaise \/ Stream!ThreadUnencodable
             \/ Stream!ThreadEnds \/ Stream!ThreadRaised \/ Stream!WatcherEnds
    <2>1. UNCHANGED <<kind, watched, servicer, queue, delivered, produced, marked_final>>
      BY <1>3 DEF Stream!StartStream, Stream!ClientLeaves, Stream!CancelHandler, Stream!StopTasks,
           Stream!AsyncRaise, Stream!ThreadUnencodable, Stream!ThreadEnds, Stream!ThreadRaised,
           Stream!WatcherEnds, Stream!config, Stream!tool
    <2>2. /\ pending' \in {pending, Stream!NoChunk} /\ holding' \in {holding, Stream!NoChunk}
          /\ iterator' \in {"none", "open", "closed"} /\ UNCHANGED <<active, cleanups>>
      BY <1>3 DEF Stream!StartStream, Stream!ClientLeaves, Stream!CancelHandler, Stream!StopTasks,
           Stream!AsyncRaise, Stream!ThreadUnencodable, Stream!ThreadEnds, Stream!ThreadRaised,
           Stream!WatcherEnds, Stream!tool, Stream!release, Stream!TypeOK
    <2>3. /\ cancelled' \in BOOLEAN /\ clientGone' \in BOOLEAN
          /\ pc' \in {"setup", "initialize", "execute", "consume", "yielded", "stopping",
                     "joining", "done"}
          /\ outcome' \in {"none", "ok", "error", "cancelled"}
          /\ producer' \in {"none", "running", "put", "final", "failed", "sentinel", "ended"}
          /\ thread' \in {"none", "iterating", "waiting", "returned", "raised", "gaveup"}
          /\ watcher' \in {"none", "watching", "ended"}
      BY <1>3 DEF Stream!StartStream, Stream!ClientLeaves, Stream!CancelHandler, Stream!StopTasks,
           Stream!AsyncRaise, Stream!ThreadUnencodable, Stream!ThreadEnds, Stream!ThreadRaised,
           Stream!WatcherEnds, Stream!tool, Stream!TypeOK
    <2>. QED BY <2>1, <2>2, <2>3 DEF Stream!TypeOK
  <1>4. CASE Stream!Exhausted
    <2>1. Stream!Epilogue \in {"ended", "final", "sentinel"} BY DEF Stream!Epilogue, Stream!TypeOK
    <2>. QED BY <1>4, <2>1 DEF Stream!TypeOK, Stream!Exhausted, Stream!config, Stream!tool,
         Stream!release
  <1>5. CASE Stream!TakeChunk \/ Stream!TakeSentinel \/ Stream!TakeError
    <2>1. /\ queue # <<>> /\ queue' = Tail(queue) /\ queue \in Seq(Stream!Items)
          /\ UNCHANGED <<Stream!config, active, clientGone, delivered, producer, Stream!tool,
                         watcher, Stream!release>>
      BY <1>5 DEF Stream!TakeChunk, Stream!TakeSentinel, Stream!TakeError, Stream!TypeOK
    <2>2. /\ Head(queue) \in Stream!Items
          /\ queue' \in Seq(Stream!Items) /\ Len(queue') = Len(queue) - 1
      BY <2>1, TakenOut
    <2>3. Len(queue') <= MaxQueue BY <1>1, <2>2 DEF Stream!TypeOK
    <2>4. /\ holding' \in Stream!Chunk \cup {Stream!NoChunk} /\ cancelled' \in BOOLEAN
          /\ pc' \in {"yielded", "stopping"} /\ outcome' \in {"none", "ok", "error", "cancelled"}
      BY <1>5, <2>2, ItemFacts DEF Stream!TakeChunk, Stream!TakeSentinel, Stream!TakeError,
           Stream!TypeOK
    <2>. QED BY <2>1, <2>2, <2>3, <2>4 DEF Stream!TypeOK, Stream!config, Stream!tool,
         Stream!release
  <1>6. CASE Stream!ClientReads
    <2>1. holding \in Stream!Chunk BY <1>6 DEF Stream!ClientReads, Stream!TypeOK, Begun
    <2>2. delivered' \in Seq(Stream!Chunk)
      <3>1. Append(delivered, holding) \in Seq(Stream!Chunk) BY <2>1, PutIn DEF Stream!TypeOK
      <3>. QED BY <1>6, <3>1 DEF Stream!ClientReads, Stream!TypeOK
    <2>. QED BY <1>6, <2>2 DEF Stream!ClientReads, Stream!TypeOK, Stream!config, Stream!tool,
         Stream!release
  <1>7. CASE Stream!AsyncYield \/ Stream!ThreadYield
    <2>1. Stream!MayYield => produced \in 0..MaxChunks /\ produced + 1 \in 0..(MaxChunks + 1)
      BY DEF StreamBounds, Stream!MayYield, Stream!TypeOK
    <2>2. Stream!MayYield => \A final \in BOOLEAN : Stream!Built(final) \in Stream!Chunk
      BY <2>1, BuiltFacts
    <2>3. CASE Stream!AsyncYield BY <2>1, <2>2, <2>3 DEF Stream!AsyncYield, Stream!TypeOK,
         Stream!config, Stream!tool, Stream!release
    <2>4. CASE Stream!ThreadYield BY <2>1, <2>2, <2>4 DEF Stream!ThreadYield, Stream!TypeOK,
         Stream!config, Stream!tool, Stream!release
    <2>. QED BY <1>7, <2>3, <2>4
  <1>8. ASSUME NEW item \in Stream!Items, Stream!HasRoom, queue' = Append(queue, item)
        PROVE  queue' \in Seq(Stream!Items) /\ Len(queue') <= MaxQueue
    <2>1. queue' \in Seq(Stream!Items) /\ Len(queue') = Len(queue) + 1
      BY <1>8, PutIn DEF Stream!TypeOK
    <2>. QED BY <1>1, <1>8, <2>1 DEF Stream!HasRoom
  <1>9. CASE Stream!AsyncPut \/ Stream!ThreadPut
    <2>1. pending \in Stream!Chunk /\ Stream!HasRoom /\ queue' = Append(queue, pending)
      BY <1>9 DEF Stream!AsyncPut, Stream!ThreadPut, Stream!TypeOK, Handed
    <2>2. queue' \in Seq(Stream!Items) /\ Len(queue') <= MaxQueue BY <1>8, <2>1, ItemFacts
    <2>. QED BY <1>9, <2>2 DEF Stream!AsyncPut, Stream!ThreadPut, Stream!TypeOK, Stream!config,
         Stream!tool, Stream!release
  <1>10. CASE Stream!PutFinal
    <2>1. /\ produced \in 0..MaxChunks /\ Stream!HasRoom
          /\ queue' = Append(queue, Stream!Built(TRUE))
      BY <1>1, <1>10 DEF Stream!PutFinal, Stream!TypeOK, Handed
    <2>2. Stream!Built(TRUE) \in Stream!Items BY <2>1, BuiltFacts, ItemFacts
    <2>3. queue' \in Seq(Stream!Items) /\ Len(queue') <= MaxQueue BY <1>8, <2>1, <2>2
    <2>4. produced + 1 \in 0..(MaxChunks + 1) BY <1>1, <2>1
    <2>5. /\ producer' \in {"ended", "sentinel"} /\ marked_final' \in BOOLEAN
          /\ produced' = produced + 1
          /\ UNCHANGED <<Stream!config, active, pc, outcome, clientGone, holding, delivered, thread,
                         pending, cancelled, watcher, Stream!release>>
      BY <1>10 DEF Stream!PutFinal
    <2>. QED BY <2>3, <2>4, <2>5 DEF Stream!TypeOK, Stream!config, Stream!release
  <1>11. CASE Stream!PutFailure \/ Stream!PutSentinel
    <2>1. queue' \in Seq(Stream!Items) /\ Len(queue') <= MaxQueue
      BY <1>8, <1>11, ItemFacts DEF Stream!PutFailure, Stream!PutSentinel
    <2>. QED BY <1>11, <2>1 DEF Stream!PutFailure, Stream!PutSentinel, Stream!TypeOK,
         Stream!config, Stream!tool, Stream!release
  <1>12. CASE Stream!WatchDisconnect
    <2>1. queue' \in Seq(Stream!Items) /\ Len(queue') <= MaxQueue
      <3>1. CASE Stream!HasRoom
        <4>1. queue' = Append(queue, Stream!Sentinel)
          BY <1>12, <3>1 DEF Stream!WatchDisconnect, Stream!Unblocked
        <4>. QED BY <1>8, <3>1, <4>1, ItemFacts
      <3>2. CASE ~Stream!HasRoom
        <4>1. queue' = Append(Tail(queue), Stream!Sentinel)
          BY <1>12, <3>2 DEF Stream!WatchDisconnect, Stream!Unblocked
        <4>2. queue # <<>>
          <5>1. Len(<<>>) = 0 BY EmptySeq
          <5>. QED BY <1>1, <3>2, <5>1 DEF Stream!HasRoom
        <4>3. Tail(queue) \in Seq(Stream!Items) /\ Len(Tail(queue)) = Len(queue) - 1
          BY <4>2, TakenOut DEF Stream!TypeOK
        <4>4. queue' \in Seq(Stream!Items) /\ Len(queue') = Len(Tail(queue)) + 1
          BY <4>1, <4>3, PutIn, ItemFacts
        <4>. QED BY <1>1, <4>3, <4>4 DEF Stream!TypeOK
      <3>. QED BY <3>1, <3>2
    <2>. QED BY <1>12, <2>1 DEF Stream!WatchDisconnect, Stream!TypeOK, Stream!config, Stream!tool,
         Stream!release
  <1>. QED
    BY <1>2, <1>3, <1>4, <1>5, <1>6, <1>7, <1>9, <1>10, <1>11, <1>12 DEF Stream!Next,
         Stream!HandlerStep, Stream!ProducerStep, Stream!WatcherStep, Stream!ToolStep

\* What exists when: the count of requests, the tasks and the iterator.
LEMMA BegunKept ==
  ASSUME StreamBounds, Stream!TypeOK, Begun, Handed, Stream!Next
  PROVE  Begun'
  <1>1. CASE \/ Stream!Setup \/ Stream!Initialized \/ Stream!FailSetup \/ Stream!FailEarly
             \/ Stream!CancelEarly
    BY <1>1 DEF Stream!TypeOK, Begun, Stream!Streaming, Stream!Setup, Stream!Initialized,
         Stream!FailSetup, Stream!FailEarly, Stream!CancelEarly, Stream!RecordStart, Stream!RecordEnd,
         Stream!Cleaned, Stream!config, Stream!tool, Stream!release
  <1>2. CASE Stream!Release
    BY <1>2 DEF Stream!TypeOK, Begun, Stream!Streaming, Handed, Stream!Release, Stream!RecordEnd,
         Stream!Cleaned, Stream!Closed, Stream!config, Stream!tool, Stream!release
  <1>3. CASE \/ Stream!StartStream \/ Stream!ClientLeaves \/ Stream!CancelHandler
             \/ Stream!StopTasks
    BY <1>3, ItemFacts DEF Stream!TypeOK, Begun, Stream!Streaming, Stream!StartStream,
         Stream!ClientLeaves, Stream!CancelHandler, Stream!StopTasks, Stream!config, Stream!tool,
         Stream!release
  <1>4. CASE \/ Stream!TakeSentinel \/ Stream!TakeError \/ Stream!ClientReads
    BY <1>4, ItemFacts DEF Stream!TypeOK, Begun, Stream!Streaming, Stream!TakeSentinel,
         Stream!TakeError, Stream!ClientReads, Stream!config, Stream!tool, Stream!release
  <1>5. CASE Stream!TakeChunk
    <2>1. holding' # Stream!NoChunk BY <1>5, ItemFacts DEF Stream!TakeChunk
    <2>. QED BY <1>5, <2>1 DEF Stream!TypeOK, Begun, Stream!Streaming, Stream!TakeChunk,
         Stream!config, Stream!tool, Stream!release
  <1>6. CASE \/ Stream!AsyncYield \/ Stream!AsyncPut \/ Stream!AsyncRaise \/ Stream!ThreadRaised
             \/ Stream!PutFinal \/ Stream!PutFailure \/ Stream!PutSentinel
    BY <1>6 DEF Stream!TypeOK, Begun, Stream!Streaming, Stream!AsyncYield, Stream!AsyncPut,
         Stream!AsyncRaise, Stream!ThreadRaised, Stream!PutFinal, Stream!PutFailure,
         Stream!PutSentinel, Stream!config, Stream!tool, Stream!release
  <1>7. CASE Stream!Exhausted
    BY <1>7 DEF Stream!TypeOK, Begun, Stream!Streaming, Stream!Exhausted, Stream!config,
         Stream!tool, Stream!release
  <1>8. CASE Stream!ThreadYield \/ Stream!ThreadPut \/ Stream!ThreadUnencodable
                                \/ Stream!ThreadEnds
    BY <1>8 DEF Stream!TypeOK, Begun, Stream!Streaming, Stream!ThreadYield, Stream!ThreadPut,
         Stream!ThreadUnencodable, Stream!ThreadEnds, Stream!config, Stream!tool, Stream!release
  <1>9. CASE Stream!WatchDisconnect \/ Stream!WatcherEnds
    BY <1>9 DEF Stream!TypeOK, Begun, Stream!Streaming, Stream!WatchDisconnect,
         Stream!WatcherEnds, Stream!config, Stream!tool, Stream!release
  <1>. QED
    BY <1>1, <1>2, <1>3, <1>4, <1>5, <1>6, <1>7, <1>8, <1>9 DEF Stream!Next, Stream!HandlerStep,
         Stream!ProducerStep, Stream!WatcherStep, Stream!ToolStep

\* One puts at a time, and the epilogue comes when nobody does.
LEMMA HandedKept ==
  ASSUME StreamBounds, Stream!TypeOK, Begun, Handed, Stream!Next
  PROVE  Handed'
  <1>1. CASE \/ Stream!Setup \/ Stream!Initialized \/ Stream!FailSetup \/ Stream!FailEarly
             \/ Stream!CancelEarly \/ Stream!Release \/ Stream!ClientLeaves
             \/ Stream!CancelHandler \/ Stream!TakeChunk \/ Stream!TakeSentinel
             \/ Stream!TakeError \/ Stream!ClientReads \/ Stream!WatchDisconnect
             \/ Stream!WatcherEnds
    <2>1. UNCHANGED <<kind, producer, thread, pending, produced>>
      BY <1>1 DEF Stream!Setup, Stream!Initialized, Stream!FailSetup, Stream!FailEarly,
           Stream!CancelEarly, Stream!Release, Stream!ClientLeaves, Stream!CancelHandler,
           Stream!TakeChunk, Stream!TakeSentinel, Stream!TakeError, Stream!ClientReads,
           Stream!WatchDisconnect, Stream!WatcherEnds, Stream!config, Stream!tool
    <2>. QED BY <2>1 DEF Handed
  <1>2. CASE Stream!StartStream \/ Stream!StopTasks
    BY <1>2 DEF Stream!TypeOK, Begun, Handed, Stream!StartStream, Stream!StopTasks, Stream!config,
         Stream!tool
  <1>3. CASE Stream!AsyncYield \/ Stream!ThreadYield
    <2>1. Stream!MayYield => produced \in 0..MaxChunks /\ produced + 1 <= MaxChunks
      BY DEF StreamBounds, Stream!MayYield, Stream!TypeOK
    <2>2. Stream!MayYield => \A final \in BOOLEAN : Stream!Built(final) # Stream!NoChunk
      BY <2>1, BuiltFacts, ItemFacts
    <2>3. CASE Stream!AsyncYield BY <2>1, <2>2, <2>3 DEF Stream!AsyncYield, Stream!TypeOK, Handed,
         Stream!config, Stream!tool
    <2>4. CASE Stream!ThreadYield BY <2>1, <2>2, <2>4 DEF Stream!ThreadYield, Stream!TypeOK,
         Handed, Stream!config, Stream!tool
    <2>. QED BY <1>3, <2>3, <2>4
  <1>4. CASE Stream!AsyncPut \/ Stream!ThreadPut \/ Stream!AsyncRaise \/ Stream!ThreadUnencodable
                             \/ Stream!ThreadEnds \/ Stream!ThreadRaised
    BY <1>4 DEF Stream!AsyncPut, Stream!ThreadPut, Stream!AsyncRaise, Stream!ThreadUnencodable,
         Stream!ThreadEnds, Stream!ThreadRaised, Stream!TypeOK, Handed, Stream!config, Stream!tool
  <1>5. CASE Stream!Exhausted
    <2>1. Stream!Epilogue \in {"ended", "final", "sentinel"} BY DEF Stream!Epilogue, Stream!TypeOK
    <2>. QED BY <1>5, <2>1 DEF Stream!Exhausted, Stream!TypeOK, Handed, Stream!config, Stream!tool
  <1>6. CASE Stream!PutFinal \/ Stream!PutFailure \/ Stream!PutSentinel
    BY <1>6 DEF Stream!PutFinal, Stream!PutFailure, Stream!PutSentinel, Stream!TypeOK, Handed,
         Stream!config, Stream!tool
  <1>. QED BY <1>1, <1>2, <1>3, <1>4, <1>5, <1>6 DEF Stream!Next, Stream!HandlerStep,
       Stream!ProducerStep, Stream!WatcherStep, Stream!ToolStep

----------------------------------------------------------------------------
(* The order of the chunks.                                                *)

\* While the client reads, the steps of the call are these.
LEMMA ReadingSteps ==
  ASSUME StreamBounds, Stream!TypeOK, Begun, Stream!Next, Reading'
  PROVE  /\ Reading
         /\ \/ Stream!Setup \/ Stream!Initialized \/ Stream!StartStream \/ Stream!TakeChunk
            \/ Stream!ClientReads \/ Stream!WatcherEnds \/ Stream!AsyncYield \/ Stream!AsyncPut
            \/ Stream!AsyncRaise \/ Stream!ThreadYield \/ Stream!ThreadPut
            \/ Stream!ThreadUnencodable \/ Stream!ThreadEnds \/ Stream!Exhausted
            \/ Stream!ThreadRaised \/ Stream!PutFinal \/ Stream!PutFailure \/ Stream!PutSentinel
  <1>1. CASE \/ Stream!FailSetup \/ Stream!FailEarly \/ Stream!CancelEarly \/ Stream!TakeSentinel
             \/ Stream!TakeError \/ Stream!CancelHandler \/ Stream!ClientLeaves
             \/ Stream!StopTasks \/ Stream!Release \/ Stream!WatchDisconnect
    <2>1. ~Reading'
      BY <1>1 DEF Reading, Begun, Stream!FailSetup, Stream!FailEarly, Stream!CancelEarly,
           Stream!TakeSentinel, Stream!TakeError, Stream!CancelHandler, Stream!ClientLeaves,
           Stream!StopTasks, Stream!Release, Stream!WatchDisconnect
    <2>. QED BY <2>1
  <1>2. CASE \/ Stream!Setup \/ Stream!Initialized \/ Stream!StartStream \/ Stream!TakeChunk
             \/ Stream!ClientReads \/ Stream!WatcherEnds \/ Stream!AsyncYield \/ Stream!AsyncPut
             \/ Stream!AsyncRaise \/ Stream!ThreadYield \/ Stream!ThreadPut
             \/ Stream!ThreadUnencodable \/ Stream!ThreadEnds \/ Stream!Exhausted
             \/ Stream!ThreadRaised \/ Stream!PutFinal \/ Stream!PutFailure \/ Stream!PutSentinel
    <2>1. UNCHANGED <<outcome, clientGone>>
      BY <1>2 DEF Stream!Setup, Stream!Initialized, Stream!StartStream, Stream!TakeChunk,
           Stream!ClientReads, Stream!WatcherEnds, Stream!AsyncYield, Stream!AsyncPut,
           Stream!AsyncRaise, Stream!ThreadYield, Stream!ThreadPut, Stream!ThreadUnencodable,
           Stream!ThreadEnds, Stream!Exhausted, Stream!ThreadRaised, Stream!PutFinal,
           Stream!PutFailure, Stream!PutSentinel
    <2>. QED BY <1>2, <2>1 DEF Reading
  <1>. QED BY <1>1, <1>2 DEF Stream!Next, Stream!HandlerStep, Stream!ProducerStep,
       Stream!WatcherStep, Stream!ToolStep

\* The lengths are numbers.
LEMMA Lengths ==
  ASSUME StreamBounds, Stream!TypeOK
  PROVE  /\ Len(queue) \in Nat /\ Len(delivered) \in Nat /\ Gone \in Nat
         /\ produced \in Nat
         /\ \A j \in 1..Len(queue) : queue[j] \in Stream!Items
         /\ \A i \in 1..Len(delivered) : delivered[i] \in Stream!Chunk
  <1>1. Len(queue) \in Nat /\ Len(delivered) \in Nat BY LenProperties DEF Stream!TypeOK
  <1>2. /\ \A j \in 1..Len(queue) : queue[j] \in Stream!Items
        /\ \A i \in 1..Len(delivered) : delivered[i] \in Stream!Chunk
    BY ElementOfSeq DEF Stream!TypeOK
  <1>3. Len(delivered) + 1 \in Nat /\ Len(delivered) + 0 = Len(delivered) BY <1>1
  <1>. QED BY <1>1, <1>2, <1>3 DEF Gone, Stream!TypeOK

\* Steps that touch neither the queue nor a chunk keep the order.
LEMMA OrderUntouched ==
  ASSUME StreamBounds, Stream!TypeOK, Ordered,
         UNCHANGED <<queue, delivered, holding, pending, produced>>,
         pc' = "yielded" <=> pc = "yielded",
         Shut => Shut' \/ queue = <<>>
  PROVE  Ordered'
  <1>1. PICK n \in 0..Len(queue) : Follows(n) BY DEF Ordered
  <1>2. Len(queue) \in Nat /\ (queue = <<>> => Len(queue) = 0) BY Lengths, EmptySeq
  <1>3. Gone' = Gone BY DEF Gone
  <1>4. n # Len(queue) => Shut' BY <1>1, <1>2 DEF Follows
  <1>5. Follows(n)' BY <1>1, <1>3, <1>4 DEF Follows
  <1>. QED BY <1>1, <1>5 DEF Ordered

\* While something may still be put, the queue holds nothing but chunks.
LEMMA AllChunks ==
  ASSUME StreamBounds, Stream!TypeOK, Ordered, ~Shut
  PROVE  /\ \A j \in 1..Len(queue) : queue[j].tag = "chunk" /\ queue[j].n = Gone + j
         /\ produced = Gone + Len(queue) + (IF pending = Stream!NoChunk THEN 0 ELSE 1)
  BY DEF Ordered, Follows

\* A chunk that joins such a queue comes after all the others.
LEMMA ChunkJoins ==
  ASSUME StreamBounds, Stream!TypeOK, Ordered, ~Shut, NEW item \in Stream!Chunk,
         queue' = Append(queue, item), item.n = Gone + Len(queue) + 1,
         produced' = Gone + Len(queue) + 1, pending' = Stream!NoChunk,
         UNCHANGED <<delivered, holding, pc>>
  PROVE  Ordered'
  <1> DEFINE q == Append(queue, item)
  <1>1. Len(queue) \in Nat /\ Gone \in Nat BY Lengths
  <1>2. item \in Stream!Items /\ item.tag = "chunk" BY ItemFacts
  <1>3. /\ Len(q) = Len(queue) + 1 /\ q[Len(queue) + 1] = item
        /\ \A j \in 1..Len(queue) : q[j] = queue[j]
        /\ \A j \in 1..Len(q) : j \in 1..Len(queue) \/ j = Len(queue) + 1
    BY <1>2, PutIn DEF Stream!TypeOK
  <1>4. queue' = q OBVIOUS
  <1> HIDE DEF q
  <1>5. Gone' = Gone BY DEF Gone
  <1>6. PICK m \in Nat : m = Len(queue) + 1 /\ m = Len(q) BY <1>1, <1>3
  <1>7. ASSUME NEW j \in 1..m PROVE q[j].tag = "chunk" /\ q[j].n = Gone + j
    <2>1. CASE j \in 1..Len(queue)
      <3>1. queue[j].tag = "chunk" /\ queue[j].n = Gone + j BY <2>1, AllChunks
      <3>. QED BY <1>3, <2>1, <3>1
    <2>2. CASE j = Len(queue) + 1
      <3>1. item.n = Gone + j BY <1>1, <2>2
      <3>. QED BY <1>2, <1>3, <2>2, <3>1
    <2>. QED BY <1>3, <1>6, <2>1, <2>2
  <1>8. /\ m \in 0..Len(q) /\ produced' = Gone + m + 0
        /\ \A j \in (m + 1)..Len(q) : q[j].tag # "chunk"
    BY <1>1, <1>6
  <1>9. Follows(m)' BY <1>4, <1>5, <1>6, <1>7, <1>8 DEF Follows
  <1>10. /\ \A i \in 1..Len(delivered') : delivered'[i].n = i
         /\ holding' # Stream!NoChunk => holding'.n = Len(delivered') + 1
    BY DEF Ordered
  <1>11. m \in 0..Len(queue') BY <1>4, <1>8
  <1>. QED BY <1>9, <1>10, <1>11 DEF Ordered

\* What is not a chunk joins behind the chunks, once nothing else will be put.
LEMMA EndJoins ==
  ASSUME StreamBounds, Stream!TypeOK, Ordered, NEW item \in Stream!Items, item.tag # "chunk",
         queue' = Append(queue, item), Shut',
         UNCHANGED <<delivered, holding, pc, pending, produced>>
  PROVE  Ordered'
  <1> DEFINE q == Append(queue, item)
  <1>1. Len(queue) \in Nat /\ Gone \in Nat BY Lengths
  <1>2. /\ Len(q) = Len(queue) + 1 /\ q[Len(queue) + 1] = item
        /\ \A j \in 1..Len(queue) : q[j] = queue[j]
    BY PutIn DEF Stream!TypeOK
  <1>3. queue' = q OBVIOUS
  <1> HIDE DEF q
  <1>4. PICK n \in 0..Len(queue) : Follows(n) BY DEF Ordered
  <1>5. Gone' = Gone BY DEF Gone
  <1>6. /\ \A j \in 1..n : q[j].tag = "chunk" /\ q[j].n = Gone + j
        /\ \A j \in (n + 1)..Len(q) : q[j].tag # "chunk"
    <2>1. /\ \A j \in 1..n : j \in 1..Len(queue)
          /\ \A j \in (n + 1)..Len(q) : j \in (n + 1)..Len(queue) \/ j = Len(queue) + 1
          /\ \A j \in (n + 1)..Len(queue) : j \in 1..Len(queue)
      BY <1>1, <1>2
    <2>. QED BY <1>2, <1>4, <2>1 DEF Follows
  <1>7. n \in 0..Len(q) BY <1>1, <1>2
  <1>8. Follows(n)' BY <1>3, <1>4, <1>5, <1>6 DEF Follows
  <1>. QED BY <1>3, <1>7, <1>8 DEF Ordered

\* A chunk that is taken is the next one.
LEMMA OrderTaken ==
  ASSUME StreamBounds, Stream!TypeOK, Begun, Handed, Ordered, Stream!TakeChunk
  PROVE  Ordered'
  <1> DEFINE r == Tail(queue)
  <1>1. /\ pc = "consume" /\ queue # <<>> /\ Head(queue).tag = "chunk"
        /\ holding' = Head(queue) /\ queue' = r /\ pc' = "yielded"
        /\ UNCHANGED <<delivered, pending, produced, producer, thread>>
    BY DEF Stream!TakeChunk, Stream!tool
  <1>2. /\ Head(queue) = queue[1] /\ 1 \in 1..Len(queue) /\ Len(queue) \in Nat
        /\ Len(r) = Len(queue) - 1 /\ Len(r) \in Nat
        /\ \A i \in 1..Len(r) : r[i] = queue[i + 1] /\ i + 1 \in 1..Len(queue)
    BY <1>1, TakenOut DEF Stream!TypeOK
  <1>3. Gone = Len(delivered) /\ Gone' = Len(delivered) + 1 /\ Len(delivered) \in Nat
    <2>1. Len(delivered) \in Nat BY Lengths
    <2>. QED BY <1>1, <2>1 DEF Gone
  <1> HIDE DEF r
  <1>4. PICK n \in 0..Len(queue) : Follows(n) BY DEF Ordered
  <1>5. n # 0
    <2>1. n = 0 => 1 \in (n + 1)..Len(queue) BY <1>2
    <2>. QED BY <1>1, <1>2, <1>4, <2>1 DEF Follows
  <1>6. queue[1].n = Gone + 1
    <2>1. 1 \in 1..n BY <1>2, <1>5
    <2>. QED BY <1>4, <2>1 DEF Follows
  <1>7. PICK m \in Nat : m = n - 1 BY <1>2, <1>5
  <1>8. ASSUME NEW j \in 1..m PROVE r[j].tag = "chunk" /\ r[j].n = Gone' + j
    <2>1. j + 1 \in 1..n /\ j \in 1..Len(r) /\ Gone + (j + 1) = Gone' + j
      BY <1>2, <1>3, <1>7
    <2>. QED BY <1>2, <1>4, <2>1 DEF Follows
  <1>9. ASSUME NEW j \in (m + 1)..Len(r) PROVE r[j].tag # "chunk"
    <2>1. j + 1 \in (n + 1)..Len(queue) /\ j \in 1..Len(r) BY <1>2, <1>7
    <2>. QED BY <1>2, <1>4, <2>1 DEF Follows
  <1>10. produced' = Gone' + m + (IF pending' = Stream!NoChunk THEN 0 ELSE 1)
    <2>1. produced = Gone + n + (IF pending = Stream!NoChunk THEN 0 ELSE 1) BY <1>4 DEF Follows
    <2>2. CASE pending = Stream!NoChunk
      <3>1. produced = Gone + n + 0 BY <2>1, <2>2
      <3>2. produced = Gone' + m + 0 BY <1>2, <1>3, <1>7, <3>1
      <3>. QED BY <1>1, <2>2, <3>2
    <2>3. CASE pending # Stream!NoChunk
      <3>1. produced = Gone + n + 1 BY <2>1, <2>3
      <3>2. produced = Gone' + m + 1 BY <1>2, <1>3, <1>7, <3>1
      <3>. QED BY <1>1, <2>3, <3>2
    <2>. QED BY <2>2, <2>3
  <1>11. m # Len(r) => Shut'
    <2>1. m # Len(r) => n # Len(queue) BY <1>2, <1>7
    <2>. QED BY <1>1, <1>4, <2>1 DEF Follows, Shut
  <1>12. m \in 0..Len(queue') /\ Follows(m)'
    BY <1>1, <1>2, <1>7, <1>8, <1>9, <1>10, <1>11 DEF Follows
  <1>13. holding'.n = Len(delivered') + 1 BY <1>1, <1>2, <1>3, <1>6
  <1>14. pending' # Stream!NoChunk => pending'.n = produced' BY <1>1 DEF Ordered
  <1>15. \A i \in 1..Len(delivered') : delivered'[i].n = i BY <1>1 DEF Ordered
  <1>. QED BY <1>12, <1>13, <1>14, <1>15 DEF Ordered

\* A chunk that the client reads is the next one, too.
LEMMA OrderRead ==
  ASSUME StreamBounds, Stream!TypeOK, Begun, Ordered, Stream!ClientReads, ~clientGone
  PROVE  Ordered'
  <1> DEFINE r == Append(delivered, holding)
  <1>1. /\ pc = "yielded" /\ delivered' = r /\ holding' = Stream!NoChunk /\ pc' = "consume"
        /\ UNCHANGED <<queue, pending, produced, producer, thread>>
    BY DEF Stream!ClientReads, Stream!tool
  <1>2. holding \in Stream!Chunk /\ holding.n = Len(delivered) + 1
    BY <1>1 DEF Stream!TypeOK, Begun, Ordered
  <1>3. /\ Len(r) = Len(delivered) + 1 /\ r[Len(delivered) + 1] = holding
        /\ \A i \in 1..Len(delivered) : r[i] = delivered[i]
        /\ \A i \in 1..Len(r) : i \in 1..Len(delivered) \/ i = Len(delivered) + 1
    BY <1>2, PutIn DEF Stream!TypeOK
  <1> HIDE DEF r
  <1>4. Gone' = Gone
    <2>1. Gone = Len(delivered) + 1 BY <1>1 DEF Gone
    <2>2. Gone' = Len(r) + 0 BY <1>1 DEF Gone
    <2>3. Len(delivered) \in Nat BY Lengths
    <2>. QED BY <1>3, <2>1, <2>2, <2>3
  <1>5. \A i \in 1..Len(r) : r[i].n = i BY <1>2, <1>3 DEF Ordered
  <1>6. PICK n \in 0..Len(queue) : Follows(n) BY DEF Ordered
  <1>7. Shut' <=> Shut BY <1>1 DEF Shut
  <1>8. Follows(n)' BY <1>1, <1>4, <1>6, <1>7 DEF Follows
  <1>9. n \in 0..Len(queue') BY <1>1
  <1>10. pending' # Stream!NoChunk => pending'.n = produced' BY <1>1 DEF Ordered
  <1>. QED BY <1>1, <1>5, <1>8, <1>9, <1>10 DEF Ordered

\* A chunk that was built is the one being put.
LEMMA OrderBuilt ==
  ASSUME StreamBounds, Stream!TypeOK, Ordered, ~Shut, pending = Stream!NoChunk,
         NEW item \in Stream!Chunk, item.n = produced + 1,
         pending' = item, produced' = produced + 1,
         UNCHANGED <<queue, delivered, holding, pc>>
  PROVE  Ordered'
  <1>1. PICK n \in 0..Len(queue) : n = Len(queue) /\ Follows(n) BY DEF Ordered, Follows
  <1>2. /\ Len(queue) \in Nat /\ Gone \in Nat BY Lengths
  <1>3. item # Stream!NoChunk BY ItemFacts
  <1>4. Gone' = Gone BY DEF Gone
  <1>5. produced = Gone + n + 0 BY <1>1 DEF Follows
  <1>6. produced' = Gone + n + 1 BY <1>2, <1>5
  <1>7. Follows(n)'
    <2>1. n = Len(queue') BY <1>1
    <2>. QED BY <1>1, <1>3, <1>4, <1>6, <2>1 DEF Follows
  <1>8. /\ \A i \in 1..Len(delivered') : delivered'[i].n = i
        /\ holding' # Stream!NoChunk => holding'.n = Len(delivered') + 1
        /\ pending'.n = produced'
    BY DEF Ordered
  <1>9. n \in 0..Len(queue') BY <1>2
  <1>. QED BY <1>7, <1>8, <1>9 DEF Ordered

\* Every step keeps the order, as long as the client reads.
LEMMA OrderKept ==
  ASSUME StreamBounds, Stream!TypeOK, Begun, Handed, Ordered, cancelled => thread = "gaveup",
         Stream!Next, Reading'
  PROVE  Ordered'
  <1>1. ~clientGone BY ReadingSteps DEF Reading
  <1>2. CASE \/ Stream!Setup \/ Stream!Initialized \/ Stream!StartStream \/ Stream!WatcherEnds
             \/ Stream!AsyncRaise \/ Stream!ThreadUnencodable \/ Stream!ThreadEnds
             \/ Stream!Exhausted \/ Stream!ThreadRaised
    <2>1. UNCHANGED <<queue, delivered, holding, pending, produced>>
      BY <1>2 DEF Stream!Setup, Stream!Initialized, Stream!StartStream, Stream!WatcherEnds,
           Stream!AsyncRaise, Stream!ThreadUnencodable, Stream!ThreadEnds, Stream!Exhausted,
           Stream!ThreadRaised, Stream!tool
    <2>2. pc' = "yielded" <=> pc = "yielded"
      BY <1>2 DEF Stream!Setup, Stream!Initialized, Stream!StartStream, Stream!WatcherEnds,
           Stream!AsyncRaise, Stream!ThreadUnencodable, Stream!ThreadEnds, Stream!Exhausted,
           Stream!ThreadRaised
    <2>3. Shut => Shut' \/ queue = <<>>
      BY <1>2 DEF Shut, Begun, Stream!Setup, Stream!Initialized, Stream!StartStream,
           Stream!WatcherEnds, Stream!AsyncRaise, Stream!ThreadUnencodable, Stream!ThreadEnds,
           Stream!Exhausted, Stream!ThreadRaised, Stream!tool
    <2>. QED BY <2>1, <2>2, <2>3, OrderUntouched
  <1>3. CASE Stream!TakeChunk BY <1>3, OrderTaken
  <1>4. CASE Stream!ClientReads BY <1>1, <1>4, OrderRead
  <1>5. CASE Stream!AsyncYield \/ Stream!ThreadYield
    <2>1. ~cancelled BY <1>5 DEF Stream!AsyncYield, Stream!ThreadYield, Handed
    <2>2. Stream!MayYield /\ ~Shut /\ pending = Stream!NoChunk
      BY <1>5 DEF Stream!AsyncYield, Stream!ThreadYield, Handed, Shut
    <2>3. produced \in 0..MaxChunks
      BY <2>2 DEF StreamBounds, Stream!MayYield, Stream!TypeOK
    <2>4. PICK final \in BOOLEAN : /\ pending' = Stream!Built(final) /\ produced' = produced + 1
                                   /\ UNCHANGED <<queue, delivered, holding, pc>>
      BY <1>5, <2>1 DEF Stream!AsyncYield, Stream!ThreadYield
    <2>5. Stream!Built(final) \in Stream!Chunk /\ Stream!Built(final).n = produced + 1
      BY <2>3, BuiltFacts
    <2>. QED BY <2>2, <2>4, <2>5, OrderBuilt
  <1>6. CASE Stream!AsyncPut \/ Stream!ThreadPut
    <2>1. /\ queue' = Append(queue, pending) /\ pending' = Stream!NoChunk
          /\ UNCHANGED <<delivered, holding, pc, produced>>
      BY <1>6 DEF Stream!AsyncPut, Stream!ThreadPut
    <2>2. ~Shut /\ pending \in Stream!Chunk BY <1>6 DEF Stream!AsyncPut, Stream!ThreadPut, Shut,
         Handed, Stream!TypeOK
    <2>3. pending # Stream!NoChunk /\ pending.n = produced BY <2>2, ItemFacts DEF Ordered
    <2>4. produced = Gone + Len(queue) + 1 BY <2>2, <2>3, AllChunks
    <2>. QED BY <2>1, <2>2, <2>3, <2>4, ChunkJoins
  <1>7. CASE Stream!PutFinal
    <2>1. /\ queue' = Append(queue, Stream!Built(TRUE)) /\ produced' = produced + 1
          /\ UNCHANGED <<delivered, holding, pc, pending>> /\ producer = "final"
      BY <1>7 DEF Stream!PutFinal
    <2>2. ~Shut /\ pending = Stream!NoChunk BY <2>1 DEF Handed, Shut
    <2>3. produced = Gone + Len(queue) + 0 BY <2>2, AllChunks
    <2>4. produced' = Gone + Len(queue) + 1 BY <2>1, <2>3, Lengths
    <2>5. produced \in 0..MaxChunks BY <2>1 DEF StreamBounds, Handed, Stream!TypeOK
    <2>6. Stream!Built(TRUE) \in Stream!Chunk /\ Stream!Built(TRUE).n = produced + 1
      BY <2>5, BuiltFacts
    <2>. QED BY <2>1, <2>2, <2>4, <2>6, ChunkJoins
  <1>8. CASE Stream!PutFailure \/ Stream!PutSentinel
    <2>1. PICK item \in {Stream!Failure, Stream!Sentinel} :
            /\ queue' = Append(queue, item)
            /\ UNCHANGED <<delivered, holding, pc, pending, produced>>
      BY <1>8 DEF Stream!PutFailure, Stream!PutSentinel, Stream!tool
    <2>2. Shut' BY <1>8 DEF Stream!PutFailure, Stream!PutSentinel, Shut, Handed, Stream!tool
    <2>3. item \in Stream!Items /\ item.tag # "chunk" BY ItemFacts
    <2>. QED BY <2>1, <2>2, <2>3, EndJoins
  <1>. QED BY <1>2, <1>3, <1>4, <1>5, <1>6, <1>7, <1>8, ReadingSteps

----------------------------------------------------------------------------
(* The final chunk and the sentinel.                                       *)

\* A failure stands in the queue.
Failed == \E j \in 1..Len(queue) : Fails(j)

\* No sentinel stands in the queue before one is put.
LEMMA NoSentinelYet ==
  ASSUME FinalComes, producer # "ended"
  PROVE  \A j \in 1..Len(queue) : queue[j] # Stream!Sentinel
  BY DEF FinalComes

\* Steps that touch neither the queue nor a chunk keep the last chunk in its place.
LEMMA FinalUntouched ==
  ASSUME StreamBounds, Stream!TypeOK, FinalComes,
         UNCHANGED <<queue, delivered, holding, pending, marked_final>>,
         cancelled' => thread' = "gaveup",
         producer' = "sentinel" => producer = "sentinel" \/ marked_final,
         producer = "ended" => producer' = "ended"
  PROVE  FinalComes'
  BY DEF FinalComes, Fails, Final

\* An item that joins the queue hides nothing that was there.
LEMMA FinalJoins ==
  ASSUME StreamBounds, Stream!TypeOK, FinalComes,
         NEW item \in Stream!Items, queue' = Append(queue, item),
         UNCHANGED <<delivered, holding>>,
         pending' = pending \/ (pending' = Stream!NoChunk /\ pending = item),
         cancelled' => thread' = "gaveup",
         marked_final' => marked_final \/ Final(item),
         marked_final => marked_final',
         producer' = "sentinel" => marked_final' \/ item = Stream!Failure \/ Failed,
         producer = "ended" => producer' = "ended",
         item = Stream!Sentinel => producer' = "ended" /\ (marked_final' \/ Failed)
  PROVE  FinalComes'
  <1> DEFINE q == Append(queue, item)
  <1>1. /\ Len(queue) \in Nat /\ Len(q) = Len(queue) + 1 /\ q[Len(queue) + 1] = item
        /\ \A j \in 1..Len(queue) : q[j] = queue[j] /\ j \in 1..Len(q)
        /\ \A j \in 1..Len(q) : j \in 1..Len(queue) \/ j = Len(queue) + 1
        /\ Len(queue) + 1 \in 1..Len(q)
    BY PutIn DEF Stream!TypeOK
  <1>2. queue' = q OBVIOUS
  <1> HIDE DEF q
  <1>3. Final(item) => Final(q[Len(queue) + 1]) BY <1>1
  <1>4. marked_final' =>
          \/ \E i \in 1..Len(delivered) : Final(delivered[i])
          \/ \E i \in 1..Len(q) : Final(q[i])
          \/ Final(holding) \/ Final(pending')
    <2>1. CASE marked_final
      <3>1. CASE \E i \in 1..Len(queue) : Final(queue[i]) BY <1>1, <3>1
      <3>2. CASE Final(pending)
        <4>1. CASE pending' = pending BY <3>2, <4>1
        <4>2. CASE pending = item BY <1>1, <1>3, <3>2, <4>2
        <4>. QED BY <4>1, <4>2
      <3>3. CASE (\E i \in 1..Len(delivered) : Final(delivered[i])) \/ Final(holding)
        BY <3>3
      <3>. QED BY <2>1, <3>1, <3>2, <3>3 DEF FinalComes
    <2>2. CASE marked_final' /\ Final(item) BY <1>1, <1>3, <2>2
    <2>. QED BY <2>1, <2>2
  <1>5. Failed => \E j \in 1..Len(queue) : q[j] = Stream!Failure BY <1>1 DEF Failed, Fails
  <1>6. producer' = "sentinel" => marked_final' \/ \E j \in 1..Len(q) : q[j] = Stream!Failure
    <2>1. item = Stream!Failure => \E j \in 1..Len(q) : q[j] = Stream!Failure BY <1>1
    <2>2. Failed => \E j \in 1..Len(q) : q[j] = Stream!Failure BY <1>1, <1>5
    <2>. QED BY <2>1, <2>2
  <1>7. ASSUME NEW j \in 1..Len(q), q[j] = Stream!Sentinel
        PROVE  /\ producer' = "ended"
               /\ marked_final' \/ \E k \in 1..(j - 1) : q[k] = Stream!Failure
    <2>1. CASE j \in 1..Len(queue)
      <3>1. queue[j] = Stream!Sentinel BY <1>1, <1>7, <2>1
      <3>2. producer = "ended" /\ (marked_final \/ \E k \in 1..(j - 1) : Fails(k))
        BY <2>1, <3>1 DEF FinalComes
      <3>3. \A k \in 1..(j - 1) : q[k] = queue[k]
        <4>1. \A k \in 1..(j - 1) : k \in 1..Len(queue) BY <1>1, <2>1
        <4>. QED BY <1>1, <4>1
      <3>. QED BY <3>2, <3>3 DEF Fails
    <2>2. CASE j = Len(queue) + 1
      <3>1. item = Stream!Sentinel BY <1>1, <1>7, <2>2
      <3>2. j - 1 = Len(queue) BY <1>1, <2>2
      <3>. QED BY <1>5, <3>1, <3>2
    <2>. QED BY <1>1, <2>1, <2>2
  <1>. QED BY <1>2, <1>4, <1>6, <1>7 DEF FinalComes, Fails, Final

\* A chunk that is taken goes to the client, one behind the other.
LEMMA FinalTaken ==
  ASSUME StreamBounds, Stream!TypeOK, Begun, FinalComes, Stream!TakeChunk
  PROVE  FinalComes'
  <1> DEFINE r == Tail(queue)
  <1>1. /\ pc = "consume" /\ queue # <<>> /\ Head(queue).tag = "chunk"
        /\ holding' = Head(queue) /\ queue' = r
        /\ UNCHANGED <<delivered, pending, producer, thread, cancelled, marked_final>>
    BY DEF Stream!TakeChunk, Stream!tool
  <1>2. /\ Head(queue) = queue[1] /\ 1 \in 1..Len(queue) /\ Len(queue) \in Nat
        /\ Len(r) = Len(queue) - 1 /\ Len(r) \in Nat
        /\ \A i \in 1..Len(r) : r[i] = queue[i + 1] /\ i + 1 \in 1..Len(queue)
        /\ \A i \in 1..Len(queue) : i # 1 => i - 1 \in 1..Len(r) /\ r[i - 1] = queue[i]
    BY <1>1, TakenOut DEF Stream!TypeOK
  <1> HIDE DEF r
  <1>3. queue[1] # Stream!Failure /\ queue[1] # Stream!Sentinel BY <1>1, <1>2, ItemFacts
  <1>4. ~Final(holding) BY <1>1, ItemFacts DEF Begun, Final
  <1>5. marked_final =>
          \/ \E i \in 1..Len(delivered) : Final(delivered[i])
          \/ \E i \in 1..Len(r) : Final(r[i])
          \/ Final(queue[1]) \/ Final(pending)
    <2>1. ASSUME NEW i \in 1..Len(queue), Final(queue[i])
          PROVE  Final(queue[1]) \/ \E k \in 1..Len(r) : Final(r[k])
      <3>1. CASE i = 1 BY <2>1, <3>1
      <3>2. CASE i # 1
        <4>1. i - 1 \in 1..Len(r) /\ r[i - 1] = queue[i] BY <1>2, <3>2
        <4>. QED BY <2>1, <4>1
      <3>. QED BY <3>1, <3>2
    <2>. QED BY <1>4, <2>1 DEF FinalComes
  <1>6. Failed => \E k \in 1..Len(r) : r[k] = Stream!Failure
    <2>1. ASSUME NEW i \in 1..Len(queue), queue[i] = Stream!Failure
          PROVE  \E k \in 1..Len(r) : r[k] = Stream!Failure
      <3>1. i - 1 \in 1..Len(r) /\ r[i - 1] = queue[i] BY <1>2, <1>3, <2>1
      <3>. QED BY <2>1, <3>1
    <2>. QED BY <2>1 DEF Failed, Fails
  <1>7. ASSUME NEW j \in 1..Len(r), r[j] = Stream!Sentinel
        PROVE  /\ producer = "ended"
               /\ marked_final \/ \E k \in 1..(j - 1) : r[k] = Stream!Failure
    <2>1. j + 1 \in 1..Len(queue) /\ queue[j + 1] = Stream!Sentinel /\ (j + 1) - 1 = j
      BY <1>2, <1>7
    <2>2. producer = "ended" /\ (marked_final \/ \E k \in 1..j : Fails(k))
      BY <2>1 DEF FinalComes
    <2>3. ASSUME NEW k \in 1..j, Fails(k) PROVE \E m \in 1..(j - 1) : r[m] = Stream!Failure
      <3>1. k \in 1..Len(queue) /\ k # 1 /\ queue[k] = Stream!Failure
        <4>1. k \in 1..Len(queue) BY <1>2
        <4>. QED BY <1>3, <2>3, <4>1 DEF Fails
      <3>2. k - 1 \in 1..(j - 1) BY <3>1
      <3>3. r[k - 1] = Stream!Failure BY <1>2, <3>1
      <3>. QED BY <3>2, <3>3
    <2>. QED BY <2>2, <2>3
  <1>8. producer = "sentinel" => marked_final \/ \E k \in 1..Len(r) : r[k] = Stream!Failure
    BY <1>6 DEF FinalComes, Failed
  <1>9. cancelled => thread = "gaveup" BY DEF FinalComes
  <1>. QED BY <1>1, <1>2, <1>5, <1>7, <1>8, <1>9 DEF FinalComes, Fails, Final

\* So does a chunk that the client reads.
LEMMA FinalRead ==
  ASSUME StreamBounds, Stream!TypeOK, Begun, FinalComes, Stream!ClientReads, ~clientGone
  PROVE  FinalComes'
  <1> DEFINE r == Append(delivered, holding)
  <1>1. /\ pc = "yielded" /\ delivered' = r /\ holding' = Stream!NoChunk
        /\ UNCHANGED <<queue, pending, producer, thread, cancelled, marked_final>>
    BY DEF Stream!ClientReads, Stream!tool
  <1>2. holding \in Stream!Chunk BY <1>1 DEF Stream!TypeOK, Begun
  <1>3. /\ r[Len(delivered) + 1] = holding /\ Len(delivered) + 1 \in 1..Len(r)
        /\ \A i \in 1..Len(delivered) : r[i] = delivered[i] /\ i \in 1..Len(r)
    BY <1>2, PutIn DEF Stream!TypeOK
  <1> HIDE DEF r
  <1>4. Final(holding) => \E i \in 1..Len(r) : Final(r[i]) BY <1>3
  <1>5. (\E i \in 1..Len(delivered) : Final(delivered[i])) => \E i \in 1..Len(r) : Final(r[i])
    BY <1>3
  <1>6. marked_final => \/ \E i \in 1..Len(r) : Final(r[i])
                        \/ \E i \in 1..Len(queue) : Final(queue[i])
                        \/ Final(pending)
    BY <1>4, <1>5 DEF FinalComes
  <1>7. /\ cancelled => thread = "gaveup"
        /\ producer = "sentinel" => marked_final \/ \E j \in 1..Len(queue) : Fails(j)
        /\ \A j \in 1..Len(queue) :
             queue[j] = Stream!Sentinel => /\ producer = "ended"
                                           /\ marked_final \/ \E k \in 1..(j - 1) : Fails(k)
    BY DEF FinalComes
  <1>. QED BY <1>1, <1>6, <1>7 DEF FinalComes, Fails, Final

\* Every step keeps the last chunk on its way, as long as the client reads.
LEMMA FinalKept ==
  ASSUME StreamBounds, Stream!TypeOK, Begun, Handed, FinalComes, Stream!Next, Reading'
  PROVE  FinalComes'
  <1>1. ~clientGone BY ReadingSteps DEF Reading
  <1>2. cancelled => thread = "gaveup" BY DEF FinalComes
  <1>3. CASE \/ Stream!Setup \/ Stream!Initialized \/ Stream!StartStream \/ Stream!WatcherEnds
             \/ Stream!AsyncRaise \/ Stream!ThreadUnencodable \/ Stream!ThreadEnds
             \/ Stream!Exhausted \/ Stream!ThreadRaised
    <2>1. UNCHANGED <<queue, delivered, holding, pending, marked_final>>
      BY <1>3 DEF Stream!Setup, Stream!Initialized, Stream!StartStream, Stream!WatcherEnds,
           Stream!AsyncRaise, Stream!ThreadUnencodable, Stream!ThreadEnds, Stream!Exhausted,
           Stream!ThreadRaised, Stream!tool
    <2>2. cancelled' => thread' = "gaveup"
      BY <1>2, <1>3 DEF Begun, Stream!Setup, Stream!Initialized, Stream!StartStream,
           Stream!WatcherEnds, Stream!AsyncRaise, Stream!ThreadUnencodable, Stream!ThreadEnds,
           Stream!Exhausted, Stream!ThreadRaised, Stream!tool
    <2>3. producer' = "sentinel" => producer = "sentinel" \/ marked_final
      BY <1>3 DEF Stream!Setup, Stream!Initialized, Stream!StartStream, Stream!WatcherEnds,
           Stream!AsyncRaise, Stream!ThreadUnencodable, Stream!ThreadEnds, Stream!Exhausted,
           Stream!Epilogue, Stream!ThreadRaised, Stream!tool, Stream!TypeOK
    <2>4. producer = "ended" => producer' = "ended"
      BY <1>3 DEF Begun, Stream!Setup, Stream!Initialized, Stream!StartStream, Stream!WatcherEnds,
           Stream!AsyncRaise, Stream!ThreadUnencodable, Stream!ThreadEnds, Stream!Exhausted,
           Stream!ThreadRaised, Stream!tool
    <2>. QED BY <2>1, <2>2, <2>3, <2>4, FinalUntouched
  <1>4. CASE Stream!TakeChunk BY <1>4, FinalTaken
  <1>5. CASE Stream!ClientReads BY <1>1, <1>5, FinalRead
  <1>6. CASE Stream!AsyncYield \/ Stream!ThreadYield
    <2>1. ~cancelled BY <1>2, <1>6 DEF Stream!AsyncYield, Stream!ThreadYield, Handed
    <2>2. Stream!MayYield /\ pending = Stream!NoChunk /\ producer # "sentinel"
      BY <1>6 DEF Stream!AsyncYield, Stream!ThreadYield, Handed
    <2>3. produced \in 0..MaxChunks BY <2>2 DEF StreamBounds, Stream!MayYield, Stream!TypeOK
    <2>4. PICK final \in BOOLEAN : /\ pending' = Stream!Built(final)
                                   /\ marked_final' = (marked_final \/ final)
                                   /\ UNCHANGED <<queue, delivered, holding, cancelled>>
      BY <1>6, <2>1 DEF Stream!AsyncYield, Stream!ThreadYield
    <2>5. Stream!Built(final) \in Stream!Chunk /\ Stream!Built(final).final = final
      BY <2>3, BuiltFacts
    <2>6. final => Final(pending') BY <2>4, <2>5, ItemFacts DEF Final
    <2>7. ~Final(pending) BY <2>2, ItemFacts DEF Final
    <2>8. marked_final' => \/ \E i \in 1..Len(delivered) : Final(delivered[i])
                           \/ \E i \in 1..Len(queue) : Final(queue[i])
                           \/ Final(holding) \/ Final(pending')
      BY <2>4, <2>6, <2>7 DEF FinalComes
    <2>9. producer' # "sentinel" /\ (producer = "ended" => producer' = "ended")
      BY <1>6, <2>1, <2>2 DEF Stream!AsyncYield, Stream!ThreadYield
    <2>10. marked_final => marked_final' BY <2>4
    <2>. QED BY <2>1, <2>4, <2>8, <2>9, <2>10 DEF FinalComes, Fails, Final
  <1>7. CASE Stream!AsyncPut \/ Stream!ThreadPut
    <2>1. /\ queue' = Append(queue, pending)
          /\ pending' = Stream!NoChunk /\ pending \in Stream!Chunk
          /\ UNCHANGED <<delivered, holding, marked_final, cancelled>> /\ ~cancelled
      BY <1>2, <1>7 DEF Stream!AsyncPut, Stream!ThreadPut, Handed, Stream!TypeOK
    <2>2. pending \in Stream!Items /\ pending # Stream!Sentinel BY <2>1, ItemFacts
    <2>3. producer' # "sentinel" /\ (producer = "ended" => producer' = "ended")
      BY <1>7 DEF Stream!AsyncPut, Stream!ThreadPut, Handed
    <2>. QED BY <2>1, <2>2, <2>3, FinalJoins
  <1>8. CASE Stream!PutFinal
    <2>1. /\ queue' = Append(queue, Stream!Built(TRUE)) /\ marked_final'
          /\ UNCHANGED <<delivered, holding, pending, cancelled, thread>> /\ producer = "final"
      BY <1>8 DEF Stream!PutFinal
    <2>2. produced \in 0..MaxChunks BY <2>1 DEF StreamBounds, Handed, Stream!TypeOK
    <2>3. /\ Stream!Built(TRUE) \in Stream!Chunk /\ Stream!Built(TRUE).final
          /\ Stream!Built(TRUE) \in Stream!Items /\ Stream!Built(TRUE) # Stream!Sentinel
      BY <2>2, BuiltFacts, ItemFacts
    <2>4. PICK item \in Stream!Items : item = Stream!Built(TRUE) BY <2>3
    <2>5. Final(item) /\ item # Stream!Sentinel /\ queue' = Append(queue, item)
      BY <2>1, <2>3, <2>4, ItemFacts DEF Final
    <2>6. cancelled' => thread' = "gaveup" BY <1>2, <2>1
    <2>. QED BY <2>1, <2>4, <2>5, <2>6, FinalJoins
  <1>9. CASE Stream!PutFailure
    <2>1. /\ queue' = Append(queue, Stream!Failure)
          /\ UNCHANGED <<delivered, holding, pending, marked_final, cancelled, thread>>
          /\ producer = "failed"
      BY <1>9 DEF Stream!PutFailure, Stream!tool
    <2>2. PICK item \in Stream!Items : item = Stream!Failure /\ item # Stream!Sentinel
      BY ItemFacts
    <2>3. queue' = Append(queue, item) BY <2>1, <2>2
    <2>4. cancelled' => thread' = "gaveup" BY <1>2, <2>1
    <2>. QED BY <2>1, <2>2, <2>3, <2>4, FinalJoins
  <1>10. CASE Stream!PutSentinel
    <2>1. /\ queue' = Append(queue, Stream!Sentinel)
          /\ UNCHANGED <<delivered, holding, pending, marked_final, cancelled, thread>>
          /\ producer = "sentinel" /\ producer' = "ended"
      BY <1>10 DEF Stream!PutSentinel, Stream!tool
    <2>2. marked_final \/ Failed BY <2>1 DEF FinalComes, Failed
    <2>3. PICK item \in Stream!Items : item = Stream!Sentinel BY ItemFacts
    <2>4. queue' = Append(queue, item) BY <2>1, <2>3
    <2>5. cancelled' => thread' = "gaveup" BY <1>2, <2>1
    <2>. QED BY <2>1, <2>2, <2>4, <2>5, FinalJoins
  <1>. QED BY <1>3, <1>4, <1>5, <1>6, <1>7, <1>8, <1>9, <1>10, ReadingSteps

----------------------------------------------------------------------------
(* An orderly end.                                                         *)

\* The client that met the sentinel, with no failure before it, has everything.
LEMMA EndsComplete ==
  ASSUME StreamBounds, Stream!TypeOK, Begun, Handed, Reading, Ordered, FinalComes,
         Stream!TakeSentinel
  PROVE  Complete'
  <1>1. /\ pc = "consume" /\ queue # <<>> /\ Head(queue) = Stream!Sentinel
        /\ UNCHANGED <<delivered, producer, thread, produced>>
    BY DEF Stream!TakeSentinel, Stream!tool
  <1>2. Head(queue) = queue[1] /\ 1 \in 1..Len(queue) /\ Len(queue) \in Nat
    BY <1>1, TakenOut DEF Stream!TypeOK
  <1>3. PICK n \in 0..Len(queue) : Follows(n) BY DEF Ordered
  <1>4. n = 0
    <2>1. queue[1].tag # "chunk" BY <1>1, <1>2, ItemFacts
    <2>2. n # 0 => 1 \in 1..n BY <1>2
    <2>. QED BY <1>3, <2>1, <2>2 DEF Follows
  <1>5. Shut BY <1>2, <1>3, <1>4 DEF Follows
  <1>6. producer = "ended" /\ marked_final
    <2>1. ~\E k \in 1..(1 - 1) : Fails(k) OBVIOUS
    <2>. QED BY <1>1, <1>2, <2>1 DEF FinalComes
  <1>7. pending = Stream!NoChunk BY <1>5, <1>6 DEF Shut, Handed
  <1>8. Gone = Len(delivered) /\ produced = Len(delivered)
    <2>1. Gone = Len(delivered) /\ Len(delivered) \in Nat BY <1>1, Lengths DEF Gone
    <2>2. produced = Gone + 0 + 0 BY <1>3, <1>4, <1>7 DEF Follows
    <2>. QED BY <2>1, <2>2
  <1>9. \E i \in 1..Len(delivered) : Final(delivered[i])
    <2>1. ~Final(holding) /\ ~Final(pending) BY <1>1, <1>7, ItemFacts DEF Begun, Final
    <2>2. \A i \in 1..Len(queue) : ~Final(queue[i])
      <3>1. \A i \in 1..Len(queue) : i \in (0 + 1)..Len(queue) BY <1>2
      <3>. QED BY <1>3, <1>4, <3>1 DEF Follows, Final
    <2>. QED BY <1>6, <2>1, <2>2 DEF FinalComes
  <1>10. Shut' BY <1>1, <1>5 DEF Shut
  <1>. QED BY <1>1, <1>6, <1>8, <1>9, <1>10 DEF Complete, Final

\* What an orderly end delivered stays as it is.
LEMMA CompleteKept ==
  ASSUME StreamBounds, Stream!TypeOK, Begun, Handed, Complete,
         Reading => Ordered /\ FinalComes, Stream!Next
  PROVE  Complete'
  <1>1. CASE Stream!TakeSentinel
    <2>1. CASE clientGone BY <1>1, <2>1 DEF Stream!TakeSentinel, Complete
    <2>2. CASE ~clientGone
      <3>1. Reading BY <1>1, <2>2 DEF Stream!TakeSentinel, Begun, Reading
      <3>. QED BY <1>1, <3>1, EndsComplete
    <2>. QED BY <2>1, <2>2
  <1>2. CASE \/ Stream!FailSetup \/ Stream!FailEarly \/ Stream!CancelEarly \/ Stream!TakeError
             \/ Stream!CancelHandler \/ Stream!ClientLeaves
    BY <1>2 DEF Stream!FailSetup, Stream!FailEarly, Stream!CancelEarly, Stream!TakeError,
         Stream!CancelHandler, Stream!ClientLeaves, Complete
  <1>3. CASE \/ Stream!Setup \/ Stream!Initialized \/ Stream!StartStream \/ Stream!TakeChunk
             \/ Stream!ClientReads \/ Stream!WatcherEnds \/ Stream!AsyncYield \/ Stream!AsyncPut
             \/ Stream!AsyncRaise \/ Stream!ThreadYield \/ Stream!ThreadPut
             \/ Stream!ThreadUnencodable \/ Stream!ThreadEnds \/ Stream!Exhausted
             \/ Stream!ThreadRaised \/ Stream!PutFinal \/ Stream!PutFailure \/ Stream!PutSentinel
             \/ Stream!StopTasks \/ Stream!Release \/ Stream!WatchDisconnect
    <2>1. UNCHANGED <<outcome, clientGone>>
      BY <1>3 DEF Stream!Setup, Stream!Initialized, Stream!StartStream, Stream!TakeChunk,
           Stream!ClientReads, Stream!WatcherEnds, Stream!AsyncYield, Stream!AsyncPut,
           Stream!AsyncRaise, Stream!ThreadYield, Stream!ThreadPut, Stream!ThreadUnencodable,
           Stream!ThreadEnds, Stream!Exhausted, Stream!ThreadRaised, Stream!PutFinal,
           Stream!PutFailure, Stream!PutSentinel, Stream!StopTasks, Stream!Release,
           Stream!WatchDisconnect
    <2>2. SUFFICES ASSUME outcome = "ok", ~clientGone PROVE Complete' BY <2>1 DEF Complete
    <2>3. /\ Shut /\ producer = "ended" /\ produced = Len(delivered)
          /\ \E i \in 1..Len(delivered) : Final(delivered[i])
      BY <2>2 DEF Complete
    <2>4. pc \in {"stopping", "joining", "done"} BY <2>2 DEF Begun
    <2>5. UNCHANGED <<delivered, produced, thread>> /\ producer' = "ended"
      BY <1>3, <2>3, <2>4 DEF Stream!Setup, Stream!Initialized, Stream!StartStream,
           Stream!TakeChunk, Stream!ClientReads, Stream!WatcherEnds, Stream!AsyncYield,
           Stream!AsyncPut, Stream!AsyncRaise, Stream!ThreadYield, Stream!ThreadPut,
           Stream!ThreadUnencodable, Stream!ThreadEnds, Stream!Exhausted, Stream!ThreadRaised,
           Stream!PutFinal, Stream!PutFailure, Stream!PutSentinel, Stream!StopTasks,
           Stream!Release, Stream!WatchDisconnect, Stream!tool, Shut
    <2>. QED BY <2>3, <2>5 DEF Complete, Shut, Final
  <1>. QED BY <1>1, <1>2, <1>3 DEF Stream!Next, Stream!HandlerStep, Stream!ProducerStep,
       Stream!WatcherStep, Stream!ToolStep

----------------------------------------------------------------------------
(* The invariant.                                                          *)

\* The call begins with nothing.
LEMMA InitStreamInv == StreamBounds /\ Stream!Init => StreamInv
  <1> SUFFICES ASSUME StreamBounds, Stream!Init PROVE StreamInv OBVIOUS
  <1>1. <<>> \in Seq(Stream!Items) /\ <<>> \in Seq(Stream!Chunk) /\ Len(<<>>) = 0 BY EmptySeq
  <1>2. /\ Stream!NoChunk \in Stream!Chunk \cup {Stream!NoChunk}
        /\ 0 \in 0..(MaxChunks + 1) /\ 0 <= MaxQueue /\ 0 <= MaxChunks
    BY DEF StreamBounds
  <1>3. Stream!TypeOK
    <2>1. queue \in Seq(Stream!Items) /\ Len(queue) <= MaxQueue /\ delivered \in Seq(Stream!Chunk)
      BY <1>1, <1>2 DEF Stream!Init
    <2>2. /\ active \in 0..1 /\ produced \in 0..(MaxChunks + 1) /\ cleanups \in 0..2
          /\ holding \in Stream!Chunk \cup {Stream!NoChunk}
          /\ pending \in Stream!Chunk \cup {Stream!NoChunk}
      BY <1>2 DEF Stream!Init
    <2>3. /\ kind \in Stream!Kinds /\ watched \in BOOLEAN /\ servicer \in {"async", "threaded"}
          /\ clientGone \in BOOLEAN /\ cancelled \in BOOLEAN /\ marked_final \in BOOLEAN
          /\ pc = "setup" /\ outcome = "none" /\ producer = "none" /\ thread = "none"
          /\ watcher = "none" /\ iterator = "none"
      BY DEF Stream!Init
    <2>. QED BY <2>1, <2>2, <2>3 DEF Stream!TypeOK
  <1>4. Begun BY DEF Stream!Init, Begun, Stream!Streaming
  <1>5. Handed BY <1>2 DEF Stream!Init, Handed
  <1>6. Ordered
    <2>1. Len(queue) = 0 /\ Len(delivered) = 0 BY <1>1 DEF Stream!Init
    <2>2. Gone = 0 BY <2>1 DEF Stream!Init, Gone
    <2>3. Follows(0) BY <2>1, <2>2 DEF Follows, Stream!Init
    <2>4. 0 \in 0..Len(queue) BY <2>1
    <2>5. \A i \in 1..Len(delivered) : delivered[i].n = i BY <2>1
    <2>. QED BY <2>3, <2>4, <2>5 DEF Ordered, Stream!Init
  <1>7. FinalComes
    <2>1. \A j \in 1..Len(queue) : FALSE BY <1>1 DEF Stream!Init
    <2>. QED BY <2>1 DEF FinalComes, Stream!Init
  <1>8. Complete BY DEF Complete, Stream!Init
  <1>. QED BY <1>3, <1>4, <1>5, <1>6, <1>7, <1>8 DEF StreamInv

\* Every step keeps it.
LEMMA StepStreamInv == StreamBounds /\ StreamInv /\ [Stream!Next]_Stream!vars => StreamInv'
  <1> SUFFICES ASSUME StreamBounds, StreamInv, [Stream!Next]_Stream!vars PROVE StreamInv' OBVIOUS
  <1>. USE DEF StreamInv
  <1>1. CASE Stream!Next
    <2>1. Stream!TypeOK' BY <1>1, TypesKept
    <2>2. Begun' BY <1>1, BegunKept
    <2>3. Handed' BY <1>1, HandedKept
    <2>4. Reading' => Ordered' /\ FinalComes'
      <3>1. SUFFICES ASSUME Reading' PROVE Ordered' /\ FinalComes' OBVIOUS
      <3>2. Reading BY <1>1, <3>1, ReadingSteps
      <3>3. Ordered /\ FinalComes BY <3>2
      <3>4. cancelled => thread = "gaveup" BY <3>3 DEF FinalComes
      <3>. QED BY <1>1, <3>1, <3>3, <3>4, OrderKept, FinalKept
    <2>5. Complete' BY <1>1, CompleteKept
    <2>. QED BY <2>1, <2>2, <2>3, <2>4, <2>5
  <1>2. CASE UNCHANGED Stream!vars
    <2>1. UNCHANGED <<kind, watched, servicer, active, pc, outcome, clientGone, queue, holding,
                      delivered, producer, thread, pending, produced, marked_final, cancelled,
                      watcher, iterator, cleanups>>
      BY <1>2 DEF Stream!vars, Stream!config, Stream!tool, Stream!release
    <2>2. Stream!TypeOK' /\ Begun' /\ Handed' BY <2>1 DEF Stream!TypeOK, Begun, Handed,
         Stream!Streaming
    <2>3. Reading' => Reading BY <2>1 DEF Reading
    <2>4. Ordered => Ordered' BY <2>1 DEF Ordered, Follows, Gone, Shut
    <2>5. FinalComes => FinalComes' BY <2>1 DEF FinalComes, Fails, Final
    <2>6. Complete' BY <2>1 DEF Complete, Shut, Final
    <2>. QED BY <2>2, <2>3, <2>4, <2>5, <2>6
  <1>. QED BY <1>1, <1>2

\* It holds in every state of a stream.
LEMMA StreamInvariant == StreamSpec => []StreamInv
  <1>. StreamBounds BY StreamAssumption DEF StreamBounds
  <1>1. Stream!Init => StreamInv BY InitStreamInv
  <1>2. StreamInv /\ [Stream!Next]_Stream!vars => StreamInv' BY StepStreamInv
  <1>. QED BY <1>1, <1>2, PTL DEF StreamSpec, Stream!Spec

----------------------------------------------------------------------------
(* What the client sees.                                                   *)

\* Where the items of a call are in its row.
LEMMA RowPlaces ==
  ASSUME StreamBounds, Stream!TypeOK,
         NEW d \in Nat, d = Len(delivered), NEW q \in Nat, q = Len(queue)
  PROVE  /\ Len(Row) = d + q + 2
         /\ \A i \in 1..d : Row[i] = delivered[i]
         /\ Row[d + 1] = holding
         /\ \A j \in 1..q : Row[d + 1 + j] = queue[j]
         /\ Row[d + q + 2] = pending
  <1> DEFINE S == Stream!Items \cup {Stream!NoChunk}
  <1> DEFINE a == delivered \o <<holding>>
  <1> DEFINE b == a \o queue
  <1>1. delivered \in Seq(S) /\ queue \in Seq(S) /\ holding \in S /\ pending \in S
    <2>1. Stream!Chunk \subseteq S /\ Stream!Items \subseteq S BY DEF Stream!Items
    <2>2. delivered \in Seq(S)
      <3>1. \A i \in 1..Len(delivered) : delivered[i] \in S BY <2>1, Lengths
      <3>2. delivered \in Seq(Stream!Chunk) BY DEF Stream!TypeOK
      <3>. QED BY <3>1, <3>2, SeqDef
    <2>3. queue \in Seq(S)
      <3>1. \A i \in 1..Len(queue) : queue[i] \in S BY <2>1, Lengths
      <3>2. queue \in Seq(Stream!Items) BY DEF Stream!TypeOK
      <3>. QED BY <3>1, <3>2, SeqDef
    <2>. QED BY <2>1, <2>2, <2>3 DEF Stream!TypeOK
  <1> HIDE DEF S
  <1>2. ASSUME NEW item \in S
        PROVE  <<item>> \in Seq(S) /\ Len(<<item>>) = 1 /\ <<item>>[1] = item
    BY <1>2
  <1>3. /\ a \in Seq(S) /\ Len(a) = d + 1
        /\ \A i \in 1..d : a[i] = delivered[i]
        /\ a[d + 1] = holding
    <2>1. /\ a \in Seq(S) /\ Len(a) = Len(delivered) + Len(<<holding>>)
          /\ \A i \in 1..(Len(delivered) + Len(<<holding>>)) :
               a[i] = IF i <= Len(delivered) THEN delivered[i]
                                             ELSE <<holding>>[i - Len(delivered)]
      BY <1>1, <1>2, ConcatProperties
    <2>2. a[d + 1] = <<holding>>[1] BY <1>1, <1>2, <2>1
    <2>. QED BY <1>1, <1>2, <2>1, <2>2
  <1> HIDE DEF a
  <1>4. /\ b \in Seq(S) /\ Len(b) = d + 1 + q
        /\ \A i \in 1..(d + 1) : b[i] = a[i]
        /\ \A j \in 1..q : b[d + 1 + j] = queue[j]
    <2>1. /\ b \in Seq(S) /\ Len(b) = Len(a) + Len(queue)
          /\ \A i \in 1..(Len(a) + Len(queue)) :
               b[i] = IF i <= Len(a) THEN a[i] ELSE queue[i - Len(a)]
      BY <1>1, <1>3, ConcatProperties
    <2>2. ASSUME NEW j \in 1..q PROVE b[d + 1 + j] = queue[j]
      <3>1. /\ d + 1 + j \in 1..(Len(a) + Len(queue)) /\ ~(d + 1 + j <= Len(a))
            /\ d + 1 + j - Len(a) = j
        BY <1>3
      <3>. QED BY <2>1, <3>1
    <2>. QED BY <1>3, <2>1, <2>2
  <1> HIDE DEF b
  <1>5. /\ Len(Row) = d + 1 + q + 1
        /\ \A i \in 1..(d + 1 + q) : Row[i] = b[i]
        /\ Row[d + 1 + q + 1] = pending
    <2> DEFINE c == b \o <<pending>>
    <2>0. b \in Seq(S) /\ <<pending>> \in Seq(S) BY <1>1, <1>2, <1>4
    <2>1. /\ Len(c) = Len(b) + Len(<<pending>>)
          /\ \A i \in 1..(Len(b) + Len(<<pending>>)) :
               c[i] = IF i <= Len(b) THEN b[i] ELSE <<pending>>[i - Len(b)]
      BY <2>0, ConcatProperties
    <2>2. Row = c BY DEF Row, a, b
    <2> HIDE DEF c
    <2>3. /\ d + 1 + q + 1 \in 1..(Len(b) + Len(<<pending>>)) /\ ~(d + 1 + q + 1 <= Len(b))
          /\ d + 1 + q + 1 - Len(b) = 1
      BY <1>1, <1>2, <1>4
    <2>4. c[d + 1 + q + 1] = <<pending>>[1] BY <2>1, <2>3
    <2>5. ASSUME NEW i \in 1..(d + 1 + q) PROVE c[i] = b[i]
      <3>1. Len(<<pending>>) = 1 BY <1>1, <1>2
      <3>2. i \in 1..(Len(b) + Len(<<pending>>)) /\ i <= Len(b) BY <1>4, <3>1
      <3>. QED BY <2>1, <3>2
    <2>. QED BY <1>1, <1>2, <1>4, <2>1, <2>2, <2>4, <2>5
  <1>6. \A i \in 1..d : Row[i] = delivered[i] BY <1>3, <1>4, <1>5
  <1>7. Row[d + 1] = holding
    <2>1. d + 1 \in 1..(d + 1) /\ d + 1 \in 1..(d + 1 + q) OBVIOUS
    <2>. QED BY <1>3, <1>4, <1>5, <2>1
  <1>8. ASSUME NEW j \in 1..q PROVE Row[d + 1 + j] = queue[j]
    <2>1. d + 1 + j \in 1..(d + 1 + q) OBVIOUS
    <2>. QED BY <1>4, <1>5, <2>1
  <1>9. d + 1 + q + 1 = d + q + 2 OBVIOUS
  <1>. QED BY <1>5, <1>6, <1>7, <1>8, <1>9

\* A chunk of the row is one that was delivered, the one gRPC is sending, one of
\* the queue or the one being put, and its number tells which.
LEMMA ChunkOfRow ==
  ASSUME StreamBounds, Stream!TypeOK, Begun, Handed, Ordered,
         NEW d \in Nat, d = Len(delivered), NEW q \in Nat, q = Len(queue),
         NEW n \in 0..q, Follows(n), NEW i \in ChunkPlaces
  PROVE  \/ i \in 1..d /\ Row[i].n = i
         \/ i = d + 1 /\ pc = "yielded" /\ Row[i].n = d + 1
         \/ i \in (d + 2)..(d + 1 + n) /\ Row[i].n = Gone + (i - (d + 1))
         \/ i = d + q + 2 /\ pending # Stream!NoChunk /\ Row[i].n = produced
  <1>1. /\ Len(Row) = d + q + 2
        /\ \A k \in 1..d : Row[k] = delivered[k]
        /\ Row[d + 1] = holding
        /\ \A j \in 1..q : Row[d + 1 + j] = queue[j]
        /\ Row[d + q + 2] = pending
    BY RowPlaces
  <1>2. i \in 1..(d + q + 2) /\ Row[i].tag = "chunk" BY <1>1 DEF ChunkPlaces
  <1>3. CASE i \in 1..d
    <2>1. Row[i].n = i BY <1>1, <1>3 DEF Ordered
    <2>. QED BY <1>3, <2>1
  <1>4. CASE i = d + 1
    <2>1. holding.tag = "chunk" BY <1>1, <1>2, <1>4
    <2>2. holding # Stream!NoChunk BY <2>1, ItemFacts
    <2>3. pc = "yielded" /\ holding.n = d + 1 BY <2>2 DEF Begun, Ordered
    <2>. QED BY <1>1, <1>4, <2>3
  <1>5. CASE i \in (d + 2)..(d + 1 + q)
    <2>1. PICK j \in 1..q : i = d + 1 + j
      <3>1. i - (d + 1) \in 1..q /\ i = d + 1 + (i - (d + 1)) BY <1>5
      <3>. QED BY <3>1
    <2>2. queue[j].tag = "chunk" BY <1>1, <1>2, <2>1
    <2>3. j \in 1..n
      <3>1. j \notin (n + 1)..Len(queue) BY <2>2 DEF Follows
      <3>. QED BY <3>1
    <2>4. Row[i].n = Gone + j BY <1>1, <2>1, <2>3 DEF Follows
    <2>5. j = i - (d + 1) /\ i \in (d + 2)..(d + 1 + n) BY <2>1, <2>3
    <2>. QED BY <2>4, <2>5
  <1>6. CASE i = d + q + 2
    <2>1. pending # Stream!NoChunk BY <1>1, <1>2, <1>6, ItemFacts
    <2>. QED BY <1>1, <1>6, <2>1 DEF Ordered
  <1>. QED BY <1>2, <1>3, <1>4, <1>5, <1>6

\* In the row of a stream that is read, the chunks are numbered from 1 to the last
\* one built, without a gap.
LEMMA RowInOrder ==
  ASSUME StreamBounds, Stream!TypeOK, Begun, Handed, Ordered
  PROVE  /\ {Row[i].n : i \in ChunkPlaces} = 1..produced
         /\ \A i, j \in ChunkPlaces : i < j => Row[i].n < Row[j].n
  <1>1. PICK d \in Nat, q \in Nat : d = Len(delivered) /\ q = Len(queue) BY Lengths
  <1>2. PICK n \in 0..q : Follows(n) BY <1>1 DEF Ordered
  <1>3. PICK g \in Nat : /\ g = Gone /\ (pc = "yielded" => g = d + 1)
                         /\ (pc # "yielded" => g = d)
    <2>1. d + 0 = d BY <1>1
    <2>. QED BY <1>1, <2>1, Lengths DEF Gone
  <1>4. /\ produced \in Nat
        /\ pending = Stream!NoChunk => produced = g + n
        /\ pending # Stream!NoChunk => produced = g + n + 1
    <2>1. produced = g + n + (IF pending = Stream!NoChunk THEN 0 ELSE 1) BY <1>2, <1>3 DEF Follows
    <2>2. g + n + 0 = g + n BY <1>3
    <2>. QED BY <2>1, <2>2, Lengths
  <1>5. ASSUME NEW i \in ChunkPlaces
        PROVE  /\ i \in 1..(d + q + 2)
               /\ \/ i \in 1..d /\ Row[i].n = i
                  \/ i = d + 1 /\ g = d + 1 /\ Row[i].n = d + 1
                  \/ i \in (d + 2)..(d + 1 + n) /\ Row[i].n = g + (i - (d + 1))
                  \/ i = d + q + 2 /\ produced = g + n + 1 /\ Row[i].n = g + n + 1
    <2>1. i \in 1..(d + q + 2) BY <1>1, RowPlaces DEF ChunkPlaces
    <2>2. \/ i \in 1..d /\ Row[i].n = i
          \/ i = d + 1 /\ pc = "yielded" /\ Row[i].n = d + 1
          \/ i \in (d + 2)..(d + 1 + n) /\ Row[i].n = Gone + (i - (d + 1))
          \/ i = d + q + 2 /\ pending # Stream!NoChunk /\ Row[i].n = produced
      BY <1>1, <1>2, ChunkOfRow
    <2>3. pc = "yielded" => g = d + 1 BY <1>3
    <2>4. pending # Stream!NoChunk => produced = g + n + 1 BY <1>4
    <2>5. Gone = g BY <1>3
    <2>. QED BY <2>1, <2>2, <2>3, <2>4, <2>5
  <1>6. g = d \/ g = d + 1 BY <1>3
  <1>7. \A i \in ChunkPlaces : Row[i].n \in 1..produced
    <2>1. SUFFICES ASSUME NEW i \in ChunkPlaces PROVE Row[i].n \in 1..produced
      OBVIOUS
    <2>2. PICK v : v = Row[i].n OBVIOUS
    <2>3. produced >= g + n BY <1>4
    <2>4. CASE i \in 1..d /\ v = i BY <1>4, <1>6, <2>3, <2>4, <2>2
    <2>5. CASE i = d + 1 /\ g = d + 1 /\ v = d + 1 BY <1>4, <2>2, <2>3, <2>5
    <2>6. CASE i \in (d + 2)..(d + 1 + n) /\ v = g + (i - (d + 1)) BY <1>4, <2>2, <2>3, <2>6
    <2>7. CASE produced = g + n + 1 /\ v = g + n + 1 BY <2>2, <2>7
    <2>. QED BY <1>5, <2>2, <2>4, <2>5, <2>6, <2>7
  <1>8. ASSUME NEW i \in ChunkPlaces, NEW j \in ChunkPlaces, i < j
        PROVE  Row[i].n < Row[j].n
    <2>1. PICK v, w : v = Row[i].n /\ w = Row[j].n OBVIOUS
    <2>2. /\ \/ i \in 1..d /\ v = i
             \/ i = d + 1 /\ g = d + 1 /\ v = d + 1
             \/ i \in (d + 2)..(d + 1 + n) /\ v = g + (i - (d + 1))
             \/ i = d + q + 2 /\ v = g + n + 1
          /\ \/ j \in 1..d /\ w = j
             \/ j = d + 1 /\ g = d + 1 /\ w = d + 1
             \/ j \in (d + 2)..(d + 1 + n) /\ w = g + (j - (d + 1))
             \/ j = d + q + 2 /\ w = g + n + 1
          /\ i \in 1..(d + q + 2) /\ j \in 1..(d + q + 2)
      BY <1>5, <2>1
    <2>3. v < w BY <1>6, <1>8, <2>2
    <2>. QED BY <2>1, <2>3
  <1>9. ASSUME NEW v \in 1..produced PROVE \E i \in ChunkPlaces : Row[i].n = v
    <2>1. /\ Len(Row) = d + q + 2
          /\ \A k \in 1..d : Row[k] = delivered[k]
          /\ Row[d + 1] = holding
          /\ \A j \in 1..q : Row[d + 1 + j] = queue[j]
          /\ Row[d + q + 2] = pending
      BY <1>1, RowPlaces
    <2>2. CASE v \in 1..d
      <3>1. v \in 1..Len(Row) BY <2>1, <2>2
      <3>2. delivered[v].n = v /\ delivered[v] \in Stream!Chunk BY <1>1, <2>2, Lengths DEF Ordered
      <3>3. Row[v].tag = "chunk" /\ Row[v].n = v BY <2>1, <2>2, <3>2, ItemFacts
      <3>. QED BY <3>1, <3>3 DEF ChunkPlaces
    <2>3. CASE v = d + 1 /\ g = d + 1
      <3>1. d + 1 \in 1..Len(Row) BY <2>1
      <3>2. pc = "yielded" BY <1>1, <1>3, <2>3
      <3>3. holding \in Stream!Chunk /\ holding.n = d + 1
        BY <1>1, <3>2 DEF Begun, Stream!TypeOK, Ordered
      <3>4. Row[d + 1].tag = "chunk" /\ Row[d + 1].n = v
        BY <2>1, <2>3, <3>3, ItemFacts
      <3>. QED BY <3>1, <3>4 DEF ChunkPlaces
    <2>4. CASE v \in (g + 1)..(g + n)
      <3>1. PICK j \in 1..n : v = g + j
        <4>1. v - g \in 1..n /\ v = g + (v - g) BY <2>4
        <4>. QED BY <4>1
      <3>2. d + 1 + j \in 1..Len(Row) /\ j \in 1..q BY <2>1
      <3>3. queue[j].tag = "chunk" /\ queue[j].n = g + j BY <1>2, <1>3 DEF Follows
      <3>4. Row[d + 1 + j].tag = "chunk" /\ Row[d + 1 + j].n = v
        BY <2>1, <3>1, <3>2, <3>3
      <3>. QED BY <3>2, <3>4 DEF ChunkPlaces
    <2>5. CASE v = g + n + 1
      <3>1. d + q + 2 \in 1..Len(Row) BY <2>1
      <3>2. pending # Stream!NoChunk /\ produced = v BY <1>4, <2>5
      <3>3. pending \in Stream!Chunk /\ pending.n = v BY <3>2 DEF Stream!TypeOK, Ordered
      <3>4. Row[d + q + 2].tag = "chunk" /\ Row[d + q + 2].n = v
        BY <2>1, <3>3, ItemFacts
      <3>. QED BY <3>1, <3>4 DEF ChunkPlaces
    <2>6. v \in 1..d \/ (v = d + 1 /\ g = d + 1) \/ v \in (g + 1)..(g + n) \/ v = g + n + 1
      BY <1>4, <1>6
    <2>. QED BY <2>2, <2>3, <2>4, <2>5, <2>6
  <1>. QED BY <1>7, <1>8, <1>9

----------------------------------------------------------------------------
(* The theorems.                                                           *)

\* Whatever the tool yields, however large the queue is and whenever the client
\* leaves: as long as it reads, the chunks built so far reach it in the order in
\* which they were built, each one once (ExecuteStreamingTool).
THEOREM ChunksReachClientInOrder == StreamSpec => []ChunksInOrder
  <1>1. StreamInv => ChunksInOrder
    <2>1. SUFFICES ASSUME StreamInv PROVE ChunksInOrder OBVIOUS
    <2>2. Stream!TypeOK /\ Begun /\ Handed /\ (Reading => Ordered) BY <2>1 DEF StreamInv
    <2>3. StreamBounds BY StreamAssumption DEF StreamBounds
    <2>. QED BY <2>2, <2>3, RowInOrder DEF ChunksInOrder, Reading
  <1>. QED BY <1>1, StreamInvariant, PTL

\* A stream that ended with its sentinel delivered every chunk, and one of them
\* was marked as the last (produce_chunks, the consumer's loop).
THEOREM EndIsComplete == StreamSpec => []EndedMeansComplete
  <1>1. StreamInv => EndedMeansComplete
    <2>1. SUFFICES ASSUME StreamInv, outcome = "ok", ~clientGone
                   PROVE  /\ Len(delivered) = produced
                          /\ \E i \in DOMAIN delivered : delivered[i].final
      BY DEF EndedMeansComplete
    <2>2. /\ produced = Len(delivered)
          /\ \E i \in 1..Len(delivered) : Final(delivered[i])
      BY <2>1 DEF StreamInv, Complete
    <2>3. DOMAIN delivered = 1..Len(delivered) BY <2>1, LenProperties DEF StreamInv, Stream!TypeOK
    <2>. QED BY <2>2, <2>3 DEF Final
  <1>. QED BY <1>1, StreamInvariant, PTL

\* So the client gets every chunk once and in order, and at the end all of them
\* (ExecuteStreamingTool).
THEOREM StreamReachesClient == StreamSpec => []ChunksDelivered
  <1>1. ChunksInOrder /\ EndedMeansComplete => ChunksDelivered BY DEF ChunksDelivered
  <1>. QED BY <1>1, ChunksReachClientInOrder, EndIsComplete, PTL

\* A call that is over keeps no task and no count, and no chunk waits to be put
\* but that of a thread whose iterator was closed behind it; the step that ends it
\* closes the iterator unless a thread is inside it, and cleans the adapter unless
\* there was none yet or the call was cancelled before the stream began (the
\* finally clauses of ExecuteStreamingTool).
THEOREM NothingStaysHeld == StreamSpec => NothingHeld
  <1>1. StreamInv => HeldAfterEnd
    <2>1. SUFFICES ASSUME StreamInv, pc = "done"
                   PROVE  /\ active = 0
                          /\ producer \in {"none", "ended"} /\ watcher \in {"none", "ended"}
                          /\ pending # Stream!NoChunk =>
                               kind = "sync" /\ thread = "waiting" /\ iterator = "closed"
                          /\ iterator = "open" =>
                               kind = "sync" /\ thread \in {"iterating", "returned", "raised"}
      BY DEF HeldAfterEnd
    <2>2. pending # Stream!NoChunk => thread = "waiting" /\ kind = "sync"
      BY <2>1 DEF StreamInv, Begun, Handed
    <2>. QED BY <2>1, <2>2 DEF StreamInv, Begun
  <1>2. StreamInv /\ [Stream!Next]_Stream!vars => [EndReleases]_Stream!vars
    <2>1. SUFFICES ASSUME StreamInv, Stream!Next, pc # "done", pc' = "done"
                   PROVE  /\ iterator' = "open" => thread = "iterating"
                          /\ \/ pc = "setup"
                             \/ outcome' = "cancelled" /\ producer = "none"
                             \/ cleanups' > 0
      BY DEF EndReleases
    <2>2. \/ Stream!FailSetup \/ Stream!FailEarly \/ Stream!CancelEarly \/ Stream!Release
      BY <2>1 DEF Stream!Next, Stream!HandlerStep, Stream!ProducerStep, Stream!WatcherStep,
           Stream!ToolStep, Stream!Setup, Stream!ClientLeaves, Stream!TakeChunk,
           Stream!TakeSentinel, Stream!TakeError, Stream!ClientReads, Stream!CancelHandler,
           Stream!StopTasks, Stream!AsyncPut, Stream!Exhausted, Stream!ThreadRaised,
           Stream!PutFinal, Stream!PutFailure, Stream!PutSentinel, Stream!ThreadPut,
           Stream!WatchDisconnect, Stream!WatcherEnds, Stream!Initialized, Stream!StartStream,
           Stream!AsyncYield, Stream!AsyncRaise, Stream!ThreadYield, Stream!ThreadUnencodable,
           Stream!ThreadEnds
    <2>3. Stream!Cleaned > 0 BY <2>1 DEF StreamInv, Stream!TypeOK, Stream!Cleaned
    <2>4. CASE Stream!FailSetup \/ Stream!FailEarly \/ Stream!CancelEarly
      BY <2>1, <2>3, <2>4 DEF StreamInv, Begun, Stream!FailSetup, Stream!FailEarly,
           Stream!CancelEarly, Stream!release
    <2>5. CASE Stream!Release
      BY <2>1, <2>3, <2>5 DEF Stream!Release, Stream!Closed
    <2>. QED BY <2>2, <2>4, <2>5
  <1>3. []StreamInv /\ [][Stream!Next]_Stream!vars => NothingHeld
    <2>1. StreamInv /\ StreamInv' /\ [Stream!Next]_Stream!vars =>
            [EndReleases /\ HeldAfterEnd']_Stream!vars
      <3>1. StreamInv' => HeldAfterEnd' BY <1>1, PTL
      <3>. QED BY <1>2, <3>1
    <2>. QED BY <2>1, PTL DEF NothingHeld
  <1>. QED BY <1>3, StreamInvariant, PTL DEF StreamSpec, Stream!Spec
=============================================================================

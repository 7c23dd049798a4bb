-------------------------- MODULE TelemetryStream --------------------------
(***************************************************************************)
(* The telemetry stream of a Python worker (telemetry/stream.py and the    *)
(* StreamTelemetry RPC of grpc_server.py): events emitted by the event loop *)
(* and by the threads of tools, buffered until Elixir opens the RPC, then  *)
(* queued for it; control messages; close().                               *)
(*                                                                         *)
(* What the loop does between two awaits is one step. A foreign thread     *)
(* reads _loop (or closes the stream) in one step and hands its item over  *)
(* in another, so the loop may have moved on in between. The `+= 1` of     *)
(* _dropped_count is one step: CPython switches threads only at calls and  *)
(* backward jumps.                                                         *)
(***************************************************************************)
EXTENDS Naturals, Sequences

CONSTANTS
  Threads,     \* threads of tools that emit
  LoopThread,  \* the thread of the event loop
  Streams,     \* StreamTelemetry calls Elixir makes, each one once
  MaxBuffer,   \* max_buffer
  MaxEvents    \* bound: events emitted

ASSUME TelemetryAssumption ==
  /\ LoopThread \notin Threads
  /\ MaxBuffer \in Nat \ {0} /\ MaxEvents \in Nat

VARIABLES
  attached,      \* self._loop is not None
  closed,
  alive,         \* the event loop is not closed
  open_gate,     \* the controls let events through, some of them at least
  pre,           \* _pre_stream_events
  callbacks,     \* call_soon_threadsafe entries the loop has not run
  queue,
  dropped_count,
  emitted,       \* events emitted
  inHand,        \* what a thread is handing over, and whether it saw a loop
  rpc,           \* "idle", "attaching", "waiting", "yielding", "closing", "ended"
  taken,         \* events the calls have taken from the queue, in order
  entered,       \* items handed to a buffer, sentinels included
  left,          \* items taken from the queue
  muted,         \* a sentinel met a full queue
  shared         \* two calls were open at once

buffers == <<pre, callbacks, queue, dropped_count, entered>>
ghosts  == <<muted, shared>>
vars    == <<attached, closed, alive, open_gate, buffers, emitted, inHand, rpc, taken,
             left, ghosts>>

Emitters == Threads \cup {LoopThread}
Event    == [from : Emitters, n : 1..MaxEvents]
Sentinel == [from |-> LoopThread, n |-> 0]
Items    == Event \cup {Sentinel}
Nothing  == [from |-> LoopThread, n |-> MaxEvents + 1]

Init ==
  /\ attached = FALSE /\ closed = FALSE /\ alive = TRUE /\ open_gate = TRUE
  /\ pre = <<>> /\ callbacks = <<>> /\ queue = <<>> /\ dropped_count = 0
  /\ emitted = 0
  /\ inHand = [t \in Threads |-> [item |-> Nothing, saw |-> FALSE]]
  /\ rpc = [s \in Streams |-> "idle"]
  /\ taken = <<>> /\ entered = 0 /\ left = 0
  /\ muted = FALSE /\ shared = FALSE

\* stream() sets _loop and flushes without an await: the loop does nothing else.
LoopFree == alive /\ \A s \in Streams : rpc[s] # "attaching"

(***************************************************************************)
(* The buffers. Each operator changes the queue and dropped_count.         *)
(***************************************************************************)
\* Mutant of Enqueue: a full queue drops silently.
EnqueueUncounted(item) ==
  /\ queue' = IF Len(queue) < MaxBuffer THEN Append(queue, item) ELSE queue
  /\ dropped_count' = dropped_count
  /\ muted' = (muted \/ (item = Sentinel /\ Len(queue) >= MaxBuffer))

Enqueue(item) ==
  /\ queue' = IF Len(queue) < MaxBuffer THEN Append(queue, item) ELSE queue
  /\ dropped_count' = IF Len(queue) < MaxBuffer THEN dropped_count
                                                ELSE dropped_count + 1
  /\ muted' = (muted \/ (item = Sentinel /\ Len(queue) >= MaxBuffer))

\* After close() an event is discarded, and not counted.
EnqueuePreStream(event) ==
  /\ pre' = IF ~closed /\ Len(pre) < MaxBuffer THEN Append(pre, event) ELSE pre
  /\ dropped_count' = IF ~closed /\ Len(pre) >= MaxBuffer THEN dropped_count + 1
                                                          ELSE dropped_count
  /\ entered' = IF closed THEN entered ELSE entered + 1

(***************************************************************************)
(* emit(): sampling and filters first, then the loop, or the buffer.       *)
(***************************************************************************)
Passes == open_gate /\ emitted < MaxEvents

NextEvent(e) == [from |-> e, n |-> emitted + 1]

LoopEmits ==
  /\ LoopFree /\ Passes /\ emitted' = emitted + 1
  /\ IF attached
       THEN /\ Enqueue(NextEvent(LoopThread))
            /\ entered' = entered + 1
            /\ UNCHANGED pre
       ELSE EnqueuePreStream(NextEvent(LoopThread)) /\ UNCHANGED <<queue, muted>>
  /\ UNCHANGED <<attached, closed, alive, open_gate, callbacks, inHand, rpc, taken, left,
                 shared>>

ThreadReadsLoop(t) ==
  /\ inHand[t].item = Nothing /\ Passes /\ emitted' = emitted + 1
  /\ inHand' = [inHand EXCEPT ![t] = [item |-> NextEvent(t), saw |-> attached]]
  /\ UNCHANGED <<attached, closed, alive, open_gate, buffers, rpc, taken, left, ghosts>>

Empty(t) == inHand' = [inHand EXCEPT ![t] = [item |-> Nothing, saw |-> FALSE]]

ThreadBuffers(t) ==
  /\ inHand[t].item \in Event /\ ~inHand[t].saw /\ Empty(t)
  /\ EnqueuePreStream(inHand[t].item)
  /\ UNCHANGED <<attached, closed, alive, open_gate, callbacks, queue, emitted, rpc, taken,
                 left, ghosts>>

\* call_soon_threadsafe, which a closed loop refuses. What close() could not post
\* is not counted.
ThreadPosts(t) ==
  /\ inHand[t].item # Nothing /\ inHand[t].saw /\ Empty(t)
  /\ IF alive
       THEN callbacks' = Append(callbacks, inHand[t].item) /\ UNCHANGED dropped_count
       ELSE /\ dropped_count' = IF inHand[t].item = Sentinel THEN dropped_count
                                                             ELSE dropped_count + 1
            /\ UNCHANGED callbacks
  /\ entered' = IF alive \/ inHand[t].item # Sentinel THEN entered + 1 ELSE entered
  /\ UNCHANGED <<attached, closed, alive, open_gate, pre, queue, emitted, rpc, taken, left,
                 ghosts>>

RunCallback ==
  /\ LoopFree /\ callbacks # <<>>
  /\ Enqueue(Head(callbacks))
  /\ callbacks' = Tail(callbacks)
  /\ UNCHANGED <<attached, closed, alive, open_gate, pre, entered, emitted, inHand, rpc,
                 taken, left, shared>>

(***************************************************************************)
(* close(): the servicer's, on the loop, or from another thread.           *)
(***************************************************************************)
LoopCloses ==
  /\ LoopFree /\ ~closed
  /\ closed' = TRUE
  /\ IF attached THEN Enqueue(Sentinel) /\ entered' = entered + 1
                 ELSE UNCHANGED <<queue, dropped_count, muted, entered>>
  /\ UNCHANGED <<attached, alive, open_gate, pre, callbacks, emitted, inHand, rpc, taken,
                 left, shared>>

ThreadCloses(t) ==
  /\ ~closed /\ inHand[t].item = Nothing
  /\ closed' = TRUE
  /\ inHand' = IF attached
                 THEN [inHand EXCEPT ![t] = [item |-> Sentinel, saw |-> TRUE]]
                 ELSE inHand
  /\ UNCHANGED <<attached, alive, open_gate, buffers, emitted, rpc, taken, left, ghosts>>

\* main() closes the loop when serve_with_shutdown() has returned.
LoopEnds ==
  /\ LoopFree /\ closed
  /\ alive' = FALSE
  /\ UNCHANGED <<attached, closed, open_gate, buffers, emitted, inHand, rpc, taken, left,
                 ghosts>>

(***************************************************************************)
(* stream(): one generator per StreamTelemetry call.                       *)
(***************************************************************************)
Open(s) == rpc[s] \in {"attaching", "waiting", "yielding", "closing"}

Attach(s) ==
  /\ LoopFree /\ rpc[s] = "idle"
  /\ rpc' = [rpc EXCEPT ![s] = "attaching"]
  /\ attached' = TRUE
  /\ shared' = (shared \/ \E other \in Streams : Open(other))
  /\ UNCHANGED <<closed, alive, open_gate, buffers, emitted, inHand, taken, left, muted>>

\* Mutant of ToFlush: the newest event comes first, as pop() would take it.
FlushReversed ==
  [i \in 1..Len(pre) |-> pre[Len(pre) + 1 - i]]
    \o (IF closed THEN <<Sentinel>> ELSE <<>>)

\* Mutant of ToFlush: a stream that was closed before it opened stays open.
FlushForgetsClose == pre

\* Taken and cleared under the lock, with _closed.
ToFlush == pre \o (IF closed THEN <<Sentinel>> ELSE <<>>)

Room == MaxBuffer - Len(queue)

Fits == IF Len(ToFlush) <= Room THEN Len(ToFlush) ELSE Room

Flush(s) ==
  /\ alive /\ rpc[s] = "attaching"
  /\ rpc' = [rpc EXCEPT ![s] = "waiting"]
  /\ pre' = <<>>
  /\ queue' = queue \o SubSeq(ToFlush, 1, Fits)
  /\ dropped_count' = dropped_count + (Len(ToFlush) - Fits)
  /\ entered' = entered + (Len(ToFlush) - Len(pre))
  /\ muted' = (muted \/ (closed /\ Fits < Len(ToFlush)))
  /\ UNCHANGED <<attached, closed, alive, open_gate, callbacks, emitted, inHand, taken, left,
                 shared>>

TakeEvent(s) ==
  /\ LoopFree /\ rpc[s] = "waiting" /\ queue # <<>> /\ Head(queue) # Sentinel
  /\ taken' = Append(taken, Head(queue)) /\ queue' = Tail(queue)
  /\ left' = left + 1
  /\ rpc' = [rpc EXCEPT ![s] = "yielding"]
  /\ UNCHANGED <<attached, closed, alive, open_gate, pre, callbacks, dropped_count, entered,
                 emitted, inHand, ghosts>>

TakeSentinel(s) ==
  /\ LoopFree /\ rpc[s] = "waiting" /\ queue # <<>> /\ Head(queue) = Sentinel
  /\ queue' = Tail(queue)
  /\ left' = left + 1
  /\ rpc' = [rpc EXCEPT ![s] = "closing"]
  /\ UNCHANGED <<attached, closed, alive, open_gate, pre, callbacks, dropped_count, entered,
                 emitted, inHand, taken, ghosts>>

Sent(s) ==
  /\ LoopFree /\ rpc[s] = "yielding"
  /\ rpc' = [rpc EXCEPT ![s] = "waiting"]
  /\ UNCHANGED <<attached, closed, alive, open_gate, buffers, emitted, inHand, taken, left,
                 ghosts>>

\* The client cancels the call, or its connection ends.
Cancel(s) ==
  /\ LoopFree /\ rpc[s] \in {"waiting", "yielding"}
  /\ rpc' = [rpc EXCEPT ![s] = "closing"]
  /\ UNCHANGED <<attached, closed, alive, open_gate, buffers, emitted, inHand, taken, left,
                 ghosts>>

\* The finally clause, after the control task has ended.
Detach(s) ==
  /\ LoopFree /\ rpc[s] = "closing"
  /\ rpc' = [rpc EXCEPT ![s] = "ended"]
  /\ attached' = FALSE
  /\ UNCHANGED <<closed, alive, open_gate, buffers, emitted, inHand, taken, left, ghosts>>

\* A toggle, a sampling rate (clamped to 0..1) or a filter.
HandleControl(s) ==
  /\ LoopFree /\ rpc[s] \in {"waiting", "yielding"}
  /\ open_gate' \in BOOLEAN
  /\ UNCHANGED <<attached, closed, alive, buffers, emitted, inHand, rpc, taken, left,
                 ghosts>>

StreamStep(s) == Flush(s) \/ TakeEvent(s) \/ TakeSentinel(s) \/ Sent(s) \/ Detach(s)

HandOver(t) == ThreadBuffers(t) \/ ThreadPosts(t)

Next ==
  \/ LoopEmits \/ RunCallback \/ LoopCloses \/ LoopEnds
  \/ \E t \in Threads : ThreadReadsLoop(t) \/ HandOver(t) \/ ThreadCloses(t)
  \/ \E s \in Streams : Attach(s) \/ StreamStep(s) \/ Cancel(s) \/ HandleControl(s)

\* The loop runs what is ready and gRPC sends what it is given; a thread that has
\* an event hands it over. Nothing is assumed of Elixir or of the tools.
Fairness ==
  /\ WF_vars(RunCallback)
  /\ \A s \in Streams : WF_vars(StreamStep(s))
  /\ \A t \in Threads : WF_vars(HandOver(t))

Spec == Init /\ [][Next]_vars /\ Fairness

(***************************************************************************)
(* Properties.                                                             *)
(***************************************************************************)

\* The type of every variable; neither buffer exceeds max_buffer.
TypeOK ==
  /\ attached \in BOOLEAN /\ closed \in BOOLEAN /\ alive \in BOOLEAN
  /\ open_gate \in BOOLEAN
  /\ pre \in Seq(Event) /\ Len(pre) <= MaxBuffer
  /\ callbacks \in Seq(Items)
  /\ queue \in Seq(Items) /\ Len(queue) <= MaxBuffer
  /\ dropped_count \in Nat /\ entered \in Nat /\ left \in Nat
  /\ emitted \in 0..MaxEvents
  /\ inHand \in [Threads -> [item : Items \cup {Nothing}, saw : BOOLEAN]]
  /\ rpc \in [Streams -> {"idle", "attaching", "waiting", "yielding", "closing",
                          "ended"}]
  /\ taken \in Seq(Event)
  /\ muted \in BOOLEAN /\ shared \in BOOLEAN

\* Whatever was handed to a buffer is in one of the three, was taken, or is
\* counted in dropped_count: through the flush, the saturation of either buffer
\* and the closing of the loop, nothing is lost or counted twice.
Accounted ==
  /\ TypeOK
  /\ entered = Len(pre) + Len(callbacks) + Len(queue) + left + dropped_count

\* An event of the event loop; the sentinel is none.
OfLoop(item) == item.from = LoopThread /\ item.n > 0

\* The events of the event loop are sent in the order in which they were emitted,
\* and each at most once, across calls that end, reopen and overlap: what was taken,
\* the queue and the buffer hold them in this order. (Those of a thread are not: see
\* the README.)
LoopEventsInOrder ==
  LET line == taken \o queue \o pre IN
    \A i, j \in DOMAIN line :
      i < j /\ OfLoop(line[i]) /\ OfLoop(line[j]) => line[i].n < line[j].n

\* "sends sentinel to telemetry stream to unblock StreamTelemetry RPC": close()
\* ends the open call, unless its sentinel met a full queue or another call was
\* open as well.
CloseEndsStream ==
  \A s \in Streams :
    closed /\ rpc[s] = "waiting" ~> rpc[s] = "ended" \/ muted \/ shared \/ ~alive
=============================================================================

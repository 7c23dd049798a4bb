--------------------------- MODULE StreamingTool ---------------------------
(***************************************************************************)
(* One ExecuteStreamingTool call in the Python worker (grpc_server.py, and *)
(* grpc_server_threaded.py with the same queue): the handler coroutine     *)
(* that gRPC iterates, the producer task, the thread that iterates a       *)
(* synchronous tool, the disconnect watcher, and the bounded asyncio.Queue *)
(* between them.                                                           *)
(*                                                                         *)
(* Code between two awaits of the event loop is one step. The thread of a  *)
(* synchronous tool runs beside the loop, and outlives the producer task   *)
(* that waits for it (a thread cannot be cancelled).                       *)
(***************************************************************************)
EXTENDS Naturals, Sequences

CONSTANTS
  MaxQueue,   \* maxsize of the queue
  MaxChunks   \* bound: chunks a tool yields

\* What execute_tool returns: an iterator of one kind or the other, or a value.
Kinds == {"async", "sync", "value"}

VARIABLES
  kind,         \* never changes
  watched,      \* the context has is_active(), which the watcher polls; one
                \* without it (grpc.aio) cancels the handler instead
  server,       \* "async" or "threaded": which file serves the call
  active,       \* active_requests of the threaded server
  pc,           \* the handler: "setup", "initialize", "execute", "consume",
                \* "yielded", "stopping", "joining", "done"
  outcome,      \* why the stream stopped: "none", "ok", "error", "cancelled"
  clientGone,
  queue,
  holding,      \* the chunk the handler has yielded and gRPC is sending
  delivered,    \* chunks the client received
  producer,     \* the task: "none", "running", "put" (awaits queue.put of
                \* pending), "final", "failed", "sentinel", "ended"
  thread,       \* "none", "iterating", "waiting" (on fut.result() for
                \* pending), "returned", "raised", "gaveup"
  pending,      \* the chunk that is being put
  produced,     \* chunks built
  marked_final,
  cancelled,    \* the asyncio.Event
  watcher,      \* "none", "watching", "ended"
  iterator,     \* "none", "open", "closed"
  cleanups      \* times adapter.cleanup() was called, saturating at 2

config  == <<kind, watched, server>>
tool    == <<thread, pending, produced, marked_final>>
release == <<iterator, cleanups>>
vars    == <<config, active, pc, outcome, clientGone, queue, holding, delivered,
             producer, tool, cancelled, watcher, release>>

Item(tag, n, final) == [tag |-> tag, n |-> n, final |-> final]
Chunk    == [tag : {"chunk"}, n : 1..(MaxChunks + 1), final : BOOLEAN]
NoChunk  == Item("none", 0, FALSE)
Sentinel == Item("sentinel", 0, FALSE)
Failure  == Item("error", 0, FALSE)
Items    == Chunk \cup {Sentinel, Failure}

HasRoom == Len(queue) < MaxQueue

\* The asyncio tasks of the call exist once the tool has returned.
Streaming == pc \in {"consume", "yielded", "stopping", "joining"}

Init ==
  /\ kind \in Kinds /\ watched \in BOOLEAN /\ server \in {"async", "threaded"}
  /\ active = 0
  /\ pc = "setup" /\ outcome = "none" /\ clientGone = FALSE
  /\ queue = <<>> /\ holding = NoChunk /\ delivered = <<>>
  /\ producer = "none" /\ thread = "none" /\ pending = NoChunk
  /\ produced = 0 /\ marked_final = FALSE
  /\ cancelled = FALSE /\ watcher = "none"
  /\ iterator = "none" /\ cleanups = 0

Cleaned == IF cleanups = 2 THEN 2 ELSE cleanups + 1

\* Mutant of Closed: the iterator is left to the garbage collector.
LeftOpen == iterator

Closed == IF iterator = "open" /\ thread # "iterating" THEN "closed" ELSE iterator

RecordStart == active' = IF server = "threaded" THEN active + 1 ELSE active

RecordEnd == active' = IF server = "threaded" THEN active - 1 ELSE active

(***************************************************************************)
(* The handler up to the stream. A failure before the tool runs closes the *)
(* iterator, cleans the adapter and aborts the call. A cancellation does   *)
(* not: CancelledError is not an Exception, and the inner finally has not  *)
(* been entered.                                                           *)
(***************************************************************************)
Setup ==
  /\ pc = "setup" /\ ~clientGone
  /\ pc' = "initialize" /\ RecordStart
  /\ UNCHANGED <<config, outcome, clientGone, queue, holding, delivered, producer,
                 tool, cancelled, watcher, release>>

Initialized ==
  /\ pc = "initialize"
  /\ pc' = "execute"
  /\ UNCHANGED <<config, active, outcome, clientGone, queue, holding, delivered,
                 producer, tool, cancelled, watcher, release>>

\* Before the adapter exists there is nothing to clean.
FailSetup ==
  /\ pc = "setup" /\ ~clientGone
  /\ pc' = "done" /\ outcome' = "error"
  /\ cleanups' \in {cleanups, Cleaned}
  /\ UNCHANGED <<config, active, clientGone, queue, holding, delivered, producer,
                 tool, cancelled, watcher, iterator>>

FailEarly ==
  /\ pc \in {"initialize", "execute"}
  /\ pc' = "done" /\ outcome' = "error" /\ RecordEnd
  /\ cleanups' = Cleaned
  /\ UNCHANGED <<config, clientGone, queue, holding, delivered, producer, tool,
                 cancelled, watcher, iterator>>

StartStream ==
  /\ pc = "execute"
  /\ pc' = "consume"
  /\ iterator' = IF kind = "value" THEN "none" ELSE "open"
  /\ producer' = "running" /\ watcher' = "watching"
  /\ thread' = IF kind = "sync" THEN "iterating" ELSE "none"
  /\ UNCHANGED <<config, active, outcome, clientGone, queue, holding, delivered,
                 pending, produced, marked_final, cancelled, cleanups>>

CancelEarly ==
  /\ clientGone /\ ~watched /\ pc \in {"initialize", "execute"}
  /\ pc' = "done" /\ outcome' = "cancelled" /\ RecordEnd
  /\ UNCHANGED <<config, clientGone, queue, holding, delivered, producer, tool,
                 cancelled, watcher, release>>

(***************************************************************************)
(* The consumer: takes an item from the queue; a sentinel ends the stream, *)
(* an exception of the tool aborts it, a chunk is yielded to gRPC, which   *)
(* comes back for the next one when the client has room for it.            *)
(***************************************************************************)
TakeChunk ==
  /\ pc = "consume" /\ queue # <<>> /\ Head(queue).tag = "chunk"
  /\ holding' = Head(queue) /\ queue' = Tail(queue)
  /\ pc' = "yielded"
  /\ UNCHANGED <<config, active, outcome, clientGone, delivered, producer, tool,
                 cancelled, watcher, release>>

TakeSentinel ==
  /\ pc = "consume" /\ queue # <<>> /\ Head(queue) = Sentinel
  /\ queue' = Tail(queue)
  /\ pc' = "stopping" /\ outcome' = "ok"
  /\ UNCHANGED <<config, active, clientGone, holding, delivered, producer, tool,
                 cancelled, watcher, release>>

TakeError ==
  /\ pc = "consume" /\ queue # <<>> /\ Head(queue) = Failure
  /\ queue' = Tail(queue) /\ cancelled' = TRUE
  /\ pc' = "stopping" /\ outcome' = "error"
  /\ UNCHANGED <<config, active, clientGone, holding, delivered, producer, tool,
                 watcher, release>>

ClientReads ==
  /\ pc = "yielded"
  /\ delivered' = IF clientGone THEN delivered ELSE Append(delivered, holding)
  /\ holding' = NoChunk
  /\ pc' = "consume"
  /\ UNCHANGED <<config, active, outcome, clientGone, queue, producer, tool,
                 cancelled, watcher, release>>

ClientLeaves ==
  /\ ~clientGone /\ pc \notin {"setup", "done"}
  /\ clientGone' = TRUE
  /\ UNCHANGED <<config, active, pc, outcome, queue, holding, delivered, producer,
                 tool, cancelled, watcher, release>>

\* gRPC cancels the handler at its await, or closes it at its yield.
CancelHandler ==
  /\ clientGone /\ ~watched /\ pc \in {"consume", "yielded"}
  /\ pc' = "stopping" /\ outcome' = "cancelled" /\ holding' = NoChunk
  /\ UNCHANGED <<config, active, clientGone, queue, delivered, producer, tool,
                 cancelled, watcher, release>>

\* The finally clause: both tasks are cancelled. The thread is not.
StopTasks ==
  /\ pc = "stopping"
  /\ pc' = "joining"
  /\ cancelled' = TRUE /\ watcher' = "ended" /\ producer' = "ended"
  /\ pending' = IF kind = "sync" THEN pending ELSE NoChunk
  /\ UNCHANGED <<config, active, outcome, clientGone, queue, holding, delivered,
                 thread, produced, marked_final, release>>

\* An iterator that a thread is executing cannot be closed. The abort of a
\* failed stream is an exception: the outer clause cleans the adapter again.
Release ==
  /\ pc = "joining"
  /\ pc' = "done" /\ RecordEnd
  /\ iterator' = Closed
  /\ cleanups' = IF outcome = "error" THEN 2 ELSE Cleaned
  /\ UNCHANGED <<config, outcome, clientGone, queue, holding, delivered, producer,
                 tool, cancelled, watcher>>

(***************************************************************************)
(* The producer. A chunk is built, which counts it and notes is_final, and *)
(* then put; the put waits while the queue is full. What a synchronous     *)
(* tool yields is put by a coroutine the thread submits and waits for.     *)
(***************************************************************************)
MayYield == produced < (IF kind = "value" THEN 1 ELSE MaxChunks)

\* An iterator may also be over; a value is over once it was put.
IsOver == kind # "value" \/ produced = 1

Built(final) == Item("chunk", produced + 1, final)

AsyncYield ==
  /\ producer = "running" /\ kind # "sync" /\ MayYield
  /\ \E final \in BOOLEAN :
       IF cancelled
         THEN /\ producer' = "ended"
              /\ UNCHANGED <<tool, queue>>
         ELSE /\ produced' = produced + 1
              /\ marked_final' = (marked_final \/ final)
              /\ pending' = Built(final) /\ producer' = "put"
              /\ UNCHANGED <<thread, queue>>
  /\ UNCHANGED <<config, active, pc, outcome, clientGone, holding, delivered,
                 cancelled, watcher, release>>

AsyncPut ==
  /\ producer = "put" /\ HasRoom
  /\ queue' = Append(queue, pending)
  /\ pending' = NoChunk /\ producer' = "running"
  /\ UNCHANGED <<config, active, pc, outcome, clientGone, holding, delivered, thread,
                 produced, marked_final, cancelled, watcher, release>>

\* The tool raises, or yields a payload that cannot be encoded.
AsyncRaise ==
  /\ producer = "running"
  /\ \/ kind = "async"
     \/ kind = "value" /\ MayYield
  /\ producer' = "failed"
  /\ UNCHANGED <<config, active, pc, outcome, clientGone, queue, holding, delivered,
                 tool, cancelled, watcher, release>>

ThreadYield ==
  /\ thread = "iterating" /\ MayYield
  /\ \E final \in BOOLEAN :
       IF cancelled
         THEN thread' = "returned" /\ UNCHANGED <<produced, marked_final, pending>>
         ELSE /\ thread' = "waiting"
              /\ produced' = produced + 1
              /\ marked_final' = (marked_final \/ final)
              /\ pending' = Built(final)
  /\ UNCHANGED <<config, active, pc, outcome, clientGone, queue, holding, delivered,
                 producer, cancelled, watcher, release>>

\* fut.result() returns. An iterator that was closed meanwhile is over.
ThreadPut ==
  /\ thread = "waiting" /\ HasRoom
  /\ queue' = Append(queue, pending) /\ pending' = NoChunk
  /\ thread' = IF iterator = "closed" THEN "returned" ELSE "iterating"
  /\ UNCHANGED <<config, active, pc, outcome, clientGone, holding, delivered,
                 producer, produced, marked_final, cancelled, watcher, release>>

\* fut.result() raises what build_chunk raised: the thread gives up quietly.  (The
\* submission, its failure and the end of the wait are one step: a flag that is set
\* in between ends the thread all the same.)
ThreadUnencodable ==
  /\ thread = "iterating" /\ MayYield /\ ~cancelled
  /\ thread' = "gaveup"
  /\ cancelled' = TRUE
  /\ UNCHANGED <<config, active, pc, outcome, clientGone, queue, holding, delivered,
                 producer, pending, produced, marked_final, watcher, release>>

ThreadEnds ==
  /\ thread = "iterating"
  /\ thread' \in {"returned", "raised"}
  /\ UNCHANGED <<config, active, pc, outcome, clientGone, queue, holding, delivered,
                 producer, pending, produced, marked_final, cancelled, watcher,
                 release>>

\* Mutant of Epilogue: no final chunk is made up.
NoFinalEpilogue == IF cancelled THEN "ended" ELSE "sentinel"

\* What the producer does when the iterator is exhausted.
Epilogue ==
  CASE cancelled      -> "ended"
    [] ~cancelled /\ ~marked_final -> "final"
    [] OTHER          -> "sentinel"

\* Mutant of Exhausted: the producer does not wait for the last put.
ExhaustedEarly ==
  /\ producer = "running"
  /\ IF kind = "sync" THEN thread \in {"waiting", "returned", "gaveup"} ELSE IsOver
  /\ producer' = Epilogue
  /\ UNCHANGED <<config, active, pc, outcome, clientGone, queue, holding, delivered,
                 tool, cancelled, watcher, release>>

Exhausted ==
  /\ producer = "running"
  /\ IF kind = "sync" THEN thread \in {"returned", "gaveup"} ELSE IsOver
  /\ producer' = Epilogue
  /\ UNCHANGED <<config, active, pc, outcome, clientGone, queue, holding, delivered,
                 tool, cancelled, watcher, release>>

ThreadRaised ==
  /\ producer = "running" /\ thread = "raised"
  /\ producer' = "failed"
  /\ UNCHANGED <<config, active, pc, outcome, clientGone, queue, holding, delivered,
                 tool, cancelled, watcher, release>>

PutFinal ==
  /\ producer = "final" /\ HasRoom
  /\ queue' = Append(queue, Built(TRUE))
  /\ produced' = produced + 1 /\ marked_final' = TRUE
  /\ producer' = IF cancelled THEN "ended" ELSE "sentinel"
  /\ UNCHANGED <<config, active, pc, outcome, clientGone, holding, delivered, thread,
                 pending, cancelled, watcher, release>>

PutFailure ==
  /\ producer = "failed" /\ HasRoom
  /\ queue' = Append(queue, Failure)
  /\ producer' = "sentinel"
  /\ UNCHANGED <<config, active, pc, outcome, clientGone, holding, delivered, tool,
                 cancelled, watcher, release>>

PutSentinel ==
  /\ producer = "sentinel" /\ HasRoom
  /\ queue' = Append(queue, Sentinel)
  /\ producer' = "ended"
  /\ UNCHANGED <<config, active, pc, outcome, clientGone, holding, delivered, tool,
                 cancelled, watcher, release>>

(***************************************************************************)
(* The watcher makes room for its sentinel by dropping buffered chunks.    *)
(***************************************************************************)
\* Mutant of Unblocked: the sentinel is given up when the queue is full.
GivesUp == IF HasRoom THEN Append(queue, Sentinel) ELSE queue

Unblocked == Append(IF HasRoom THEN queue ELSE Tail(queue), Sentinel)

WatchDisconnect ==
  /\ watcher = "watching" /\ watched /\ clientGone /\ ~cancelled
  /\ cancelled' = TRUE /\ queue' = Unblocked
  /\ watcher' = "ended"
  /\ UNCHANGED <<config, active, pc, outcome, clientGone, holding, delivered, producer,
                 tool, release>>

WatcherEnds ==
  /\ watcher = "watching" /\ cancelled
  /\ watcher' = "ended"
  /\ UNCHANGED <<config, active, pc, outcome, clientGone, queue, holding, delivered,
                 producer, tool, cancelled, release>>

HandlerStep == CancelEarly \/ TakeChunk \/ TakeSentinel \/ TakeError \/ ClientReads
                 \/ CancelHandler \/ StopTasks \/ Release

ProducerStep == AsyncPut \/ Exhausted \/ ThreadRaised \/ PutFinal \/ PutFailure
                  \/ PutSentinel

WatcherStep == WatchDisconnect \/ WatcherEnds

ToolStep == FailEarly \/ Initialized \/ StartStream \/ AsyncYield \/ AsyncRaise
              \/ ThreadYield \/ ThreadUnencodable \/ ThreadEnds

Next == Setup \/ FailSetup \/ ClientLeaves \/ HandlerStep \/ ProducerStep
          \/ ThreadPut \/ WatcherStep \/ ToolStep

\* The event loop runs what is ready and gRPC sends what it was given. Nothing is
\* assumed of the tool; one that returned a value has nothing left to do.
Fairness == WF_vars(HandlerStep) /\ WF_vars(ProducerStep) /\ WF_vars(ThreadPut)
              /\ WF_vars(WatcherStep) /\ WF_vars(kind = "value" /\ AsyncYield)

Spec == Init /\ [][Next]_vars /\ Fairness

\* The type of every variable; the queue never exceeds its maxsize.
TypeOK ==
  /\ kind \in Kinds /\ watched \in BOOLEAN /\ server \in {"async", "threaded"}
  /\ active \in 0..1 /\ clientGone \in BOOLEAN /\ cancelled \in BOOLEAN
  /\ pc \in {"setup", "initialize", "execute", "consume", "yielded", "stopping",
             "joining", "done"}
  /\ outcome \in {"none", "ok", "error", "cancelled"}
  /\ queue \in Seq(Items) /\ Len(queue) <= MaxQueue
  /\ delivered \in Seq(Chunk)
  /\ holding \in Chunk \cup {NoChunk} /\ pending \in Chunk \cup {NoChunk}
  /\ producer \in {"none", "running", "put", "final", "failed", "sentinel", "ended"}
  /\ thread \in {"none", "iterating", "waiting", "returned", "raised", "gaveup"}
  /\ produced \in 0..(MaxChunks + 1) /\ marked_final \in BOOLEAN
  /\ watcher \in {"none", "watching", "ended"}
  /\ iterator \in {"none", "open", "closed"} /\ cleanups \in 0..2
=============================================================================

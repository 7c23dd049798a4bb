--------------------------- MODULE StreamingCall ---------------------------
(***************************************************************************)
(* What one ExecuteStreamingTool call promises its client and its server:  *)
(* the properties of StreamingTool.  The variables are those of the        *)
(* handler, but for servicer, which BridgeServer calls otherwise: so both  *)
(* halves of the server can be proved about in one module.                 *)
(***************************************************************************)
EXTENDS Naturals, Sequences

CONSTANTS MaxQueue, MaxChunks

ASSUME StreamAssumption == MaxQueue \in Nat \ {0} /\ MaxChunks \in Nat \ {0}

VARIABLES kind, watched, servicer, active, pc, outcome, clientGone, queue, holding, delivered,
          producer, thread, pending, produced, marked_final, cancelled, watcher, iterator, cleanups

Stream == INSTANCE StreamingTool WITH server <- servicer

StreamSpec == Stream!Spec

\* The items of the call, from the first one delivered to the one being put, and
\* the places of the chunks among them.
Row == delivered \o <<holding>> \o queue \o <<pending>>
ChunkPlaces == {i \in 1..Len(Row) : Row[i].tag = "chunk"}

\* While the client reads the stream, the chunks built are on their way in the
\* order in which the tool yielded them, each one once: three tasks and a thread
\* share the queue, and the watcher may throw away what is in it.
ChunksInOrder ==
  /\ Stream!TypeOK
  /\ ~clientGone /\ outcome = "none" =>
       /\ {Row[i].n : i \in ChunkPlaces} = 1..produced
       /\ \A i, j \in ChunkPlaces : i < j => Row[i].n < Row[j].n

\* A stream that ended well gave its client every chunk, one of them final.
EndedMeansComplete ==
  outcome = "ok" /\ ~clientGone =>
    Len(delivered) = produced /\ (\E i \in DOMAIN delivered : delivered[i].final)

\* What the client is given while the stream lasts and when it has ended.
ChunksDelivered == ChunksInOrder /\ EndedMeansComplete

\* What a call that is over still holds: no task and no place among the active
\* calls. The one chunk that may still be waited for is that of the thread of a
\* synchronous tool, whose iterator was closed behind it: nobody takes from the
\* queue any more, so that a thread that finds it full waits for ever. An iterator
\* left open is one that such a thread has gone on with.
HeldAfterEnd ==
  pc = "done" =>
    /\ active = 0
    /\ producer \in {"none", "ended"} /\ watcher \in {"none", "ended"}
    /\ pending # Stream!NoChunk =>
         kind = "sync" /\ thread = "waiting" /\ iterator = "closed"
    /\ iterator = "open" => kind = "sync" /\ thread \in {"iterating", "returned", "raised"}

\* The step that ends the call: it leaves an iterator open only if a thread is
\* inside it then, and the adapter uncleaned only if the call failed before it had
\* one, or was cancelled before the stream began.
EndReleases ==
  pc # "done" /\ pc' = "done" =>
    /\ iterator' = "open" => thread = "iterating"
    /\ pc = "setup" \/ (outcome' = "cancelled" /\ producer = "none") \/ cleanups' > 0

\* A call gives back what it holds when it ends, whatever its tasks and its thread
\* were doing then, but for what only its thread could let go.
NothingHeld == [][EndReleases /\ HeldAfterEnd']_Stream!vars

\* The tool has nothing more to give.
ToolOver ==
  CASE kind = "sync"  -> thread \in {"returned", "raised", "gaveup"}
    [] kind = "async" -> producer \notin {"none", "running", "put"}
    [] OTHER          -> TRUE

\* The thread met a payload json.dumps refuses: it set the event, so that neither
\* the producer nor the watcher puts a sentinel.
Stranded == thread = "gaveup" /\ (watched \/ ~clientGone)

\* A stream whose tool is over, or whose client has left, ends, whatever is in the
\* queue then: but for a synchronous tool whose payload cannot be encoded.
StreamEnds ==
  Stream!Streaming /\ (ToolOver \/ clientGone) ~> pc = "done" \/ Stranded
=============================================================================

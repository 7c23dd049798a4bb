--------------------------- MODULE MCBridgeServer ---------------------------
(***************************************************************************)
(* The bridge server with the values its tool calls carry.  The options of *)
(* the instance: a limit, with the flag of the command line overridden by  *)
(* the environment; an independent worker with limit zero.                 *)
(***************************************************************************)
EXTENDS BridgeServer, TypeSerializer

MCOptions ==
  {[cli |-> [max_missed |-> 2, dependent |-> FALSE],
    env |-> [f \in {"dependent"} |-> TRUE]],
   [cli |-> [max_missed |-> -1, dependent |-> TRUE],
    env |-> [max_missed |-> 0, dependent |-> FALSE]]}

Answers(c) == call[c].pc = "finally" /\ call'[c].pc = "done"

\* Whatever the tool returned, the step that answers a tool call gives Elixir a
\* result it can read, and a typed value is what the other side decodes
\* (ResultsReadable, RoundTrip; ExecuteTool of both servers, call_elixir_tool).
ResultsArrive ==
  [][\A c \in Calls : Answers(c) => ResultsReadable /\ RoundTrip]_vars
=============================================================================

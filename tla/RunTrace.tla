----------------------------- MODULE RunTrace -----------------------------
(***************************************************************************)
(* What an execution observes of itself: TraceCollector buffers spans, LLM *)
(* calls and tool calls, GuardrailEvaluator its hits, and both are flushed *)
(* in one transaction when the graph has stopped; the error path of        *)
(* execute_envelope flushes them again.  The second execution is one the   *)
(* first dispatches (a child run, or the parent it reports to).            *)
(***************************************************************************)
EXTENDS Naturals, FiniteSets

CONSTANTS Earlier, Later,   \* executions
          GraphNode,       \* the nodes of either graph
          Eager,           \* deployments: TRUE if an envelope is a task of the event loop
          MaxRaises        \* bound: failures of a behaviour
ASSUME TraceAssumption == MaxRaises \in Nat

VARIABLES eager,           \* celery_eager without join
          stage, status,   \* of an execution; _status of its collector
          trace,           \* the trace id of its root span
          node,            \* its nodes' spans: "none", "open" or "ended"
          rootEnded,       \* the root span has ended
          calls, hits,     \* _llm and _tools; _hits of the evaluator
          recorded,        \* history: all that was observed
          seen,            \* what a flush has read: the trace row is there
          traceRows, spanRows, callRows,   \* obs_trace, obs_span, the call tables
          rolledBack,      \* history: buffers cleared by a transaction that failed
          raises

traceVars == <<eager, stage, status, trace, node, rootEnded, calls, hits, recorded, seen,
               traceRows, spanRows, callRows, rolledBack, raises>>
Exec == {Earlier, Later}
RootSpan == "root"
Noted(e, n, kind) == [exec |-> e, span |-> n, kind |-> kind]
Observation == {Noted(e, n, k) : e \in Exec, n \in GraphNode, k \in {"llm", "tool", "hit"}}
OpenNodes(e) == {n \in GraphNode : node[e][n] = "open"}

(* A row is written at most MaxCopies times in any behaviour of the bound. *)
MaxCopies == 2

RunInit ==
  /\ eager \in Eager
  /\ stage = [e \in Exec |-> IF e = Earlier THEN "queued" ELSE "absent"]
  /\ status = [e \in Exec |-> "ok"] /\ trace = [e \in Exec |-> e]
  /\ node = [e \in Exec |-> [n \in GraphNode |-> "none"]]
  /\ rootEnded = [e \in Exec |-> FALSE]
  /\ calls = [e \in Exec |-> {}] /\ hits = calls /\ recorded = calls
  /\ seen = [e \in Exec |-> FALSE]
  /\ traceRows = {} /\ spanRows = {}
  /\ callRows = [o \in Observation |-> 0]
  /\ rolledBack = [e \in Exec |-> FALSE] /\ raises = 0

(* start_trace: the root span has a trace of its own unless a span is      *)
(* current, which a task of the event loop inherits from its dispatcher.   *)
StartTrace(e) ==
  /\ stage[e] = "queued"
  /\ stage' = [stage EXCEPT ![e] = "graph"]
  /\ UNCHANGED <<eager, status, trace, node, rootEnded, calls, hits, recorded, seen,
                 traceRows, spanRows, callRows, rolledBack, raises>>

Inherited(e) == IF eager /\ ~rootEnded[e] THEN trace[e] ELSE Later

(* The first execution dispatches the second: a child in the graph's turn, *)
(* or the waiting parent, from the error path a second time perhaps.       *)
Dispatch ==
  /\ stage[Earlier] \in {"graph", "failed"} /\ OpenNodes(Earlier) = {}
  /\ stage[Later] = "absent"
  /\ stage' = [stage EXCEPT ![Later] = "queued"]
  /\ trace' = [trace EXCEPT ![Later] = Inherited(Earlier)]
  /\ UNCHANGED <<eager, status, node, rootEnded, calls, hits, recorded, seen,
                 traceRows, spanRows, callRows, rolledBack, raises>>

(* record_span, entered around a node by wrap_graph_node.                  *)
EnterNode(e, n) ==
  /\ stage[e] = "graph" /\ node[e][n] = "none"
  /\ node' = [node EXCEPT ![e][n] = "open"]
  /\ UNCHANGED <<eager, stage, status, trace, rootEnded, calls, hits, recorded, seen,
                 traceRows, spanRows, callRows, rolledBack, raises>>

(* record_llm_call and record_tool, under the span that is current.        *)
RecordCall(e, n, kind) ==
  LET c == Noted(e, n, kind) IN
  /\ n \in OpenNodes(e) /\ c \notin recorded[e]
  /\ calls' = [calls EXCEPT ![e] = @ \cup {c}]
  /\ recorded' = [recorded EXCEPT ![e] = @ \cup {c}]
  /\ UNCHANGED <<eager, stage, status, trace, node, rootEnded, hits, seen,
                 traceRows, spanRows, callRows, rolledBack, raises>>

Cancelled(e) == [node EXCEPT ![e] = [n \in GraphNode |-> IF @[n] = "open" THEN "ended" ELSE @[n]]]
Raised(e) == /\ raises < MaxRaises /\ raises' = raises + 1
             /\ stage' = [stage EXCEPT ![e] = "failed"]

(* _check of the evaluator, inside the node: a hit (of a stored rule: flush *)
(* drops the others) is kept whatever it decides, and one that blocks      *)
(* raises through the graph.                                               *)
CheckText(e, n, blocks) ==
  LET c == Noted(e, n, "hit") IN
  /\ n \in OpenNodes(e) /\ c \notin recorded[e]
  /\ hits' = [hits EXCEPT ![e] = @ \cup {c}]
  /\ recorded' = [recorded EXCEPT ![e] = @ \cup {c}]
  /\ IF blocks THEN Raised(e) /\ node' = Cancelled(e) ELSE UNCHANGED <<stage, raises, node>>
  /\ UNCHANGED <<eager, status, trace, rootEnded, calls, seen,
                 traceRows, spanRows, callRows, rolledBack>>

LeaveNode(e, n) ==
  /\ n \in OpenNodes(e)
  /\ node' = [node EXCEPT ![e][n] = "ended"]
  /\ UNCHANGED <<eager, stage, status, trace, rootEnded, calls, hits, recorded, seen,
                 traceRows, spanRows, callRows, rolledBack, raises>>

(* The graph, or what the worker does after it, raises: the nodes still    *)
(* running are cancelled, which ends their spans.                          *)
GraphRaises(e) ==
  /\ stage[e] = "graph"
  /\ Raised(e) /\ node' = Cancelled(e)
  /\ UNCHANGED <<eager, status, trace, rootEnded, calls, hits, recorded, seen,
                 traceRows, spanRows, callRows, rolledBack>>

(* end_trace, of the normal path and of the error path.                    *)
EndTrace(e) ==
  /\ stage[e] \in {"graph", "failed"} /\ OpenNodes(e) = {}
  /\ stage' = [stage EXCEPT ![e] = IF @ = "graph" THEN "flush" ELSE "reflush"]
  /\ status' = [status EXCEPT ![e] = IF stage[e] = "graph" THEN "ok" ELSE "error"]
  /\ rootEnded' = [rootEnded EXCEPT ![e] = TRUE]
  /\ UNCHANGED <<eager, trace, node, calls, hits, recorded, seen,
                 traceRows, spanRows, callRows, rolledBack, raises>>

-----------------------------------------------------------------------------
Flushing == {"flush", "reflush"}
WritingAfter(s) == IF s = "flush" THEN "writing" ELSE "rewriting"
Spans(e) == {<<e, n>> : n \in {m \in GraphNode : node[e][m] = "ended"} \cup {RootSpan}}
TraceOf(t) == {r \in traceRows : r.trace = t}

(* flush looks for the trace row before it adds one.                       *)
FlushReads(e) ==
  /\ stage[e] \in Flushing
  /\ stage' = [stage EXCEPT ![e] = WritingAfter(@)]
  /\ seen' = [seen EXCEPT ![e] = TraceOf(trace[e]) # {}]
  /\ UNCHANGED <<eager, status, trace, node, rootEnded, calls, hits, recorded,
                 traceRows, spanRows, callRows, rolledBack, raises>>

Writing(e) == stage[e] \in {"writing", "rewriting"}
(* obs_trace.trace_id is unique.                                           *)
Collides(e) == ~seen[e] /\ TraceOf(trace[e]) # {}

(* Buffers leave the collector with the rows they became; KeptBuffer       *)
(* forgets to clear them.                                                  *)
KeptBuffer(buffer) == buffer
Cleared(buffer) == {}

AfterFlush(s) == IF s = "writing" THEN "finalize" ELSE "done"
FlushCommits(e) ==
  /\ Writing(e) /\ ~Collides(e)
  /\ traceRows' = traceRows \cup
       (IF seen[e] THEN {} ELSE {[trace |-> trace[e], exec |-> e, status |-> status[e]]})
  /\ spanRows' = spanRows \cup Spans(e)
  /\ callRows' = [o \in Observation |->
       IF o \in calls[e] \cup hits[e] /\ callRows[o] < MaxCopies THEN callRows[o] + 1
       ELSE callRows[o]]
  /\ calls' = [calls EXCEPT ![e] = Cleared(@)] /\ hits' = [hits EXCEPT ![e] = Cleared(@)]
  /\ stage' = [stage EXCEPT ![e] = AfterFlush(@)]
  /\ UNCHANGED <<eager, status, trace, node, rootEnded, recorded, seen, rolledBack, raises>>

(* The transaction fails: before the collector is done, so that its        *)
(* buffers stay; in the evaluator, which keeps its own; or at the commit,  *)
(* with both cleared.  The error path tries once more; what fails there is *)
(* logged.                                                                 *)
FlushFails(e, clearedCalls, clearedHits) ==
  /\ Writing(e)
  /\ raises < MaxRaises \/ Collides(e)
  /\ (Collides(e) => ~clearedCalls) /\ (clearedHits => clearedCalls)
  /\ raises' = IF Collides(e) THEN raises ELSE raises + 1
  /\ calls' = [calls EXCEPT ![e] = IF clearedCalls THEN {} ELSE @]
  /\ hits' = [hits EXCEPT ![e] = IF clearedHits THEN {} ELSE @]
  /\ rolledBack' = [rolledBack EXCEPT ![e] = @ \/ clearedCalls]
  /\ stage' = [stage EXCEPT ![e] = IF @ = "writing" THEN "failed" ELSE "lost"]
  /\ UNCHANGED <<eager, status, trace, node, rootEnded, recorded, seen,
                 traceRows, spanRows, callRows>>

(* The assistant message and the last frame are written after the flush.   *)
Finalize(e) ==
  /\ stage[e] = "finalize"
  /\ \/ stage' = [stage EXCEPT ![e] = "done"] /\ UNCHANGED raises
     \/ Raised(e)
  /\ UNCHANGED <<eager, status, trace, node, rootEnded, calls, hits, recorded, seen,
                 traceRows, spanRows, callRows, rolledBack>>

TraceNext ==
  \/ Dispatch
  \/ \E e \in Exec :
       \/ StartTrace(e) \/ GraphRaises(e) \/ EndTrace(e)
       \/ FlushReads(e) \/ FlushCommits(e) \/ Finalize(e)
       \/ \E c, h \in BOOLEAN : FlushFails(e, c, h)
       \/ \E n \in GraphNode :
            \/ EnterNode(e, n) \/ LeaveNode(e, n)
            \/ \E k \in {"llm", "tool"} : RecordCall(e, n, k)
            \/ \E b \in BOOLEAN : CheckText(e, n, b)

TraceSpec == RunInit /\ [][TraceNext]_traceVars

-----------------------------------------------------------------------------
TraceTypeOK ==
  /\ \A e \in Exec : calls[e] \cup hits[e] \subseteq recorded[e]
  /\ \A e \in Exec : recorded[e] \subseteq Observation
  /\ raises \in 0 .. MaxRaises

(* However a run failed and whatever its flushes met, what it observed is  *)
(* written at most once; and once its last flush is through, exactly once, *)
(* a call under a span and a trace that are there.  Only a transaction that fails *)
(* after the buffers were cleared loses what they held.                    *)
ObservedOnce ==
  \A e \in Exec :
    /\ \A o \in recorded[e] : callRows[o] <= 1
    /\ stage[e] = "done" =>
         /\ ~rolledBack[e] => \A o \in recorded[e] : callRows[o] = 1
         /\ \A o \in recorded[e] :
              callRows[o] = 1 /\ o.kind # "hit" => <<e, o.span>> \in spanRows
         /\ Cardinality(TraceOf(trace[e])) = 1
=============================================================================

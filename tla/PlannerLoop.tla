---------------------------- MODULE PlannerLoop ----------------------------
(***************************************************************************)
(* The planner's graph: planner -> tools -> planner ... -> end.  Messages, *)
(* the pending calls and the step counter live in the checkpoint, which is *)
(* written after each node; a start envelope delivered again begins with a *)
(* fresh input.  The model and the tools are external.                     *)
(***************************************************************************)
EXTENDS Naturals, Sequences, FiniteSets

CONSTANTS Call,           \* tool calls the model may ask for
          MaxSteps,       \* planner_max_steps
          MaxDeliveries   \* bound: deliveries of the start envelope
ASSUME PlannerAssumption == MaxSteps \in Nat /\ MaxDeliveries \in Nat \ {0}

VARIABLES equipped,    \* the profile's skills have tools
          messages, pending, step,   \* the checkpoint
          turn,        \* "planner", "tools", "done" or "failed"
          results,     \* answers of the tools node that runs, not saved yet
          asked,       \* history: model calls of this execution
          deliveries

plannerVars == <<equipped, messages, pending, step, turn, results, asked, deliveries>>

(* A turn of the model asks for one call or for two different ones.        *)
Turns == {<<c>> : c \in Call} \cup {<<c, d>> : c \in Call, d \in Call}
Assistant(calls) == [role |-> "assistant", calls |-> calls]
Answer(c) == [role |-> "tool", calls |-> <<c>>]

PlannerInit ==
  /\ equipped \in BOOLEAN
  /\ messages = <<>> /\ pending = <<>> /\ step = 0
  /\ turn = "planner"
  /\ results = <<>>
  /\ asked = 0
  /\ deliveries = 1

Say(calls, next) ==
  /\ messages' = Append(messages, Assistant(calls))
  /\ pending' = calls
  /\ turn' = next
  /\ UNCHANGED <<equipped, results, deliveries>>

(* step > max_steps, with the step already counted; LateLimit compares the *)
(* steps before it.                                                        *)
LateLimit == step > MaxSteps
StepLimit == step + 1 > MaxSteps

(* planner_node past the last step: a closing text, no model, no calls.    *)
GiveUp ==
  /\ turn = "planner" /\ StepLimit
  /\ step' = step + 1
  /\ Say(<<>>, "done")
  /\ UNCHANGED asked

(* planner_node: the model answers, or asks for tools when it was given    *)
(* any; route leads to the tools exactly when calls are pending.           *)
Plan ==
  /\ turn = "planner" /\ ~StepLimit
  /\ step' = step + 1
  /\ asked' = asked + 1
  /\ \/ Say(<<>>, "done")
     \/ equipped /\ \E calls \in Turns : Cardinality({calls[i] : i \in DOMAIN calls}) = Len(calls)
                                          /\ Say(calls, "tools")

(* ToolExecutor.execute: unknown code, refused arguments, an HTTP status   *)
(* of 400 or more and an exception are results like a success.             *)
Outcome == {"completed", "failed"}

(* tools_node appends an answer for every outcome; WhenCompleted does so   *)
(* for the calls that succeeded.                                           *)
WhenCompleted(c, outcome) == IF outcome = "completed" THEN <<Answer(c)>> ELSE <<>>
ToolMessage(c, outcome) == <<Answer(c)>>

RunTool ==
  /\ turn = "tools" /\ pending # <<>>
  /\ \E outcome \in Outcome : results' = results \o ToolMessage(Head(pending), outcome)
  /\ pending' = Tail(pending)
  /\ UNCHANGED <<equipped, messages, step, turn, asked, deliveries>>

(* The node returns: messages and the emptied list are saved.              *)
ToolsDone ==
  /\ turn = "tools" /\ pending = <<>>
  /\ messages' = messages \o results
  /\ results' = <<>>
  /\ turn' = "planner"
  /\ UNCHANGED <<equipped, pending, step, asked, deliveries>>

(* The model's service fails, a guardrail blocks, the tool's own session   *)
(* cannot commit: the run fails.                                           *)
Fail ==
  /\ turn \in {"planner", "tools"}
  /\ turn' = "failed"
  /\ UNCHANGED <<equipped, messages, pending, step, results, asked, deliveries>>

(* The worker is lost: the next one starts over with the input.            *)
PlannerRedeliver ==
  /\ turn \in {"planner", "tools"} /\ deliveries < MaxDeliveries
  /\ deliveries' = deliveries + 1
  /\ messages' = <<>> /\ pending' = <<>> /\ step' = 0 /\ results' = <<>>
  /\ asked' = 0
  /\ turn' = "planner"
  /\ UNCHANGED equipped

PlannerNext == GiveUp \/ Plan \/ RunTool \/ ToolsDone \/ Fail \/ PlannerRedeliver

PlannerSpec == PlannerInit /\ [][PlannerNext]_plannerVars

-----------------------------------------------------------------------------
PlannerTypeOK ==
  /\ equipped \in BOOLEAN
  /\ \A i \in DOMAIN messages : messages[i].role \in {"assistant", "tool"}
  /\ \A i \in DOMAIN pending : pending[i] \in Call
  /\ step \in 0 .. MaxSteps + 1 /\ asked \in 0 .. MaxSteps
  /\ turn \in {"planner", "tools", "done", "failed"}
  /\ deliveries \in 1 .. MaxDeliveries

(* When the model is asked, and when the run is done, every message that   *)
(* called tools is followed at once by one answer per call, in the order   *)
(* of the calls, whatever became of the calls; a chat service refuses a    *)
(* history in which one is missing.  The saved list never outlives them.   *)
ToolCallsAnswered ==
  turn \in {"planner", "done"} =>
    /\ pending = <<>>
    /\ \A i \in DOMAIN messages : messages[i].role = "assistant" =>
         LET calls == messages[i].calls IN
         /\ i + Len(calls) <= Len(messages)
         /\ \A k \in DOMAIN calls : messages[i + k] = Answer(calls[k])
         /\ i + Len(calls) < Len(messages) => messages[i + Len(calls) + 1].role = "assistant"
=============================================================================

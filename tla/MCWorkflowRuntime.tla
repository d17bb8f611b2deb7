------------------------- MODULE MCWorkflowRuntime -------------------------
(* Constants for TLC.  The configurations choose among the flow families.  *)
EXTENDS WorkflowRuntime, TLC

(* A parent with a subgraph node followed by a HITL node whose rejection   *)
(* ends the run; its child has a HITL node that routes rejections.         *)
NestedScripts == << <<"sub", "hitl_fail">>, <<"hitl_route">> >>

(* Three levels: the child delegates in its turn before it asks a person.  *)
DeepScripts == << <<"sub", "hitl_fail">>, <<"sub", "hitl_route">>, <<>> >>

(* A child whose HITL node lets a rejection end the child run. *)
ChildMayBeRejected == << <<"sub">>, <<"hitl_fail">> >>

(* One HITL node, no subgraph. *)
SingleHitl == << <<"hitl_fail">> >>

AllFaults == FaultKind
NoFaults == {}
CancelOnly == {"cancel"}
DoubleAnswerOnly == {"doubleAnswer"}
BothModes == {"celery", "eager"}
CeleryMode == {"celery"}

Symmetric == Permutations(Run) \cup Permutations(Worker) \cup Permutations(Client)
=============================================================================

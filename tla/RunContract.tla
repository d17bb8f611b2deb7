---------------------------- MODULE RunContract ----------------------------
(***************************************************************************)
(* What the workflow runtime promises about one run, free of tables,       *)
(* queues and handlers.  A run has one thread of control.  It is queued,   *)
(* executed by one worker, or parked; a parked run waits either for a      *)
(* person or for the one child run it delegated to, and a parent goes on   *)
(* only after that child has settled.  A settled run stays settled.        *)
(*                                                                         *)
(* WorkflowRuntime refines this module (Contract!Spec there).              *)
(***************************************************************************)
CONSTANTS Run, Human    \* Human: what a run parked on a HITL row waits for

VARIABLES phase,        \* [Run -> Phase]
          waits         \* [Run -> Run \cup {Human}]: meaningful while parked

vars == <<phase, waits>>

Phase == {"absent", "queued", "executing", "parked", "settled"}

TypeOK == /\ phase \in [Run -> Phase]
          /\ waits \in [Run -> Run \cup {Human}]

Init == /\ phase = [r \in Run |-> "absent"]
        /\ waits = [r \in Run |-> Human]

Move(r, from, to) == /\ phase[r] = from
                     /\ phase' = [phase EXCEPT ![r] = to]

(* A caller submits a run. *)
Create(r) == Move(r, "absent", "queued") /\ UNCHANGED waits

(* A worker takes the run's envelope. *)
Take(r) == Move(r, "queued", "executing") /\ UNCHANGED waits

(* The graph reached a HITL node. *)
ParkOnHuman(r) == Move(r, "executing", "parked") /\ UNCHANGED waits

(* The graph reached a subgraph node: the child exists before anyone can   *)
(* see the parent parked on it.                                            *)
Delegate(r, c) ==
  /\ phase[r] = "executing"
  /\ phase[c] = "absent"
  /\ phase' = [phase EXCEPT ![r] = "parked", ![c] = "queued"]
  /\ waits' = [waits EXCEPT ![r] = c]

(* A person answers. *)
Answer(r) == /\ waits[r] = Human
             /\ Move(r, "parked", "queued")
             /\ UNCHANGED waits

(* A person rejects, and the node says a rejection ends the run. *)
Reject(r) == /\ waits[r] = Human
             /\ Move(r, "parked", "settled")
             /\ UNCHANGED waits

(* The child's outcome goes back to the parent, once. *)
Return(r) ==
  /\ waits[r] # Human
  /\ phase[waits[r]] = "settled"
  /\ Move(r, "parked", "queued")
  /\ waits' = [waits EXCEPT ![r] = Human]

(* The graph ended or raised. *)
Settle(r) == Move(r, "executing", "settled") /\ UNCHANGED waits

Next ==
  \E r \in Run :
    \/ Create(r) \/ Take(r) \/ ParkOnHuman(r) \/ Answer(r) \/ Reject(r)
    \/ Return(r) \/ Settle(r)
    \/ \E c \in Run : Delegate(r, c)

(* People may never come; the runtime itself does not stop. *)
Progress(r) ==
  \/ Take(r) \/ ParkOnHuman(r) \/ Return(r) \/ Settle(r)
  \/ \E c \in Run : Delegate(r, c)

Spec == Init /\ [][Next]_vars /\ \A r \in Run : WF_vars(Progress(r))
=============================================================================

-------------------------- MODULE WorkflowRuntime --------------------------
(***************************************************************************)
(* The run engine of FlowFactory: service/runtime (scheduler, worker loop, *)
(* HITL, child runs), the passthrough orchestrator and the Celery tasks    *)
(* that drive them.                                                        *)
(*                                                                         *)
(* A step is one database transaction or one external call.  Every handler *)
(* (a worker executing an envelope, an API request, a beat tick) is a      *)
(* process with a frame at[p] holding its program counter and locals, so   *)
(* what another process commits between two of its steps is visible.       *)
(* Sessions run at READ COMMITTED without row locks or version columns: a  *)
(* handler whose write depends on what it read has a read step and a write *)
(* step.                                                                   *)
(***************************************************************************)
EXTENDS Integers, Sequences, FiniteSets

CONSTANTS
  Run,          \* run ids (uuid4)
  NoRun,
  Worker,       \* Celery worker slots, or coroutines of the eager mode
  Client,       \* concurrent control handlers: API requests and beat ticks
  Scripts,      \* Scripts[d]: where a flow at nesting depth d interrupts
  MaxRoots,     \* bound: runs submitted by callers
  MaxTasks,     \* bound: envelopes ever created for one run
  MaxHitl,      \* bound: HITL rows ever created for one run
  MaxFaults,    \* bound: interference (cancel, expiry, double answer) and failures
  Faults,       \* the kinds of those that may happen
  Modes         \* the deployments considered: celery_eager off and on

Stop == {"hitl_fail", "hitl_route", "sub"}
FaultKind == {"cancel", "cancelChild", "expire", "timeout", "doubleAnswer",
              "crash", "apiCrash", "timeLimit", "brokerDown",
              "flushFail", "parkedFlushFail"}

ASSUME RunAssumption == NoRun \notin Run
ASSUME ProcAssumption == Worker \cap Client = {}
ASSUME ScriptAssumption == /\ Scripts \in Seq(Seq(Stop))
                           /\ Len(Scripts) >= 1
ASSUME BoundAssumption ==
  /\ MaxRoots \in Nat /\ MaxTasks \in Nat \ {0} /\ MaxHitl \in Nat
  /\ MaxFaults \in Nat /\ Faults \subseteq FaultKind
  /\ Modes \subseteq {"celery", "eager"}

VARIABLES
  run,      \* wf_run_snapshot.status by run id
  parent,   \* wf_child_run_pending.parent_run_id by child run id
  depth,    \* nesting depth: the flow a run executes
  row,      \* wf_child_run_pending.status by child run id
  result,   \* the status in its resume_payload
  cp,       \* LangGraph checkpoint: the stop the graph is interrupted at
  hitl,     \* wf_hitl_pending rows of a run, in order of creation
  task,     \* wf_celery_task_record.status of a run's envelopes
  last,     \* the run's newest task record (queued_at desc)
  msg,      \* conv_message.status of the run's assistant message
  broker,   \* envelopes queued, unacknowledged ones excluded
  at,       \* frames of the processes
  roots,    \* runs submitted so far
  mode,     \* the deployment
  left,     \* faults that may still happen
  seen      \* kinds of faults that have happened

rows == <<run, parent, depth, row, result, hitl, task, last, msg>>
env  == <<roots, mode, left, seen>>
vars == <<run, parent, depth, row, result, cp, hitl, task, last, msg,
          broker, at, roots, mode, left, seen>>

-----------------------------------------------------------------------------
(* State *)

Proc == Worker \cup Client
Terminal == {"completed", "failed", "cancelled"}
RunStatus == {"absent", "pending", "running", "interrupted", "waiting_child"}
               \cup Terminal
RowStatus == {"none", "pending", "resumed", "parent_cancelled"}
TaskStatus == {"none", "queued", "started", "success", "failure"}
MsgStatus == {"none", "streaming", "completed", "failed"}
HitlStatus == {"absent", "pending", "approved", "rejected", "expired"}
HitlRow == [status : HitlStatus, onReject : {"fail", "route"}]
Told == {"completed", "failed", "cancelled", "timeout"}

EnvelopeKind == {"start", "hitl", "child"}
Envelope == [run : Run, n : 1..MaxTasks, kind : EnvelopeKind]
Job == [run : Run \cup {NoRun}, n : Nat,
        kind : EnvelopeKind \cup {"approve", "reject", "cancel", "timeout", "none"}]
NoJob == [run |-> NoRun, n |-> 0, kind |-> "none"]

Pc == {"idle", "graph", "spawn", "inline", "settle", "fail", "spawned", "mark",
       "markw", "tell", "tellw", "wake", "flush",
       "starting", "decide", "resuming", "cascade", "expire"}
Outcome == Told \cup {"none", "interrupted", "waiting", "unbound"}
(* job: the envelope a worker holds, or the command a client serves;       *)
(* rec: the task record a worker updates; stop: where its graph stopped;   *)
(* outcome: what there is to report of job.run; todo: the child to         *)
(* dispatch, or the children still to cancel; due: rows left to time out.  *)
Frame == [pc : Pc, job : Job, rec : 0..MaxTasks, stop : Nat,
          outcome : Outcome, todo : SUBSET Run, due : SUBSET Run]
FrameFor(l, job, outcome, todo, due) ==
  [pc |-> l, job |-> job, rec |-> 0, stop |-> 0,
   outcome |-> outcome, todo |-> todo, due |-> due]
IdleFrame == FrameFor("idle", NoJob, "none", {}, {})

At(f, l) == [f EXCEPT !.pc = l]
Concluded(f, l, outcome) == [f EXCEPT !.pc = l, !.outcome = outcome]
Carrying(f, l, todo) == [f EXCEPT !.pc = l, !.todo = todo]
StoppedAt(f, l, stop) == [f EXCEPT !.pc = l, !.stop = stop]

Script(r) == Scripts[depth[r]]
Kids(r) == {c \in Run : parent[c] = r /\ row[c] = "pending"}

DataOK ==
  /\ run \in [Run -> RunStatus]
  /\ parent \in [Run -> Run \cup {NoRun}]
  /\ depth \in [Run -> 1..Len(Scripts)]
  /\ row \in [Run -> RowStatus]
  /\ result \in [Run -> Told \cup {"none"}]
  /\ cp \in [Run -> Nat]
  /\ hitl \in [Run -> [1..MaxHitl -> HitlRow]]
  /\ task \in [Run -> [1..MaxTasks -> TaskStatus]]
  /\ last \in [Run -> 0..MaxTasks]
  /\ msg \in [Run -> MsgStatus]
  /\ broker \subseteq Envelope
  /\ roots \in Nat /\ mode \in Modes /\ left \in Nat /\ seen \subseteq FaultKind

TypeOK == DataOK /\ at \in [Proc -> Frame]

Init ==
  /\ run = [r \in Run |-> "absent"]
  /\ parent = [r \in Run |-> NoRun]
  /\ depth = [r \in Run |-> 1]
  /\ row = [r \in Run |-> "none"]
  /\ result = [r \in Run |-> "none"]
  /\ cp = [r \in Run |-> 0]
  /\ hitl = [r \in Run |-> [k \in 1..MaxHitl |->
                [status |-> "absent", onReject |-> "fail"]]]
  /\ task = [r \in Run |-> [n \in 1..MaxTasks |-> "none"]]
  /\ last = [r \in Run |-> 0]
  /\ msg = [r \in Run |-> "none"]
  /\ broker = {}
  /\ at = [p \in Proc |-> IdleFrame]
  /\ roots = 0
  /\ mode \in Modes
  /\ left = MaxFaults
  /\ seen = {}

Step(p, frame) == at' = [at EXCEPT ![p] = frame]
Goto(p, l) == Step(p, At(at[p], l))
Conclude(p, l, outcome) == Step(p, Concluded(at[p], l, outcome))
Return(p) == Step(p, IdleFrame)
SetRun(r, s) == run' = [run EXCEPT ![r] = s]
SetTask(p, s) == task' = [task EXCEPT ![at[p].job.run][at[p].rec] = s]

Spend(kind) ==
  /\ kind \in Faults
  /\ left > 0
  /\ left' = left - 1
  /\ seen' = seen \cup {kind}
  /\ UNCHANGED <<roots, mode>>

(* The records _create_run_records adds for a new run. *)
CreateRun(r, par, d, rowStatus, message) ==
  /\ parent' = [parent EXCEPT ![r] = par]
  /\ depth' = [depth EXCEPT ![r] = d]
  /\ row' = [row EXCEPT ![r] = rowStatus]
  /\ msg' = [msg EXCEPT ![r] = message]
  /\ task' = [task EXCEPT ![r][1] = "queued"]
  /\ last' = [last EXCEPT ![r] = 1]

StartEnvelope(r) == [run |-> r, n |-> 1, kind |-> "start"]

(* enqueue_resume: the task record is committed, then the envelope is sent; *)
(* sent is FALSE when the broker refuses it.                                *)
EnqueueResume(r, kind, sent) ==
  LET n == last[r] + 1
  IN  /\ n <= MaxTasks
      /\ last' = [last EXCEPT ![r] = n]
      /\ task' = [task EXCEPT ![r][n] = "queued"]
      /\ broker' = IF sent
                   THEN broker \cup {[run |-> r, n |-> n, kind |-> kind]}
                   ELSE broker

-----------------------------------------------------------------------------
(* Callers: WorkflowRuntimeService through the passthrough orchestrator *)

(* start_run up to its commit. *)
Submit(p) ==
  /\ at[p].pc = "idle"
  /\ roots < MaxRoots
  /\ \E r \in Run :
       /\ run[r] = "absent"
       /\ SetRun(r, "pending")
       /\ CreateRun(r, NoRun, 1, "none", "streaming")
       /\ Step(p, FrameFor("starting", StartEnvelope(r), "none", {}, {}))
  /\ roots' = roots + 1
  /\ UNCHANGED <<result, cp, hitl, broker, mode, left, seen>>

(* start_run hands the envelope to Celery or to the event loop. *)
DispatchStart(p) ==
  /\ at[p].pc = "starting"
  /\ broker' = broker \cup {at[p].job}
  /\ Return(p)
  /\ UNCHANGED <<rows, cp, env>>

Deciding(q, r, k) ==
  at[q].pc = "decide" /\ at[q].job.run = r /\ at[q].job.n = k

(* Mutant: only rejected and expired rows are refused. *)
DecidableAgain(h) == h.status \in {"pending", "approved"}

Decidable(h) == h.status = "pending"

(* Mutant: the node's on_reject is forgotten. *)
AnyRejection(h, decision) == decision = "reject"

(* A rejection ends the run, unless the node routes rejections. *)
EndsRun(h, decision) == decision = "reject" /\ h.onReject # "route"

(* apply_resume_decision reads a HITL row and finds it pending.  The       *)
(* run's own status is not consulted, and a second request may come while  *)
(* the first is between its read and its commit.                           *)
DecideRead(p) ==
  /\ at[p].pc = "idle"
  /\ \E r \in Run, k \in 1..MaxHitl, d \in {"approve", "reject"} :
       /\ Decidable(hitl[r][k])
       /\ IF \E q \in Client : Deciding(q, r, k)
          THEN Spend("doubleAnswer") ELSE UNCHANGED env
       /\ Step(p, FrameFor("decide", [run |-> r, n |-> k, kind |-> d], "none", {}, {}))
  /\ UNCHANGED <<rows, cp, broker>>

(* ... and commits the decision; unless it ended the run, enqueue_resume   *)
(* comes next.                                                             *)
DecideWrite(p) ==
  LET r == at[p].job.run
      k == at[p].job.n
      ends == EndsRun(hitl[r][k], at[p].job.kind)
  IN  /\ at[p].pc = "decide"
      /\ hitl' = [hitl EXCEPT ![r][k].status =
                    IF at[p].job.kind = "approve" THEN "approved" ELSE "rejected"]
      /\ \/ ends /\ SetRun(r, "cancelled") /\ Return(p)
         \/ ~ends /\ Goto(p, "resuming") /\ UNCHANGED run
      /\ UNCHANGED <<parent, depth, row, result, cp, task, last, msg, broker, env>>

EnqueueAnswer(p) ==
  /\ at[p].pc = "resuming"
  /\ EnqueueResume(at[p].job.run, "hitl", TRUE)
  /\ Return(p)
  /\ UNCHANGED <<run, parent, depth, row, result, cp, hitl, msg, env>>

-----------------------------------------------------------------------------
(* Workers: execute_envelope *)

HoldsTask(p, l) == p \in Worker /\ at[p].pc = l

(* Mutant: the records are ordered by queued_at ascending. *)
OldestRecord(r) == 1

(* get_celery_task_by_run: the run's newest record, not the envelope's. *)
RecordOf(r) == last[r]

(* The first transaction: whatever the run's status was, it is running     *)
(* now.                                                                    *)
Claim(p) ==
  /\ HoldsTask(p, "idle")
  /\ \E e \in broker :
       /\ broker' = broker \ {e}
       /\ SetRun(e.run, "running")
       /\ task' = [task EXCEPT ![e.run][RecordOf(e.run)] = "started"]
       /\ Step(p, [FrameFor("graph", e, "none", {}, {}) EXCEPT !.rec = RecordOf(e.run)])
  /\ UNCHANGED <<parent, depth, row, result, cp, hitl, last, msg, env>>

(* LangGraph runs from START on fresh input, and from the checkpoint on a  *)
(* resume command, to the next interrupt or the end.                       *)
NextStop(r, kind) ==
  IF kind = "start" THEN 1
  ELSE IF cp[r] <= Len(Script(r)) THEN cp[r] + 1 ELSE cp[r]

AtSubgraph(r, stop) == stop <= Len(Script(r)) /\ Script(r)[stop] = "sub"

RunGraph(p) ==
  LET r == at[p].job.run
      stop == NextStop(r, at[p].job.kind)
  IN  /\ HoldsTask(p, "graph")
      /\ cp' = [cp EXCEPT ![r] = stop]
      /\ Step(p, StoppedAt(at[p], IF AtSubgraph(r, stop) THEN "spawn" ELSE "settle", stop))
      /\ UNCHANGED <<rows, broker, env>>

(* A node, a guardrail, the compiler or the parser of the child's flow     *)
(* raises.                                                                 *)
GraphRaises(p) ==
  /\ \E l \in {"graph", "spawn", "inline"} : HoldsTask(p, l)
  /\ Goto(p, "fail")
  /\ UNCHANGED <<rows, cp, broker, env>>

(* spawn_subgraph_child up to its commit: child records, pending row and   *)
(* the parent's status are one transaction.                                *)
SpawnChild(p) ==
  LET r == at[p].job.run
  IN  /\ HoldsTask(p, "spawn")
      /\ depth[r] < Len(Scripts)
      /\ \E c \in Run :
           /\ run[c] = "absent"
           /\ run' = [run EXCEPT ![c] = "pending", ![r] = "waiting_child"]
           /\ CreateRun(c, r, depth[r] + 1, "pending", "none")
           /\ Step(p, Carrying(at[p], "spawned", {c}))
      /\ UNCHANGED <<result, cp, hitl, broker, env>>

(* The flow is unpublished, unknown, or would close a cycle: the graph     *)
(* gets a failed result in place, without a child run.                     *)
SpawnRefused(p) ==
  /\ HoldsTask(p, "spawn")
  /\ Goto(p, "inline")
  /\ UNCHANGED <<rows, cp, broker, env>>

(* The one in-place resume.  Whatever it stops at next, a further subgraph *)
(* request included, goes to the settling transaction.                     *)
InlineResume(p) ==
  LET r == at[p].job.run
      stop == NextStop(r, "child")
  IN  /\ HoldsTask(p, "inline")
      /\ cp' = [cp EXCEPT ![r] = stop]
      /\ Step(p, StoppedAt(at[p], "settle", stop))
      /\ UNCHANGED <<rows, broker, env>>

DispatchChild(p) ==
  /\ HoldsTask(p, "spawned")
  /\ broker' = broker \cup {StartEnvelope(c) : c \in at[p].todo}
  /\ Step(p, Carrying(at[p], "mark", {}))
  /\ UNCHANGED <<rows, cp, env>>

(* After the dispatch the worker loads its run again.  A terminal run is   *)
(* left alone, and a run still waiting gets no UPDATE; any other status    *)
(* will be overwritten by MarkWrite.                                       *)
MarkRead(p) ==
  /\ HoldsTask(p, "mark")
  /\ \/ /\ run[at[p].job.run] \in Terminal \cup {"waiting_child"}
        /\ SetTask(p, "success")
        /\ Conclude(p, "flush", "waiting")
     \/ /\ run[at[p].job.run] \notin Terminal \cup {"waiting_child"}
        /\ Goto(p, "markw")
        /\ UNCHANGED task
  /\ UNCHANGED <<run, parent, depth, row, result, cp, hitl, last, msg, broker, env>>

MarkWrite(p) ==
  /\ HoldsTask(p, "markw")
  /\ SetRun(at[p].job.run, "waiting_child")
  /\ SetTask(p, "success")
  /\ Conclude(p, "flush", "waiting")
  /\ UNCHANGED <<parent, depth, row, result, cp, hitl, last, msg, broker, env>>

(* The settling transaction after an interrupt: create_pending. *)
SettleInterrupt(p) ==
  LET r == at[p].job.run
      policy == IF Script(r)[at[p].stop] = "hitl_route" THEN "route" ELSE "fail"
  IN  /\ HoldsTask(p, "settle")
      /\ at[p].stop <= Len(Script(r))
      /\ \E k \in 1..MaxHitl :
           /\ hitl[r][k].status = "absent"
           /\ \A j \in 1..(k - 1) : hitl[r][j].status # "absent"
           /\ hitl' = [hitl EXCEPT ![r][k] = [status |-> "pending",
                                              onReject |-> policy]]
      /\ SetRun(r, "interrupted")
      /\ SetTask(p, "success")
      /\ Conclude(p, "flush", "interrupted")
      /\ UNCHANGED <<parent, depth, row, result, cp, last, msg, broker, env>>

(* Mutant: notify_parent_of_child is not called. *)
OnlyFlush == "flush"

(* What follows the settling transaction of a completed run. *)
AfterCompletion == "tell"

(* The settling transaction at the end of the graph, whatever the run's    *)
(* status has become meanwhile.                                            *)
SettleCompleted(p) ==
  LET r == at[p].job.run
  IN  /\ HoldsTask(p, "settle")
      /\ at[p].stop > Len(Script(r))
      /\ SetRun(r, "completed")
      /\ SetTask(p, "success")
      /\ Conclude(p, AfterCompletion, "completed")
      /\ UNCHANGED <<parent, depth, row, result, cp, hitl, last, msg, broker, env>>

(* The except branch, again unconditional. *)
FailRun(p) ==
  /\ HoldsTask(p, "fail")
  /\ SetRun(at[p].job.run, "failed")
  /\ SetTask(p, "failure")
  /\ Conclude(p, "tell", "failed")
  /\ UNCHANGED <<parent, depth, row, result, cp, hitl, last, msg, broker, env>>

(* Mutant: the except branch leaves the message alone. *)
ShownIfCompleted(status, outcome) ==
  IF status # "none" /\ outcome = "completed" THEN outcome ELSE status

(* _finalize_assistant_message, which only a settled run gets to. *)
Shown(status, outcome) ==
  IF status # "none" /\ outcome \in {"completed", "failed"} THEN outcome ELSE status

(* Flushing traces and guardrail events, then the assistant message.  The  *)
(* envelope is acknowledged when execute_envelope returns or raises.       *)
Flush(p) ==
  /\ HoldsTask(p, "flush")
  /\ msg' = [msg EXCEPT ![at[p].job.run] = Shown(@, at[p].outcome)]
  /\ Return(p)
  /\ UNCHANGED <<run, parent, depth, row, result, cp, hitl, task, last, broker, env>>

-----------------------------------------------------------------------------
(* notify_parent_of_child, called by workers, cancellations and timeouts *)

(* Where the caller of notify_parent_of_child goes on. *)
AfterTell(p) ==
  CASE p \in Worker -> Goto(p, "flush")
    [] p \notin Worker /\ at[p].due = {} -> Return(p)
    [] OTHER -> Conclude(p, "expire", "none")

(* Mutant: the row's status is not checked. *)
HasRow(c) == row[c] # "none"

Unreported(c) == row[c] = "pending"

(* The first half of the transaction: the row and the parent are read. *)
TellRead(p) ==
  LET c == at[p].job.run
  IN  /\ at[p].pc = "tell"
      /\ \/ ~Unreported(c) /\ AfterTell(p) /\ UNCHANGED row
         \/ /\ Unreported(c) /\ run[parent[c]] = "cancelled"
            /\ row' = [row EXCEPT ![c] = "parent_cancelled"]
            /\ AfterTell(p)
         \/ /\ Unreported(c) /\ run[parent[c]] # "cancelled"
            /\ Goto(p, "tellw")
            /\ UNCHANGED row
      /\ UNCHANGED <<run, parent, depth, result, cp, hitl, task, last, msg, broker, env>>

(* Mutant: the child's live status is reported. *)
LiveStatus(p) == run[at[p].job.run]

(* result_from_child_run: the status the caller names. *)
Reported(p) == at[p].outcome

(* Mutant: the row is left pending. *)
RowLeftOpen == "pending"

RowOnceReported == "resumed"

(* The second half: the row is resolved with the result for the parent. *)
TellWrite(p) ==
  /\ at[p].pc = "tellw"
  /\ row' = [row EXCEPT ![at[p].job.run] = RowOnceReported]
  /\ result' = [result EXCEPT ![at[p].job.run] = Reported(p)]
  /\ Goto(p, "wake")
  /\ UNCHANGED <<run, parent, depth, cp, hitl, task, last, msg, broker, env>>

WakeParent(p) ==
  /\ at[p].pc = "wake"
  /\ EnqueueResume(parent[at[p].job.run], "child", TRUE)
  /\ AfterTell(p)
  /\ UNCHANGED <<run, parent, depth, row, result, cp, hitl, msg, env>>

-----------------------------------------------------------------------------
(* Cancellation and expiry *)

(* One cancel_run transaction: the run unless it is already done, and the  *)
(* rows of the children it waits for.                                      *)
CancelTxn(r) ==
  /\ run' = [run EXCEPT ![r] = IF @ \in Terminal THEN @ ELSE "cancelled"]
  /\ row' = [c \in Run |-> IF c \in Kids(r) THEN "parent_cancelled" ELSE row[c]]

(* The local parent_notify is assigned only when a pending row is found.   *)
ParentNotify(r, told) == IF row[r] = "pending" THEN told ELSE "unbound"

Cancel(p) ==
  /\ at[p].pc = "idle"
  /\ \E r \in Run :
       /\ run[r] # "absent"
       /\ Spend(IF parent[r] = NoRun THEN "cancel" ELSE "cancelChild")
       /\ CancelTxn(r)
       /\ Step(p, FrameFor("cascade", [run |-> r, n |-> 0, kind |-> "cancel"],
                           ParentNotify(r, "cancelled"), Kids(r), {}))
  /\ UNCHANGED <<parent, depth, result, cp, hitl, task, last, msg, broker>>

(* expire_due_child_pending lists the rows whose timeout_at has passed ... *)
ScanTimeouts(p) ==
  /\ at[p].pc = "idle"
  /\ Spend("timeout")
  /\ \E due \in SUBSET {c \in Run : row[c] = "pending"} :
       /\ due # {}
       /\ Step(p, FrameFor("expire", NoJob, "none", {}, due))
  /\ UNCHANGED <<rows, cp, broker>>

(* ... and cancels the children one after the other. *)
TimeOutChild(p) ==
  /\ at[p].pc = "expire"
  /\ \E c \in at[p].due :
       /\ CancelTxn(c)
       /\ Step(p, FrameFor("cascade", [run |-> c, n |-> 0, kind |-> "timeout"],
                           ParentNotify(c, "timeout"), Kids(c), at[p].due \ {c}))
  /\ UNCHANGED <<parent, depth, result, cp, hitl, task, last, msg, broker, env>>

(* cancel_run(child, notify_parent=False) for each child found. *)
Cascade(p) ==
  /\ at[p].pc = "cascade"
  /\ \E c \in at[p].todo :
       /\ CancelTxn(c)
       /\ Step(p, Carrying(at[p], "cascade", (at[p].todo \ {c}) \cup Kids(c)))
  /\ UNCHANGED <<parent, depth, result, cp, hitl, task, last, msg, broker, env>>

(* Reading parent_notify when it was never assigned raises, which also     *)
(* ends the loop of expire_due_child_pending.                              *)
CascadeDone(p) ==
  /\ at[p].pc = "cascade"
  /\ at[p].todo = {}
  /\ IF at[p].outcome = "unbound" THEN Return(p) ELSE Goto(p, "tell")
  /\ UNCHANGED <<rows, cp, broker, env>>

(* Mutant: the runs of expired rows are left alone. *)
RunKept(status) == status

RunOnceExpired(status) == IF status = "interrupted" THEN "cancelled" ELSE status

(* expire_due_pending: HITL rows whose expires_at has passed. *)
ExpireHitl ==
  /\ Spend("expire")
  /\ \E D \in SUBSET {d \in Run \X (1..MaxHitl) : hitl[d[1]][d[2]].status = "pending"} :
       /\ D # {}
       /\ hitl' = [r \in Run |-> [k \in 1..MaxHitl |->
                     IF <<r, k>> \in D THEN [hitl[r][k] EXCEPT !.status = "expired"]
                     ELSE hitl[r][k]]]
       /\ run' = [r \in Run |->
                    IF \E k \in 1..MaxHitl : <<r, k>> \in D
                    THEN RunOnceExpired(run[r]) ELSE run[r]]
  /\ UNCHANGED <<parent, depth, row, result, cp, task, last, msg, broker, at>>

-----------------------------------------------------------------------------
(* Failures *)

(* Mutant: envelopes are acknowledged when they are received. *)
NothingRedelivered(p) == {}

Redelivered(p) == {at[p].job}

(* A worker process is lost: task_acks_late with task_reject_on_worker_lost *)
(* gives the unacknowledged envelope back to the queue.                     *)
CrashWorker(p) ==
  /\ p \in Worker /\ at[p].pc # "idle"
  /\ mode = "celery"
  /\ Spend("crash")
  /\ broker' = broker \cup Redelivered(p)
  /\ Return(p)
  /\ UNCHANGED <<rows, cp>>

(* The hard time limit kills the process wherever it is and acknowledges   *)
(* the envelope.                                                           *)
KillAtTimeLimit(p) ==
  /\ p \in Worker /\ at[p].pc # "idle"
  /\ mode = "celery"
  /\ Spend("timeLimit")
  /\ Return(p)
  /\ UNCHANGED <<rows, cp, broker>>

CrashClient(p) ==
  /\ p \in Client /\ at[p].pc # "idle"
  /\ Spend("apiCrash")
  /\ Return(p)
  /\ UNCHANGED <<rows, cp, broker>>

(* celery_eager: envelopes are tasks of the API process's event loop. *)
CrashEager ==
  /\ mode = "eager"
  /\ Spend("crash")
  /\ broker' = {}
  /\ at' = [p \in Proc |-> IdleFrame]
  /\ UNCHANGED <<rows, cp>>

(* The broker refuses an envelope after the transaction that announced it. *)
SendFails(p) ==
  /\ mode = "celery"
  /\ Spend("brokerDown")
  /\ \/ /\ at[p].pc = "starting" /\ Return(p)
        /\ UNCHANGED <<last, task, broker>>
     \/ /\ at[p].pc = "spawned"
        /\ Step(p, Carrying(at[p], "fail", {}))
        /\ UNCHANGED <<last, task, broker>>
     \/ /\ at[p].pc = "resuming" /\ Return(p)
        /\ EnqueueResume(at[p].job.run, "hitl", FALSE)
     \/ /\ at[p].pc = "wake"
        /\ EnqueueResume(parent[at[p].job.run], "child", FALSE)
        /\ IF p \in Worker /\ at[p].outcome = "completed" THEN Goto(p, "fail")
           ELSE Return(p)
  /\ UNCHANGED <<run, parent, depth, row, result, cp, hitl, msg>>

(* Flushing raises after the run was settled: the except branch takes over; *)
(* in the except branch itself a failing flush is only logged.             *)
FlushFails(p) ==
  /\ HoldsTask(p, "flush")
  /\ at[p].outcome # "failed"
  /\ Spend(IF at[p].outcome = "completed" THEN "flushFail" ELSE "parkedFlushFail")
  /\ Conclude(p, "fail", "none")
  /\ UNCHANGED <<rows, cp, broker>>

-----------------------------------------------------------------------------
WorkerStep(p) ==
  \/ Claim(p) \/ RunGraph(p) \/ GraphRaises(p)
  \/ SpawnChild(p) \/ SpawnRefused(p) \/ InlineResume(p)
  \/ DispatchChild(p) \/ MarkRead(p) \/ MarkWrite(p)
  \/ SettleInterrupt(p) \/ SettleCompleted(p) \/ FailRun(p) \/ Flush(p)

(* The steps a handler takes once it has been called. *)
ClientStep(p) ==
  \/ DispatchStart(p) \/ DecideWrite(p) \/ EnqueueAnswer(p)
  \/ TimeOutChild(p) \/ Cascade(p) \/ CascadeDone(p)

TellStep(p) == TellRead(p) \/ TellWrite(p) \/ WakeParent(p)

Call(p) == Submit(p) \/ DecideRead(p) \/ Cancel(p) \/ ScanTimeouts(p)

Fault == \/ \E p \in Worker : CrashWorker(p) \/ KillAtTimeLimit(p) \/ FlushFails(p)
         \/ \E p \in Client : CrashClient(p)
         \/ \E p \in Proc : SendFails(p)
         \/ CrashEager
         \/ ExpireHitl

Next == \/ \E p \in Worker : WorkerStep(p)
        \/ \E p \in Client : ClientStep(p) \/ Call(p)
        \/ \E p \in Proc : TellStep(p)
        \/ Fault

Spec == Init /\ [][Next]_vars

(* Workers consume and handlers run to their end; nobody is obliged to     *)
(* call, to answer, or to break anything.                                  *)
FairSpec == /\ Spec
            /\ \A p \in Worker : WF_vars(WorkerStep(p))
            /\ \A p \in Client : WF_vars(ClientStep(p))
            /\ \A p \in Proc : WF_vars(TellStep(p))

-----------------------------------------------------------------------------
(* Where a run's thread of control is *)

Working(p, r) == /\ p \in Worker
                 /\ at[p].pc \in {"graph", "spawn", "inline", "settle"}
                 /\ at[p].job.run = r

Queued(r) == \E e \in broker : e.run = r

(* An envelope for r is about to be sent: r was submitted, spawned,        *)
(* answered, or its child has reported.                                    *)
Sending(p, r) ==
  \/ at[p].pc \in {"starting", "resuming"} /\ at[p].job.run = r
  \/ at[p].pc = "spawned" /\ r \in at[p].todo
  \/ at[p].pc = "wake" /\ parent[at[p].job.run] = r

AwaitsHuman(r) == \E k \in 1..MaxHitl : hitl[r][k].status = "pending"

Rejected(r) == \E k \in 1..MaxHitl : /\ hitl[r][k].status = "rejected"
                                      /\ hitl[r][k].onReject # "route"

(* The graph is over: it ended, the last envelope failed, or a person said *)
(* no.  The status column is not asked: see MarkWrite.                     *)
Settled(r) == /\ last[r] > 0
              /\ \/ task[r][last[r]] = "failure"
                 \/ task[r][last[r]] = "success" /\ cp[r] > Len(Script(r))
                 \/ Rejected(r)

(* What breaks the one-thread-per-run discipline: redelivery, a second     *)
(* party reporting a child, a second answer to one question, and a flush   *)
(* that fails the run after it has parked and somebody may wake it.        *)
Duplicating == {"crash", "cancelChild", "timeout", "doubleAnswer", "parkedFlushFail"}
NoDuplication == seen \cap Duplicating = {}

(* Celery keeps what is queued or unacknowledged when a process is lost;   *)
(* the eager event loop does not.                                          *)
EnvelopesSurvive == mode = "celery" \/ "crash" \notin seen

-----------------------------------------------------------------------------
(* Properties *)

(* Two workers never execute the same run, that is the same LangGraph      *)
(* thread: its checkpoints have no other protection against interleaved    *)
(* ainvoke calls than the order in which envelopes are created.            *)
SingleExecutor ==
  NoDuplication =>
    \A r \in Run : \A p, q \in Worker : Working(p, r) /\ Working(q, r) => p = q

(* A run shown as running is being executed or has an envelope waiting:    *)
(* nothing reconciles a run whose worker is gone, so each way out of       *)
(* execute_envelope must leave another status.                             *)
RunningHasExecutor ==
  EnvelopesSurvive /\ "timeLimit" \notin seen =>
    \A r \in Run : run[r] = "running" =>
      \/ Queued(r)
      \/ \E p \in Worker : at[p].job.run = r /\ at[p].pc \notin {"idle", "flush"}

(* A run shown as interrupted has a HITL row someone can still decide, or  *)
(* a decision on its way to a worker.                                      *)
InterruptedCanMove ==
  EnvelopesSurvive /\ seen \cap {"apiCrash", "brokerDown"} = {} =>
    \A r \in Run : run[r] = "interrupted" =>
      AwaitsHuman(r) \/ Queued(r) \/ \E p \in Client : Sending(p, r)

(* Without failures and outside interference a run that has not settled    *)
(* always has something that will move it on: a worker, an                 *)
(* envelope, a person, or a child that has not settled or not reported.    *)
NoLostWakeup ==
  seen = {} =>
    \A r \in Run : run[r] # "absent" /\ ~Settled(r) =>
      \/ Queued(r) \/ AwaitsHuman(r)
      \/ \E p \in Proc : Sending(p, r)
      \/ \E p \in Worker : at[p].job.run = r /\ at[p].pc \notin {"idle", "flush"}
      \/ \E c \in Kids(r) :
           ~Settled(c) \/ \E p \in Proc : at[p].job.run = c /\ at[p].pc \in {"tell", "tellw"}

(* When nobody works on a run any more, no task record of it still says    *)
(* queued or started: the record is looked up as the run's newest one, not *)
(* by the envelope's task id.                                              *)
RecordsClose ==
  NoDuplication /\ seen \cap {"timeLimit", "brokerDown", "apiCrash"} = {} =>
    \A r \in Run :
      \/ Queued(r) \/ \E p \in Proc : Sending(p, r)
      \/ \E p \in Worker : at[p].pc # "idle" /\ at[p].job.run = r
      \/ \A n \in 1..MaxTasks : task[r][n] \notin {"queued", "started"}

(* The assistant message of a run that nobody works on any more shows the  *)
(* run's outcome: it is written in a transaction of its own, after the     *)
(* parent was told and the traces were flushed.  A kill at the time limit  *)
(* is named, since between the two it leaves the message as it was and     *)
(* acknowledges the envelope.                                              *)
MessageShowsOutcome ==
  NoDuplication /\ "timeLimit" \notin seen =>
    \A r \in Run :
      /\ run[r] \in {"completed", "failed"}
      /\ msg[r] # "none"
      /\ \A p \in Worker : at[p].job.run # r
      => msg[r] = run[r]

(* A child row is resolved once: the parent is not told twice, not even by *)
(* the except branch after a failed flush.                                 *)
RowResolvedOnce ==
  [][seen' \cap (Duplicating \cup {"cancel"}) = {} =>
       \A c \in Run : row[c] \notin {"none", "pending"} =>
         row'[c] = row[c] /\ result'[c] = result[c]]_<<row, result, seen>>

(* The design documents say the following; the code does otherwise.        *)

(* A parent cancelled by a caller is not resumed: no worker takes a child's *)
(* result to a run that is cancelled when it takes it.                     *)
CancelledNotResumed ==
  [][\A p \in Worker :
       at[p].pc = "idle" /\ at'[p].pc = "graph" /\ at'[p].job.kind = "child" =>
         run[at'[p].job.run] # "cancelled"]_<<at, run>>

(* A child that reached a terminal status is reported to the parent that   *)
(* waits for it: while its row is pending somebody is still handling it.   *)
ChildOutcomeReported ==
  \A c \in Run : run[c] \in Terminal /\ row[c] = "pending" =>
    \E p \in Proc : at[p].job.run = c

(* A HITL row that is no longer pending cannot be decided again.           *)
HitlDecidedOnce ==
  [][\A r \in Run, k \in 1..MaxHitl :
       hitl[r][k].status \notin {"absent", "pending"} =>
         hitl'[r][k].status = hitl[r][k].status]_hitl

(* While a HITL row is pending its run is shown as interrupted.            *)
InterruptedWhileAsked ==
  \A r \in Run : AwaitsHuman(r) => run[r] = "interrupted"

(* A submitted run settles, unless somewhere a person is waited for. *)
RunsSettle ==
  \A r \in Run : run[r] # "absent" ~> Settled(r) \/ \E q \in Run : AwaitsHuman(q)

(* The runtime as the contract sees it. *)
Executing(r) == \E p \in Worker : Working(p, r) \/ (at[p].pc = "fail" /\ at[p].job.run = r)

Phase(r) ==
  IF run[r] = "absent" THEN "absent"
  ELSE IF Executing(r) THEN "executing"
  ELSE IF Queued(r) \/ \E p \in Proc : Sending(p, r) THEN "queued"
  ELSE IF AwaitsHuman(r) \/ Kids(r) # {} THEN "parked"
  ELSE "settled"

WaitsFor(r) == IF run[r] # "absent" /\ Kids(r) # {} THEN CHOOSE c \in Kids(r) : TRUE ELSE NoRun

Contract == INSTANCE RunContract WITH
              Human <- NoRun,
              phase <- [r \in Run |-> Phase(r)],
              waits <- [r \in Run |-> WaitsFor(r)]

(* Without failures the runtime keeps the contract, progress included. *)
KeepsContract == Contract!Spec
=============================================================================

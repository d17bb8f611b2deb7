----------------------- MODULE WorkflowRuntime_proofs -----------------------
(***************************************************************************)
(* Safety of the run engine for any number of runs, workers and handlers,  *)
(* any scripts and any bounds: its types, and that the status column never *)
(* lies about who moves a run on.  A running run has a worker or an        *)
(* envelope, an interrupted one a question, an envelope, or a handler      *)
(* about to send one.                                                      *)
(***************************************************************************)
EXTENDS WorkflowRuntime, TLAPS

-----------------------------------------------------------------------------
(* Type correctness.  TypeOK is not inductive: what a step writes depends  *)
(* on what the frame of its process may hold at that program counter.      *)

WorkerPc == {"idle", "graph", "spawn", "inline", "settle", "fail", "spawned",
             "mark", "markw", "tell", "tellw", "wake", "flush"}
ClientPc == {"idle", "starting", "decide", "resuming", "cascade", "expire",
             "tell", "tellw", "wake"}

(* The frame f suits process p, with rw the child rows: a busy worker      *)
(* holds an envelope, a busy handler serves a command about some run, and  *)
(* what is reported is one of the four results, about a run with a row.    *)
Fits(p, f, rw) ==
  /\ f \in Frame
  /\ p \in Worker => /\ f.pc \in WorkerPc
                     /\ f.pc # "idle" => f.job \in Envelope
  /\ p \in Client => /\ f.pc \in ClientPc
                     /\ f.pc \notin {"idle", "expire"} => f.job.run \in Run
                     /\ f.pc = "starting" => f.job \in Envelope
                     /\ f.pc = "decide" => f.job.n \in 1..MaxHitl
  /\ f.pc = "cascade" => f.outcome \in Told \cup {"unbound"}
  /\ f.pc \in {"tell", "tellw", "wake"} => f.outcome \in Told
  /\ f.pc \in {"tellw", "wake"} => rw[f.job.run] # "none"

FramesOK == /\ at \in [Proc -> Frame]
            /\ \A p \in Proc : Fits(p, at[p], row)

(* A child row names its parent, and the child exists. *)
RowsOK == \A c \in Run : row[c] # "none" => parent[c] \in Run /\ run[c] # "absent"

TypeInv == DataOK /\ RowsOK /\ FramesOK

RowsKept == \A c \in Run : row[c] # "none" => row'[c] # "none"

-----------------------------------------------------------------------------
(* Frames *)

(* One process moves to a frame that suits it; the others still suit.      *)
LEMMA FrameStep ==
  ASSUME FramesOK, RowsKept,
         NEW p \in Proc, NEW f, Fits(p, f, row'), Step(p, f)
  PROVE  FramesOK'
<1>1. at' \in [Proc -> Frame]
  BY DEF FramesOK, Step, Fits
<1>2. ASSUME NEW q \in Proc PROVE Fits(q, at'[q], row')
  <2>1. CASE q = p
    BY <2>1 DEF FramesOK, Step
  <2>2. CASE q # p
    <3>1. at'[q] = at[q] /\ Fits(q, at[q], row)
      BY <2>2 DEF FramesOK, Step
    <3>2. at[q].pc \in {"tellw", "wake"} => at[q].job.run \in Run
      BY <3>1 DEF Fits, Proc, Envelope
    <3>3. QED BY <3>1, <3>2 DEF Fits, RowsKept
  <2>3. QED BY <2>1, <2>2
<1>3. QED BY <1>1, <1>2 DEF FramesOK

(* A handler's first frame, and the frame it returns to. *)
LEMMA FrameForFits ==
  ASSUME NEW p \in Proc, NEW rw,
         NEW l, NEW job \in Job, NEW outcome \in Outcome,
         NEW todo \in SUBSET Run, NEW due \in SUBSET Run,
         \/ l = "idle"
         \/ p \in Client /\ l = "starting" /\ job \in Envelope
         \/ p \in Client /\ l = "decide" /\ job.run \in Run /\ job.n \in 1..MaxHitl
         \/ p \in Client /\ l = "cascade" /\ job.run \in Run
              /\ outcome \in Told \cup {"unbound"}
         \/ p \in Client /\ l = "expire"
  PROVE  Fits(p, FrameFor(l, job, outcome, todo, due), rw)
<1> DEFINE f == FrameFor(l, job, outcome, todo, due)
<1>1. /\ f.pc = l /\ f.job = job /\ f.outcome = outcome
  BY DEF FrameFor
<1>2. f \in Frame
  BY BoundAssumption DEF FrameFor, Frame, Pc
<1>3. job \in Envelope => job.run \in Run
  BY DEF Envelope
<1> SUFFICES Fits(p, f, rw)
  OBVIOUS
<1> HIDE DEF f
<1>4. CASE l = "idle"
  BY <1>1, <1>2, <1>4 DEF Fits, WorkerPc, ClientPc
<1>5. CASE l # "idle"
  <2>1. p \in Client /\ p \notin Worker /\ (job.run \in Run \/ l = "expire")
    BY <1>3, <1>5, ProcAssumption
  <2>2. QED BY <1>1, <1>2, <1>5, <2>1, ProcAssumption DEF Fits, ClientPc
<1>6. QED BY <1>4, <1>5

(* The frame of a process with nothing to do. *)
LEMMA IdleFits ==
  ASSUME NEW p \in Proc, NEW rw PROVE Fits(p, IdleFrame, rw)
<1>1. NoJob \in Job /\ "none" \in Outcome
  BY DEF NoJob, Job, Outcome
<1>2. QED BY <1>1, FrameForFits DEF IdleFrame

(* A process changes the program counter of its frame ... *)
LEMMA AtFrame ==
  ASSUME NEW f \in Frame, NEW l \in Pc
  PROVE  /\ At(f, l) \in Frame /\ At(f, l).pc = l
         /\ At(f, l).job = f.job /\ At(f, l).outcome = f.outcome
BY DEF Frame, At

(* ... and the outcome.*)
LEMMA ConcludeFrame ==
  ASSUME NEW f \in Frame, NEW l \in Pc, NEW outcome \in Outcome
  PROVE  LET g == Concluded(f, l, outcome)
         IN  g \in Frame /\ g.pc = l /\ g.outcome = outcome /\ g.job = f.job
<1>1. LET g == [At(f, l) EXCEPT !.outcome = outcome]
      IN  g \in Frame /\ g.pc = l /\ g.outcome = outcome /\ g.job = f.job
  BY AtFrame DEF Frame
<1>2. QED BY <1>1 DEF At, Concluded

(* ... and the child runs still to handle. *)
LEMMA CarryFrame ==
  ASSUME NEW f \in Frame, NEW l \in Pc, NEW todo \in SUBSET Run
  PROVE  LET g == Carrying(f, l, todo)
         IN  g \in Frame /\ g.pc = l /\ g.outcome = f.outcome /\ g.job = f.job
<1>1. LET g == [At(f, l) EXCEPT !.todo = todo]
      IN  g \in Frame /\ g.pc = l /\ g.outcome = f.outcome /\ g.job = f.job
  BY AtFrame DEF Frame
<1>2. QED BY <1>1 DEF At, Carrying

(* ... and the stop of the graph. *)
LEMMA StopFrame ==
  ASSUME NEW f \in Frame, NEW l \in Pc, NEW stop \in Nat
  PROVE  LET g == StoppedAt(f, l, stop)
         IN  g \in Frame /\ g.pc = l /\ g.outcome = f.outcome /\ g.job = f.job
<1>1. LET g == [At(f, l) EXCEPT !.stop = stop]
      IN  g \in Frame /\ g.pc = l /\ g.outcome = f.outcome /\ g.job = f.job
  BY AtFrame DEF Frame
<1>2. QED BY <1>1 DEF At, StoppedAt

(* Where the graph stops next. *)
LEMMA NextStopNat ==
  ASSUME DataOK, NEW r \in Run, NEW kind PROVE NextStop(r, kind) \in Nat
BY DEF DataOK, NextStop

(* A busy worker that goes on with its envelope. *)
LEMMA BusyFits ==
  ASSUME FramesOK, NEW p \in Worker, at[p].pc # "idle", NEW rw,
         NEW f \in Frame, f.job = at[p].job,
         \/ f.pc \in WorkerPc \ {"tell", "tellw", "wake"}
         \/ f.pc = "tell" /\ f.outcome \in Told
  PROVE  Fits(p, f, rw)
BY ProcAssumption DEF Fits, FramesOK, Proc, WorkerPc

(* Any process that goes on to a frame with the same job. *)
LEMMA SameJobFits ==
  ASSUME FramesOK, NEW p \in Proc, NEW rw, NEW f \in Frame,
         at[p].pc \in {"tell", "tellw", "wake"}, f.job = at[p].job,
         \/ p \in Worker /\ f.pc \in {"flush", "fail"}
         \/ p \in Client /\ f.pc = "expire"
         \/ /\ f.pc \in {"tellw", "wake"} /\ f.outcome = at[p].outcome
            /\ rw[at[p].job.run] # "none"
  PROVE  Fits(p, f, rw)
<1>1. Fits(p, at[p], row)
  BY DEF FramesOK
<1>2. QED BY <1>1, ProcAssumption DEF Fits, WorkerPc, ClientPc, Proc

-----------------------------------------------------------------------------
(* Tables, queue and budget *)

(* Writing one task record. *)
LEMMA TaskStep ==
  ASSUME NEW t \in [Run -> [1..MaxTasks -> TaskStatus]],
         NEW r, NEW n, NEW s \in TaskStatus
  PROVE  [t EXCEPT ![r][n] = s] \in [Run -> [1..MaxTasks -> TaskStatus]]
OBVIOUS

(* A worker updates the record it looked up. *)
LEMMA SetTaskStep ==
  ASSUME DataOK, NEW p, NEW s \in TaskStatus, SetTask(p, s)
  PROVE  task' \in [Run -> [1..MaxTasks -> TaskStatus]]
BY TaskStep DEF DataOK, SetTask

(* No step takes a run out of existence. *)
LEMMA SetRunStep ==
  ASSUME DataOK, NEW r, NEW s \in RunStatus \ {"absent"}, SetRun(r, s)
  PROVE  /\ run' \in [Run -> RunStatus]
         /\ \A c \in Run : run[c] # "absent" => run'[c] # "absent"
BY DEF DataOK, SetRun, RunStatus

(* A new task record and its envelope. *)
LEMMA EnqueueStep ==
  ASSUME DataOK, NEW r \in Run, NEW kind \in EnvelopeKind, NEW sent \in BOOLEAN,
         EnqueueResume(r, kind, sent)
  PROVE  /\ last' \in [Run -> 0..MaxTasks]
         /\ task' \in [Run -> [1..MaxTasks -> TaskStatus]]
         /\ broker' \subseteq Envelope
<1> DEFINE n == last[r] + 1
<1>1. n \in 1..MaxTasks
  BY BoundAssumption DEF DataOK, EnqueueResume
<1>2. last' \in [Run -> 0..MaxTasks]
  BY <1>1 DEF DataOK, EnqueueResume
<1>3. task' \in [Run -> [1..MaxTasks -> TaskStatus]]
  BY <1>1, TaskStep DEF DataOK, EnqueueResume, TaskStatus
<1>4. broker' \subseteq Envelope
  BY <1>1 DEF DataOK, EnqueueResume, Envelope
<1>5. QED BY <1>2, <1>3, <1>4

(* One cancel_run transaction: no row appears or disappears. *)
LEMMA CancelStep ==
  ASSUME DataOK, NEW r \in Run, CancelTxn(r)
  PROVE  /\ run' \in [Run -> RunStatus]
         /\ row' \in [Run -> RowStatus]
         /\ RowsKept
         /\ \A c \in Run : /\ run[c] # "absent" => run'[c] # "absent"
                           /\ row'[c] # "none" => row[c] # "none"
<1>1. /\ run' \in [Run -> RunStatus]
      /\ \A c \in Run : run[c] # "absent" => run'[c] # "absent"
  BY DEF DataOK, CancelTxn, RunStatus, Terminal
<1>2. row' \in [Run -> RowStatus] /\ RowsKept
  BY DEF DataOK, CancelTxn, RowStatus, RowsKept
<1>3. \A c \in Run : row'[c] # "none" => row[c] # "none"
  BY DEF CancelTxn, Kids
<1>4. QED BY <1>1, <1>2, <1>3

(* The budget of faults. *)
LEMMA SpendStep ==
  ASSUME DataOK, NEW kind, Spend(kind)
  PROVE  left' \in Nat /\ seen' \subseteq FaultKind /\ roots' \in Nat /\ mode' \in Modes
BY BoundAssumption DEF DataOK, Spend

-----------------------------------------------------------------------------
(* Callers *)

(* Submit keeps the invariant. *)
LEMMA SubmitStep ==
  ASSUME TypeInv, NEW p \in Client, Submit(p) PROVE TypeInv'
<1> USE DEF TypeInv
<1>1. PICK r \in Run :
         /\ SetRun(r, "pending")
         /\ CreateRun(r, NoRun, 1, "none", "streaming")
         /\ Step(p, FrameFor("starting", StartEnvelope(r), "none", {}, {}))
         /\ run[r] = "absent"
  BY DEF Submit
<1>2. task' \in [Run -> [1..MaxTasks -> TaskStatus]]
  BY <1>1, TaskStep DEF DataOK, CreateRun, TaskStatus
<1>3. DataOK'
  <2>1. 1 \in 1..Len(Scripts) /\ 1 \in 0..MaxTasks /\ roots' \in Nat
    BY ScriptAssumption, BoundAssumption DEF DataOK, Submit
  <2>2. run' \in [Run -> RunStatus] BY <1>1 DEF DataOK, SetRun, RunStatus
  <2>3. row' \in [Run -> RowStatus] /\ msg' \in [Run -> MsgStatus]
    BY <1>1 DEF DataOK, CreateRun, RowStatus, MsgStatus
  <2>4. /\ parent' \in [Run -> Run \cup {NoRun}]
        /\ depth' \in [Run -> 1..Len(Scripts)]
        /\ last' \in [Run -> 0..MaxTasks]
    BY <1>1, <2>1 DEF DataOK, CreateRun
  <2>5. QED BY <1>2, <2>1, <2>2, <2>3, <2>4 DEF DataOK, Submit
<1>4. RowsKept /\ RowsOK'
  BY <1>1 DEF DataOK, RowsOK, RowsKept, SetRun, CreateRun
<1>5. Fits(p, FrameFor("starting", StartEnvelope(r), "none", {}, {}), row')
  <2>1. StartEnvelope(r) \in Envelope \cap Job /\ "none" \in Outcome
    BY BoundAssumption DEF StartEnvelope, Envelope, EnvelopeKind, Job, Outcome
  <2>2. QED BY <2>1, FrameForFits DEF Proc
<1>6. QED BY <1>1, <1>3, <1>4, <1>5, FrameStep DEF Proc

(* DispatchStart keeps the invariant. *)
LEMMA DispatchStartStep ==
  ASSUME TypeInv, NEW p \in Client, DispatchStart(p) PROVE TypeInv'
<1> USE DEF TypeInv
<1>1. DataOK' /\ RowsKept /\ RowsOK'
  BY DEF DataOK, RowsOK, RowsKept, DispatchStart, rows, env, FramesOK, Fits, Proc
<1>2. QED BY <1>1, IdleFits, FrameStep DEF DispatchStart, Return, Proc

(* DecideRead keeps the invariant. *)
LEMMA DecideReadStep ==
  ASSUME TypeInv, NEW p \in Client, DecideRead(p) PROVE TypeInv'
<1> USE DEF TypeInv
<1>1. PICK r \in Run, k \in 1..MaxHitl, d \in {"approve", "reject"} :
         /\ IF \E q \in Client : Deciding(q, r, k)
            THEN Spend("doubleAnswer") ELSE UNCHANGED env
         /\ Step(p, FrameFor("decide", [run |-> r, n |-> k, kind |-> d], "none", {}, {}))
  BY DEF DecideRead
<1>2. DataOK' /\ RowsKept /\ RowsOK'
  <2>1. CASE Spend("doubleAnswer")
    BY <2>1, SpendStep DEF DataOK, RowsOK, RowsKept, DecideRead, rows
  <2>2. CASE UNCHANGED env
    BY <2>2 DEF DataOK, RowsOK, RowsKept, DecideRead, rows, env
  <2>3. QED BY <1>1, <2>1, <2>2
<1> DEFINE job == [run |-> r, n |-> k, kind |-> d]
<1>3. job \in Job /\ job.run \in Run /\ job.n \in 1..MaxHitl
  BY BoundAssumption DEF Job
<1>4. Fits(p, FrameFor("decide", job, "none", {}, {}), row')
  <2> HIDE DEF job
  <2>1. "none" \in Outcome
    BY DEF Outcome
  <2>2. QED BY <1>3, <2>1, FrameForFits DEF Proc
<1>5. QED BY <1>1, <1>2, <1>4, FrameStep DEF Proc

(* DecideWrite keeps the invariant. *)
LEMMA DecideWriteStep ==
  ASSUME TypeInv, NEW p \in Client, DecideWrite(p) PROVE TypeInv'
<1> USE DEF TypeInv
<1> DEFINE r == at[p].job.run
           k == at[p].job.n
<1>1. r \in Run /\ k \in 1..MaxHitl /\ at[p] \in Frame /\ at[p].pc = "decide"
  BY DEF FramesOK, DecideWrite, Fits, Proc
<1>2. hitl' \in [Run -> [1..MaxHitl -> HitlRow]]
  <2> DEFINE s == IF at[p].job.kind = "approve" THEN "approved" ELSE "rejected"
  <2>1. hitl[r][k] \in HitlRow /\ s \in HitlStatus
    BY <1>1 DEF DataOK, HitlStatus
  <2>2. [hitl[r][k] EXCEPT !.status = s] \in HitlRow
    <3> HIDE DEF s, r, k
    <3>1. QED BY <2>1 DEF HitlRow
  <2>3. hitl' = [hitl EXCEPT ![r] = [hitl[r] EXCEPT ![k] = [hitl[r][k] EXCEPT !.status = s]]]
    BY DEF DecideWrite
  <2> HIDE DEF s
  <2>4. QED BY <1>1, <2>2, <2>3 DEF DataOK
<1>3. DataOK' /\ RowsKept /\ RowsOK'
  BY <1>1, <1>2 DEF DataOK, RowsOK, RowsKept, DecideWrite, SetRun, RunStatus, Terminal, env
<1>4. CASE Return(p)
  BY <1>3, <1>4, IdleFits, FrameStep DEF Return, Proc
<1>5. CASE Goto(p, "resuming")
  <2>1. At(at[p], "resuming") \in Frame /\ At(at[p], "resuming").pc = "resuming"
        /\ At(at[p], "resuming").job = at[p].job
    BY <1>1, AtFrame DEF Pc
  <2>2. Fits(p, At(at[p], "resuming"), row')
    BY <1>1, <2>1, ProcAssumption DEF Fits, ClientPc
  <2>3. QED BY <1>3, <1>5, <2>2, FrameStep DEF Goto, Proc
<1>6. QED BY <1>4, <1>5 DEF DecideWrite

(* EnqueueAnswer keeps the invariant. *)
LEMMA EnqueueAnswerStep ==
  ASSUME TypeInv, NEW p \in Client, EnqueueAnswer(p) PROVE TypeInv'
<1> USE DEF TypeInv
<1>1. DataOK' /\ RowsKept /\ RowsOK'
  BY EnqueueStep DEF DataOK, RowsOK, RowsKept, EnqueueAnswer, env, FramesOK, Fits, Proc, EnvelopeKind
<1>2. QED BY <1>1, IdleFits, FrameStep DEF EnqueueAnswer, Return, Proc

-----------------------------------------------------------------------------
(* Workers *)

(* Claim keeps the invariant. *)
LEMMA ClaimStep ==
  ASSUME TypeInv, NEW p \in Worker, Claim(p) PROVE TypeInv'
<1> USE DEF TypeInv
<1>1. PICK e \in broker :
         /\ broker' = broker \ {e}
         /\ SetRun(e.run, "running")
         /\ task' = [task EXCEPT ![e.run][RecordOf(e.run)] = "started"]
         /\ Step(p, [FrameFor("graph", e, "none", {}, {}) EXCEPT !.rec = RecordOf(e.run)])
  BY DEF Claim
<1>2. e \in Envelope /\ e.run \in Run /\ e \in Job /\ RecordOf(e.run) \in 0..MaxTasks
  BY <1>1 DEF DataOK, Envelope, EnvelopeKind, Job, RecordOf
<1>3. DataOK' /\ RowsKept /\ RowsOK'
  <2>1. /\ run' \in [Run -> RunStatus]
        /\ \A c \in Run : run[c] # "absent" => run'[c] # "absent"
    BY <1>1, SetRunStep DEF RunStatus
  <2>2. task' \in [Run -> [1..MaxTasks -> TaskStatus]]
    BY <1>1, TaskStep DEF DataOK, TaskStatus
  <2>3. QED BY <1>1, <2>1, <2>2 DEF DataOK, RowsOK, RowsKept, Claim, env
<1> DEFINE n == RecordOf(e.run)
           f == [FrameFor("graph", e, "none", {}, {}) EXCEPT !.rec = n]
<1>4. f \in Frame /\ f.pc = "graph" /\ f.job = e
  <2>1. f = [pc |-> "graph", job |-> e, rec |-> n, stop |-> 0,
             outcome |-> "none", todo |-> {}, due |-> {}]
    BY DEF FrameFor
  <2> HIDE DEF f, n
  <2>2. "graph" \in Pc /\ "none" \in Outcome
    BY DEF Pc, Outcome
  <2>3. n \in 0..MaxTasks
    BY <1>2 DEF n
  <2>4. QED BY <1>2, <2>1, <2>2, <2>3 DEF Frame
<1>5. Step(p, f)
  BY <1>1
<1> HIDE DEF f
<1>6. Fits(p, f, row')
  BY <1>2, <1>4, ProcAssumption DEF Fits, WorkerPc
<1>7. QED BY <1>3, <1>5, <1>6, FrameStep DEF Proc

(* RunGraph keeps the invariant. *)
LEMMA RunGraphStep ==
  ASSUME TypeInv, NEW p \in Worker, RunGraph(p) PROVE TypeInv'
<1> USE DEF TypeInv
<1> DEFINE r == at[p].job.run
           stop == NextStop(r, at[p].job.kind)
           l == IF AtSubgraph(r, stop) THEN "spawn" ELSE "settle"
<1>1. at[p] \in Frame /\ at[p].pc # "idle" /\ r \in Run
  BY DEF FramesOK, RunGraph, HoldsTask, Proc, Fits, Envelope
<1>2. stop \in Nat
  BY <1>1, NextStopNat
<1>3. cp' = [cp EXCEPT ![r] = stop] /\ Step(p, StoppedAt(at[p], l, stop))
  BY DEF RunGraph
<1>4. DataOK' /\ RowsKept /\ RowsOK'
  <2>1. cp' \in [Run -> Nat]
    BY <1>2, <1>3 DEF DataOK
  <2>2. QED BY <2>1 DEF DataOK, RowsOK, RowsKept, RunGraph, rows, env
<1>5. l \in {"spawn", "settle"} /\ l \in Pc
  BY DEF Pc
<1> HIDE DEF l, stop
<1> DEFINE f == StoppedAt(at[p], l, stop)
<1>6. f \in Frame /\ f.job = at[p].job /\ f.pc = l
  BY <1>1, <1>2, <1>5, StopFrame
<1>7. Step(p, f)
  BY <1>3 DEF l, stop
<1> HIDE DEF f
<1>8. Fits(p, f, row')
  BY <1>1, <1>5, <1>6, BusyFits DEF WorkerPc
<1>9. QED BY <1>4, <1>7, <1>8, FrameStep DEF Proc

(* GraphRaises keeps the invariant. *)
LEMMA GraphRaisesStep ==
  ASSUME TypeInv, NEW p \in Worker, GraphRaises(p) PROVE TypeInv'
<1> USE DEF TypeInv
<1>1. DataOK' /\ RowsKept /\ RowsOK'
  BY DEF DataOK, RowsOK, RowsKept, GraphRaises, rows, env
<1> DEFINE f == At(at[p], "fail")
<1>2. at[p] \in Frame /\ at[p].pc # "idle" /\ at[p].job.run \in Run
  BY DEF FramesOK, GraphRaises, HoldsTask, Proc, Fits, Envelope
<1>3. Step(p, f)
  BY DEF GraphRaises, Conclude, Goto
<1>4. f \in Frame /\ f.job = at[p].job /\ f.pc = "fail"
  BY <1>2, AtFrame DEF Pc
<1> HIDE DEF f
<1>5. Fits(p, f, row')
  BY <1>2, <1>4, BusyFits DEF WorkerPc, Told
<1>6. QED BY <1>1, <1>3, <1>5, FrameStep DEF Proc

(* SpawnChild keeps the invariant. *)
LEMMA SpawnChildStep ==
  ASSUME TypeInv, NEW p \in Worker, SpawnChild(p) PROVE TypeInv'
<1> USE DEF TypeInv
<1> DEFINE r == at[p].job.run
<1>1. /\ at[p] \in Frame /\ at[p].pc = "spawn" /\ r \in Run
      /\ depth[r] + 1 \in 1..Len(Scripts)
  <2>1. at[p].pc = "spawn" /\ depth[r] < Len(Scripts) BY DEF SpawnChild, HoldsTask
  <2>2. Fits(p, at[p], row) BY DEF FramesOK, Proc
  <2>3. at[p] \in Frame /\ at[p].job \in Envelope BY <2>1, <2>2 DEF Fits
  <2>4. r \in Run BY <2>3 DEF Envelope
  <2>5. depth[r] \in Nat /\ Len(Scripts) \in Nat BY <2>4, ScriptAssumption DEF DataOK
  <2>6. QED BY <2>1, <2>3, <2>4, <2>5
<1>2. PICK c \in Run :
         /\ run[c] = "absent"
         /\ run' = [run EXCEPT ![c] = "pending", ![r] = "waiting_child"]
         /\ CreateRun(c, r, depth[r] + 1, "pending", "none")
         /\ Step(p, Carrying(at[p], "spawned", {c}))
  BY DEF SpawnChild
<1>3. DataOK' /\ RowsKept /\ RowsOK'
  <2>1. /\ run' \in [Run -> RunStatus]
        /\ \A d \in Run : d = c \/ run[d] # "absent" => run'[d] # "absent"
    BY <1>2 DEF DataOK, RunStatus
  <2>2. task' \in [Run -> [1..MaxTasks -> TaskStatus]]
    BY <1>2, TaskStep DEF DataOK, CreateRun, TaskStatus
  <2>3. /\ parent' \in [Run -> Run \cup {NoRun}] /\ row' \in [Run -> RowStatus]
        /\ depth' \in [Run -> 1..Len(Scripts)]
        /\ last' \in [Run -> 0..MaxTasks] /\ msg' \in [Run -> MsgStatus]
    BY <1>1, <1>2, BoundAssumption DEF DataOK, CreateRun, RowStatus, MsgStatus
  <2>4. RowsKept /\ RowsOK'
    BY <1>1, <1>2, <2>1 DEF DataOK, RowsOK, RowsKept, CreateRun
  <2>5. QED BY <2>1, <2>2, <2>3, <2>4 DEF DataOK, SpawnChild, env
<1> DEFINE f == Carrying(at[p], "spawned", {c})
<1>4. f \in Frame /\ f.job = at[p].job /\ f.pc = "spawned"
  <2>1. "spawned" \in Pc
    BY DEF Pc
  <2>2. QED BY <1>1, <2>1, CarryFrame
<1> HIDE DEF f
<1>5. Fits(p, f, row')
  BY <1>1, <1>4, BusyFits DEF WorkerPc
<1>6. QED BY <1>2, <1>3, <1>5, FrameStep DEF Proc, f

(* SpawnRefused keeps the invariant. *)
LEMMA SpawnRefusedStep ==
  ASSUME TypeInv, NEW p \in Worker, SpawnRefused(p) PROVE TypeInv'
<1> USE DEF TypeInv
<1>1. DataOK' /\ RowsKept /\ RowsOK'
  BY DEF DataOK, RowsOK, RowsKept, SpawnRefused, rows, env
<1> DEFINE f == At(at[p], "inline")
<1>2. at[p] \in Frame /\ at[p].pc # "idle" /\ at[p].job.run \in Run
  BY DEF FramesOK, SpawnRefused, HoldsTask, Proc, Fits, Envelope
<1>3. Step(p, f)
  BY DEF SpawnRefused, Conclude, Goto
<1>4. f \in Frame /\ f.job = at[p].job /\ f.pc = "inline"
  BY <1>2, AtFrame DEF Pc
<1> HIDE DEF f
<1>5. Fits(p, f, row')
  BY <1>2, <1>4, BusyFits DEF WorkerPc, Told
<1>6. QED BY <1>1, <1>3, <1>5, FrameStep DEF Proc

(* InlineResume keeps the invariant. *)
LEMMA InlineResumeStep ==
  ASSUME TypeInv, NEW p \in Worker, InlineResume(p) PROVE TypeInv'
<1> USE DEF TypeInv
<1> DEFINE r == at[p].job.run
           stop == NextStop(r, "child")
           f == StoppedAt(at[p], "settle", stop)
<1>1. at[p] \in Frame /\ at[p].pc # "idle" /\ r \in Run
  BY DEF FramesOK, InlineResume, HoldsTask, Proc, Fits, Envelope
<1>2. stop \in Nat
  BY <1>1, NextStopNat
<1>3. cp' = [cp EXCEPT ![r] = stop] /\ Step(p, f)
  BY DEF InlineResume
<1> HIDE DEF stop
<1>4. DataOK' /\ RowsKept /\ RowsOK'
  <2>1. cp' \in [Run -> Nat]
    BY <1>2, <1>3 DEF DataOK
  <2>2. QED BY <2>1 DEF DataOK, RowsOK, RowsKept, InlineResume, rows, env
<1>5. f \in Frame /\ f.job = at[p].job /\ f.pc = "settle"
  <2>1. "settle" \in Pc
    BY DEF Pc
  <2>2. QED BY <1>1, <1>2, <2>1, StopFrame
<1> HIDE DEF f
<1>6. Fits(p, f, row')
  BY <1>1, <1>5, BusyFits DEF WorkerPc
<1>7. QED BY <1>3, <1>4, <1>6, FrameStep DEF Proc

(* DispatchChild keeps the invariant. *)
LEMMA DispatchChildStep ==
  ASSUME TypeInv, NEW p \in Worker, DispatchChild(p) PROVE TypeInv'
<1> USE DEF TypeInv
<1>1. DataOK' /\ RowsKept /\ RowsOK'
  BY BoundAssumption DEF DataOK, RowsOK, RowsKept, DispatchChild, rows, env, StartEnvelope, FramesOK, Fits, Frame, Proc, Envelope, EnvelopeKind
<1> DEFINE f == Carrying(at[p], "mark", {})
<1>2. at[p] \in Frame /\ at[p].pc # "idle" /\ at[p].job.run \in Run
  BY DEF FramesOK, DispatchChild, HoldsTask, Proc, Fits, Envelope
<1>3. Step(p, f)
  BY DEF DispatchChild, Conclude, Goto
<1>4. f \in Frame /\ f.job = at[p].job /\ f.pc = "mark"
  BY <1>2, CarryFrame DEF Pc
<1> HIDE DEF f
<1>5. Fits(p, f, row')
  BY <1>2, <1>4, BusyFits DEF WorkerPc, Told
<1>6. QED BY <1>1, <1>3, <1>5, FrameStep DEF Proc

(* MarkRead keeps the invariant. *)
LEMMA MarkReadStep ==
  ASSUME TypeInv, NEW p \in Worker, MarkRead(p) PROVE TypeInv'
<1> USE DEF TypeInv
<1>1. at[p] \in Frame /\ at[p].pc = "mark"
  BY DEF FramesOK, MarkRead, HoldsTask, Proc
<1>2. DataOK' /\ RowsKept /\ RowsOK'
  <2>1. task' \in [Run -> [1..MaxTasks -> TaskStatus]]
    BY SetTaskStep DEF MarkRead, DataOK, TaskStatus
  <2>2. QED BY <2>1 DEF DataOK, RowsOK, RowsKept, MarkRead, env
<1> DEFINE f == Concluded(at[p], "flush", "waiting")
           g == At(at[p], "markw")
<1>3. f \in Frame /\ f.job = at[p].job /\ f.pc = "flush"
  BY <1>1, ConcludeFrame DEF Pc, Outcome
<1>4. g \in Frame /\ g.job = at[p].job /\ g.pc = "markw"
  BY <1>1, AtFrame DEF Pc
<1>5. Step(p, f) \/ Step(p, g)
  BY DEF MarkRead, Conclude, Goto
<1> HIDE DEF f, g
<1>6. Fits(p, f, row') /\ Fits(p, g, row')
  BY <1>1, <1>3, <1>4, BusyFits DEF WorkerPc
<1>7. QED BY <1>2, <1>5, <1>6, FrameStep DEF Proc

(* MarkWrite keeps the invariant. *)
LEMMA MarkWriteStep ==
  ASSUME TypeInv, NEW p \in Worker, MarkWrite(p) PROVE TypeInv'
<1> USE DEF TypeInv
<1>1. DataOK' /\ RowsKept /\ RowsOK'
  <2>1. SetRun(at[p].job.run, "waiting_child") /\ SetTask(p, "success")
    BY DEF MarkWrite
  <2>2. /\ run' \in [Run -> RunStatus]
        /\ \A c \in Run : run[c] # "absent" => run'[c] # "absent"
    BY <2>1, SetRunStep DEF RunStatus, Terminal
  <2>3. task' \in [Run -> [1..MaxTasks -> TaskStatus]]
    BY <2>1, SetTaskStep DEF TaskStatus
  <2>4. QED BY <2>2, <2>3 DEF DataOK, RowsOK, RowsKept, MarkWrite, env
<1> DEFINE f == Concluded(at[p], "flush", "waiting")
<1>2. at[p] \in Frame /\ at[p].pc # "idle" /\ at[p].job.run \in Run
  BY DEF FramesOK, MarkWrite, HoldsTask, Proc, Fits, Envelope
<1>3. Step(p, f)
  BY DEF MarkWrite, Conclude, Goto
<1>4. f \in Frame /\ f.job = at[p].job /\ f.pc = "flush" /\ f.outcome = "waiting"
  BY <1>2, ConcludeFrame DEF Pc, Outcome, Told
<1> HIDE DEF f
<1>5. Fits(p, f, row')
  BY <1>2, <1>4, BusyFits DEF WorkerPc, Told
<1>6. QED BY <1>1, <1>3, <1>5, FrameStep DEF Proc

(* SettleInterrupt keeps the invariant. *)
LEMMA SettleInterruptStep ==
  ASSUME TypeInv, NEW p \in Worker, SettleInterrupt(p) PROVE TypeInv'
<1> USE DEF TypeInv
<1> DEFINE r == at[p].job.run
           f == Concluded(at[p], "flush", "interrupted")
<1>1. at[p] \in Frame /\ at[p].pc = "settle" /\ r \in Run
  BY DEF FramesOK, SettleInterrupt, HoldsTask, Proc, Fits, Envelope
<1>2. hitl' \in [Run -> [1..MaxHitl -> HitlRow]]
  <2> DEFINE policy == IF Script(r)[at[p].stop] = "hitl_route" THEN "route" ELSE "fail"
  <2>1. PICK k \in 1..MaxHitl :
           hitl' = [hitl EXCEPT ![r][k] = [status |-> "pending", onReject |-> policy]]
    BY DEF SettleInterrupt
  <2>2. [status |-> "pending", onReject |-> policy] \in HitlRow
    BY DEF HitlRow, HitlStatus
  <2> HIDE DEF policy
  <2>3. QED BY <1>1, <2>1, <2>2 DEF DataOK
<1>3. DataOK' /\ RowsKept /\ RowsOK'
  <2>1. SetRun(r, "interrupted") /\ SetTask(p, "success")
    BY DEF SettleInterrupt
  <2>2. /\ run' \in [Run -> RunStatus]
        /\ \A c \in Run : run[c] # "absent" => run'[c] # "absent"
    BY <2>1, SetRunStep DEF RunStatus
  <2>3. task' \in [Run -> [1..MaxTasks -> TaskStatus]]
    BY <2>1, SetTaskStep DEF TaskStatus
  <2>4. QED BY <1>2, <2>2, <2>3 DEF DataOK, RowsOK, RowsKept, SettleInterrupt, env
<1>4. f \in Frame /\ f.job = at[p].job /\ f.pc = "flush"
  BY <1>1, ConcludeFrame DEF Pc, Outcome
<1>5. Step(p, f)
  BY DEF SettleInterrupt, Conclude
<1> HIDE DEF f
<1>6. Fits(p, f, row')
  BY <1>1, <1>4, BusyFits DEF WorkerPc
<1>7. QED BY <1>3, <1>5, <1>6, FrameStep DEF Proc

(* SettleCompleted keeps the invariant. *)
LEMMA SettleCompletedStep ==
  ASSUME TypeInv, NEW p \in Worker, SettleCompleted(p) PROVE TypeInv'
<1> USE DEF TypeInv
<1>1. DataOK' /\ RowsKept /\ RowsOK'
  <2>1. SetRun(at[p].job.run, "completed") /\ SetTask(p, "success")
    BY DEF SettleCompleted
  <2>2. /\ run' \in [Run -> RunStatus]
        /\ \A c \in Run : run[c] # "absent" => run'[c] # "absent"
    BY <2>1, SetRunStep DEF RunStatus, Terminal
  <2>3. task' \in [Run -> [1..MaxTasks -> TaskStatus]]
    BY <2>1, SetTaskStep DEF TaskStatus
  <2>4. QED BY <2>2, <2>3 DEF DataOK, RowsOK, RowsKept, SettleCompleted, env
<1> DEFINE f == Concluded(at[p], "tell", "completed")
<1>2. at[p] \in Frame /\ at[p].pc # "idle" /\ at[p].job.run \in Run
  BY DEF FramesOK, SettleCompleted, HoldsTask, Proc, Fits, Envelope
<1>3. Step(p, f)
  BY DEF SettleCompleted, Conclude, Goto, AfterCompletion
<1>4. f \in Frame /\ f.job = at[p].job /\ f.pc = "tell" /\ f.outcome = "completed"
  BY <1>2, ConcludeFrame DEF Pc, Outcome, Told
<1> HIDE DEF f
<1>5. Fits(p, f, row')
  BY <1>2, <1>4, BusyFits DEF WorkerPc, Told
<1>6. QED BY <1>1, <1>3, <1>5, FrameStep DEF Proc

(* FailRun keeps the invariant. *)
LEMMA FailRunStep ==
  ASSUME TypeInv, NEW p \in Worker, FailRun(p) PROVE TypeInv'
<1> USE DEF TypeInv
<1>1. DataOK' /\ RowsKept /\ RowsOK'
  <2>1. SetRun(at[p].job.run, "failed") /\ SetTask(p, "failure")
    BY DEF FailRun
  <2>2. /\ run' \in [Run -> RunStatus]
        /\ \A c \in Run : run[c] # "absent" => run'[c] # "absent"
    BY <2>1, SetRunStep DEF RunStatus, Terminal
  <2>3. task' \in [Run -> [1..MaxTasks -> TaskStatus]]
    BY <2>1, SetTaskStep DEF TaskStatus
  <2>4. QED BY <2>2, <2>3 DEF DataOK, RowsOK, RowsKept, FailRun, env
<1> DEFINE f == Concluded(at[p], "tell", "failed")
<1>2. at[p] \in Frame /\ at[p].pc # "idle" /\ at[p].job.run \in Run
  BY DEF FramesOK, FailRun, HoldsTask, Proc, Fits, Envelope
<1>3. Step(p, f)
  BY DEF FailRun, Conclude, Goto
<1>4. f \in Frame /\ f.job = at[p].job /\ f.pc = "tell" /\ f.outcome = "failed"
  BY <1>2, ConcludeFrame DEF Pc, Outcome, Told
<1> HIDE DEF f
<1>5. Fits(p, f, row')
  BY <1>2, <1>4, BusyFits DEF WorkerPc, Told
<1>6. QED BY <1>1, <1>3, <1>5, FrameStep DEF Proc

(* Flush keeps the invariant. *)
LEMMA FlushStep ==
  ASSUME TypeInv, NEW p \in Worker, Flush(p) PROVE TypeInv'
<1> USE DEF TypeInv
<1>1. DataOK' /\ RowsKept /\ RowsOK'
  BY DEF DataOK, RowsOK, RowsKept, Flush, env, Shown, MsgStatus
<1>2. QED BY <1>1, IdleFits, FrameStep DEF Flush, Return, Proc

-----------------------------------------------------------------------------
(* Reporting to the parent *)

(* AfterTell keeps the invariant. *)
LEMMA AfterTellStep ==
  ASSUME FramesOK, RowsKept, NEW p \in Proc, at[p].pc \in {"tell", "wake"}, AfterTell(p)
  PROVE  FramesOK'
<1>1. at[p] \in Frame
  BY DEF FramesOK
<1> DEFINE f == At(at[p], "flush")
           g == Concluded(at[p], "expire", "none")
<1>2. f \in Frame /\ f.job = at[p].job /\ f.pc = "flush"
  BY <1>1, AtFrame DEF Pc
<1>3. g \in Frame /\ g.job = at[p].job /\ g.pc = "expire"
  BY <1>1, ConcludeFrame DEF Pc, Outcome
<1>4. \/ p \in Worker /\ Step(p, f)
      \/ Step(p, IdleFrame)
      \/ p \in Client /\ Step(p, g)
  BY DEF AfterTell, Goto, Return, Conclude, Proc
<1> HIDE DEF f, g
<1>5. CASE p \in Worker /\ Step(p, f)
  BY <1>2, <1>5, SameJobFits, FrameStep
<1>6. CASE Step(p, IdleFrame)
  BY <1>6, IdleFits, FrameStep
<1>7. CASE p \in Client /\ Step(p, g)
  BY <1>3, <1>7, SameJobFits, FrameStep
<1>8. QED BY <1>4, <1>5, <1>6, <1>7

(* TellRead keeps the invariant. *)
LEMMA TellReadStep ==
  ASSUME TypeInv, NEW p \in Proc, TellRead(p) PROVE TypeInv'
<1> USE DEF TypeInv
<1> DEFINE c == at[p].job.run
<1>1. at[p] \in Frame /\ at[p].pc = "tell"
  BY DEF FramesOK, TellRead
<1>2. DataOK' /\ RowsKept /\ RowsOK'
  BY DEF DataOK, RowsOK, RowsKept, TellRead, RowStatus, Unreported, env
<1>3. CASE AfterTell(p)
  BY <1>1, <1>2, <1>3, AfterTellStep
<1>4. CASE Unreported(c) /\ Goto(p, "tellw") /\ UNCHANGED row
  <2> DEFINE f == At(at[p], "tellw")
  <2>1. f \in Frame /\ f.job = at[p].job /\ f.pc = "tellw" /\ f.outcome = at[p].outcome
    BY <1>1, AtFrame DEF Pc
  <2>2. row'[c] # "none"
    BY <1>4 DEF Unreported
  <2> HIDE DEF f
  <2>3. Fits(p, f, row')
    BY <1>1, <2>1, <2>2, SameJobFits
  <2>4. QED BY <1>2, <1>4, <2>3, FrameStep DEF Goto, f
<1>5. QED BY <1>3, <1>4 DEF TellRead

(* TellWrite keeps the invariant. *)
LEMMA TellWriteStep ==
  ASSUME TypeInv, NEW p \in Proc, TellWrite(p) PROVE TypeInv'
<1> USE DEF TypeInv
<1> DEFINE c == at[p].job.run
           f == At(at[p], "wake")
<1>1. /\ at[p] \in Frame /\ at[p].pc = "tellw" /\ at[p].outcome \in Told
      /\ row[c] # "none"
  BY DEF FramesOK, TellWrite, Fits
<1>2. c \in Run
  BY <1>1 DEF FramesOK, Fits, Proc, Envelope
<1>3. DataOK' /\ RowsKept /\ RowsOK'
  <2>1. row' = [row EXCEPT ![c] = "resumed"] /\ result' = [result EXCEPT ![c] = at[p].outcome]
    BY DEF TellWrite, RowOnceReported, Reported
  <2>2. RowsKept /\ RowsOK'
    BY <1>1, <1>2, <2>1 DEF DataOK, RowsOK, RowsKept, TellWrite
  <2>3. row' \in [Run -> RowStatus] /\ result' \in [Run -> Told \cup {"none"}]
    BY <1>1, <1>2, <2>1 DEF DataOK, RowStatus
  <2>4. DataOK'
    BY <2>3 DEF DataOK, TellWrite, env
  <2>5. QED BY <2>2, <2>4
<1>4. f \in Frame /\ f.job = at[p].job /\ f.pc = "wake" /\ f.outcome = at[p].outcome
  BY <1>1, AtFrame DEF Pc
<1>5. row'[c] # "none"
  BY <1>1, <1>2, <1>3 DEF RowsKept
<1> HIDE DEF f
<1>6. Fits(p, f, row')
  BY <1>1, <1>4, <1>5, SameJobFits
<1>7. QED BY <1>3, <1>6, FrameStep DEF TellWrite, Goto, f

(* Whom a process about to send the result wakes. *)
LEMMA WakesSomeone ==
  ASSUME TypeInv, NEW p \in Proc, at[p].pc = "wake"
  PROVE  at[p].job.run \in Run /\ parent[at[p].job.run] \in Run
BY DEF TypeInv, RowsOK, FramesOK, Fits, Proc, Envelope

(* WakeParent keeps the invariant. *)
LEMMA WakeParentStep ==
  ASSUME TypeInv, NEW p \in Proc, WakeParent(p) PROVE TypeInv'
<1> USE DEF TypeInv
<1> DEFINE r == parent[at[p].job.run]
<1>1. at[p].pc = "wake" /\ r \in Run /\ EnqueueResume(r, "child", TRUE)
  BY WakesSomeone DEF WakeParent
<1>2. DataOK' /\ RowsKept /\ RowsOK'
  <2>1. /\ last' \in [Run -> 0..MaxTasks]
        /\ task' \in [Run -> [1..MaxTasks -> TaskStatus]]
        /\ broker' \subseteq Envelope
    BY <1>1, EnqueueStep DEF EnvelopeKind
  <2>2. QED BY <2>1 DEF DataOK, RowsOK, RowsKept, WakeParent, env
<1>3. QED BY <1>1, <1>2, AfterTellStep DEF WakeParent

-----------------------------------------------------------------------------
(* Cancellation and expiry *)

(* What a cancellation has to report to a parent. *)
LEMMA ParentNotifyOutcome ==
  ASSUME NEW r, NEW told \in Told
  PROVE  ParentNotify(r, told) \in Told \cup {"unbound"} /\ ParentNotify(r, told) \in Outcome
BY DEF ParentNotify, Outcome

(* The frame in which a cancellation goes through the children. *)
LEMMA CascadeFits ==
  ASSUME NEW p \in Client, NEW rw, NEW r \in Run, NEW kind \in {"cancel", "timeout"},
         NEW told \in Told, NEW due \in SUBSET Run
  PROVE  Fits(p, FrameFor("cascade", [run |-> r, n |-> 0, kind |-> kind],
                          ParentNotify(r, told), Kids(r), due), rw)
<1> DEFINE job == [run |-> r, n |-> 0, kind |-> kind]
<1>1. job \in Job /\ job.run \in Run
  BY DEF Job
<1>2. Kids(r) \in SUBSET Run
  BY DEF Kids
<1> HIDE DEF job
<1>3. Fits(p, FrameFor("cascade", job, ParentNotify(r, told), Kids(r), due), rw)
  BY <1>1, <1>2, ParentNotifyOutcome, FrameForFits DEF Proc
<1>4. QED BY <1>3 DEF job

(* Cancel keeps the invariant. *)
LEMMA CancelActionStep ==
  ASSUME TypeInv, NEW p \in Client, Cancel(p) PROVE TypeInv'
<1> USE DEF TypeInv
<1>1. PICK r \in Run :
         /\ CancelTxn(r)
         /\ Spend(IF parent[r] = NoRun THEN "cancel" ELSE "cancelChild")
         /\ Step(p, FrameFor("cascade", [run |-> r, n |-> 0, kind |-> "cancel"],
                             ParentNotify(r, "cancelled"), Kids(r), {}))
  BY DEF Cancel
<1>2. DataOK' /\ RowsKept /\ RowsOK'
  <2>1. left' \in Nat /\ seen' \subseteq FaultKind /\ roots' \in Nat /\ mode' \in Modes
    BY <1>1, SpendStep
  <2>2. /\ run' \in [Run -> RunStatus] /\ row' \in [Run -> RowStatus] /\ RowsKept
        /\ \A d \in Run : /\ run[d] # "absent" => run'[d] # "absent"
                          /\ row'[d] # "none" => row[d] # "none"
    BY <1>1, CancelStep
  <2>3. UNCHANGED <<parent, depth, result, cp, hitl, task, last, msg, broker>>
    BY DEF Cancel
  <2>4. RowsOK'
    <3>1. ASSUME NEW d \in Run, row'[d] # "none" PROVE parent'[d] \in Run /\ run'[d] # "absent"
      <4>1. row[d] # "none" /\ (run[d] # "absent" => run'[d] # "absent") /\ parent' = parent
        BY <3>1, <2>2, <2>3
      <4>2. QED BY <4>1 DEF RowsOK
    <3>2. QED BY <3>1 DEF RowsOK
  <2>5. DataOK'
    BY <2>1, <2>2, <2>3 DEF DataOK
  <2>6. QED BY <2>2, <2>4, <2>5
<1>3. Fits(p, FrameFor("cascade", [run |-> r, n |-> 0, kind |-> "cancel"],
                       ParentNotify(r, "cancelled"), Kids(r), {}), row')
  BY CascadeFits DEF Told
<1>4. QED BY <1>1, <1>2, <1>3, FrameStep DEF Proc

(* ScanTimeouts keeps the invariant. *)
LEMMA ScanTimeoutsStep ==
  ASSUME TypeInv, NEW p \in Client, ScanTimeouts(p) PROVE TypeInv'
<1> USE DEF TypeInv
<1>1. PICK due \in SUBSET Run : Step(p, FrameFor("expire", NoJob, "none", {}, due))
  BY DEF ScanTimeouts
<1>2. DataOK' /\ RowsKept /\ RowsOK'
  BY SpendStep DEF DataOK, RowsOK, RowsKept, ScanTimeouts, rows
<1>3. NoJob \in Job /\ "none" \in Outcome
  BY DEF NoJob, Job, Outcome
<1>4. Fits(p, FrameFor("expire", NoJob, "none", {}, due), row')
  BY <1>3, FrameForFits DEF Proc
<1>5. QED BY <1>1, <1>2, <1>4, FrameStep DEF Proc

(* TimeOutChild keeps the invariant. *)
LEMMA TimeOutChildStep ==
  ASSUME TypeInv, NEW p \in Client, TimeOutChild(p) PROVE TypeInv'
<1> USE DEF TypeInv
<1>1. at[p].due \in SUBSET Run
  BY DEF FramesOK, Frame, Proc
<1>2. PICK c \in at[p].due :
         /\ CancelTxn(c)
         /\ Step(p, FrameFor("cascade", [run |-> c, n |-> 0, kind |-> "timeout"],
                             ParentNotify(c, "timeout"), Kids(c), at[p].due \ {c}))
  BY DEF TimeOutChild
<1>3. c \in Run /\ at[p].due \ {c} \in SUBSET Run
  BY <1>1
<1>4. DataOK' /\ RowsKept /\ RowsOK'
  <2>1. /\ run' \in [Run -> RunStatus] /\ row' \in [Run -> RowStatus] /\ RowsKept
        /\ \A d \in Run : /\ run[d] # "absent" => run'[d] # "absent"
                          /\ row'[d] # "none" => row[d] # "none"
    BY <1>2, <1>3, CancelStep
  <2>2. UNCHANGED <<parent, depth, result, cp, hitl, task, last, msg, broker>> /\ UNCHANGED env
    BY DEF TimeOutChild
  <2>3. RowsOK'
    <3>1. ASSUME NEW d \in Run, row'[d] # "none" PROVE parent'[d] \in Run /\ run'[d] # "absent"
      <4>1. row[d] # "none" /\ (run[d] # "absent" => run'[d] # "absent") /\ parent' = parent
        BY <3>1, <2>1, <2>2
      <4>2. QED BY <4>1 DEF RowsOK
    <3>2. QED BY <3>1 DEF RowsOK
  <2>4. DataOK'
    BY <2>1, <2>2 DEF DataOK, env
  <2>5. QED BY <2>1, <2>3, <2>4
<1>5. Fits(p, FrameFor("cascade", [run |-> c, n |-> 0, kind |-> "timeout"],
                       ParentNotify(c, "timeout"), Kids(c), at[p].due \ {c}), row')
  BY <1>3, CascadeFits DEF Told
<1>6. QED BY <1>2, <1>4, <1>5, FrameStep DEF Proc

(* Cascade keeps the invariant. *)
LEMMA CascadeStep ==
  ASSUME TypeInv, NEW p \in Client, Cascade(p) PROVE TypeInv'
<1> USE DEF TypeInv
<1>1. at[p] \in Frame /\ at[p].todo \in SUBSET Run /\ at[p].pc = "cascade"
  BY DEF FramesOK, Frame, Proc, Cascade
<1>2. PICK c \in at[p].todo :
         /\ CancelTxn(c)
         /\ Step(p, Carrying(at[p], "cascade", (at[p].todo \ {c}) \cup Kids(c)))
  BY DEF Cascade
<1> DEFINE todo == (at[p].todo \ {c}) \cup Kids(c)
           f == Carrying(at[p], "cascade", todo)
<1>3. c \in Run /\ todo \in SUBSET Run
  BY <1>1 DEF Kids
<1>4. DataOK' /\ RowsKept /\ RowsOK'
  <2>1. /\ run' \in [Run -> RunStatus] /\ row' \in [Run -> RowStatus] /\ RowsKept
        /\ \A d \in Run : /\ run[d] # "absent" => run'[d] # "absent"
                          /\ row'[d] # "none" => row[d] # "none"
    BY <1>2, <1>3, CancelStep
  <2>2. UNCHANGED <<parent, depth, result, cp, hitl, task, last, msg, broker>> /\ UNCHANGED env
    BY DEF Cascade
  <2>3. RowsOK'
    <3>1. ASSUME NEW d \in Run, row'[d] # "none" PROVE parent'[d] \in Run /\ run'[d] # "absent"
      <4>1. row[d] # "none" /\ (run[d] # "absent" => run'[d] # "absent") /\ parent' = parent
        BY <3>1, <2>1, <2>2
      <4>2. QED BY <4>1 DEF RowsOK
    <3>2. QED BY <3>1 DEF RowsOK
  <2>4. DataOK'
    BY <2>1, <2>2 DEF DataOK, env
  <2>5. QED BY <2>1, <2>3, <2>4
<1>5. Step(p, f)
  BY <1>2
<1> HIDE DEF todo
<1>6. f \in Frame /\ f.job = at[p].job /\ f.pc = "cascade" /\ f.outcome = at[p].outcome
  <2>1. "cascade" \in Pc
    BY DEF Pc
  <2>2. QED BY <1>1, <1>3, <2>1, CarryFrame
<1> HIDE DEF f
<1>7. Fits(p, at[p], row)
  BY DEF FramesOK, Proc
<1>8. Fits(p, f, row')
  BY <1>1, <1>6, <1>7, ProcAssumption DEF Fits
<1>9. QED BY <1>4, <1>5, <1>8, FrameStep DEF Proc

(* CascadeDone keeps the invariant. *)
LEMMA CascadeDoneStep ==
  ASSUME TypeInv, NEW p \in Client, CascadeDone(p) PROVE TypeInv'
<1> USE DEF TypeInv
<1>1. at[p] \in Frame /\ at[p].pc = "cascade" /\ Fits(p, at[p], row)
  BY DEF FramesOK, Proc, CascadeDone
<1>2. DataOK' /\ RowsKept /\ RowsOK'
  BY DEF DataOK, RowsOK, RowsKept, CascadeDone, rows, env
<1>3. CASE Return(p)
  BY <1>2, <1>3, IdleFits, FrameStep DEF Return, Proc
<1>4. CASE at[p].outcome # "unbound" /\ Goto(p, "tell")
  <2> DEFINE f == At(at[p], "tell")
  <2>1. f \in Frame /\ f.job = at[p].job /\ f.pc = "tell" /\ f.outcome = at[p].outcome
    BY <1>1, AtFrame DEF Pc
  <2> HIDE DEF f
  <2>2. Fits(p, f, row')
    BY <1>1, <1>4, <2>1, ProcAssumption DEF Fits, ClientPc
  <2>3. QED BY <1>2, <1>4, <2>2, FrameStep DEF Proc, Goto, f
<1>5. QED BY <1>3, <1>4 DEF CascadeDone

(* ExpireHitl keeps the invariant. *)
LEMMA ExpireHitlStep ==
  ASSUME TypeInv, ExpireHitl PROVE TypeInv'
<1> USE DEF TypeInv
<1>1. PICK D \in SUBSET (Run \X (1..MaxHitl)) :
         /\ hitl' = [r \in Run |-> [k \in 1..MaxHitl |->
                       IF <<r, k>> \in D THEN [hitl[r][k] EXCEPT !.status = "expired"]
                       ELSE hitl[r][k]]]
         /\ run' = [r \in Run |-> IF \E k \in 1..MaxHitl : <<r, k>> \in D
                                  THEN RunOnceExpired(run[r]) ELSE run[r]]
  BY DEF ExpireHitl
<1>2. hitl' \in [Run -> [1..MaxHitl -> HitlRow]]
  <2>1. \A h \in HitlRow : [h EXCEPT !.status = "expired"] \in HitlRow
    BY DEF HitlRow, HitlStatus
  <2>2. \A r \in Run : hitl[r] \in [1..MaxHitl -> HitlRow]
    BY DEF DataOK
  <2>3. QED BY <1>1, <2>1, <2>2
<1>3. /\ run' \in [Run -> RunStatus]
      /\ \A c \in Run : run[c] # "absent" => run'[c] # "absent"
  BY <1>1 DEF DataOK, RunOnceExpired, RunStatus, Terminal
<1>4. DataOK' /\ RowsKept /\ RowsOK'
  BY <1>2, <1>3, SpendStep DEF DataOK, RowsOK, RowsKept, ExpireHitl
<1>5. FramesOK'
  BY DEF FramesOK, ExpireHitl
<1>6. QED BY <1>4, <1>5

-----------------------------------------------------------------------------
(* Failures *)

(* CrashWorker keeps the invariant. *)
LEMMA CrashWorkerStep ==
  ASSUME TypeInv, NEW p \in Worker, CrashWorker(p) PROVE TypeInv'
<1> USE DEF TypeInv
<1>1. DataOK' /\ RowsKept /\ RowsOK'
  BY SpendStep DEF DataOK, RowsOK, RowsKept, CrashWorker, rows, env, Redelivered, FramesOK, Fits, Proc
<1>2. QED BY <1>1, IdleFits, FrameStep DEF CrashWorker, Return, Proc

(* KillAtTimeLimit keeps the invariant. *)
LEMMA KillAtTimeLimitStep ==
  ASSUME TypeInv, NEW p \in Worker, KillAtTimeLimit(p) PROVE TypeInv'
<1> USE DEF TypeInv
<1>1. DataOK' /\ RowsKept /\ RowsOK'
  BY SpendStep DEF DataOK, RowsOK, RowsKept, KillAtTimeLimit, rows, env
<1>2. QED BY <1>1, IdleFits, FrameStep DEF KillAtTimeLimit, Return, Proc

(* CrashClient keeps the invariant. *)
LEMMA CrashClientStep ==
  ASSUME TypeInv, NEW p \in Client, CrashClient(p) PROVE TypeInv'
<1> USE DEF TypeInv
<1>1. DataOK' /\ RowsKept /\ RowsOK'
  BY SpendStep DEF DataOK, RowsOK, RowsKept, CrashClient, rows, env
<1>2. QED BY <1>1, IdleFits, FrameStep DEF CrashClient, Return, Proc

(* CrashEager keeps the invariant. *)
LEMMA CrashEagerStep ==
  ASSUME TypeInv, CrashEager PROVE TypeInv'
<1> USE DEF TypeInv
<1>1. DataOK' /\ RowsKept /\ RowsOK'
  BY SpendStep DEF DataOK, RowsOK, RowsKept, CrashEager, rows
<1>2. at' = [p \in Proc |-> IdleFrame] /\ row' = row
  BY DEF CrashEager, rows
<1>3. \A p \in Proc : Fits(p, IdleFrame, row')
  BY IdleFits
<1>4. \A p \in Proc : IdleFrame \in Frame
  BY <1>3 DEF Fits
<1>5. FramesOK'
  BY <1>2, <1>3, <1>4 DEF FramesOK
<1>6. QED BY <1>1, <1>5

(* SendFails keeps the invariant. *)
LEMMA SendFailsStep ==
  ASSUME TypeInv, NEW p \in Proc, SendFails(p) PROVE TypeInv'
<1> USE DEF TypeInv
<1>1. at[p] \in Frame
  BY DEF FramesOK
<1>2. left' \in Nat /\ seen' \subseteq FaultKind /\ roots' \in Nat /\ mode' \in Modes
  BY SpendStep DEF SendFails
<1>3. ASSUME UNCHANGED <<last, task, broker>> PROVE DataOK' /\ RowsKept /\ RowsOK'
  BY <1>2, <1>3 DEF DataOK, RowsOK, RowsKept, SendFails
<1>4. ASSUME NEW r \in Run, NEW kind \in EnvelopeKind, EnqueueResume(r, kind, FALSE)
      PROVE DataOK' /\ RowsKept /\ RowsOK'
  <2>1. /\ last' \in [Run -> 0..MaxTasks]
        /\ task' \in [Run -> [1..MaxTasks -> TaskStatus]]
        /\ broker' \subseteq Envelope
    BY <1>4, EnqueueStep
  <2>2. QED BY <1>2, <2>1 DEF DataOK, RowsOK, RowsKept, SendFails
<1>5. ASSUME RowsKept, Return(p) PROVE FramesOK'
  BY <1>5, IdleFits, FrameStep DEF Return
<1>6. CASE at[p].pc = "starting" /\ Return(p) /\ UNCHANGED <<last, task, broker>>
  BY <1>3, <1>5, <1>6
<1>7. CASE /\ at[p].pc = "spawned" /\ Step(p, Carrying(at[p], "fail", {}))
           /\ UNCHANGED <<last, task, broker>>
  <2> DEFINE f == Carrying(at[p], "fail", {})
  <2>1. f \in Frame /\ f.job = at[p].job /\ f.pc = "fail"
    BY <1>1, CarryFrame DEF Pc
  <2>2. p \in Worker
    BY <1>7 DEF FramesOK, Fits, Proc, ClientPc
  <2> HIDE DEF f
  <2>3. Fits(p, f, row')
    BY <1>7, <2>1, <2>2, BusyFits DEF WorkerPc
  <2>4. QED BY <1>3, <1>7, <2>3, FrameStep DEF f
<1>8. CASE /\ at[p].pc = "resuming" /\ Return(p)
           /\ EnqueueResume(at[p].job.run, "hitl", FALSE)
  <2>1. at[p].job.run \in Run /\ "hitl" \in EnvelopeKind
    BY <1>8 DEF FramesOK, Fits, Proc, WorkerPc, EnvelopeKind
  <2>2. QED BY <1>4, <1>5, <1>8, <2>1
<1>9. CASE /\ at[p].pc = "wake"
           /\ EnqueueResume(parent[at[p].job.run], "child", FALSE)
           /\ Return(p) \/ (p \in Worker /\ Goto(p, "fail"))
  <2>1. DataOK' /\ RowsKept /\ RowsOK'
    BY <1>4, <1>9, WakesSomeone DEF EnvelopeKind
  <2>2. CASE Return(p)
    BY <1>5, <2>1, <2>2
  <2>3. CASE p \in Worker /\ Goto(p, "fail")
    <3> DEFINE f == At(at[p], "fail")
    <3>1. f \in Frame /\ f.job = at[p].job /\ f.pc = "fail"
      BY <1>1, AtFrame DEF Pc
    <3> HIDE DEF f
    <3>2. Fits(p, f, row')
      BY <1>9, <2>3, <3>1, SameJobFits
    <3>3. QED BY <2>1, <2>3, <3>2, FrameStep DEF Goto, f
  <2>4. QED BY <1>9, <2>2, <2>3
<1>10. CASE at[p].pc = "wake"
  <2>1. /\ EnqueueResume(parent[at[p].job.run], "child", FALSE)
        /\ IF p \in Worker /\ at[p].outcome = "completed" THEN Goto(p, "fail")
           ELSE Return(p)
    BY <1>10 DEF SendFails
  <2>2. Return(p) \/ (p \in Worker /\ Goto(p, "fail"))
    <3>1. CASE p \in Worker /\ at[p].outcome = "completed"
      BY <2>1, <3>1
    <3>2. CASE ~(p \in Worker /\ at[p].outcome = "completed")
      BY <2>1, <3>2
    <3>3. QED BY <3>1, <3>2
  <2>3. QED BY <1>9, <1>10, <2>1, <2>2
<1>11. QED BY <1>6, <1>7, <1>8, <1>10 DEF SendFails

(* FlushFails keeps the invariant. *)
LEMMA FlushFailsStep ==
  ASSUME TypeInv, NEW p \in Worker, FlushFails(p) PROVE TypeInv'
<1> USE DEF TypeInv
<1>1. DataOK' /\ RowsKept /\ RowsOK'
  BY SpendStep DEF DataOK, RowsOK, RowsKept, FlushFails, rows, env
<1> DEFINE f == Concluded(at[p], "fail", "none")
<1>2. at[p] \in Frame /\ at[p].pc # "idle" /\ at[p].job.run \in Run
  BY DEF FramesOK, FlushFails, HoldsTask, Proc, Fits, Envelope
<1>3. Step(p, f)
  BY DEF FlushFails, Conclude, Goto
<1>4. f \in Frame /\ f.job = at[p].job /\ f.pc = "fail" /\ f.outcome = "none"
  BY <1>2, ConcludeFrame DEF Pc, Outcome, Told
<1> HIDE DEF f
<1>5. Fits(p, f, row')
  BY <1>2, <1>4, BusyFits DEF WorkerPc, Told
<1>6. QED BY <1>1, <1>3, <1>5, FrameStep DEF Proc

-----------------------------------------------------------------------------
(* The invariant *)

(* The database, the queue and the processes start empty. *)
LEMMA InitTypeInv == Init => TypeInv
<1> SUFFICES ASSUME Init PROVE TypeInv
  OBVIOUS
<1>1. DataOK
  <2>1. 1 \in 1..Len(Scripts)
    BY ScriptAssumption
  <2>2. [status |-> "absent", onReject |-> "fail"] \in HitlRow
    BY DEF HitlRow, HitlStatus
  <2>3. QED BY <2>1, <2>2, BoundAssumption
      DEF Init, DataOK, RunStatus, RowStatus, TaskStatus, MsgStatus
<1>2. RowsOK
  BY DEF Init, RowsOK
<1>3. FramesOK
  <2>1. \A p \in Proc : at[p] = IdleFrame /\ Fits(p, IdleFrame, row)
    BY IdleFits DEF Init
  <2>2. at \in [Proc -> Frame]
    BY <2>1 DEF Init, Fits
  <2>3. QED BY <2>1, <2>2 DEF FramesOK
<1>4. QED BY <1>1, <1>2, <1>3 DEF TypeInv

(* Every step of every handler keeps it. *)
LEMMA NextTypeInv == TypeInv /\ [Next]_vars => TypeInv'
<1> SUFFICES ASSUME TypeInv, [Next]_vars PROVE TypeInv'
  OBVIOUS
<1>1. ASSUME NEW p \in Worker, WorkerStep(p) PROVE TypeInv'
  BY <1>1, ClaimStep, RunGraphStep, GraphRaisesStep, SpawnChildStep,
     SpawnRefusedStep, InlineResumeStep, DispatchChildStep, MarkReadStep,
     MarkWriteStep, SettleInterruptStep, SettleCompletedStep, FailRunStep,
     FlushStep DEF WorkerStep
<1>2. ASSUME NEW p \in Client, ClientStep(p) \/ Call(p) PROVE TypeInv'
  BY <1>2, DispatchStartStep, DecideWriteStep, EnqueueAnswerStep,
     TimeOutChildStep, CascadeStep, CascadeDoneStep, SubmitStep,
     DecideReadStep, CancelActionStep, ScanTimeoutsStep DEF ClientStep, Call
<1>3. ASSUME NEW p \in Proc, TellStep(p) PROVE TypeInv'
  BY <1>3, TellReadStep, TellWriteStep, WakeParentStep DEF TellStep
<1>4. ASSUME Fault PROVE TypeInv'
  BY <1>4, CrashWorkerStep, KillAtTimeLimitStep, FlushFailsStep,
     CrashClientStep, SendFailsStep, CrashEagerStep, ExpireHitlStep DEF Fault
<1>5. ASSUME UNCHANGED vars PROVE TypeInv'
  <2>1. DataOK'
    BY <1>5 DEF vars, TypeInv, DataOK
  <2>2. RowsOK'
    BY <1>5 DEF vars, TypeInv, RowsOK
  <2>3. at' = at /\ row' = row
    BY <1>5 DEF vars
  <2>4. FramesOK'
    BY <2>3 DEF TypeInv, FramesOK
  <2>5. QED BY <2>1, <2>2, <2>4 DEF TypeInv
<1>6. QED BY <1>1, <1>2, <1>3, <1>4, <1>5 DEF Next

(* The strengthened invariant holds throughout. *)
LEMMA TypeInvariant == Spec => []TypeInv
BY InitTypeInv, NextTypeInv, PTL DEF Spec

(* Every table, the queue and every handler's locals stay in their types:  *)
(* in particular what reaches resume_payload is always one of the four     *)
(* results a parent's graph can be resumed with.                           *)
THEOREM TypeCorrect == Spec => []TypeOK
<1>1. TypeInv => TypeOK
  BY DEF TypeInv, FramesOK, TypeOK
<1>2. QED BY <1>1, TypeInvariant, PTL

-----------------------------------------------------------------------------
(* Running *)

(* Where a worker has claimed its run and not yet left it another status.  *)
(* RunningHasExecutor also counts workers that are reporting or waking,    *)
(* and these go to "flush" without writing the status: the property is not *)
(* inductive, this is.                                                     *)
Engaged == {"graph", "spawn", "inline", "settle", "fail", "spawned", "mark", "markw"}

EngagedOn(p, r) == p \in Worker /\ at[p].pc \in Engaged /\ at[p].job.run = r

Reliable == EnvelopesSurvive /\ "timeLimit" \notin seen

HasExecutor(r) == Queued(r) \/ \E p \in Worker : EngagedOn(p, r)

ExecutorInv == Reliable => \A r \in Run : run[r] = "running" => HasExecutor(r)

(* A process moves, sends at most, and makes no run running: whoever was   *)
(* engaged still is, or has given the run another status.                  *)
LEMMA ExecutorMove ==
  ASSUME TypeInv, ExecutorInv, NEW p \in Proc, NEW f, Step(p, f),
         Reliable' => Reliable,
         broker \subseteq broker',
         \A r \in Run : run'[r] = "running" => run[r] = "running",
         \A r \in Run : EngagedOn(p, r) =>
            run'[r] # "running" \/ (f.pc \in Engaged /\ f.job.run = r)
  PROVE  ExecutorInv'
<1> SUFFICES ASSUME Reliable', NEW r \in Run, run'[r] = "running"
             PROVE  HasExecutor(r)'
  BY DEF ExecutorInv
<1>1. HasExecutor(r)
  BY DEF ExecutorInv
<1>2. CASE Queued(r)
  BY <1>2 DEF Queued, HasExecutor
<1>3. ASSUME NEW q \in Worker, EngagedOn(q, r) PROVE HasExecutor(r)'
  <2>1. at'[q] = IF q = p THEN f ELSE at[q]
    BY DEF TypeInv, FramesOK, Step, Proc
  <2>2. CASE q = p
    BY <1>3, <2>1, <2>2 DEF EngagedOn, HasExecutor
  <2>3. CASE q # p
    BY <1>3, <2>1, <2>3 DEF EngagedOn, HasExecutor
  <2>4. QED BY <2>2, <2>3
<1>4. QED BY <1>1, <1>2, <1>3 DEF HasExecutor

(* What the fault budget can do to the assumption. *)
LEMMA ReliableKept ==
  (UNCHANGED env \/ (\E kind : Spend(kind)) \/ (UNCHANGED <<mode, left, seen>>)) =>
    (Reliable' => Reliable)
BY DEF Reliable, EnvelopesSurvive, env, Spend

(* Giving a run another status than running. *)
LEMMA OtherStatus ==
  ASSUME DataOK, NEW r \in Run, NEW s \in RunStatus \ {"running"}, SetRun(r, s)
  PROVE  /\ run'[r] # "running"
         /\ \A c \in Run : run'[c] = "running" => run[c] = "running"
BY DEF DataOK, SetRun

(* A cancellation makes no run running. *)
LEMMA CancelledStatus ==
  ASSUME DataOK, NEW r \in Run, CancelTxn(r)
  PROVE  \A c \in Run : run'[c] = "running" => run[c] = "running"
BY DEF DataOK, CancelTxn, Terminal

(* The claim itself: the run it makes running has a worker, and the runs of *)
(* the other envelopes keep theirs.                                        *)
LEMMA ClaimKeepsExecutor ==
  ASSUME TypeInv, ExecutorInv, NEW p \in Worker, Claim(p) PROVE ExecutorInv'
<1>1. PICK e \in broker :
         /\ broker' = broker \ {e}
         /\ SetRun(e.run, "running")
         /\ Step(p, [FrameFor("graph", e, "none", {}, {}) EXCEPT !.rec = RecordOf(e.run)])
  BY DEF Claim
<1> DEFINE f == [FrameFor("graph", e, "none", {}, {}) EXCEPT !.rec = RecordOf(e.run)]
<1>2. f.pc = "graph" /\ f.job = e
  BY DEF FrameFor
<1> HIDE DEF f
<1>3. \A q \in Worker : at'[q] = IF q = p THEN f ELSE at[q]
  BY <1>1 DEF TypeInv, FramesOK, Step, Proc, f
<1> SUFFICES ASSUME Reliable', NEW r \in Run, run'[r] = "running"
             PROVE  HasExecutor(r)'
  BY DEF ExecutorInv
<1>4. CASE r = e.run
  BY <1>2, <1>3, <1>4 DEF HasExecutor, EngagedOn, Engaged
<1>5. CASE r # e.run
  <2>1. run[r] = "running" /\ Reliable
    BY <1>1, <1>5, ReliableKept DEF TypeInv, DataOK, SetRun, Claim
  <2>2. CASE Queued(r)
    BY <1>1, <1>5, <2>2 DEF Queued, HasExecutor
  <2>3. ASSUME NEW q \in Worker, EngagedOn(q, r) PROVE HasExecutor(r)'
    BY <1>3, <2>3 DEF EngagedOn, Engaged, HasExecutor, Claim, HoldsTask
  <2>4. QED BY <2>1, <2>2, <2>3 DEF ExecutorInv, HasExecutor
<1>6. QED BY <1>4, <1>5

(* The other steps of a worker: each either stays engaged or writes the    *)
(* status of the run it was engaged on.                                    *)
LEMMA WorkerKeepsExecutor ==
  ASSUME TypeInv, ExecutorInv, NEW p \in Worker, WorkerStep(p) PROVE ExecutorInv'
<1> DEFINE r == at[p].job.run
<1>1. /\ DataOK /\ p \in Proc /\ at[p] \in Frame
      /\ at[p].pc # "idle" => r \in Run
  BY DEF TypeInv, FramesOK, Fits, Proc, Envelope
<1>2. CASE Claim(p)
  BY <1>2, ClaimKeepsExecutor
<1>3. ASSUME NEW f, Step(p, f), UNCHANGED <<run, broker>>, UNCHANGED env,
             at[p].pc \in Engaged => f.pc \in Engaged /\ f.job = at[p].job
      PROVE  ExecutorInv'
  BY <1>1, <1>3, ExecutorMove, ReliableKept DEF EngagedOn
<1>4. ASSUME NEW f, Step(p, f), broker' = broker, UNCHANGED env, at[p].pc # "idle",
             NEW s \in RunStatus \ {"running"}, SetRun(r, s)
      PROVE  ExecutorInv'
  BY <1>1, <1>4, OtherStatus, ExecutorMove, ReliableKept DEF EngagedOn
<1>5. ASSUME NEW l \in {"fail", "inline", "markw"}, Goto(p, l),
             UNCHANGED <<run, broker>>, UNCHANGED env
      PROVE  ExecutorInv'
  <2>1. At(at[p], l).pc = l /\ At(at[p], l).job = at[p].job
    BY <1>1, <1>5, AtFrame DEF Pc
  <2>2. QED BY <1>3, <1>5, <2>1 DEF Goto, Engaged
<1>6. CASE RunGraph(p)
  <2> DEFINE stop == NextStop(r, at[p].job.kind)
             l == IF AtSubgraph(r, stop) THEN "spawn" ELSE "settle"
             f == StoppedAt(at[p], l, stop)
  <2>1. at[p].pc = "graph" /\ Step(p, f) /\ UNCHANGED <<run, broker>> /\ UNCHANGED env
    BY <1>6 DEF RunGraph, HoldsTask, rows
  <2>2. stop \in Nat /\ l \in Pc /\ l \in Engaged
    BY <1>1, <2>1, NextStopNat DEF Pc, Engaged
  <2> HIDE DEF stop, l
  <2>3. f.pc = l /\ f.job = at[p].job
    BY <1>1, <2>2, StopFrame
  <2>4. QED BY <1>3, <2>1, <2>2, <2>3
<1>7. CASE GraphRaises(p)
  BY <1>5, <1>7 DEF GraphRaises, rows
<1>8. CASE SpawnChild(p)
  <2>1. PICK c \in Run :
           /\ run[c] = "absent"
           /\ run' = [run EXCEPT ![c] = "pending", ![r] = "waiting_child"]
           /\ Step(p, Carrying(at[p], "spawned", {c}))
    BY <1>8 DEF SpawnChild
  <2> DEFINE f == Carrying(at[p], "spawned", {c})
  <2>2. f.pc = "spawned" /\ f.job = at[p].job /\ Step(p, f)
    BY <1>1, <2>1, CarryFrame DEF Pc
  <2> HIDE DEF f
  <2>3. \A d \in Run : run'[d] = "running" => run[d] = "running"
    BY <1>1, <2>1 DEF DataOK
  <2>4. broker' = broker /\ (Reliable' => Reliable)
    BY <1>8, ReliableKept DEF SpawnChild
  <2>5. QED BY <1>1, <2>2, <2>3, <2>4, ExecutorMove DEF EngagedOn, Engaged
<1>9. CASE SpawnRefused(p)
  BY <1>5, <1>9 DEF SpawnRefused, rows
<1>10. CASE InlineResume(p)
  <2> DEFINE stop == NextStop(r, "child")
             f == StoppedAt(at[p], "settle", stop)
  <2>1. at[p].pc = "inline" /\ Step(p, f) /\ UNCHANGED <<run, broker>> /\ UNCHANGED env
    BY <1>10 DEF InlineResume, HoldsTask, rows
  <2>2. stop \in Nat
    BY <1>1, <2>1, NextStopNat
  <2> HIDE DEF stop
  <2>3. f.pc = "settle" /\ f.job = at[p].job
    <3>1. "settle" \in Pc
      BY DEF Pc
    <3>2. QED BY <1>1, <2>2, <3>1, StopFrame
  <2>4. QED BY <1>3, <2>1, <2>3 DEF Engaged
<1>11. CASE DispatchChild(p)
  <2> DEFINE f == Carrying(at[p], "mark", {})
  <2>1. Step(p, f) /\ run' = run /\ broker \subseteq broker' /\ (Reliable' => Reliable)
    BY <1>11, ReliableKept DEF DispatchChild, rows
  <2>2. f.pc = "mark" /\ f.job = at[p].job
    BY <1>1, CarryFrame DEF Pc
  <2> HIDE DEF f
  <2>3. QED BY <1>1, <2>1, <2>2, ExecutorMove DEF EngagedOn, Engaged
<1>12. CASE MarkRead(p)
  <2>1. at[p].pc = "mark" /\ run' = run /\ broker' = broker /\ UNCHANGED env
    BY <1>12 DEF MarkRead, HoldsTask
  <2>2. CASE Goto(p, "markw")
    BY <1>5, <2>1, <2>2
  <2>3. CASE run[r] # "running" /\ Conclude(p, "flush", "waiting")
    BY <1>1, <2>1, <2>3, ExecutorMove, ReliableKept DEF EngagedOn, Conclude
  <2>4. run[r] \in Terminal \cup {"waiting_child"} => run[r] # "running"
    BY DEF Terminal
  <2>5. QED BY <1>12, <2>2, <2>3, <2>4 DEF MarkRead
<1>13. CASE MarkWrite(p)
  BY <1>4, <1>13 DEF MarkWrite, HoldsTask, Conclude, RunStatus, Terminal
<1>14. CASE SettleInterrupt(p)
  BY <1>4, <1>14 DEF SettleInterrupt, HoldsTask, Conclude, RunStatus, Terminal
<1>15. CASE SettleCompleted(p)
  BY <1>4, <1>15 DEF SettleCompleted, HoldsTask, Conclude, RunStatus, Terminal
<1>16. CASE FailRun(p)
  BY <1>4, <1>16 DEF FailRun, HoldsTask, Conclude, RunStatus, Terminal
<1>17. CASE Flush(p)
  BY <1>3, <1>17 DEF Flush, HoldsTask, Return, Engaged
<1>18. QED BY <1>2, <1>6, <1>7, <1>8, <1>9, <1>10, <1>11, <1>12, <1>13, <1>14,
               <1>15, <1>16, <1>17 DEF WorkerStep

(* Handlers are engaged on nothing, and make no run running. *)
LEMMA ClientKeepsExecutor ==
  ASSUME TypeInv, ExecutorInv, NEW p \in Client, ClientStep(p) \/ Call(p)
  PROVE  ExecutorInv'
<1>1. /\ DataOK /\ p \in Proc /\ p \notin Worker /\ Fits(p, at[p], row)
  BY ProcAssumption DEF TypeInv, FramesOK, Proc
<1>2. ASSUME NEW f, Step(p, f), broker \subseteq broker', Reliable' => Reliable,
             \A r \in Run : run'[r] = "running" => run[r] = "running"
      PROVE  ExecutorInv'
  BY <1>1, <1>2, ExecutorMove DEF EngagedOn
<1>3. ASSUME NEW f, Step(p, f), broker \subseteq broker', run' = run, UNCHANGED env
      PROVE  ExecutorInv'
  BY <1>2, <1>3, ReliableKept
<1>4. CASE Submit(p)
  <2>1. PICK r \in Run :
           /\ SetRun(r, "pending")
           /\ Step(p, FrameFor("starting", StartEnvelope(r), "none", {}, {}))
    BY <1>4 DEF Submit
  <2>2. \A c \in Run : run'[c] = "running" => run[c] = "running"
    BY <1>1, <2>1 DEF DataOK, SetRun
  <2>3. broker' = broker /\ (Reliable' => Reliable)
    BY <1>4, ReliableKept DEF Submit
  <2>4. QED BY <1>2, <2>1, <2>2, <2>3
<1>5. CASE DispatchStart(p)
  BY <1>3, <1>5 DEF DispatchStart, Return, rows
<1>6. CASE DecideRead(p)
  <2>1. PICK r \in Run, k \in 1..MaxHitl, d \in {"approve", "reject"} :
           /\ UNCHANGED env \/ Spend("doubleAnswer")
           /\ Step(p, FrameFor("decide", [run |-> r, n |-> k, kind |-> d], "none", {}, {}))
    BY <1>6 DEF DecideRead
  <2>2. run' = run /\ broker' = broker
    BY <1>6 DEF DecideRead, rows
  <2>3. QED BY <1>2, <2>1, <2>2, ReliableKept
<1>7. CASE DecideWrite(p)
  <2>1. at[p].job.run \in Run
    BY <1>1, <1>7 DEF DecideWrite, Fits
  <2>2. \A c \in Run : run'[c] = "running" => run[c] = "running"
    BY <1>1, <1>7, <2>1 DEF DecideWrite, DataOK, SetRun
  <2>3. broker' = broker /\ (Reliable' => Reliable)
    BY <1>7, ReliableKept DEF DecideWrite
  <2>4. \E f : Step(p, f)
    BY <1>7 DEF DecideWrite, Return, Goto
  <2>5. QED BY <1>2, <2>2, <2>3, <2>4
<1>8. CASE EnqueueAnswer(p)
  BY <1>3, <1>8 DEF EnqueueAnswer, EnqueueResume, Return
<1>9. CASE Cancel(p)
  <2>1. PICK r \in Run :
           /\ CancelTxn(r)
           /\ Spend(IF parent[r] = NoRun THEN "cancel" ELSE "cancelChild")
           /\ Step(p, FrameFor("cascade", [run |-> r, n |-> 0, kind |-> "cancel"],
                               ParentNotify(r, "cancelled"), Kids(r), {}))
    BY <1>9 DEF Cancel
  <2>2. broker' = broker /\ (Reliable' => Reliable)
    BY <1>9, <2>1, ReliableKept DEF Cancel
  <2>3. QED BY <1>1, <1>2, <2>1, <2>2, CancelledStatus
<1>10. CASE ScanTimeouts(p)
  BY <1>2, <1>10, ReliableKept DEF ScanTimeouts, rows
<1>11. CASE TimeOutChild(p)
  <2>1. PICK c \in at[p].due :
           /\ CancelTxn(c)
           /\ Step(p, FrameFor("cascade", [run |-> c, n |-> 0, kind |-> "timeout"],
                               ParentNotify(c, "timeout"), Kids(c), at[p].due \ {c}))
    BY <1>11 DEF TimeOutChild
  <2>2. c \in Run
    BY <1>1, <2>1 DEF Fits, Frame
  <2>3. broker' = broker /\ (Reliable' => Reliable)
    BY <1>11, ReliableKept DEF TimeOutChild
  <2>4. QED BY <1>1, <1>2, <2>1, <2>2, <2>3, CancelledStatus
<1>12. CASE Cascade(p)
  <2>1. PICK c \in at[p].todo :
           /\ CancelTxn(c)
           /\ Step(p, Carrying(at[p], "cascade", (at[p].todo \ {c}) \cup Kids(c)))
    BY <1>12 DEF Cascade
  <2>2. c \in Run
    BY <1>1, <2>1 DEF Fits, Frame
  <2>3. broker' = broker /\ (Reliable' => Reliable)
    BY <1>12, ReliableKept DEF Cascade
  <2>4. QED BY <1>1, <1>2, <2>1, <2>2, <2>3, CancelledStatus
<1>13. CASE CascadeDone(p)
  <2>1. \E f : Step(p, f)
    BY <1>13 DEF CascadeDone, Return, Goto
  <2>2. QED BY <1>3, <1>13, <2>1 DEF CascadeDone, rows
<1>14. QED BY <1>4, <1>5, <1>6, <1>7, <1>8, <1>9, <1>10, <1>11, <1>12, <1>13
           DEF ClientStep, Call

(* Reporting a child changes no run's status, and only adds envelopes. *)
LEMMA TellKeepsExecutor ==
  ASSUME TypeInv, ExecutorInv, NEW p \in Proc, TellStep(p) PROVE ExecutorInv'
<1>1. at[p].pc \notin Engaged
  BY DEF TellStep, TellRead, TellWrite, WakeParent, Engaged
<1>2. run' = run /\ UNCHANGED env /\ broker \subseteq broker'
  BY DEF TellStep, TellRead, TellWrite, WakeParent, EnqueueResume
<1>3. \E f : Step(p, f)
  BY DEF TellStep, TellRead, TellWrite, WakeParent, AfterTell, Goto, Return, Conclude
<1>4. QED BY <1>1, <1>2, <1>3, ExecutorMove, ReliableKept DEF EngagedOn

(* A lost worker gives its envelope back; the failures that do not are     *)
(* those the property excludes.                                            *)
LEMMA FaultKeepsExecutor ==
  ASSUME TypeInv, ExecutorInv, Fault PROVE ExecutorInv'
<1>1. ASSUME NEW p \in Worker, CrashWorker(p) PROVE ExecutorInv'
  <2>1. broker' = broker \cup {at[p].job} /\ run' = run /\ (Reliable' => Reliable)
    BY <1>1, ReliableKept DEF CrashWorker, Redelivered, rows
  <2>2. \A q \in Worker : at'[q] = IF q = p THEN IdleFrame ELSE at[q]
    BY <1>1 DEF CrashWorker, Return, Step, TypeInv, FramesOK, Proc
  <2> SUFFICES ASSUME Reliable, NEW r \in Run, run[r] = "running"
               PROVE  HasExecutor(r)'
    BY <2>1 DEF ExecutorInv
  <2>3. CASE Queued(r)
    BY <2>1, <2>3 DEF Queued, HasExecutor
  <2>4. ASSUME NEW q \in Worker, EngagedOn(q, r) PROVE HasExecutor(r)'
    <3>1. CASE q = p
      BY <2>1, <2>4, <3>1 DEF EngagedOn, Queued, HasExecutor
    <3>2. CASE q # p
      BY <2>2, <2>4, <3>2 DEF EngagedOn, HasExecutor
    <3>3. QED BY <3>1, <3>2
  <2>5. QED BY <2>3, <2>4 DEF ExecutorInv, HasExecutor
<1>2. ASSUME NEW p \in Worker, KillAtTimeLimit(p) PROVE ExecutorInv'
  BY <1>2 DEF KillAtTimeLimit, Spend, ExecutorInv, Reliable
<1>3. ASSUME NEW p \in Worker, FlushFails(p) PROVE ExecutorInv'
  <2>1. /\ at[p].pc = "flush" /\ run' = run /\ broker' = broker
        /\ Reliable' => Reliable
        /\ Step(p, Concluded(at[p], "fail", "none"))
    BY <1>3, ReliableKept DEF FlushFails, HoldsTask, rows, Conclude
  <2>2. QED BY <2>1, ExecutorMove DEF EngagedOn, Engaged, Proc
<1>4. ASSUME NEW p \in Client, CrashClient(p) PROVE ExecutorInv'
  <2>1. /\ p \in Proc /\ p \notin Worker /\ run' = run /\ broker' = broker
        /\ Reliable' => Reliable
        /\ Step(p, IdleFrame)
    BY <1>4, ReliableKept, ProcAssumption DEF CrashClient, rows, Return, Proc
  <2>2. QED BY <2>1, ExecutorMove DEF EngagedOn
<1>5. ASSUME NEW p \in Proc, SendFails(p) PROVE ExecutorInv'
  <2>1. run' = run /\ broker' = broker /\ (Reliable' => Reliable)
    BY <1>5, ReliableKept DEF SendFails, EnqueueResume
  <2>2. CASE at[p].pc = "spawned" /\ Step(p, Carrying(at[p], "fail", {}))
    <3> DEFINE f == Carrying(at[p], "fail", {})
    <3>1. f.pc = "fail" /\ f.job = at[p].job
      BY CarryFrame DEF TypeInv, FramesOK, Pc
    <3> HIDE DEF f
    <3>2. QED BY <2>1, <2>2, <3>1, ExecutorMove DEF EngagedOn, Engaged, f
  <2>3. CASE at[p].pc \notin Engaged /\ \E f : Step(p, f)
    BY <2>1, <2>3, ExecutorMove DEF EngagedOn
  <2>4. QED BY <1>5, <2>2, <2>3 DEF SendFails, Return, Goto, Engaged
<1>6. CASE CrashEager
  BY <1>6 DEF CrashEager, Spend, ExecutorInv, Reliable, EnvelopesSurvive
<1>7. CASE ExpireHitl
  <2>1. \A r \in Run : run'[r] = "running" => run[r] = "running"
    BY <1>7 DEF ExpireHitl, RunOnceExpired, TypeInv, DataOK
  <2>2. at' = at /\ broker' = broker /\ (Reliable' => Reliable)
    BY <1>7, ReliableKept DEF ExpireHitl
  <2>3. QED BY <2>1, <2>2 DEF ExecutorInv, HasExecutor, Queued, EngagedOn
<1>8. QED BY <1>1, <1>2, <1>3, <1>4, <1>5, <1>6, <1>7 DEF Fault

(* Nothing runs at first, and every step keeps executors with their runs. *)
LEMMA ExecutorInvariant == Spec => []ExecutorInv
<1>1. Init => ExecutorInv
  BY DEF Init, ExecutorInv
<1>2. TypeInv /\ ExecutorInv /\ [Next]_vars => ExecutorInv'
  <2> SUFFICES ASSUME TypeInv, ExecutorInv, [Next]_vars PROVE ExecutorInv'
    OBVIOUS
  <2>1. CASE UNCHANGED vars
    BY <2>1 DEF vars, ExecutorInv, Reliable, EnvelopesSurvive, HasExecutor,
                Queued, EngagedOn
  <2>2. QED BY <2>1, WorkerKeepsExecutor, ClientKeepsExecutor, TellKeepsExecutor,
                FaultKeepsExecutor DEF Next
<1>3. QED BY <1>1, <1>2, TypeInvariant, PTL DEF Spec

(* A run shown as running is being executed or has an envelope waiting, as  *)
(* long as the deployment loses no envelope and nobody hits the hard time  *)
(* limit: no path through execute_envelope, no race with a cancellation, a *)
(* decision or an expiry, and no crash of a Celery worker strands it.      *)
THEOREM RunningRunsHaveExecutors == Spec => []RunningHasExecutor
<1>1. ExecutorInv => RunningHasExecutor
  BY DEF ExecutorInv, Reliable, HasExecutor, RunningHasExecutor, EngagedOn, Engaged
<1>2. QED BY <1>1, ExecutorInvariant, PTL

-----------------------------------------------------------------------------
(* Interrupted *)

Quiet == EnvelopesSurvive /\ seen \cap {"apiCrash", "brokerDown"} = {}

Mover(r) == AwaitsHuman(r) \/ Queued(r) \/ \E p \in Client : Sending(p, r)

MoverInv == Quiet => \A r \in Run : run[r] = "interrupted" => Mover(r)

(* What the fault budget can do to the assumption. *)
LEMMA QuietKept ==
  (UNCHANGED env \/ (\E kind : Spend(kind)) \/ (UNCHANGED <<mode, left, seen>>)) =>
    (Quiet' => Quiet)
BY DEF Quiet, EnvelopesSurvive, env, Spend

(* Among the handlers, only the three that are about to send count. *)
LEMMA ClientSends ==
  ASSUME TypeInv, NEW p \in Client, NEW r \in Run
  PROVE  Sending(p, r) <=> \/ at[p].pc \in {"starting", "resuming"} /\ at[p].job.run = r
                           \/ at[p].pc = "wake" /\ parent[at[p].job.run] = r
<1>1. at[p].pc \in ClientPc
  BY DEF TypeInv, FramesOK, Fits, Proc
<1>2. QED BY <1>1 DEF Sending, ClientPc

(* A process moves.  What the interrupted runs had, and what p itself was  *)
(* about to send, must be there afterwards.                                *)
LEMMA MoverMove ==
  ASSUME TypeInv, MoverInv, NEW p \in Proc, NEW f, Step(p, f),
         Quiet' => Quiet,
         \A d \in Run : row[d] # "none" => parent'[d] = parent[d],
         \A r \in Run : run'[r] = "interrupted" =>
            (run[r] = "interrupted" \/ Mover(r)'),
         \A r \in Run : run'[r] = "interrupted" /\ (AwaitsHuman(r) \/ Queued(r)) => Mover(r)',
         \A r \in Run : run'[r] = "interrupted" /\ p \in Client /\ Sending(p, r) => Mover(r)'
  PROVE  MoverInv'
<1> SUFFICES ASSUME Quiet', NEW r \in Run, run'[r] = "interrupted"
             PROVE  Mover(r)'
  BY DEF MoverInv
<1>1. ASSUME NEW q \in Client, Sending(q, r) PROVE Mover(r)'
  <2>1. CASE q = p
    BY <1>1, <2>1
  <2>2. CASE q # p
    <3>1. at'[q] = at[q]
      BY <2>2 DEF Step, TypeInv, FramesOK, Proc
    <3>2. /\ at[q].pc = "wake" => row[at[q].job.run] # "none" /\ at[q].job.run \in Run
          /\ q \in Proc
      BY DEF TypeInv, RowsOK, FramesOK, Fits, Proc, Envelope
    <3>3. CASE at[q].pc \in {"starting", "resuming"} /\ at[q].job.run = r
      BY <3>1, <3>3 DEF Sending, Mover
    <3>4. CASE at[q].pc = "wake" /\ parent[at[q].job.run] = r
      BY <3>1, <3>2, <3>4 DEF Sending, Mover
    <3>5. QED BY <1>1, <3>3, <3>4, ClientSends
  <2>3. QED BY <2>1, <2>2
<1>2. QED BY <1>1 DEF MoverInv, Mover

(* The common case: p was not about to send, the questions and the parents *)
(* are as before, and no run becomes interrupted.                          *)
LEMMA MoverPlain ==
  ASSUME TypeInv, MoverInv, NEW p \in Proc, NEW f, Step(p, f),
         Quiet' => Quiet, UNCHANGED <<parent, hitl>>, broker \subseteq broker',
         \A r \in Run : run'[r] = "interrupted" => run[r] = "interrupted",
         p \in Client => at[p].pc \notin {"starting", "resuming", "wake"}
  PROVE  MoverInv'
<1>1. \A r \in Run : (AwaitsHuman(r) \/ Queued(r)) => Mover(r)'
  BY DEF AwaitsHuman, Queued, Mover
<1>2. \A r \in Run : ~(p \in Client /\ Sending(p, r))
  BY ClientSends
<1>3. QED BY <1>1, <1>2, MoverMove

(* A new run takes nobody's parent away. *)
LEMMA NewRunKeepsParents ==
  ASSUME TypeInv, NEW c \in Run, run[c] = "absent", NEW par,
         parent' = [parent EXCEPT ![c] = par]
  PROVE  \A d \in Run : row[d] # "none" => parent'[d] = parent[d]
BY DEF TypeInv, DataOK, RowsOK

(* Cancelling leaves no new run interrupted. *)
LEMMA CancelledNotInterrupted ==
  ASSUME DataOK, NEW r \in Run, CancelTxn(r)
  PROVE  \A c \in Run : run'[c] = "interrupted" => run[c] = "interrupted"
BY DEF DataOK, CancelTxn, Terminal

(* Workers: a claim takes an envelope and makes its run running; settling  *)
(* an interrupt writes the question with the status.                       *)
LEMMA WorkerKeepsMover ==
  ASSUME TypeInv, MoverInv, NEW p \in Worker, WorkerStep(p) PROVE MoverInv'
<1> DEFINE r == at[p].job.run
<1>1. /\ DataOK /\ p \in Proc /\ p \notin Client /\ at[p] \in Frame
      /\ at[p].pc # "idle" => r \in Run
  BY ProcAssumption DEF TypeInv, FramesOK, Fits, Proc, Envelope
<1>2. ASSUME NEW f, Step(p, f), UNCHANGED <<parent, hitl>>, broker \subseteq broker',
             UNCHANGED env, run' = run
      PROVE  MoverInv'
  BY <1>1, <1>2, MoverPlain, QuietKept
<1>3. ASSUME NEW f, Step(p, f), UNCHANGED <<parent, hitl>>, broker' = broker,
             UNCHANGED env, at[p].pc # "idle",
             NEW s \in RunStatus \ {"interrupted"}, SetRun(r, s)
      PROVE  MoverInv'
  <2>1. \A c \in Run : run'[c] = "interrupted" => run[c] = "interrupted"
    BY <1>1, <1>3 DEF DataOK, SetRun
  <2>2. QED BY <1>1, <1>3, <2>1, MoverPlain, QuietKept
<1>4. CASE Claim(p)
  <2>1. PICK e \in broker :
           /\ broker' = broker \ {e}
           /\ SetRun(e.run, "running")
           /\ Step(p, [FrameFor("graph", e, "none", {}, {}) EXCEPT !.rec = RecordOf(e.run)])
    BY <1>4 DEF Claim
  <2>2. e.run \in Run
    BY <1>1 DEF DataOK, Envelope
  <2>3. \A c \in Run : run'[c] = "interrupted" => run[c] = "interrupted" /\ c # e.run
    BY <1>1, <2>1, <2>2 DEF DataOK, SetRun
  <2>4. UNCHANGED <<parent, hitl>> /\ (Quiet' => Quiet)
    BY <1>4, QuietKept DEF Claim
  <2>5. \A c \in Run : c # e.run /\ (AwaitsHuman(c) \/ Queued(c)) => Mover(c)'
    BY <2>1, <2>4 DEF AwaitsHuman, Queued, Mover
  <2>6. \E f : Step(p, f)
    BY <2>1
  <2>7. QED BY <1>1, <2>3, <2>4, <2>5, <2>6, MoverMove
<1>5. CASE SpawnChild(p)
  <2>1. PICK c \in Run :
           /\ run[c] = "absent"
           /\ run' = [run EXCEPT ![c] = "pending", ![r] = "waiting_child"]
           /\ parent' = [parent EXCEPT ![c] = r]
           /\ Step(p, Carrying(at[p], "spawned", {c}))
    BY <1>5 DEF SpawnChild, CreateRun
  <2>2. \A d \in Run : run'[d] = "interrupted" => run[d] = "interrupted"
    BY <1>1, <2>1 DEF DataOK
  <2>3. \A d \in Run : row[d] # "none" => parent'[d] = parent[d]
    BY <2>1, NewRunKeepsParents
  <2>4. hitl' = hitl /\ broker' = broker /\ (Quiet' => Quiet)
    BY <1>5, QuietKept DEF SpawnChild
  <2>5. \A d \in Run : (AwaitsHuman(d) \/ Queued(d)) => Mover(d)'
    BY <2>4 DEF AwaitsHuman, Queued, Mover
  <2>6. \E f : Step(p, f)
    BY <2>1
  <2>7. QED BY <1>1, <2>2, <2>3, <2>4, <2>5, <2>6, MoverMove
<1>6. CASE SettleInterrupt(p)
  <2>1. PICK k \in 1..MaxHitl, policy \in {"fail", "route"} :
           /\ hitl[r][k].status = "absent"
           /\ hitl' = [hitl EXCEPT ![r][k] = [status |-> "pending", onReject |-> policy]]
    BY <1>6 DEF SettleInterrupt
  <2>2. r \in Run /\ hitl \in [Run -> [1..MaxHitl -> HitlRow]]
    BY <1>1, <1>6 DEF SettleInterrupt, HoldsTask, DataOK
  <2>3. hitl'[r][k].status = "pending"
    BY <2>1, <2>2
  <2>4. \A c \in Run : AwaitsHuman(c) => AwaitsHuman(c)'
    BY <2>1, <2>2 DEF AwaitsHuman
  <2>5. \A c \in Run : run'[c] = "interrupted" => run[c] = "interrupted" \/ c = r
    BY <1>1, <1>6, <2>2 DEF SettleInterrupt, SetRun, DataOK
  <2>6. \A c \in Run : c = r => Mover(c)'
    BY <2>3 DEF Mover, AwaitsHuman
  <2>7. \A c \in Run : (AwaitsHuman(c) \/ Queued(c)) => Mover(c)'
    BY <1>6, <2>4 DEF SettleInterrupt, Mover, Queued
  <2>8. /\ parent' = parent /\ (Quiet' => Quiet)
        /\ \E f : Step(p, f)
    BY <1>6, QuietKept DEF SettleInterrupt, Conclude
  <2>9. QED BY <1>1, <2>5, <2>6, <2>7, <2>8, MoverMove
<1>7. CASE RunGraph(p) \/ InlineResume(p) \/ DispatchChild(p)
  <2>1. \E f : Step(p, f)
    BY <1>7 DEF RunGraph, InlineResume, DispatchChild
  <2>2. UNCHANGED <<parent, hitl, run>> /\ broker \subseteq broker' /\ UNCHANGED env
    BY <1>7 DEF RunGraph, InlineResume, DispatchChild, rows
  <2>3. QED BY <1>2, <2>1, <2>2
<1>8. CASE GraphRaises(p) \/ SpawnRefused(p) \/ Flush(p)
  BY <1>2, <1>8 DEF GraphRaises, SpawnRefused, Flush, Goto, Return, rows
<1>9. CASE MarkRead(p)
  <2>1. \E f : Step(p, f)
    BY <1>9 DEF MarkRead, Goto, Conclude
  <2>2. QED BY <1>2, <1>9, <2>1 DEF MarkRead
<1>10. CASE MarkWrite(p)
  BY <1>3, <1>10 DEF MarkWrite, HoldsTask, Conclude, RunStatus, Terminal
<1>11. CASE SettleCompleted(p)
  BY <1>3, <1>11 DEF SettleCompleted, HoldsTask, Conclude, RunStatus, Terminal
<1>12. CASE FailRun(p)
  BY <1>3, <1>12 DEF FailRun, HoldsTask, Conclude, RunStatus, Terminal
<1>13. QED BY <1>4, <1>5, <1>6, <1>7, <1>8, <1>9, <1>10, <1>11, <1>12 DEF WorkerStep

(* A decision either ends its run or leaves its handler about to resume it; *)
(* another question of the same run stays pending.                         *)
LEMMA DecideKeepsMover ==
  ASSUME TypeInv, MoverInv, NEW p \in Client, DecideWrite(p) PROVE MoverInv'
<1> DEFINE r == at[p].job.run
           k == at[p].job.n
<1>1. /\ DataOK /\ p \in Proc /\ at[p] \in Frame /\ at[p].pc = "decide"
      /\ r \in Run /\ k \in 1..MaxHitl
  BY DEF TypeInv, FramesOK, Proc, Fits, DecideWrite
<1>2. \A c \in Run : c # r => (AwaitsHuman(c) => AwaitsHuman(c)')
  <2>1. \A c \in Run : c # r => hitl'[c] = hitl[c]
    BY <1>1 DEF DecideWrite, DataOK
  <2>2. QED BY <2>1 DEF AwaitsHuman
<1>3. broker' = broker /\ parent' = parent /\ (Quiet' => Quiet)
  BY QuietKept DEF DecideWrite
<1>4. \A c \in Run : c # r /\ (AwaitsHuman(c) \/ Queued(c)) => Mover(c)'
  BY <1>2, <1>3 DEF Mover, Queued
<1>5. \A c \in Run : ~Sending(p, c)
  BY <1>1, ClientSends
<1>6. CASE SetRun(r, "cancelled") /\ Return(p)
  <2>1. \A c \in Run : run'[c] = "interrupted" => run[c] = "interrupted" /\ c # r
    BY <1>1, <1>6 DEF SetRun, DataOK
  <2>2. QED BY <1>1, <1>3, <1>4, <1>5, <1>6, <2>1, MoverMove DEF Return
<1>7. CASE Goto(p, "resuming") /\ UNCHANGED run
  <2> DEFINE f == At(at[p], "resuming")
  <2>1. f.pc = "resuming" /\ f.job = at[p].job /\ Step(p, f)
    BY <1>1, <1>7, AtFrame DEF Pc, Goto
  <2> HIDE DEF f
  <2>2. at'[p] = f
    BY <1>1, <2>1 DEF Step, TypeInv, FramesOK
  <2>3. \A c \in Run : c = r => Mover(c)'
    BY <2>1, <2>2 DEF Mover, Sending
  <2>4. QED BY <1>1, <1>3, <1>4, <1>5, <1>7, <2>1, <2>3, MoverMove
<1>8. QED BY <1>6, <1>7 DEF DecideWrite

(* Handlers: what was about to be sent is sent. *)
LEMMA ClientKeepsMover ==
  ASSUME TypeInv, MoverInv, NEW p \in Client, ClientStep(p) \/ Call(p)
  PROVE  MoverInv'
<1>1. /\ DataOK /\ p \in Proc /\ p \notin Worker /\ Fits(p, at[p], row)
  BY ProcAssumption DEF TypeInv, FramesOK, Proc
<1>2. ASSUME NEW f, Step(p, f), UNCHANGED <<parent, hitl, broker>>, Quiet' => Quiet,
             at[p].pc \notin {"starting", "resuming", "wake"},
             \A r \in Run : run'[r] = "interrupted" => run[r] = "interrupted"
      PROVE  MoverInv'
  BY <1>1, <1>2, MoverPlain
<1>3. ASSUME NEW f, Step(p, f), UNCHANGED <<parent, hitl, run>>, UNCHANGED env,
             broker \subseteq broker', at[p].pc \in {"starting", "resuming"},
             \A c \in Run : c = at[p].job.run => Queued(c)'
      PROVE  MoverInv'
  <2>1. \A r \in Run : (AwaitsHuman(r) \/ Queued(r)) => Mover(r)'
    BY <1>3 DEF AwaitsHuman, Queued, Mover
  <2>2. \A r \in Run : Sending(p, r) => Mover(r)'
    BY <1>3, ClientSends DEF Mover
  <2>3. QED BY <1>1, <1>3, <2>1, <2>2, MoverMove, QuietKept
<1>4. CASE Submit(p)
  <2>1. PICK r \in Run :
           /\ run[r] = "absent"
           /\ SetRun(r, "pending")
           /\ parent' = [parent EXCEPT ![r] = NoRun]
           /\ Step(p, FrameFor("starting", StartEnvelope(r), "none", {}, {}))
    BY <1>4 DEF Submit, CreateRun
  <2>2. \A c \in Run : run'[c] = "interrupted" => run[c] = "interrupted"
    BY <1>1, <2>1 DEF DataOK, SetRun
  <2>3. hitl' = hitl /\ broker' = broker /\ (Quiet' => Quiet) /\ at[p].pc = "idle"
    BY <1>4, QuietKept DEF Submit
  <2>4. \A d \in Run : row[d] # "none" => parent'[d] = parent[d]
    BY <2>1, NewRunKeepsParents
  <2>5. \A d \in Run : (AwaitsHuman(d) \/ Queued(d)) => Mover(d)'
    BY <2>3 DEF AwaitsHuman, Queued, Mover
  <2>6. \A d \in Run : ~Sending(p, d)
    BY <2>3, ClientSends
  <2>7. \E f : Step(p, f)
    BY <2>1
  <2>8. QED BY <1>1, <2>2, <2>3, <2>4, <2>5, <2>6, <2>7, MoverMove
<1>5. CASE DispatchStart(p)
  <2>1. /\ at[p].pc = "starting" /\ broker' = broker \cup {at[p].job}
        /\ UNCHANGED <<parent, hitl, run>> /\ UNCHANGED env
        /\ \E f : Step(p, f)
    BY <1>5 DEF DispatchStart, rows, Return
  <2>2. \A c \in Run : c = at[p].job.run => Queued(c)'
    BY <2>1 DEF Queued
  <2>3. QED BY <1>3, <2>1, <2>2
<1>6. CASE EnqueueAnswer(p)
  <2> DEFINE r == at[p].job.run
             e == [run |-> r, n |-> last[r] + 1, kind |-> "hitl"]
  <2>1. /\ at[p].pc = "resuming" /\ broker' = broker \cup {e}
        /\ UNCHANGED <<parent, hitl, run>> /\ UNCHANGED env
        /\ \E f : Step(p, f)
    BY <1>6 DEF EnqueueAnswer, EnqueueResume, Return
  <2>2. \A c \in Run : c = r => Queued(c)'
    <3>1. e.run = r /\ e \in broker'
      BY <2>1
    <3> HIDE DEF e
    <3>2. QED BY <3>1 DEF Queued
  <2>3. QED BY <1>3, <2>1, <2>2
<1>7. CASE DecideRead(p)
  <2>1. /\ \E f : Step(p, f)
        /\ UNCHANGED env \/ Spend("doubleAnswer")
        /\ at[p].pc = "idle" /\ UNCHANGED <<parent, hitl, broker, run>>
    BY <1>7 DEF DecideRead, rows
  <2>2. QED BY <1>2, <2>1, QuietKept
<1>8. CASE DecideWrite(p)
  BY <1>8, DecideKeepsMover
<1>9. CASE Cancel(p)
  <2>1. PICK r \in Run :
           /\ CancelTxn(r)
           /\ Spend(IF parent[r] = NoRun THEN "cancel" ELSE "cancelChild")
           /\ Step(p, FrameFor("cascade", [run |-> r, n |-> 0, kind |-> "cancel"],
                               ParentNotify(r, "cancelled"), Kids(r), {}))
    BY <1>9 DEF Cancel
  <2>2. /\ at[p].pc = "idle" /\ UNCHANGED <<parent, hitl, broker>>
        /\ Quiet' => Quiet
    BY <1>9, <2>1, QuietKept DEF Cancel
  <2>3. QED BY <1>1, <1>2, <2>1, <2>2, CancelledNotInterrupted
<1>10. CASE ScanTimeouts(p)
  <2>1. /\ at[p].pc = "idle" /\ UNCHANGED <<parent, hitl, broker, run>>
        /\ Quiet' => Quiet
        /\ \E f : Step(p, f)
    BY <1>10, QuietKept DEF ScanTimeouts, rows
  <2>2. QED BY <1>2, <2>1
<1>11. CASE TimeOutChild(p) \/ Cascade(p)
  <2>1. PICK c \in Run : CancelTxn(c) /\ \E f : Step(p, f)
    BY <1>1, <1>11 DEF TimeOutChild, Cascade, Fits, Frame
  <2>2. /\ at[p].pc \in {"expire", "cascade"} /\ UNCHANGED <<parent, hitl, broker>>
        /\ Quiet' => Quiet
    BY <1>11, QuietKept DEF TimeOutChild, Cascade
  <2>3. QED BY <1>1, <1>2, <2>1, <2>2, CancelledNotInterrupted
<1>12. CASE CascadeDone(p)
  <2>1. /\ \E f : Step(p, f)
        /\ at[p].pc = "cascade" /\ UNCHANGED <<parent, hitl, broker, run>>
        /\ Quiet' => Quiet
    BY <1>12, QuietKept DEF CascadeDone, Return, Goto, rows
  <2>2. QED BY <1>2, <2>1
<1>13. QED BY <1>4, <1>5, <1>6, <1>7, <1>8, <1>9, <1>10, <1>11, <1>12
           DEF ClientStep, Call

(* Reporting: the parent a handler was about to wake gets its envelope. *)
LEMMA TellKeepsMover ==
  ASSUME TypeInv, MoverInv, NEW p \in Proc, TellStep(p) PROVE MoverInv'
<1>1. CASE TellRead(p) \/ TellWrite(p)
  <2>1. /\ UNCHANGED <<parent, hitl, broker, run>> /\ (Quiet' => Quiet)
        /\ at[p].pc \in {"tell", "tellw"}
        /\ \E f : Step(p, f)
    BY <1>1, QuietKept DEF TellRead, TellWrite, AfterTell, Goto, Return, Conclude
  <2>2. QED BY <2>1, MoverPlain
<1>2. CASE WakeParent(p)
  <2> DEFINE r == parent[at[p].job.run]
             e == [run |-> r, n |-> last[r] + 1, kind |-> "child"]
  <2>1. /\ at[p].pc = "wake" /\ broker' = broker \cup {e}
        /\ UNCHANGED <<parent, hitl, run>> /\ (Quiet' => Quiet)
        /\ \E f : Step(p, f)
    BY <1>2, QuietKept
    DEF WakeParent, EnqueueResume, AfterTell, Goto, Return, Conclude
  <2>2. \A c \in Run : c = r => Queued(c)'
    <3>1. e.run = r /\ e \in broker'
      BY <2>1
    <3> HIDE DEF e
    <3>2. QED BY <3>1 DEF Queued
  <2>3. \A c \in Run : (AwaitsHuman(c) \/ Queued(c)) => Mover(c)'
    BY <2>1 DEF AwaitsHuman, Queued, Mover
  <2>4. \A c \in Run : p \in Client /\ Sending(p, c) => Mover(c)'
    BY <2>1, <2>2, ClientSends DEF Mover
  <2>5. QED BY <2>1, <2>3, <2>4, MoverMove
<1>3. QED BY <1>1, <1>2 DEF TellStep

(* Failures: the expiry of a question cancels the interrupted run with it. *)
LEMMA FaultKeepsMover ==
  ASSUME TypeInv, MoverInv, Fault PROVE MoverInv'
<1>1. ASSUME NEW p \in Worker, CrashWorker(p) \/ KillAtTimeLimit(p) \/ FlushFails(p)
      PROVE  MoverInv'
  <2>1. /\ UNCHANGED <<parent, hitl, run>> /\ broker \subseteq broker'
        /\ Quiet' => Quiet
        /\ \E f : Step(p, f)
        /\ p \in Proc /\ p \notin Client
    BY <1>1, QuietKept, ProcAssumption
    DEF CrashWorker, KillAtTimeLimit, FlushFails, Return, Conclude, Proc, rows
  <2>2. QED BY <2>1, MoverPlain
<1>2. ASSUME NEW p \in Client, CrashClient(p) PROVE MoverInv'
  BY <1>2 DEF CrashClient, Spend, MoverInv, Quiet
<1>3. ASSUME NEW p \in Proc, SendFails(p) PROVE MoverInv'
  BY <1>3 DEF SendFails, Spend, MoverInv, Quiet
<1>4. CASE CrashEager
  BY <1>4 DEF CrashEager, Spend, MoverInv, Quiet, EnvelopesSurvive
<1>5. CASE ExpireHitl
  <2>1. PICK D \in SUBSET (Run \X (1..MaxHitl)) :
           /\ hitl' = [r \in Run |-> [k \in 1..MaxHitl |->
                         IF <<r, k>> \in D THEN [hitl[r][k] EXCEPT !.status = "expired"]
                         ELSE hitl[r][k]]]
           /\ run' = [r \in Run |-> IF \E k \in 1..MaxHitl : <<r, k>> \in D
                                    THEN RunOnceExpired(run[r]) ELSE run[r]]
    BY <1>5 DEF ExpireHitl
  <2>2. \A r \in Run : run'[r] = "interrupted" =>
           run[r] = "interrupted" /\ \A k \in 1..MaxHitl : <<r, k>> \notin D
    BY <2>1 DEF RunOnceExpired
  <2>3. \A r \in Run : run'[r] = "interrupted" /\ AwaitsHuman(r) => AwaitsHuman(r)'
    BY <2>1, <2>2 DEF AwaitsHuman
  <2>4. UNCHANGED <<parent, broker, at>> /\ (Quiet' => Quiet)
    BY <1>5, QuietKept DEF ExpireHitl
  <2>5. QED BY <2>2, <2>3, <2>4 DEF MoverInv, Mover, Queued, Sending
<1>6. QED BY <1>1, <1>2, <1>3, <1>4, <1>5 DEF Fault

(* A run shown as interrupted can move on: a question it asked is still    *)
(* open, or its envelope is queued, or the handler of the answer is about  *)
(* to send it.  Any number of answers, cancellations, expiries and worker  *)
(* losses may interleave; only a handler that dies, or a broker that       *)
(* refuses, between the two transactions of an answer can strand it.       *)
THEOREM InterruptedRunsCanMove == Spec => []InterruptedCanMove
<1>1. Init => MoverInv
  BY DEF Init, MoverInv
<1>2. TypeInv /\ MoverInv /\ [Next]_vars => MoverInv'
  <2> SUFFICES ASSUME TypeInv, MoverInv, [Next]_vars PROVE MoverInv'
    OBVIOUS
  <2>1. CASE UNCHANGED vars
    BY <2>1 DEF vars, MoverInv, Quiet, EnvelopesSurvive, Mover, AwaitsHuman,
                Queued, Sending
  <2>2. QED BY <2>1, WorkerKeepsMover, ClientKeepsMover, TellKeepsMover,
                FaultKeepsMover DEF Next
<1>3. MoverInv => InterruptedCanMove
  BY DEF MoverInv, Quiet, Mover, InterruptedCanMove
<1>4. QED BY <1>1, <1>2, <1>3, TypeInvariant, PTL DEF Spec
=============================================================================

---------------------------- MODULE Thread_proofs ----------------------------
(***************************************************************************)
(* One thread of control per run.  A run moves on through whatever holds   *)
(* its thread: an envelope, a worker, a handler about to send an envelope, *)
(* a question, or the child run it waits for.  As long as nothing of       *)
(* Duplicating has happened there is one holder at most, and from this     *)
(* follows who may execute a run, resolve its row, close its records and   *)
(* write its message.                                                      *)
(***************************************************************************)
EXTENDS WorkflowRuntime_proofs

-----------------------------------------------------------------------------
(* Holders *)

Settling == {"completed", "failed"}
Driving == {"graph", "spawn", "inline", "settle", "spawned", "fail",
            "tell", "tellw", "wake"}

(* The process p, with frame f, has the run r in hand.  A worker keeps the *)
(* run it has settled until it is done: a flush that fails makes it go on. *)
(* From "mark" on a worker has handed its run to the child.                *)
Carries(p, f, r) ==
  \/ /\ p \in Worker /\ f.job.run = r
     /\ f.pc \in Driving \/ (f.pc = "flush" /\ f.outcome \in Settling)
  \/ p \in Worker /\ f.pc = "spawned" /\ r \in f.todo
  \/ p \in Client /\ f.pc \in {"starting", "resuming"} /\ f.job.run = r

(* A question stays with the handler that has read it, also when it        *)
(* expires before the answer is written.                                   *)
Asked(r, k) == hitl[r][k].status = "pending" \/ \E q \in Client : Deciding(q, r, k)

Owns(kind, x, r) ==
  \/ kind = "envelope" /\ x \in broker /\ x.run = r
  \/ kind = "process" /\ x \in Proc /\ Carries(x, at[x], r)
  \/ kind = "question" /\ x \in 1..MaxHitl /\ Asked(r, x)

(* The child c holds its parent's thread from the moment its envelope is   *)
(* out until its row is resolved and the parent's envelope is out.         *)
Unsent(c) == \E p \in Worker : at[p].pc = "spawned" /\ c \in at[p].todo
Reporting(c) == \E p \in Worker : at[p].pc \in {"tellw", "wake"} /\ at[p].job.run = c
Pressing(c) == row[c] = "pending" \/ Reporting(c)
Begun(c) == (\E kind, x : Owns(kind, x, c)) \/ \E d \in Run : parent[d] = c
Expected(c) == ~Unsent(c) /\ Begun(c) /\ Pressing(c)

Holds(kind, x, r) ==
  \/ Owns(kind, x, r)
  \/ kind = "child" /\ x \in Run /\ parent[x] = r /\ Expected(x)

-----------------------------------------------------------------------------
(* The invariant *)

Unique == \A r \in Run : \A k, x, l, y :
            Holds(k, x, r) /\ Holds(l, y, r) => k = l /\ x = y

(* What has not been submitted or spawned has no trace. *)
Untouched == \A r \in Run : run[r] = "absent" =>
               /\ \A k, x : ~Owns(k, x, r)
               /\ \A d \in Run : parent[d] # r

OneDecider == \A r \in Run, k \in 1..MaxHitl : \A p, q \in Client :
                Deciding(p, r, k) /\ Deciding(q, r, k) => p = q

Waking == \A p \in Worker : at[p].pc = "wake" => row[at[p].job.run] # "pending"

(* What a worker has spawned and not dispatched is one run without kids. *)
Spawned(p, c) == /\ at[p].todo = {c} /\ parent[c] = at[p].job.run
                 /\ c # at[p].job.run
                 /\ \A d \in Run : parent[d] # c
Spawning == \A p \in Worker : at[p].pc = "spawned" => \E c \in Run : Spawned(p, c)

(* No handler reports a child: only roots are cancelled, nothing times out. *)
QuietFrame(f) == /\ f.pc \in {"idle", "starting", "decide", "resuming", "cascade"}
                 /\ f.pc = "cascade" => f.outcome = "unbound"
Handlers == \A p \in Client : QuietFrame(at[p])

Threads == Unique /\ Untouched /\ OneDecider /\ Waking /\ Spawning /\ Handlers
ThreadInv == NoDuplication => Threads

-----------------------------------------------------------------------------
(* How holders change *)

(* What stands behind a child does not grow. *)
LEMMA StillExpected ==
  ASSUME NEW c \in Run, Begun(c)' => Begun(c), Unsent(c) => Unsent(c)',
         Pressing(c)' => Pressing(c)
  PROVE  Expected(c)' => Expected(c)
BY DEF Expected

(* No child holds its parent that did not before. *)
ChildrenFade == \A c \in Run : Expected(c)' => Expected(c) /\ parent'[c] = parent[c]

(* Nobody new holds anything. *)
LEMMA FewerHolders ==
  ASSUME Unique,
         \A r \in Run : \A k, x : Owns(k, x, r)' => Owns(k, x, r),
         ChildrenFade
  PROVE  Unique'
<1>1. \A r \in Run : \A k, x : Holds(k, x, r)' => Holds(k, x, r)
  BY DEF Holds, ChildrenFade
<1>2. QED BY <1>1 DEF Unique

(* The holder <<k, x>> of the run s hands it on to <<l, y>>. *)
Passes(s, k, x, l, y) ==
  /\ Holds(k, x, s) /\ ~Holds(k, x, s)'
  /\ \A r \in Run : \A m, z :
       Owns(m, z, r)' => Owns(m, z, r) \/ (m = l /\ z = y /\ r = s)

LEMMA HandedOn ==
  ASSUME Unique, NEW s \in Run, NEW k, NEW x, NEW l, NEW y,
         Passes(s, k, x, l, y), ChildrenFade
  PROVE  Unique'
<1>1. \A r \in Run : \A m, z : Holds(m, z, r)' =>
         Holds(m, z, r) \/ (m = l /\ z = y /\ r = s)
  BY DEF Holds, Passes, ChildrenFade
<1>2. \A m, z : Holds(m, z, s)' => m = l /\ z = y
  BY <1>1 DEF Unique, Passes
<1>3. ASSUME NEW r \in Run, r # s, NEW m, NEW z, NEW n, NEW w,
             Holds(m, z, r)', Holds(n, w, r)'
      PROVE  m = n /\ z = w
  BY <1>1, <1>3 DEF Unique
<1>4. QED BY <1>2, <1>3 DEF Unique

(* The frames after p has moved. *)
LEMMA Moved ==
  ASSUME TypeInv, NEW p \in Proc, NEW f, Step(p, f)
  PROVE  \A q \in Proc : at'[q] = IF q = p THEN f ELSE at[q]
BY DEF TypeInv, FramesOK, Step

(* An envelope's run, a question's run and a carried run all exist. *)
LEMMA CarriedRun ==
  ASSUME TypeInv, NEW p \in Worker, at[p].pc # "idle"
  PROVE  /\ p \in Proc /\ p \notin Client /\ at[p] \in Frame
         /\ at[p].job.run \in Run /\ at[p].job \in Envelope
BY ProcAssumption DEF TypeInv, FramesOK, Fits, Proc, Envelope

(* A process moves on without handing anything over: whatever holds a run  *)
(* afterwards held it before.                                              *)
LEMMA ThreadsFade ==
  ASSUME TypeInv, Threads, NEW p \in Proc, NEW f, Step(p, f),
         parent' = parent, broker' \subseteq broker,
         \A r \in Run, k \in 1..MaxHitl :
            hitl'[r][k].status = "pending" => hitl[r][k].status = "pending",
         \A r \in Run : row'[r] = "pending" => row[r] = "pending",
         \A r \in Run : run'[r] = "absent" => run[r] = "absent",
         \A r \in Run : Carries(p, f, r) => Carries(p, at[p], r),
         at[p].pc # "spawned", f.pc # "spawned",
         f.pc = "decide" =>
            /\ hitl[f.job.run][f.job.n].status = "pending"
            /\ \A q \in Client : ~Deciding(q, f.job.run, f.job.n),
         f.pc \in {"tellw", "wake"} => f.job = at[p].job /\ Pressing(f.job.run),
         f.pc = "wake" => row'[f.job.run] # "pending",
         p \in Client => QuietFrame(f)
  PROVE  Threads'
<1>1. \A q \in Proc : at'[q] = IF q = p THEN f ELSE at[q]
  BY Moved
<1>2. \A q \in Worker : q \in Proc
  BY DEF Proc
<1>3. \A q \in Client : q \in Proc
  BY DEF Proc
<1>4. ASSUME NEW r \in Run, NEW k \in 1..MaxHitl, NEW q \in Client, Deciding(q, r, k)'
      PROVE  Deciding(q, r, k) \/ (q = p /\ hitl[r][k].status = "pending"
                                    /\ \A w \in Client : ~Deciding(w, r, k))
  BY <1>1, <1>3, <1>4 DEF Deciding
<1>5. \A r \in Run : \A k, x : Owns(k, x, r)' => Owns(k, x, r)
  <2> SUFFICES ASSUME NEW r \in Run, NEW k, NEW x, Owns(k, x, r)' PROVE Owns(k, x, r)
    OBVIOUS
  <2>1. CASE k = "envelope" /\ x \in broker' /\ x.run = r
    BY <2>1 DEF Owns
  <2>2. CASE k = "process" /\ x \in Proc /\ Carries(x, at'[x], r)
    BY <1>1, <2>2 DEF Owns
  <2>3. CASE k = "question" /\ x \in 1..MaxHitl /\ Asked(r, x)'
    BY <1>4, <2>3 DEF Owns, Asked
  <2>4. QED BY <2>1, <2>2, <2>3 DEF Owns
<1>6. ASSUME NEW c \in Run PROVE Expected(c)' => Expected(c)
  <2>1. Begun(c)' => Begun(c)
    BY <1>5 DEF Begun
  <2>2. Unsent(c) => Unsent(c)'
    BY <1>1, <1>2 DEF Unsent
  <2>3. Pressing(c)' => Pressing(c)
    BY <1>1, <1>2 DEF Pressing, Reporting
  <2>4. QED BY <2>1, <2>2, <2>3, StillExpected
<1>7. Unique'
  BY <1>5, <1>6, FewerHolders DEF Threads, ChildrenFade
<1>8. Untouched'
  BY <1>5 DEF Threads, Untouched
<1>9. OneDecider'
  BY <1>4 DEF Threads, OneDecider
<1>10. Waking'
  <2> SUFFICES ASSUME NEW q \in Worker, at'[q].pc = "wake" PROVE row'[at'[q].job.run] # "pending"
    BY DEF Waking
  <2>1. CASE q = p
    BY <1>1, <2>1
  <2>2. CASE q # p
    <3>1. at'[q] = at[q] /\ at[q].job.run \in Run
      BY <1>1, <1>2, <2>2, CarriedRun
    <3>2. QED BY <3>1 DEF Threads, Waking
  <2>3. QED BY <2>1, <2>2
<1>11. Spawning'
  <2> SUFFICES ASSUME NEW q \in Worker, at'[q].pc = "spawned"
               PROVE  \E c \in Run : Spawned(q, c)'
    BY DEF Spawning
  <2>1. at'[q] = at[q]
    BY <1>1, <1>2
  <2>2. QED BY <2>1 DEF Threads, Spawning, Spawned
<1>12. Handlers'
  BY <1>1, <1>3 DEF Threads, Handlers
<1>13. QED BY <1>7, <1>8, <1>9, <1>10, <1>11, <1>12 DEF Threads

(* A process moves on to where nothing is to be said of its frame but that *)
(* a handler's is one of a handler.                                        *)
Moves(p, f) ==
  /\ Step(p, f)
  /\ at[p].pc # "spawned" /\ f.pc \notin {"spawned", "decide", "tellw", "wake"}
  /\ p \in Client => QuietFrame(f)

RunsKept == \A r \in Run : run'[r] = "absent" => run[r] = "absent"

(* A process moves and one run goes from one holder to another.            *)
LEMMA ThreadsPass ==
  ASSUME TypeInv, Threads, NEW p \in Proc, NEW f, Moves(p, f),
         UNCHANGED <<parent, row>>, RunsKept,
         NEW s \in Run, NEW k, NEW x, NEW l, NEW y, Passes(s, k, x, l, y)
  PROVE  Threads'
<1> USE DEF Moves
<1>1. \A q \in Proc : at'[q] = IF q = p THEN f ELSE at[q]
  BY Moved
<1>2. \A q \in Worker : q \in Proc
  BY DEF Proc
<1>3. \A q \in Client : q \in Proc
  BY DEF Proc
<1>4. Begun(s) /\ run[s] # "absent"
  BY DEF Holds, Begun, Threads, Untouched, Passes
<1>5. ASSUME NEW c \in Run PROVE Expected(c)' => Expected(c)
  <2>1. Begun(c)' => Begun(c)
    BY <1>4 DEF Begun, Passes
  <2>2. Unsent(c) => Unsent(c)'
    BY <1>1, <1>2 DEF Unsent
  <2>3. Pressing(c)' => Pressing(c)
    BY <1>1, <1>2 DEF Pressing, Reporting
  <2>4. QED BY <2>1, <2>2, <2>3, StillExpected
<1>6. Unique'
  BY <1>5, HandedOn DEF Threads, ChildrenFade
<1>7. Untouched'
  BY <1>4 DEF Threads, Untouched, Passes, RunsKept
<1>8. OneDecider'
  <2>1. \A r \in Run, n \in 1..MaxHitl : \A q \in Client :
           Deciding(q, r, n)' => Deciding(q, r, n)
    BY <1>1, <1>3 DEF Deciding
  <2>2. QED BY <2>1 DEF Threads, OneDecider
<1>9. Waking'
  BY <1>1, <1>2 DEF Threads, Waking
<1>10. Spawning'
  <2> SUFFICES ASSUME NEW q \in Worker, at'[q].pc = "spawned"
               PROVE  \E c \in Run : Spawned(q, c)'
    BY DEF Spawning
  <2>1. at'[q] = at[q]
    BY <1>1, <1>2
  <2>2. QED BY <2>1 DEF Threads, Spawning, Spawned
<1>11. Handlers'
  BY <1>1, <1>3 DEF Threads, Handlers
<1>12. QED BY <1>6, <1>7, <1>8, <1>9, <1>10, <1>11 DEF Threads

-----------------------------------------------------------------------------
(* Steps of a worker *)

(* The steps within execute_envelope that neither take nor send, and those *)
(* at its end: the worker keeps its run or lets it go.                     *)
LEMMA WorkerFades ==
  ASSUME TypeInv, Threads, NEW p \in Worker,
         \/ RunGraph(p) \/ GraphRaises(p) \/ SpawnRefused(p) \/ InlineResume(p)
         \/ MarkRead(p) \/ MarkWrite(p) \/ SettleCompleted(p) \/ FailRun(p) \/ Flush(p)
  PROVE  Threads'
<1> DEFINE r == at[p].job.run
<1>1. at[p].pc # "idle"
  BY DEF RunGraph, GraphRaises, SpawnRefused, InlineResume, MarkRead, MarkWrite,
         SettleCompleted, FailRun, Flush, HoldsTask
<1>2. DataOK /\ p \in Proc /\ p \notin Client /\ at[p] \in Frame /\ r \in Run
  BY <1>1, CarriedRun DEF TypeInv
<1>3. ASSUME NEW f, Step(p, f), UNCHANGED <<parent, row, hitl, broker>>,
             \A c \in Run : run'[c] = "absent" => run[c] = "absent",
             at[p].pc # "spawned",
             f.pc \notin {"spawned", "decide", "tellw", "wake"},
             \/ f.job = at[p].job /\ at[p].pc \in Driving
             \/ f.pc \in {"idle", "markw"}
             \/ f.pc = "flush" /\ f.outcome \notin Settling
      PROVE  Threads'
  <2>1. \A c \in Run : Carries(p, f, c) => Carries(p, at[p], c)
    BY <1>2, <1>3 DEF Carries, Driving
  <2>2. QED BY <1>2, <1>3, <2>1, ThreadsFade
<1>4. ASSUME NEW s \in RunStatus \ {"absent"}, SetRun(r, s)
      PROVE  \A c \in Run : run'[c] = "absent" => run[c] = "absent"
  BY <1>2, <1>4, SetRunStep
<1>5. ASSUME NEW l \in {"fail", "inline", "markw"}, Goto(p, l)
      PROVE  /\ Step(p, At(at[p], l)) /\ At(at[p], l).pc = l
             /\ At(at[p], l).job = at[p].job
  BY <1>2, <1>5, AtFrame DEF Goto, Pc
<1>6. ASSUME NEW l \in {"tell", "flush"}, NEW o \in Outcome, Conclude(p, l, o)
      PROVE  /\ Step(p, Concluded(at[p], l, o)) /\ Concluded(at[p], l, o).pc = l
             /\ Concluded(at[p], l, o).job = at[p].job
             /\ Concluded(at[p], l, o).outcome = o
  <2>1. l \in Pc
    BY <1>6 DEF Pc
  <2>2. QED BY <1>2, <1>6, <2>1, ConcludeFrame DEF Conclude
<1>7. CASE RunGraph(p)
  <2> DEFINE stop == NextStop(r, at[p].job.kind)
             l == IF AtSubgraph(r, stop) THEN "spawn" ELSE "settle"
             f == StoppedAt(at[p], l, stop)
  <2>1. at[p].pc = "graph" /\ Step(p, f) /\ UNCHANGED <<run, parent, row, hitl, broker>>
    BY <1>7 DEF RunGraph, HoldsTask, rows
  <2>2. stop \in Nat /\ l \in Pc /\ l \in {"spawn", "settle"}
    BY <1>2, NextStopNat DEF Pc
  <2> HIDE DEF stop, l
  <2>3. f.pc = l /\ f.job = at[p].job
    BY <1>2, <2>2, StopFrame
  <2> HIDE DEF f
  <2>4. QED BY <1>3, <2>1, <2>2, <2>3 DEF Driving
<1>8. CASE GraphRaises(p)
  <2>1. /\ at[p].pc \in Driving \ {"spawned"} /\ Goto(p, "fail")
        /\ UNCHANGED <<run, parent, row, hitl, broker>>
    BY <1>8 DEF GraphRaises, HoldsTask, rows, Driving
  <2>2. QED BY <1>3, <1>5, <2>1
<1>9. CASE SpawnRefused(p)
  <2>1. /\ at[p].pc \in Driving \ {"spawned"} /\ Goto(p, "inline")
        /\ UNCHANGED <<run, parent, row, hitl, broker>>
    BY <1>9 DEF SpawnRefused, HoldsTask, rows, Driving
  <2>2. QED BY <1>3, <1>5, <2>1
<1>10. CASE InlineResume(p)
  <2> DEFINE stop == NextStop(r, "child")
             f == StoppedAt(at[p], "settle", stop)
  <2>1. at[p].pc = "inline" /\ Step(p, f) /\ UNCHANGED <<run, parent, row, hitl, broker>>
    BY <1>10 DEF InlineResume, HoldsTask, rows
  <2>2. stop \in Nat /\ "settle" \in Pc
    BY <1>2, NextStopNat DEF Pc
  <2> HIDE DEF stop
  <2>3. f.pc = "settle" /\ f.job = at[p].job
    BY <1>2, <2>2, StopFrame
  <2> HIDE DEF f
  <2>4. QED BY <1>3, <2>1, <2>3 DEF Driving
<1>11. CASE MarkRead(p)
  <2>1. /\ at[p].pc = "mark" /\ UNCHANGED <<run, parent, row, hitl, broker>>
        /\ Goto(p, "markw") \/ Conclude(p, "flush", "waiting")
    BY <1>11 DEF MarkRead, HoldsTask
  <2>2. "waiting" \in Outcome /\ "waiting" \notin Settling
    BY DEF Outcome, Settling
  <2>3. QED BY <1>3, <1>5, <1>6, <2>1, <2>2
<1>12. CASE MarkWrite(p)
  <2>1. /\ at[p].pc = "markw" /\ UNCHANGED <<parent, row, hitl, broker>>
        /\ Conclude(p, "flush", "waiting") /\ SetRun(r, "waiting_child")
    BY <1>12 DEF MarkWrite, HoldsTask
  <2>2. "waiting" \in Outcome /\ "waiting" \notin Settling /\ "waiting_child" \in RunStatus
    BY DEF Outcome, Settling, RunStatus
  <2>3. QED BY <1>3, <1>4, <1>6, <2>1, <2>2
<1>13. CASE SettleCompleted(p)
  <2>1. /\ at[p].pc = "settle" /\ UNCHANGED <<parent, row, hitl, broker>>
        /\ Conclude(p, "tell", "completed") /\ SetRun(r, "completed")
    BY <1>13 DEF SettleCompleted, HoldsTask, AfterCompletion
  <2>2. "completed" \in Outcome /\ "completed" \in RunStatus
    BY DEF Outcome, Told, RunStatus, Terminal
  <2>3. QED BY <1>3, <1>4, <1>6, <2>1, <2>2 DEF Driving
<1>14. CASE FailRun(p)
  <2>1. /\ at[p].pc = "fail" /\ UNCHANGED <<parent, row, hitl, broker>>
        /\ Conclude(p, "tell", "failed") /\ SetRun(r, "failed")
    BY <1>14 DEF FailRun, HoldsTask
  <2>2. "failed" \in Outcome /\ "failed" \in RunStatus
    BY DEF Outcome, Told, RunStatus, Terminal
  <2>3. QED BY <1>3, <1>4, <1>6, <2>1, <2>2 DEF Driving
<1>15. CASE Flush(p)
  <2>1. IdleFrame.pc = "idle"
    BY DEF IdleFrame, FrameFor
  <2>2. QED BY <1>3, <1>15, <2>1 DEF Flush, HoldsTask, Return
<1>16. QED BY <1>7, <1>8, <1>9, <1>10, <1>11, <1>12, <1>13, <1>14, <1>15

(* The envelope's run is in the hands of the worker that takes it.         *)
LEMMA ClaimPasses ==
  ASSUME TypeInv, Threads, NEW p \in Worker, Claim(p) PROVE Threads'
<1>1. PICK e \in broker :
         /\ broker' = broker \ {e}
         /\ SetRun(e.run, "running")
         /\ Step(p, [FrameFor("graph", e, "none", {}, {}) EXCEPT !.rec = RecordOf(e.run)])
  BY DEF Claim
<1>2. PICK f : f.pc = "graph" /\ f.job = e /\ Step(p, f)
  <2> DEFINE f == [FrameFor("graph", e, "none", {}, {}) EXCEPT !.rec = RecordOf(e.run)]
  <2>1. f.pc = "graph" /\ f.job = e /\ Step(p, f)
    BY <1>1 DEF FrameFor
  <2>2. QED BY <2>1
<1>3. /\ e.run \in Run /\ p \in Proc /\ p \notin Client /\ at[p].pc = "idle"
      /\ UNCHANGED <<parent, row, hitl>>
  BY <1>1, ProcAssumption DEF TypeInv, DataOK, Envelope, Proc, Claim, HoldsTask
<1>4. RunsKept
  BY <1>1, <1>3 DEF TypeInv, DataOK, SetRun, RunsKept
<1>5. \A q \in Proc : at'[q] = IF q = p THEN f ELSE at[q]
  BY <1>2, <1>3, Moved
<1>6. ASSUME NEW r \in Run, NEW m, NEW z, Owns(m, z, r)'
      PROVE  Owns(m, z, r) \/ (m = "process" /\ z = p /\ r = e.run)
  <2>1. CASE m = "envelope" /\ z \in broker' /\ z.run = r
    BY <1>1, <2>1 DEF Owns
  <2>2. CASE m = "process" /\ z \in Proc /\ Carries(z, at'[z], r)
    BY <1>2, <1>3, <1>5, <2>2 DEF Owns, Carries
  <2>3. CASE m = "question" /\ z \in 1..MaxHitl /\ Asked(r, z)'
    <3>1. \A q \in Client : Deciding(q, r, z)' => Deciding(q, r, z)
      BY <1>3, <1>5 DEF Deciding, Proc
    <3>2. QED BY <1>3, <2>3, <3>1 DEF Owns, Asked
  <2>4. QED BY <1>6, <2>1, <2>2, <2>3 DEF Owns
<1>7. Holds("envelope", e, e.run) /\ ~Holds("envelope", e, e.run)'
  BY <1>1 DEF Holds, Owns
<1>8. Passes(e.run, "envelope", e, "process", p)
  BY <1>6, <1>7 DEF Passes
<1>9. Moves(p, f)
  BY <1>2, <1>3 DEF Moves
<1>10. QED BY <1>3, <1>4, <1>8, <1>9, ThreadsPass

(* A worker that settles an interrupt leaves its run to the question.      *)
LEMMA SettlePasses ==
  ASSUME TypeInv, Threads, NEW p \in Worker, SettleInterrupt(p) PROVE Threads'
<1>1. PICK r \in Run : r = at[p].job.run
  BY CarriedRun DEF SettleInterrupt, HoldsTask
<1>2. /\ p \in Proc /\ p \notin Client /\ at[p] \in Frame /\ at[p].pc = "settle"
      /\ UNCHANGED <<parent, row, broker>> /\ SetRun(r, "interrupted")
      /\ Conclude(p, "flush", "interrupted")
  BY <1>1, CarriedRun DEF SettleInterrupt, HoldsTask
<1>3. PICK f : Step(p, f) /\ f.pc = "flush" /\ f.outcome = "interrupted"
  <2>1. "flush" \in Pc /\ "interrupted" \in Outcome
    BY DEF Pc, Outcome
  <2>2. QED BY <1>2, <2>1, ConcludeFrame DEF Conclude
<1>4. PICK k \in 1..MaxHitl : \E h : hitl' = [hitl EXCEPT ![r][k] = h]
  BY <1>1 DEF SettleInterrupt
<1>5. \A q \in Proc : at'[q] = IF q = p THEN f ELSE at[q]
  BY <1>2, <1>3, Moved
<1>6. RunsKept
  BY <1>2 DEF TypeInv, DataOK, SetRun, RunsKept
<1>7. ASSUME NEW s \in Run, NEW m, NEW z, Owns(m, z, s)'
      PROVE  Owns(m, z, s) \/ (m = "question" /\ z = k /\ s = r)
  <2>1. CASE m = "envelope" /\ z \in broker' /\ z.run = s
    BY <1>2, <2>1 DEF Owns
  <2>2. CASE m = "process" /\ z \in Proc /\ Carries(z, at'[z], s)
    BY <1>2, <1>3, <1>5, <2>2 DEF Owns, Carries, Driving, Settling
  <2>3. CASE m = "question" /\ z \in 1..MaxHitl /\ Asked(s, z)'
    <3>1. \A q \in Client : Deciding(q, s, z)' => Deciding(q, s, z)
      BY <1>2, <1>5 DEF Deciding, Proc
    <3>2. (z = k /\ s = r) \/ hitl'[s][z] = hitl[s][z]
      BY <1>4, <2>3 DEF TypeInv, DataOK
    <3>3. QED BY <2>3, <3>1, <3>2 DEF Owns, Asked
  <2>4. QED BY <1>7, <2>1, <2>2, <2>3 DEF Owns
<1>8. Holds("process", p, r) /\ ~Holds("process", p, r)'
  BY <1>1, <1>2, <1>3, <1>5 DEF Holds, Owns, Carries, Driving, Settling
<1>9. Passes(r, "process", p, "question", k)
  BY <1>7, <1>8 DEF Passes
<1>10. Moves(p, f)
  BY <1>2, <1>3 DEF Moves
<1>11. QED BY <1>2, <1>6, <1>9, <1>10, ThreadsPass

-----------------------------------------------------------------------------
(* New runs *)

(* The process p creates the run c and has it in hand.                     *)
Creates(p, f, c, par) ==
  /\ Step(p, f) /\ UNCHANGED <<broker, hitl>>
  /\ run[c] = "absent" /\ run'[c] # "absent" /\ RunsKept
  /\ parent' = [parent EXCEPT ![c] = par]
  /\ \A d \in Run : d # c => row'[d] = row[d]
  /\ par = NoRun \/ (par \in Run /\ Carries(p, at[p], par))
  /\ \A s \in Run : s # c /\ Carries(p, f, s) => Carries(p, at[p], s)
  /\ at[p].pc # "spawned" /\ f.pc \notin {"decide", "tellw", "wake"}
  /\ f.pc = "spawned" => f.todo = {c} /\ par = f.job.run
  /\ row'[c] = "pending" => f.pc = "spawned"
  /\ p \in Client => QuietFrame(f)

LEMMA CreationKeeps ==
  ASSUME TypeInv, Threads, NEW p \in Proc, NEW f, NEW c \in Run, NEW par,
         Creates(p, f, c, par), f.pc = "spawned" => p \in Worker
  PROVE  Threads'
<1> USE DEF Creates
<1>1. \A q \in Proc : at'[q] = IF q = p THEN f ELSE at[q]
  BY Moved
<1>2. \A q \in Worker : q \in Proc
  BY DEF Proc
<1>3. \A q \in Client : q \in Proc
  BY DEF Proc
<1>4. \A k, x : ~Owns(k, x, c)
  BY DEF Threads, Untouched
<1>5. \A d \in Run : parent[d] # c
  BY DEF Threads, Untouched
<1>6. par # c /\ (par \in Run => run[par] # "absent" /\ Begun(par))
  <2>1. CASE par = NoRun
    BY <2>1, RunAssumption
  <2>2. CASE par \in Run /\ Carries(p, at[p], par)
    <3>1. Owns("process", p, par)
      BY <2>2 DEF Owns
    <3>2. QED BY <1>4, <3>1, <2>2 DEF Threads, Untouched, Begun
  <2>3. QED BY <2>1, <2>2
<1>7. parent \in [Run -> Run \cup {NoRun}]
  BY DEF TypeInv, DataOK
<1>8. \A d \in Run : parent'[d] = IF d = c THEN par ELSE parent[d]
  BY <1>7
<1>9. \A q \in Client : \A s \in Run, n \in 1..MaxHitl :
         Deciding(q, s, n)' => Deciding(q, s, n)
  BY <1>1, <1>3 DEF Deciding
<1>10. ASSUME NEW s \in Run, NEW k, NEW x, Owns(k, x, s)'
       PROVE  Owns(k, x, s) \/ (k = "process" /\ x = p /\ s = c)
  <2>1. CASE k = "envelope" /\ x \in broker' /\ x.run = s
    BY <2>1 DEF Owns
  <2>2. CASE k = "process" /\ x \in Proc /\ Carries(x, at'[x], s)
    BY <1>1, <2>2 DEF Owns
  <2>3. CASE k = "question" /\ x \in 1..MaxHitl /\ Asked(s, x)'
    BY <1>9, <2>3 DEF Owns, Asked
  <2>4. QED BY <1>10, <2>1, <2>2, <2>3 DEF Owns
<1>11. ASSUME NEW q \in Worker, at[q].pc \in {"tellw", "wake", "spawned"}
       PROVE  at[q].job.run # c
  <2>1. SUFFICES ASSUME at[q].job.run = c PROVE Owns("process", q, c)
    BY <1>4
  <2>2. QED BY <1>2, <1>11, <2>1 DEF Owns, Carries, Driving
<1>12. ~Expected(c)'
  <2>1. CASE f.pc = "spawned"
    <3>1. Unsent(c)'
      BY <1>1, <2>1 DEF Unsent
    <3>2. QED BY <3>1 DEF Expected
  <2>2. CASE f.pc # "spawned"
    <3>1. ~Reporting(c)'
      BY <1>1, <1>2, <1>11 DEF Reporting
    <3>2. QED BY <2>2, <3>1 DEF Expected, Pressing
  <2>3. QED BY <2>1, <2>2
<1>13. ASSUME NEW d \in Run, d # c PROVE Expected(d)' => Expected(d)
  <2>1. Begun(d)' => Begun(d)
    BY <1>6, <1>8, <1>10, <1>13 DEF Begun
  <2>2. Unsent(d) => Unsent(d)'
    BY <1>1, <1>2 DEF Unsent
  <2>3. Pressing(d)' => Pressing(d)
    BY <1>1, <1>2, <1>13 DEF Pressing, Reporting
  <2>4. QED BY <2>1, <2>2, <2>3, StillExpected
<1>14. Unique'
  <2>1. ASSUME NEW s \in Run, s # c, NEW k, NEW x, Holds(k, x, s)' PROVE Holds(k, x, s)
    BY <1>8, <1>10, <1>12, <1>13, <2>1 DEF Holds
  <2>2. ASSUME NEW k, NEW x, Holds(k, x, c)' PROVE k = "process" /\ x = p
    <3>1. ~(k = "child" /\ x \in Run /\ parent'[x] = c /\ Expected(x)')
      BY <1>5, <1>6, <1>8
    <3>2. QED BY <1>4, <1>10, <2>2, <3>1 DEF Holds
  <2> SUFFICES ASSUME NEW s \in Run, NEW k, NEW x, NEW l, NEW y,
                      Holds(k, x, s)', Holds(l, y, s)'
               PROVE  k = l /\ x = y
    BY DEF Unique
  <2>3. CASE s = c
    BY <2>2, <2>3
  <2>4. CASE s # c
    BY <2>1, <2>4 DEF Threads, Unique
  <2>5. QED BY <2>3, <2>4
<1>15. Untouched'
  <2> SUFFICES ASSUME NEW s \in Run, run'[s] = "absent"
               PROVE  (\A k, x : ~Owns(k, x, s)') /\ \A d \in Run : parent'[d] # s
    BY DEF Untouched
  <2>1. s # c /\ run[s] = "absent"
    BY DEF RunsKept
  <2>2. QED BY <1>6, <1>8, <1>10, <2>1 DEF Threads, Untouched
<1>16. OneDecider'
  BY <1>9 DEF Threads, OneDecider
<1>17. Waking'
  <2> SUFFICES ASSUME NEW q \in Worker, at'[q].pc = "wake" PROVE row'[at'[q].job.run] # "pending"
    BY DEF Waking
  <2>1. at'[q] = at[q] /\ at[q].job.run \in Run /\ at[q].job.run # c
    BY <1>1, <1>2, <1>11, CarriedRun
  <2>2. QED BY <2>1 DEF Threads, Waking
<1>18. Spawning'
  <2> SUFFICES ASSUME NEW q \in Worker, at'[q].pc = "spawned"
               PROVE  \E e \in Run : Spawned(q, e)'
    BY DEF Spawning
  <2>1. CASE q = p
    <3>1. at'[p] = f /\ f.todo = {c} /\ parent'[c] = f.job.run /\ c # f.job.run
      BY <1>1, <1>6, <1>8, <2>1
    <3>2. \A d \in Run : parent'[d] # c
      BY <1>5, <1>6, <1>8
    <3>3. Spawned(q, c)'
      BY <2>1, <3>1, <3>2 DEF Spawned
    <3>4. QED BY <3>3
  <2>2. CASE q # p
    <3>1. at'[q] = at[q]
      BY <1>1, <1>2, <2>2
    <3>2. PICK e \in Run : Spawned(q, e)
      BY <3>1 DEF Threads, Spawning
    <3>3. Owns("process", q, e)
      BY <1>2, <3>1, <3>2 DEF Owns, Carries, Spawned
    <3>4. e # c /\ e # par
      <4>1. e # c
        BY <1>4, <3>3
      <4>2. ASSUME e = par PROVE FALSE
        <5>1. Owns("process", p, e)
          BY <4>2, RunAssumption DEF Owns
        <5>2. QED BY <2>2, <3>3, <5>1 DEF Threads, Unique, Holds
      <4>3. QED BY <4>1, <4>2
    <3>5. Spawned(q, e)'
      BY <1>8, <3>1, <3>2, <3>4 DEF Spawned
    <3>6. QED BY <3>5
  <2>3. QED BY <2>1, <2>2
<1>19. Handlers'
  BY <1>1, <1>3 DEF Threads, Handlers
<1>20. QED BY <1>14, <1>15, <1>16, <1>17, <1>18, <1>19 DEF Threads

(* A caller submits a root run. *)
LEMMA SubmitKeeps ==
  ASSUME TypeInv, Threads, NEW p \in Client, Submit(p) PROVE Threads'
<1>1. PICK c \in Run :
         /\ run[c] = "absent" /\ SetRun(c, "pending")
         /\ CreateRun(c, NoRun, 1, "none", "streaming")
         /\ Step(p, FrameFor("starting", StartEnvelope(c), "none", {}, {}))
  BY DEF Submit
<1>2. PICK f : Step(p, f) /\ f.pc = "starting" /\ f.job.run = c
  <2> DEFINE f == FrameFor("starting", StartEnvelope(c), "none", {}, {})
  <2>1. Step(p, f) /\ f.pc = "starting" /\ f.job.run = c
    BY <1>1 DEF FrameFor, StartEnvelope
  <2>2. QED BY <2>1
<1>3. p \in Proc /\ p \notin Worker /\ at[p].pc = "idle" /\ UNCHANGED <<broker, hitl>>
  BY ProcAssumption DEF Submit, Proc
<1>4. run'[c] # "absent" /\ RunsKept /\ row'[c] = "none"
  BY <1>1 DEF TypeInv, DataOK, SetRun, CreateRun, RunsKept
<1>5. \A d \in Run : d # c => row'[d] = row[d]
  BY <1>1 DEF TypeInv, DataOK, CreateRun
<1>6. \A s \in Run : s # c => ~Carries(p, f, s)
  BY <1>2, <1>3 DEF Carries
<1>7. Creates(p, f, c, NoRun)
  BY <1>1, <1>2, <1>3, <1>4, <1>5, <1>6 DEF Creates, CreateRun, QuietFrame
<1>8. QED BY <1>2, <1>3, <1>7, CreationKeeps

(* A worker spawns a child; it holds both runs until the dispatch.         *)
LEMMA SpawnKeeps ==
  ASSUME TypeInv, Threads, NEW p \in Worker, SpawnChild(p) PROVE Threads'
<1>1. PICK r \in Run : r = at[p].job.run
  BY CarriedRun DEF SpawnChild, HoldsTask
<1>2. PICK c \in Run :
         /\ run[c] = "absent"
         /\ run' = [run EXCEPT ![c] = "pending", ![r] = "waiting_child"]
         /\ CreateRun(c, r, depth[r] + 1, "pending", "none")
         /\ Step(p, Carrying(at[p], "spawned", {c}))
  BY <1>1 DEF SpawnChild
<1>3. /\ p \in Proc /\ p \notin Client /\ at[p] \in Frame /\ at[p].pc = "spawn"
      /\ UNCHANGED <<broker, hitl>>
  BY CarriedRun DEF SpawnChild, HoldsTask
<1>4. PICK f : Step(p, f) /\ f.pc = "spawned" /\ f.job = at[p].job /\ f.todo = {c}
  <2> DEFINE f == Carrying(at[p], "spawned", {c})
  <2>1. Step(p, f) /\ f.pc = "spawned" /\ f.job = at[p].job /\ f.todo = {c}
    BY <1>2, <1>3 DEF Carrying, Frame
  <2>2. QED BY <2>1
<1>5. run'[c] # "absent" /\ RunsKept
  BY <1>2 DEF TypeInv, DataOK, RunsKept
<1>6. \A d \in Run : d # c => row'[d] = row[d]
  BY <1>2 DEF TypeInv, DataOK, CreateRun
<1>7. /\ Carries(p, at[p], r)
      /\ \A s \in Run : s # c /\ Carries(p, f, s) => Carries(p, at[p], s)
  BY <1>1, <1>3, <1>4 DEF Carries, Driving
<1>8. Creates(p, f, c, r)
  BY <1>1, <1>2, <1>3, <1>4, <1>5, <1>6, <1>7 DEF Creates, CreateRun
<1>9. QED BY <1>3, <1>8, CreationKeeps

(* With the dispatch the child has its own thread, and the parent's waits  *)
(* for it.                                                                 *)
LEMMA DispatchKeeps ==
  ASSUME TypeInv, Threads, NEW p \in Worker, DispatchChild(p) PROVE Threads'
<1>1. PICK r \in Run : r = at[p].job.run
  BY CarriedRun DEF DispatchChild, HoldsTask
<1>2. /\ p \in Proc /\ p \notin Client /\ at[p] \in Frame /\ at[p].pc = "spawned"
      /\ UNCHANGED <<run, parent, row, hitl>>
  BY CarriedRun DEF DispatchChild, HoldsTask, rows
<1>3. PICK c \in Run : Spawned(p, c)
  BY <1>2 DEF Threads, Spawning
<1>4. PICK e : e = StartEnvelope(c)
  OBVIOUS
<1>5. broker' = broker \cup {e} /\ e.run = c
  BY <1>3, <1>4 DEF DispatchChild, Spawned, StartEnvelope
<1>6. PICK f : Step(p, f) /\ f.pc = "mark"
  <2>1. "mark" \in Pc /\ {} \in SUBSET Run
    BY DEF Pc
  <2>2. QED BY <1>2, <2>1, CarryFrame DEF DispatchChild
<1>7. \A q \in Proc : at'[q] = IF q = p THEN f ELSE at[q]
  BY <1>2, <1>6, Moved
<1>8. \A q \in Worker : q \in Proc
  BY DEF Proc
<1>9. \A q \in Client : q \in Proc /\ at'[q] = at[q]
  BY <1>2, <1>7 DEF Proc
<1>10. c # r /\ parent[c] = r /\ \A d \in Run : parent[d] # c
  BY <1>1, <1>3 DEF Spawned
<1>11. Owns("process", p, r) /\ Owns("process", p, c)
  BY <1>1, <1>2, <1>3 DEF Owns, Carries, Driving, Spawned
<1>12. ASSUME NEW s \in Run, NEW k, NEW x, Owns(k, x, s)'
       PROVE  \/ Owns(k, x, s) /\ ~(k = "process" /\ x = p)
              \/ k = "envelope" /\ x = e /\ s = c
  <2>1. CASE k = "envelope" /\ x \in broker' /\ x.run = s
    BY <1>5, <2>1 DEF Owns
  <2>2. CASE k = "process" /\ x \in Proc /\ Carries(x, at'[x], s)
    BY <1>2, <1>6, <1>7, <2>2 DEF Owns, Carries, Driving
  <2>3. CASE k = "question" /\ x \in 1..MaxHitl /\ Asked(s, x)'
    BY <1>2, <1>9, <2>3 DEF Owns, Asked, Deciding
  <2>4. QED BY <1>12, <2>1, <2>2, <2>3 DEF Owns
<1>13. ASSUME NEW d \in Run, d # c PROVE Expected(d)' => Expected(d)
  <2>1. Begun(d)' => Begun(d)
    BY <1>2, <1>12, <1>13 DEF Begun
  <2>2. Unsent(d) => Unsent(d)'
    BY <1>3, <1>7, <1>8, <1>13 DEF Unsent, Spawned
  <2>3. Pressing(d)' => Pressing(d)
    BY <1>2, <1>6, <1>7, <1>8 DEF Pressing, Reporting
  <2>4. QED BY <2>1, <2>2, <2>3, StillExpected
<1>14. ASSUME NEW k, NEW x, Holds(k, x, c)' PROVE k = "envelope" /\ x = e
  <2>1. Owns(k, x, c)'
    BY <1>2, <1>10, <1>14 DEF Holds
  <2>2. CASE Owns(k, x, c) /\ ~(k = "process" /\ x = p)
    BY <1>11, <2>2 DEF Threads, Unique, Holds
  <2>3. QED BY <1>12, <2>1, <2>2
<1>15. ASSUME NEW k, NEW x, Holds(k, x, r)' PROVE k = "child" /\ x = c
  <2>1. CASE Owns(k, x, r)'
    <3>1. Owns(k, x, r) /\ ~(k = "process" /\ x = p)
      BY <1>10, <1>12, <2>1
    <3>2. QED BY <1>11, <3>1 DEF Threads, Unique, Holds
  <2>2. CASE k = "child" /\ x \in Run /\ parent'[x] = r /\ Expected(x)'
    <3>1. SUFFICES ASSUME x # c PROVE FALSE
      BY <2>2
    <3>2. Holds(k, x, r)
      BY <1>2, <1>13, <2>2, <3>1 DEF Holds
    <3>3. Holds("process", p, r)
      BY <1>11 DEF Holds
    <3>4. k = "process"
      BY <3>2, <3>3 DEF Threads, Unique
    <3>5. QED BY <2>2, <3>4
  <2>3. QED BY <1>15, <2>1, <2>2 DEF Holds
<1>16. ASSUME NEW s \in Run, s # c, s # r, NEW k, NEW x, Holds(k, x, s)' PROVE Holds(k, x, s)
  <2>1. CASE Owns(k, x, s)'
    BY <1>12, <1>16, <2>1 DEF Holds
  <2>2. CASE k = "child" /\ x \in Run /\ parent'[x] = s /\ Expected(x)'
    BY <1>2, <1>10, <1>13, <1>16, <2>2 DEF Holds
  <2>3. QED BY <1>16, <2>1, <2>2 DEF Holds
<1>17. Unique'
  <2> SUFFICES ASSUME NEW s \in Run, NEW k, NEW x, NEW l, NEW y,
                      Holds(k, x, s)', Holds(l, y, s)'
               PROVE  k = l /\ x = y
    BY DEF Unique
  <2>1. CASE s = c
    BY <1>14, <2>1
  <2>2. CASE s = r
    BY <1>15, <2>2
  <2>3. CASE s # c /\ s # r
    BY <1>16, <2>3 DEF Threads, Unique
  <2>4. QED BY <2>1, <2>2, <2>3
<1>18. Untouched'
  <2>1. run[c] # "absent"
    BY <1>11 DEF Threads, Untouched
  <2> SUFFICES ASSUME NEW s \in Run, run[s] = "absent"
               PROVE  (\A k, x : ~Owns(k, x, s)') /\ \A d \in Run : parent[d] # s
    BY <1>2 DEF Untouched
  <2>2. QED BY <1>12, <2>1 DEF Threads, Untouched
<1>19. OneDecider'
  BY <1>9 DEF Threads, OneDecider, Deciding
<1>20. Waking'
  BY <1>2, <1>6, <1>7, <1>8 DEF Threads, Waking
<1>21. Spawning'
  <2> SUFFICES ASSUME NEW q \in Worker, at'[q].pc = "spawned"
               PROVE  \E d \in Run : Spawned(q, d)'
    BY DEF Spawning
  <2>1. at'[q] = at[q]
    BY <1>6, <1>7, <1>8
  <2>2. QED BY <1>2, <2>1 DEF Threads, Spawning, Spawned
<1>22. Handlers'
  BY <1>9 DEF Threads, Handlers
<1>23. QED BY <1>17, <1>18, <1>19, <1>20, <1>21, <1>22 DEF Threads

-----------------------------------------------------------------------------
(* Reporting to the parent *)

(* Exactly one envelope is added. *)
LEMMA Enqueues ==
  ASSUME NEW r, NEW kind, EnqueueResume(r, kind, TRUE)
  PROVE  \E e : broker' = broker \cup {e} /\ e.run = r
<1> DEFINE e == [run |-> r, n |-> last[r] + 1, kind |-> kind]
<1>1. broker' = broker \cup {e} /\ e.run = r
  BY DEF EnqueueResume
<1>2. QED BY <1>1

(* A worker about to wake a parent: its run holds the parent's thread.      *)
LEMMA WakerHolds ==
  ASSUME TypeInv, Threads, NEW p \in Worker, at[p].pc = "wake",
         NEW c \in Run, c = at[p].job.run, NEW s \in Run, s = parent[c]
  PROVE  Holds("child", c, s)
<1>1. p \in Proc /\ Carries(p, at[p], c)
  BY DEF Carries, Driving, Proc
<1>2. ~Unsent(c)
  <2>1. SUFFICES ASSUME NEW q \in Worker, at[q].pc = "spawned", c \in at[q].todo
                 PROVE  FALSE
    BY DEF Unsent
  <2>2. Holds("process", q, c) /\ Holds("process", p, c)
    BY <1>1, <2>1 DEF Holds, Owns, Carries, Proc
  <2>3. QED BY <2>1, <2>2 DEF Threads, Unique
<1>3. Owns("process", p, c) /\ Reporting(c)
  BY <1>1 DEF Owns, Reporting
<1>4. Expected(c)
  BY <1>2, <1>3 DEF Expected, Begun, Pressing
<1>5. QED BY <1>4 DEF Holds

(* A worker that reports: the child holds the parent's thread up to the    *)
(* envelope.                                                               *)
LEMMA TellKeeps ==
  ASSUME TypeInv, Threads, NEW p \in Proc, TellStep(p) PROVE Threads'
<1>1. at[p].pc \in {"tell", "tellw", "wake"}
  BY DEF TellStep, TellRead, TellWrite, WakeParent
<1>2. p \in Worker /\ p \notin Client
  BY <1>1, ProcAssumption DEF Threads, Handlers, QuietFrame, Proc
<1>3. PICK c \in Run : c = at[p].job.run
  BY <1>1, <1>2, CarriedRun
<1>4. at[p] \in Frame /\ UNCHANGED <<parent, hitl, run>>
  BY <1>1, <1>2, CarriedRun DEF TellStep, TellRead, TellWrite, WakeParent
<1>5. RunsKept
  BY <1>4 DEF RunsKept
<1>6. ASSUME NEW l \in {"flush", "tellw", "wake"}, Goto(p, l)
      PROVE  \E f : Step(p, f) /\ f.pc = l /\ f.job = at[p].job
  <2>1. l \in Pc
    BY <1>6 DEF Pc
  <2>2. QED BY <1>4, <1>6, <2>1, AtFrame DEF Goto
<1>7. \A s \in Run : s = c => Carries(p, at[p], s)
  BY <1>1, <1>2, <1>3 DEF Carries, Driving
<1>8. CASE TellRead(p)
  <2>1. /\ at[p].pc = "tell" /\ broker' = broker
        /\ \A d \in Run : row'[d] = "pending" => row[d] = "pending"
    BY <1>8 DEF TellRead, TypeInv, DataOK
  <2>2. CASE Goto(p, "flush")
    <3>1. PICK f : Step(p, f) /\ f.pc = "flush" /\ f.job = at[p].job
      BY <1>6, <2>2
    <3>2. \A s \in Run : Carries(p, f, s) => Carries(p, at[p], s)
      BY <1>2, <1>3, <1>7, <3>1 DEF Carries
    <3>3. QED BY <1>2, <1>4, <1>5, <2>1, <3>1, <3>2, ThreadsFade DEF RunsKept
  <2>3. CASE row[c] = "pending" /\ Goto(p, "tellw")
    <3>1. PICK f : Step(p, f) /\ f.pc = "tellw" /\ f.job = at[p].job
      BY <1>6, <2>3
    <3>2. \A s \in Run : Carries(p, f, s) => Carries(p, at[p], s)
      BY <1>2, <1>3, <1>7, <3>1 DEF Carries
    <3>3. Pressing(f.job.run)
      BY <1>3, <2>3, <3>1 DEF Pressing
    <3>4. QED BY <1>2, <1>4, <1>5, <2>1, <3>1, <3>2, <3>3, ThreadsFade DEF RunsKept
  <2>4. QED BY <1>2, <1>3, <1>8, <2>2, <2>3 DEF TellRead, AfterTell, Unreported
<1>9. CASE TellWrite(p)
  <2>1. /\ at[p].pc = "tellw" /\ broker' = broker /\ Goto(p, "wake")
        /\ row' = [row EXCEPT ![c] = "resumed"]
    BY <1>3, <1>9 DEF TellWrite, RowOnceReported
  <2>2. row'[c] # "pending" /\ \A d \in Run : row'[d] = "pending" => row[d] = "pending"
    BY <2>1 DEF TypeInv, DataOK
  <2>3. PICK f : Step(p, f) /\ f.pc = "wake" /\ f.job = at[p].job
    BY <1>6, <2>1
  <2>4. \A s \in Run : Carries(p, f, s) => Carries(p, at[p], s)
    BY <1>2, <1>3, <1>7, <2>3 DEF Carries
  <2>5. Pressing(f.job.run)
    BY <1>2, <2>1, <2>3 DEF Pressing, Reporting
  <2>6. QED BY <1>2, <1>3, <1>4, <1>5, <2>1, <2>2, <2>3, <2>4, <2>5, ThreadsFade DEF RunsKept
<1>10. CASE WakeParent(p)
  <2>1. /\ at[p].pc = "wake" /\ Goto(p, "flush") /\ row' = row
        /\ EnqueueResume(parent[c], "child", TRUE)
    BY <1>2, <1>3, <1>10 DEF WakeParent, AfterTell
  <2>2. PICK s \in Run : s = parent[c]
    BY <1>3, <2>1, WakesSomeone
  <2>3. PICK e : broker' = broker \cup {e} /\ e.run = s
    BY <2>1, <2>2, Enqueues
  <2>4. PICK f : Step(p, f) /\ f.pc = "flush" /\ f.job = at[p].job
    BY <1>6, <2>1
  <2>5. \A q \in Proc : at'[q] = IF q = p THEN f ELSE at[q]
    BY <2>4, Moved
  <2>6. ASSUME NEW q \in Worker, q # p, NEW d \in Run, Carries(q, at[q], d)
        PROVE  d # c
    BY <1>7, <2>6 DEF Threads, Unique, Holds, Owns, Proc
  <2>7. Holds("child", c, s)
    BY <1>2, <1>3, <2>1, <2>2, WakerHolds
  <2>8. ~Holds("child", c, s)'
    <3>1. row'[c] # "pending"
      BY <1>2, <1>3, <2>1 DEF Threads, Waking
    <3>2. ~Reporting(c)'
      BY <2>4, <2>5, <2>6 DEF Reporting, Carries, Driving, Proc
    <3>3. ~Expected(c)'
      BY <3>1, <3>2 DEF Expected, Pressing
    <3>4. ~Owns("child", c, s)'
      BY DEF Owns
    <3>5. QED BY <3>3, <3>4 DEF Holds
  <2>9. ASSUME NEW d \in Run, NEW m, NEW z, Owns(m, z, d)'
        PROVE  Owns(m, z, d) \/ (m = "envelope" /\ z = e /\ d = s)
    <3>1. CASE m = "envelope" /\ z \in broker' /\ z.run = d
      BY <2>3, <3>1 DEF Owns
    <3>2. CASE m = "process" /\ z \in Proc /\ Carries(z, at'[z], d)
      BY <1>2, <1>3, <1>7, <2>4, <2>5, <3>2 DEF Owns, Carries
    <3>3. CASE m = "question" /\ z \in 1..MaxHitl /\ Asked(d, z)'
      <4>1. \A q \in Client : Deciding(q, d, z)' => Deciding(q, d, z)
        BY <1>2, <2>5 DEF Deciding, Proc
      <4>2. QED BY <1>4, <3>3, <4>1 DEF Owns, Asked
    <3>4. QED BY <2>9, <3>1, <3>2, <3>3 DEF Owns
  <2>10. Passes(s, "child", c, "envelope", e)
    BY <2>7, <2>8, <2>9 DEF Passes
  <2>11. Moves(p, f)
    BY <1>2, <2>1, <2>4 DEF Moves
  <2>12. QED BY <1>4, <1>5, <2>1, <2>10, <2>11, ThreadsPass
<1>11. QED BY <1>8, <1>9, <1>10 DEF TellStep

-----------------------------------------------------------------------------
(* Handlers *)

(* A decision takes the question, an enqueued answer is an envelope.       *)
LEMMA AnswerPasses ==
  ASSUME TypeInv, Threads, NEW p \in Client,
         DispatchStart(p) \/ DecideWrite(p) \/ EnqueueAnswer(p)
  PROVE  Threads'
<1>1. /\ p \in Proc /\ p \notin Worker /\ at[p] \in Frame /\ Fits(p, at[p], row)
      /\ at[p].pc \in {"starting", "decide", "resuming"}
  BY ProcAssumption
     DEF TypeInv, FramesOK, Proc, DispatchStart, DecideWrite, EnqueueAnswer
<1>2. PICK r \in Run : r = at[p].job.run
  BY <1>1 DEF Fits
<1>3. UNCHANGED <<parent, row>>
  BY DEF DispatchStart, DecideWrite, EnqueueAnswer, rows
<1>4. IdleFrame.pc = "idle"
  BY DEF IdleFrame, FrameFor
<1>5. CASE DispatchStart(p) \/ EnqueueAnswer(p)
  <2>1. /\ at[p].pc \in {"starting", "resuming"} /\ Step(p, IdleFrame)
        /\ UNCHANGED <<run, hitl>>
    BY <1>5 DEF DispatchStart, EnqueueAnswer, Return, rows
  <2>2. PICK e : broker' = broker \cup {e} /\ e.run = r
    <3>1. CASE DispatchStart(p)
      BY <1>2, <3>1 DEF DispatchStart
    <3>2. CASE EnqueueAnswer(p)
      BY <1>2, <3>2, Enqueues DEF EnqueueAnswer
    <3>3. QED BY <1>5, <3>1, <3>2
  <2>3. \A q \in Proc : at'[q] = IF q = p THEN IdleFrame ELSE at[q]
    BY <1>1, <2>1, Moved
  <2>4. ASSUME NEW d \in Run, NEW m, NEW z, Owns(m, z, d)'
        PROVE  Owns(m, z, d) \/ (m = "envelope" /\ z = e /\ d = r)
    <3>1. CASE m = "envelope" /\ z \in broker' /\ z.run = d
      BY <2>2, <3>1 DEF Owns
    <3>2. CASE m = "process" /\ z \in Proc /\ Carries(z, at'[z], d)
      BY <1>1, <1>4, <2>3, <3>2 DEF Owns, Carries
    <3>3. CASE m = "question" /\ z \in 1..MaxHitl /\ Asked(d, z)'
      <4>1. \A q \in Client : Deciding(q, d, z)' => Deciding(q, d, z)
        BY <1>4, <2>3 DEF Deciding, Proc
      <4>2. QED BY <2>1, <3>3, <4>1 DEF Owns, Asked
    <3>4. QED BY <2>4, <3>1, <3>2, <3>3 DEF Owns
  <2>5. Holds("process", p, r) /\ ~Holds("process", p, r)'
    BY <1>1, <1>2, <1>4, <2>1, <2>3 DEF Holds, Owns, Carries
  <2>6. Passes(r, "process", p, "envelope", e)
    BY <2>4, <2>5 DEF Passes
  <2>7. Moves(p, IdleFrame)
    BY <1>4, <2>1 DEF Moves, QuietFrame
  <2>8. RunsKept
    BY <2>1 DEF RunsKept
  <2>9. QED BY <1>1, <1>3, <2>6, <2>7, <2>8, ThreadsPass
<1>6. CASE DecideWrite(p)
  <2>1. PICK k \in 1..MaxHitl : k = at[p].job.n
    BY <1>1, <1>6 DEF Fits, DecideWrite
  <2>2. PICK s \in {"approved", "rejected"} : hitl' = [hitl EXCEPT ![r][k].status = s]
    BY <1>2, <1>6, <2>1 DEF DecideWrite
  <2>3. at[p].pc = "decide" /\ broker' = broker
    BY <1>6 DEF DecideWrite
  <2>4. RunsKept
    <3>1. run' = run \/ SetRun(r, "cancelled")
      BY <1>2, <1>6 DEF DecideWrite
    <3>2. QED BY <3>1 DEF TypeInv, DataOK, SetRun, RunsKept
  <2>5. PICK f : /\ Step(p, f) /\ f.pc \in {"idle", "resuming"}
                 /\ f.pc = "resuming" => f.job = at[p].job
    <3>1. CASE Return(p)
      BY <1>4, <3>1 DEF Return
    <3>2. CASE Goto(p, "resuming")
      <4>1. "resuming" \in Pc
        BY DEF Pc
      <4>2. /\ At(at[p], "resuming").pc = "resuming"
            /\ At(at[p], "resuming").job = at[p].job
        BY <1>1, <4>1, AtFrame
      <4>3. QED BY <3>2, <4>2 DEF Goto
    <3>3. QED BY <1>6, <3>1, <3>2 DEF DecideWrite
  <2>6. \A q \in Proc : at'[q] = IF q = p THEN f ELSE at[q]
    BY <1>1, <2>5, Moved
  <2>7. Deciding(p, r, k)
    BY <1>2, <2>1, <2>3 DEF Deciding
  <2>8. \A q \in Client, d \in Run, n \in 1..MaxHitl :
           Deciding(q, d, n)' => Deciding(q, d, n) /\ q # p
    BY <2>5, <2>6 DEF Deciding, Proc
  <2>9. hitl'[r][k].status = s
    <3>1. hitl[r][k] \in HitlRow /\ DataOK
      <4>1. DataOK /\ hitl \in [Run -> [1..MaxHitl -> HitlRow]]
        BY DEF TypeInv, DataOK
      <4>2. hitl[r] \in [1..MaxHitl -> HitlRow]
        BY <4>1
      <4>3. QED BY <4>1, <4>2
    <3>2. hitl'[r][k] = [hitl[r][k] EXCEPT !.status = s]
      BY <2>2, <3>1 DEF DataOK
    <3>3. QED BY <3>1, <3>2 DEF HitlRow
  <2>10. \A d \in Run, n \in 1..MaxHitl :
            hitl'[d][n].status = "pending" => hitl[d][n].status = "pending"
    BY <2>2, <2>9 DEF TypeInv, DataOK
  <2>11. ~Asked(r, k)'
    <3>1. \A q \in Client : ~Deciding(q, r, k)'
      BY <2>7, <2>8 DEF Threads, OneDecider
    <3>2. QED BY <2>9, <3>1 DEF Asked
  <2>12. ASSUME NEW d \in Run, NEW m, NEW z, Owns(m, z, d)'
         PROVE  Owns(m, z, d) \/ (m = "process" /\ z = p /\ d = r)
    <3>1. CASE m = "envelope" /\ z \in broker' /\ z.run = d
      BY <2>3, <3>1 DEF Owns
    <3>2. CASE m = "process" /\ z \in Proc /\ Carries(z, at'[z], d)
      BY <1>1, <1>2, <2>5, <2>6, <3>2 DEF Owns, Carries
    <3>3. CASE m = "question" /\ z \in 1..MaxHitl /\ Asked(d, z)'
      BY <2>8, <2>10, <3>3 DEF Owns, Asked
    <3>4. QED BY <2>12, <3>1, <3>2, <3>3 DEF Owns
  <2>13. Holds("question", k, r)
    BY <2>7 DEF Holds, Owns, Asked
  <2>14. ~Holds("question", k, r)'
    BY <2>11 DEF Holds, Owns
  <2>15. Passes(r, "question", k, "process", p)
    BY <2>12, <2>13, <2>14 DEF Passes
  <2>16. Moves(p, f)
    BY <1>1, <2>3, <2>5 DEF Moves, QuietFrame
  <2>17. QED BY <1>1, <1>3, <2>4, <2>15, <2>16, ThreadsPass
<1>7. QED BY <1>5, <1>6

(* A cancellation resolves rows and gives nobody a run. *)
LEMMA CancelFades ==
  ASSUME TypeInv, NEW r \in Run, CancelTxn(r)
  PROVE  RunsKept /\ \A c \in Run : row'[c] = "pending" => row[c] = "pending"
BY DEF TypeInv, DataOK, CancelTxn, Terminal, RunsKept

(* The other steps and calls of handlers, which hold no run. *)
LEMMA HandlerFades ==
  ASSUME TypeInv, Threads, NoDuplication', NEW p \in Client,
         \/ TimeOutChild(p) \/ Cascade(p) \/ CascadeDone(p)
         \/ DecideRead(p) \/ Cancel(p) \/ ScanTimeouts(p)
  PROVE  Threads'
<1>1. p \in Proc /\ p \notin Worker /\ at[p] \in Frame /\ QuietFrame(at[p])
  BY ProcAssumption DEF TypeInv, FramesOK, Proc, Threads, Handlers
<1>2. ASSUME NEW f, Step(p, f), UNCHANGED <<parent, hitl, broker>>, RunsKept,
             \A c \in Run : row'[c] = "pending" => row[c] = "pending",
             f.pc \in {"idle", "cascade"}, f.pc = "cascade" => f.outcome = "unbound",
             at[p].pc \in {"idle", "cascade"}
      PROVE  Threads'
  <2>1. \A c \in Run : ~Carries(p, f, c)
    BY <1>1, <1>2 DEF Carries
  <2>2. QuietFrame(f)
    BY <1>2 DEF QuietFrame
  <2>3. QED BY <1>1, <1>2, <2>1, <2>2, ThreadsFade DEF RunsKept
<1>3. CASE TimeOutChild(p)
  BY <1>1, <1>3 DEF TimeOutChild, QuietFrame
<1>4. CASE Cascade(p)
  <2>1. PICK c \in at[p].todo :
           /\ CancelTxn(c)
           /\ Step(p, Carrying(at[p], "cascade", (at[p].todo \ {c}) \cup Kids(c)))
    BY <1>4 DEF Cascade
  <2>2. c \in Run
    BY <1>1, <2>1 DEF Frame
  <2>3. PICK f : Step(p, f) /\ f.pc = "cascade" /\ f.outcome = at[p].outcome
    <3>1. "cascade" \in Pc /\ (at[p].todo \ {c}) \cup Kids(c) \in SUBSET Run
      BY <1>1 DEF Pc, Frame, Kids
    <3>2. QED BY <1>1, <2>1, <3>1, CarryFrame
  <2>4. at[p].pc = "cascade" /\ UNCHANGED <<parent, hitl, broker>>
    BY <1>4 DEF Cascade
  <2>5. QED BY <1>1, <1>2, <2>1, <2>2, <2>3, <2>4, CancelFades DEF QuietFrame
<1>5. CASE CascadeDone(p)
  <2>1. at[p].pc = "cascade" /\ Step(p, IdleFrame) /\ UNCHANGED <<run, parent, row, hitl, broker>>
    BY <1>1, <1>5 DEF CascadeDone, QuietFrame, Return, rows
  <2>2. IdleFrame.pc = "idle"
    BY DEF IdleFrame, FrameFor
  <2>3. QED BY <1>2, <2>1, <2>2 DEF RunsKept
<1>6. CASE DecideRead(p)
  <2>1. PICK r \in Run, k \in 1..MaxHitl, d \in {"approve", "reject"} :
           /\ Decidable(hitl[r][k])
           /\ (\E q \in Client : Deciding(q, r, k)) => Spend("doubleAnswer")
           /\ Step(p, FrameFor("decide", [run |-> r, n |-> k, kind |-> d], "none", {}, {}))
    BY <1>6 DEF DecideRead
  <2>2. PICK f : Step(p, f) /\ f.pc = "decide" /\ f.job.run = r /\ f.job.n = k
    <3> DEFINE f == FrameFor("decide", [run |-> r, n |-> k, kind |-> d], "none", {}, {})
    <3>1. Step(p, f) /\ f.pc = "decide" /\ f.job.run = r /\ f.job.n = k
      BY <2>1 DEF FrameFor
    <3>2. QED BY <3>1
  <2>3. \A q \in Client : ~Deciding(q, r, k)
    BY <2>1 DEF Spend, NoDuplication, Duplicating
  <2>4. /\ at[p].pc = "idle" /\ UNCHANGED <<run, parent, row, hitl, broker>>
        /\ hitl[r][k].status = "pending"
    BY <1>6, <2>1 DEF DecideRead, rows, Decidable
  <2>5. \A c \in Run : ~Carries(p, f, c)
    BY <1>1, <2>2 DEF Carries
  <2>6. QuietFrame(f)
    BY <2>2 DEF QuietFrame
  <2>7. QED BY <1>1, <2>2, <2>3, <2>4, <2>5, <2>6, ThreadsFade
<1>7. CASE Cancel(p)
  <2>1. PICK r \in Run :
           /\ CancelTxn(r)
           /\ Spend(IF parent[r] = NoRun THEN "cancel" ELSE "cancelChild")
           /\ Step(p, FrameFor("cascade", [run |-> r, n |-> 0, kind |-> "cancel"],
                               ParentNotify(r, "cancelled"), Kids(r), {}))
    BY <1>7 DEF Cancel
  <2>2. parent[r] = NoRun
    BY <2>1 DEF Spend, NoDuplication, Duplicating
  <2>3. row[r] # "pending"
    BY <2>2, RunAssumption DEF TypeInv, RowsOK
  <2>4. PICK f : Step(p, f) /\ f.pc = "cascade" /\ f.outcome = "unbound"
    <3> DEFINE f == FrameFor("cascade", [run |-> r, n |-> 0, kind |-> "cancel"],
                             ParentNotify(r, "cancelled"), Kids(r), {})
    <3>1. Step(p, f) /\ f.pc = "cascade" /\ f.outcome = "unbound"
      BY <2>1, <2>3 DEF FrameFor, ParentNotify
    <3>2. QED BY <3>1
  <2>5. at[p].pc = "idle" /\ UNCHANGED <<parent, hitl, broker>>
    BY <1>7 DEF Cancel
  <2>6. QED BY <1>2, <2>1, <2>4, <2>5, CancelFades
<1>8. CASE ScanTimeouts(p)
  BY <1>8 DEF ScanTimeouts, Spend, NoDuplication, Duplicating
<1>9. QED BY <1>3, <1>4, <1>5, <1>6, <1>7, <1>8

-----------------------------------------------------------------------------
(* Failures *)

(* A child's envelope is not sent, because the broker refuses it or the    *)
(* worker is killed: the worker keeps its own run to fail it, or lets go   *)
(* of it, and the child is nobody's.                                       *)
LEMMA AbandonedDispatchKeeps ==
  ASSUME TypeInv, Threads, NEW p \in Proc, at[p].pc = "spawned",
         NEW f, Step(p, f), f.pc = "idle" \/ (f.pc = "fail" /\ f.job = at[p].job),
         UNCHANGED <<run, parent, row, hitl, broker>>
  PROVE  Threads'
<1>1. /\ p \in Worker /\ p \notin Client
  BY ProcAssumption DEF Threads, Handlers, QuietFrame, Proc
<1>2. PICK r \in Run : r = at[p].job.run
  BY <1>1, CarriedRun
<1>3. UNCHANGED <<run, parent, row, hitl, broker>>
  OBVIOUS
<1>4. PICK c \in Run : Spawned(p, c)
  BY <1>1 DEF Threads, Spawning
<1>5. f.pc = "idle" \/ (f.pc = "fail" /\ f.job = at[p].job)
  OBVIOUS
<1>6. \A q \in Proc : at'[q] = IF q = p THEN f ELSE at[q]
  BY Moved
<1>7. \A q \in Worker : q \in Proc
  BY DEF Proc
<1>8. \A q \in Client : q \in Proc /\ at'[q] = at[q]
  BY <1>1, <1>6 DEF Proc
<1>9. Owns("process", p, c)
  BY <1>1, <1>4 DEF Owns, Carries, Spawned
<1>10. ASSUME NEW s \in Run, NEW k, NEW x, Owns(k, x, s)'
       PROVE  Owns(k, x, s) /\ (k = "process" /\ x = p => s # c)
  <2>1. CASE k = "envelope" /\ x \in broker' /\ x.run = s
    BY <1>3, <2>1 DEF Owns
  <2>2. CASE k = "process" /\ x \in Proc /\ Carries(x, at'[x], s)
    BY <1>1, <1>2, <1>4, <1>5, <1>6, <2>2 DEF Owns, Carries, Driving, Spawned
  <2>3. CASE k = "question" /\ x \in 1..MaxHitl /\ Asked(s, x)'
    BY <1>3, <1>8, <2>3 DEF Owns, Asked, Deciding
  <2>4. QED BY <1>10, <2>1, <2>2, <2>3 DEF Owns
<1>11. ~Expected(c)'
  <2>1. \A k, x : ~Owns(k, x, c)'
    BY <1>9, <1>10 DEF Threads, Unique, Holds
  <2>2. \A d \in Run : parent'[d] # c
    BY <1>3, <1>4 DEF Spawned
  <2>3. QED BY <2>1, <2>2 DEF Expected, Begun
<1>12. ASSUME NEW d \in Run, d # c PROVE Expected(d)' => Expected(d)
  <2>1. Begun(d)' => Begun(d)
    BY <1>3, <1>10 DEF Begun
  <2>2. Unsent(d) => Unsent(d)'
    BY <1>4, <1>6, <1>7, <1>12 DEF Unsent, Spawned
  <2>3. Pressing(d)' => Pressing(d)
    BY <1>3, <1>5, <1>6, <1>7 DEF Pressing, Reporting
  <2>4. QED BY <2>1, <2>2, <2>3, StillExpected
<1>13. Unique'
  BY <1>3, <1>10, <1>11, <1>12, FewerHolders DEF Threads, ChildrenFade
<1>14. Untouched'
  BY <1>3, <1>10 DEF Threads, Untouched
<1>15. OneDecider'
  BY <1>8 DEF Threads, OneDecider, Deciding
<1>16. Waking'
  BY <1>3, <1>5, <1>6, <1>7 DEF Threads, Waking
<1>17. Spawning'
  <2> SUFFICES ASSUME NEW q \in Worker, at'[q].pc = "spawned"
               PROVE  \E d \in Run : Spawned(q, d)'
    BY DEF Spawning
  <2>1. at'[q] = at[q]
    BY <1>5, <1>6, <1>7
  <2>2. QED BY <1>3, <2>1 DEF Threads, Spawning, Spawned
<1>18. Handlers'
  BY <1>8 DEF Threads, Handlers
<1>19. QED BY <1>13, <1>14, <1>15, <1>16, <1>17, <1>18 DEF Threads

(* Questions that expire, with nobody moving. *)
LEMMA ExpiryKeeps ==
  ASSUME TypeInv, Threads, ExpireHitl PROVE Threads'
<1>1. UNCHANGED <<parent, row, broker, at>>
  BY DEF ExpireHitl
<1>2. \A r \in Run, k \in 1..MaxHitl :
         hitl'[r][k].status = "pending" => hitl[r][k].status = "pending"
  <2>1. PICK D : hitl' = [r \in Run |-> [k \in 1..MaxHitl |->
                     IF <<r, k>> \in D THEN [hitl[r][k] EXCEPT !.status = "expired"]
                     ELSE hitl[r][k]]]
    BY DEF ExpireHitl
  <2> SUFFICES ASSUME NEW r \in Run, NEW k \in 1..MaxHitl,
                      hitl'[r][k].status = "pending"
               PROVE  hitl[r][k].status = "pending"
    OBVIOUS
  <2>2. DataOK /\ hitl \in [Run -> [1..MaxHitl -> HitlRow]]
    BY DEF TypeInv, DataOK
  <2>3. hitl[r] \in [1..MaxHitl -> HitlRow]
    BY <2>2
  <2>4. hitl[r][k] \in HitlRow
    BY <2>3
  <2>5. CASE <<r, k>> \in D
    <3>1. hitl'[r][k] = [hitl[r][k] EXCEPT !.status = "expired"]
      BY <2>1, <2>5
    <3>2. hitl'[r][k].status = "expired"
      BY <2>4, <3>1 DEF HitlRow
    <3>3. QED BY <3>2
  <2>6. CASE <<r, k>> \notin D
    BY <2>1, <2>6
  <2>7. QED BY <2>5, <2>6
<1>3. \A r \in Run : run'[r] = "absent" => run[r] = "absent"
  BY DEF ExpireHitl, RunOnceExpired, TypeInv, DataOK
<1>4. ASSUME NEW r \in Run, NEW k, NEW x, Owns(k, x, r)' PROVE Owns(k, x, r)
  <2>1. CASE k = "question" /\ x \in 1..MaxHitl /\ Asked(r, x)'
    BY <1>1, <1>2, <2>1 DEF Owns, Asked, Deciding
  <2>2. CASE k # "question"
    BY <1>1, <1>4, <2>2 DEF Owns
  <2>3. QED BY <1>4, <2>1, <2>2 DEF Owns
<1>5. ASSUME NEW c \in Run PROVE Expected(c)' => Expected(c)
  <2>1. Begun(c)' => Begun(c)
    BY <1>1, <1>4 DEF Begun
  <2>2. (Unsent(c) => Unsent(c)') /\ (Pressing(c)' => Pressing(c))
    BY <1>1 DEF Unsent, Pressing, Reporting
  <2>3. QED BY <2>1, <2>2, StillExpected
<1>6. Unique'
  BY <1>1, <1>4, <1>5, FewerHolders DEF Threads, ChildrenFade
<1>7. Untouched'
  BY <1>1, <1>3, <1>4 DEF Threads, Untouched
<1>8. OneDecider' /\ Waking' /\ Handlers'
  BY <1>1 DEF Threads, OneDecider, Deciding, Waking, Handlers
<1>9. Spawning'
  BY <1>1 DEF Threads, Spawning, Spawned
<1>10. QED BY <1>6, <1>7, <1>8, <1>9 DEF Threads

(* Of the failures that leave NoDuplication true none makes a second       *)
(* thread: what is lost is lost.                                           *)
LEMMA FaultKeeps ==
  ASSUME TypeInv, Threads, NoDuplication', Fault PROVE Threads'
<1>1. IdleFrame.pc = "idle"
  BY DEF IdleFrame, FrameFor
<1>2. ASSUME NEW p \in Proc, at[p].pc # "spawned", NEW f, Step(p, f),
             UNCHANGED <<run, parent, row, hitl, broker>>,
             \/ f.pc = "idle"
             \/ /\ f.pc = "fail" /\ f.job = at[p].job /\ p \in Worker
                /\ Carries(p, at[p], at[p].job.run)
      PROVE  Threads'
  <2>1. \A c \in Run : Carries(p, f, c) => Carries(p, at[p], c)
    BY <1>2 DEF Carries, Driving
  <2>2. p \in Client => QuietFrame(f)
    BY <1>2, ProcAssumption DEF QuietFrame
  <2>3. QED BY <1>2, <2>1, <2>2, ThreadsFade
<1>3. ASSUME NEW p \in Worker, CrashWorker(p) PROVE Threads'
  BY <1>3 DEF CrashWorker, Spend, NoDuplication, Duplicating
<1>4. ASSUME NEW p \in Worker, KillAtTimeLimit(p) PROVE Threads'
  <2>1. /\ Step(p, IdleFrame) /\ p \in Proc
        /\ UNCHANGED <<run, parent, row, hitl, broker>>
    BY <1>4 DEF KillAtTimeLimit, Return, rows, Proc
  <2>2. CASE at[p].pc = "spawned"
    BY <1>1, <2>1, <2>2, AbandonedDispatchKeeps
  <2>3. CASE at[p].pc # "spawned"
    BY <1>1, <1>2, <2>1, <2>3
  <2>4. QED BY <2>2, <2>3
<1>5. ASSUME NEW p \in Worker, FlushFails(p) PROVE Threads'
  <2>1. /\ at[p].pc = "flush" /\ UNCHANGED <<run, parent, row, hitl, broker>>
        /\ Conclude(p, "fail", "none") /\ at[p].outcome = "completed"
    BY <1>5 DEF FlushFails, HoldsTask, rows, Spend, NoDuplication, Duplicating
  <2>2. /\ p \in Proc /\ at[p] \in Frame
    BY <2>1, CarriedRun
  <2>3. PICK f : Step(p, f) /\ f.pc = "fail" /\ f.job = at[p].job
    <3>1. "fail" \in Pc /\ "none" \in Outcome
      BY DEF Pc, Outcome
    <3>2. QED BY <2>1, <2>2, <3>1, ConcludeFrame DEF Conclude
  <2>4. Carries(p, at[p], at[p].job.run)
    BY <2>1 DEF Carries, Settling
  <2>5. QED BY <1>2, <2>1, <2>2, <2>3, <2>4
<1>6. ASSUME NEW p \in Client, CrashClient(p) PROVE Threads'
  <2>1. /\ at[p].pc # "spawned" /\ Step(p, IdleFrame) /\ p \in Proc
        /\ UNCHANGED <<run, parent, row, hitl, broker>>
    BY <1>6 DEF CrashClient, Return, rows, Proc, Threads, Handlers, QuietFrame
  <2>2. QED BY <1>1, <1>2, <2>1
<1>7. ASSUME NEW p \in Proc, SendFails(p) PROVE Threads'
  <2>1. CASE at[p].pc = "spawned"
    <3>1. /\ Step(p, Carrying(at[p], "fail", {})) /\ at[p] \in Frame
          /\ UNCHANGED <<run, parent, row, hitl, broker>>
      BY <1>7, <2>1 DEF SendFails, TypeInv, FramesOK
    <3>2. "fail" \in Pc /\ {} \in SUBSET Run
      BY DEF Pc
    <3>3. PICK f : Step(p, f) /\ f.pc = "fail" /\ f.job = at[p].job
      BY <3>1, <3>2, CarryFrame
    <3>4. QED BY <2>1, <3>1, <3>3, AbandonedDispatchKeeps
  <2>2. CASE at[p].pc # "spawned"
    <3>1. UNCHANGED <<run, parent, row, hitl, broker>>
      BY <1>7, <2>2 DEF SendFails, EnqueueResume
    <3>2. Return(p) \/ (at[p].pc = "wake" /\ p \in Worker /\ Goto(p, "fail"))
      BY <1>7, <2>2 DEF SendFails
    <3>3. CASE Return(p)
      BY <1>1, <1>2, <2>2, <3>1, <3>3 DEF Return
    <3>4. CASE at[p].pc = "wake" /\ p \in Worker /\ Goto(p, "fail")
      <4>1. "fail" \in Pc /\ at[p] \in Frame
        BY <3>4, CarriedRun DEF Pc
      <4>2. PICK f : Step(p, f) /\ f.pc = "fail" /\ f.job = at[p].job
        BY <3>4, <4>1, AtFrame DEF Goto
      <4>3. Carries(p, at[p], at[p].job.run)
        BY <3>4 DEF Carries, Driving
      <4>4. QED BY <1>2, <2>2, <3>1, <3>4, <4>2, <4>3
    <3>5. QED BY <3>2, <3>3, <3>4
  <2>3. QED BY <2>1, <2>2
<1>8. CASE CrashEager
  BY <1>8 DEF CrashEager, Spend, NoDuplication, Duplicating
<1>9. QED BY <1>3, <1>4, <1>5, <1>6, <1>7, <1>8, ExpiryKeeps DEF Fault

-----------------------------------------------------------------------------
(* One executor *)

(* Nobody holds anything at first. *)
LEMMA NoThreads == Init => ThreadInv
<1> SUFFICES ASSUME Init PROVE Threads
  BY DEF ThreadInv
<1>1. \A p \in Proc : at[p].pc = "idle"
  BY DEF Init, IdleFrame, FrameFor
<1>2. \A r \in Run : \A k, x : ~Owns(k, x, r)
  <2> SUFFICES ASSUME NEW r \in Run, NEW k, NEW x, Owns(k, x, r) PROVE FALSE
    OBVIOUS
  <2>1. CASE k = "question" /\ x \in 1..MaxHitl /\ Asked(r, x)
    BY <1>1, <2>1 DEF Init, Asked, Deciding, Proc
  <2>2. QED BY <1>1, <2>1 DEF Init, Owns, Carries, Driving
<1>3. \A d \in Run : parent[d] = NoRun
  BY DEF Init
<1>4. \A r \in Run : \A k, x : ~Holds(k, x, r)
  BY <1>2, <1>3, RunAssumption DEF Holds
<1>5. Unique /\ Untouched
  BY <1>2, <1>3, <1>4, RunAssumption DEF Unique, Untouched
<1>6. OneDecider /\ Waking /\ Spawning /\ Handlers
  BY <1>1 DEF OneDecider, Deciding, Waking, Spawning, Handlers, QuietFrame, Proc
<1>7. QED BY <1>5, <1>6 DEF Threads

(* What has happened stays in seen. *)
LEMMA SeenGrows == [Next]_vars => seen \subseteq seen' /\ seen' \subseteq seen \cup Faults
<1> SUFFICES ASSUME [Next]_vars PROVE seen \subseteq seen' /\ seen' \subseteq seen \cup Faults
  OBVIOUS
<1>1. ASSUME UNCHANGED seen \/ \E kind : Spend(kind)
      PROVE  seen \subseteq seen' /\ seen' \subseteq seen \cup Faults
  BY <1>1 DEF Spend
<1>2. ASSUME NEW p \in Worker, WorkerStep(p) PROVE UNCHANGED seen
  BY <1>2 DEF WorkerStep, Claim, RunGraph, GraphRaises, SpawnChild, SpawnRefused,
       InlineResume, DispatchChild, MarkRead, MarkWrite, SettleInterrupt,
       SettleCompleted, FailRun, Flush, env
<1>3. ASSUME NEW p \in Client, ClientStep(p) PROVE UNCHANGED seen
  BY <1>3 DEF ClientStep, DispatchStart, DecideWrite, EnqueueAnswer, TimeOutChild,
       Cascade, CascadeDone, env
<1>4. ASSUME NEW p \in Client, Call(p) PROVE UNCHANGED seen \/ \E kind : Spend(kind)
  BY <1>4 DEF Call, Submit, DecideRead, Cancel, ScanTimeouts, env
<1>5. ASSUME NEW p \in Proc, TellStep(p) PROVE UNCHANGED seen
  BY <1>5 DEF TellStep, TellRead, TellWrite, WakeParent, env
<1>6. ASSUME Fault PROVE \E kind : Spend(kind)
  BY <1>6 DEF Fault, CrashWorker, KillAtTimeLimit, FlushFails, CrashClient,
       SendFails, CrashEager, ExpireHitl
<1>7. ASSUME UNCHANGED vars PROVE UNCHANGED seen
  BY <1>7 DEF vars
<1>8. QED BY <1>1, <1>2, <1>3, <1>4, <1>5, <1>6, <1>7 DEF Next

(* Every step keeps one thread per run. *)
LEMMA NextThreads == TypeInv /\ ThreadInv /\ [Next]_vars => ThreadInv'
<1> SUFFICES ASSUME TypeInv, ThreadInv, [Next]_vars, NoDuplication' PROVE Threads'
  BY DEF ThreadInv
<1>1. Threads
  BY SeenGrows DEF ThreadInv, NoDuplication
<1>2. ASSUME NEW p \in Worker, WorkerStep(p) PROVE Threads'
  BY <1>1, <1>2, WorkerFades, ClaimPasses, SettlePasses, SpawnKeeps, DispatchKeeps
     DEF WorkerStep
<1>3. ASSUME NEW p \in Client, ClientStep(p) \/ Call(p) PROVE Threads'
  BY <1>1, <1>3, AnswerPasses, HandlerFades, SubmitKeeps DEF ClientStep, Call
<1>4. ASSUME NEW p \in Proc, TellStep(p) PROVE Threads'
  BY <1>1, <1>4, TellKeeps
<1>5. ASSUME Fault PROVE Threads'
  BY <1>1, <1>5, FaultKeeps
<1>6. ASSUME UNCHANGED vars PROVE Threads'
  <2>1. UNCHANGED <<run, parent, row, hitl, broker, at>>
    BY <1>6 DEF vars
  <2>2. \A r \in Run : \A k, x : Owns(k, x, r)' <=> Owns(k, x, r)
    BY <2>1 DEF Owns, Asked, Deciding
  <2>3. \A c \in Run : Expected(c)' <=> Expected(c)
    BY <2>1, <2>2 DEF Expected, Begun, Unsent, Pressing, Reporting
  <2>4. \A r \in Run : \A k, x : Holds(k, x, r)' <=> Holds(k, x, r)
    BY <2>1, <2>2, <2>3 DEF Holds
  <2>5. Unique' /\ Untouched'
    BY <1>1, <2>1, <2>2, <2>4 DEF Threads, Unique, Untouched
  <2>6. OneDecider' /\ Waking' /\ Handlers' /\ Spawning'
    BY <1>1, <2>1 DEF Threads, OneDecider, Deciding, Waking, Handlers, Spawning, Spawned
  <2>7. QED BY <2>5, <2>6 DEF Threads
<1>7. QED BY <1>2, <1>3, <1>4, <1>5, <1>6 DEF Next

LEMMA ThreadInvariant == Spec => []ThreadInv
BY NoThreads, NextThreads, TypeInvariant, PTL DEF Spec

(* Two workers never execute the same run, that is the same LangGraph      *)
(* thread, for any number of runs, workers and handlers and any flows, as  *)
(* long as no envelope was redelivered, no second party reported a child,  *)
(* no question was answered twice and no parked run failed its flush.      *)
THEOREM OneExecutor == Spec => []SingleExecutor
<1>1. ThreadInv => SingleExecutor
  <2> SUFFICES ASSUME Threads, NEW r \in Run, NEW p \in Worker, NEW q \in Worker,
                      Working(p, r), Working(q, r)
               PROVE  p = q
    BY DEF ThreadInv, SingleExecutor
  <2>1. Holds("process", p, r) /\ Holds("process", q, r)
    BY DEF Working, Holds, Owns, Carries, Driving, Proc
  <2>2. QED BY <2>1 DEF Threads, Unique
<1>2. QED BY <1>1, ThreadInvariant, PTL

-----------------------------------------------------------------------------
(* Rows *)

(* A worker that has read a row as pending and not yet resolved it still   *)
(* finds it so, and no handler is cancelling.                              *)
Uncancelled == seen \cap (Duplicating \cup {"cancel"}) = {}
Writers == /\ \A p \in Worker : at[p].pc = "tellw" => row[at[p].job.run] = "pending"
           /\ \A p \in Client : at[p].pc # "cascade"
WriterInv == Uncancelled => Writers

(* What a step may do to the row of d: nothing, or it is the one that      *)
(* opens or resolves it and nobody else is about to.                       *)
RowMoves(d) ==
  \/ row'[d] = row[d] /\ result'[d] = result[d]
  \/ /\ row[d] \in {"none", "pending"}
     /\ \A q \in Worker : at'[q].pc = "tellw" => at'[q].job.run # d

WriterStep ==
  /\ \A d \in Run : RowMoves(d)
  /\ \A q \in Worker : at'[q].pc = "tellw" =>
       at'[q] = at[q] \/ row'[at'[q].job.run] = "pending"
  /\ \A q \in Client : at'[q].pc = "cascade" => at[q].pc = "cascade"

LEMMA WritersKept ==
  ASSUME TypeInv, Writers, WriterStep PROVE Writers'
<1>1. ASSUME NEW q \in Worker, at'[q].pc = "tellw" PROVE row'[at'[q].job.run] = "pending"
  <2> SUFFICES ASSUME at'[q] = at[q] PROVE row'[at[q].job.run] = "pending"
    BY <1>1 DEF WriterStep
  <2>1. at[q].job.run \in Run /\ row[at[q].job.run] = "pending"
    BY <1>1, CarriedRun DEF Writers
  <2>2. RowMoves(at[q].job.run)
    BY <2>1 DEF WriterStep
  <2>3. QED BY <1>1, <2>1, <2>2 DEF RowMoves
<1>2. QED BY <1>1 DEF Writers, WriterStep

(* A process moves and writes no row. *)
LEMMA WriterPlain ==
  ASSUME TypeInv, NEW p \in Proc, NEW f, Step(p, f), UNCHANGED <<row, result>>,
         f.pc = "tellw" => row[f.job.run] = "pending",
         f.pc = "cascade" => at[p].pc = "cascade"
  PROVE  WriterStep
<1>1. \A q \in Proc : at'[q] = IF q = p THEN f ELSE at[q]
  BY Moved
<1>2. QED BY <1>1 DEF WriterStep, RowMoves, Proc

(* A process creates the run c and its row. *)
LEMMA WriterCreates ==
  ASSUME TypeInv, Threads, NEW p \in Proc, NEW f, Step(p, f), NEW c \in Run,
         run[c] = "absent", result' = result,
         \A d \in Run : d # c => row'[d] = row[d],
         f.pc \notin {"tellw", "cascade"}
  PROVE  WriterStep
<1>1. \A q \in Proc : at'[q] = IF q = p THEN f ELSE at[q]
  BY Moved
<1>2. row[c] = "none"
  BY DEF TypeInv, RowsOK
<1>3. ASSUME NEW q \in Worker, at'[q].pc = "tellw" PROVE at'[q].job.run # c
  <2>1. at'[q] = at[q] /\ q \in Proc
    BY <1>1, <1>3 DEF Proc
  <2>2. SUFFICES ASSUME at[q].job.run = c PROVE Owns("process", q, c)
    BY <2>1 DEF Threads, Untouched
  <2>3. QED BY <1>3, <2>1, <2>2 DEF Owns, Carries, Driving
<1>4. QED BY <1>1, <1>2, <1>3 DEF WriterStep, RowMoves, Proc

(* Workers, up to the report. *)
LEMMA WorkerWrites ==
  ASSUME TypeInv, Threads, NEW p \in Worker, WorkerStep(p) PROVE WriterStep
<1>1. p \in Proc /\ p \notin Client /\ at[p] \in Frame
  BY ProcAssumption DEF TypeInv, FramesOK, Proc
<1>2. ASSUME NEW f, Step(p, f), UNCHANGED <<row, result>>, f.pc \notin {"tellw", "cascade"}
      PROVE  WriterStep
  BY <1>1, <1>2, WriterPlain
<1>3. ASSUME NEW l \in Pc \ {"tellw", "cascade"}, Goto(p, l), UNCHANGED <<row, result>>
      PROVE  WriterStep
  BY <1>1, <1>2, <1>3, AtFrame DEF Goto
<1>4. ASSUME NEW l \in Pc \ {"tellw", "cascade"}, NEW o, Conclude(p, l, o),
             UNCHANGED <<row, result>>
      PROVE  WriterStep
  <2>1. Concluded(at[p], l, o).pc = l
    BY <1>1 DEF Concluded, Frame
  <2>2. QED BY <1>2, <1>4, <2>1 DEF Conclude
<1>5. ASSUME NEW l \in Pc \ {"tellw", "cascade"}, NEW k, Step(p, StoppedAt(at[p], l, k)),
             UNCHANGED <<row, result>>
      PROVE  WriterStep
  <2>1. StoppedAt(at[p], l, k).pc = l
    BY <1>1 DEF StoppedAt, Frame
  <2>2. QED BY <1>2, <1>5, <2>1
<1>6. {"graph", "spawn", "settle", "fail", "inline", "mark", "markw", "flush", "tell"}
        \subseteq Pc \ {"tellw", "cascade"}
  BY DEF Pc
<1>7. CASE Claim(p)
  <2>1. PICK e, n : Step(p, [FrameFor("graph", e, "none", {}, {}) EXCEPT !.rec = n])
    BY <1>7 DEF Claim
  <2>2. [FrameFor("graph", e, "none", {}, {}) EXCEPT !.rec = n].pc = "graph"
    BY DEF FrameFor
  <2>3. QED BY <1>2, <1>7, <2>1, <2>2 DEF Claim
<1>8. CASE RunGraph(p)
  <2>1. UNCHANGED <<row, result>>
    BY <1>8 DEF RunGraph, rows
  <2>2. PICK l \in {"spawn", "settle"}, k \in {NextStop(at[p].job.run, at[p].job.kind)} :
           Step(p, StoppedAt(at[p], l, k))
    BY <1>8 DEF RunGraph
  <2>3. QED BY <1>5, <1>6, <2>1, <2>2
<1>9. CASE GraphRaises(p) \/ SpawnRefused(p)
  BY <1>3, <1>6, <1>9 DEF GraphRaises, SpawnRefused, rows
<1>10. CASE SpawnChild(p)
  <2>1. PICK c \in Run :
           /\ run[c] = "absent"
           /\ CreateRun(c, at[p].job.run, depth[at[p].job.run] + 1, "pending", "none")
           /\ Step(p, Carrying(at[p], "spawned", {c}))
    BY <1>10 DEF SpawnChild
  <2>2. Carrying(at[p], "spawned", {c}).pc = "spawned"
    BY <1>1 DEF Carrying, Frame
  <2>3. result' = result /\ \A d \in Run : d # c => row'[d] = row[d]
    BY <1>10, <2>1 DEF SpawnChild, CreateRun, TypeInv, DataOK
  <2>4. QED BY <1>1, <2>1, <2>2, <2>3, WriterCreates
<1>11. CASE InlineResume(p)
  BY <1>5, <1>6, <1>11 DEF InlineResume, rows
<1>12. CASE DispatchChild(p)
  <2>1. Carrying(at[p], "mark", {}).pc = "mark"
    BY <1>1 DEF Carrying, Frame
  <2>2. QED BY <1>2, <1>12, <2>1 DEF DispatchChild, rows
<1>13. CASE MarkRead(p)
  BY <1>3, <1>4, <1>6, <1>13 DEF MarkRead
<1>14. CASE MarkWrite(p) \/ SettleInterrupt(p)
  BY <1>4, <1>6, <1>14 DEF MarkWrite, SettleInterrupt
<1>15. CASE SettleCompleted(p) \/ FailRun(p)
  BY <1>4, <1>6, <1>15 DEF SettleCompleted, FailRun, AfterCompletion
<1>16. CASE Flush(p)
  <2>1. IdleFrame.pc = "idle"
    BY DEF IdleFrame, FrameFor
  <2>2. QED BY <1>2, <1>16, <2>1 DEF Flush, Return
<1>17. QED BY <1>7, <1>8, <1>9, <1>10, <1>11, <1>12, <1>13, <1>14, <1>15, <1>16
           DEF WorkerStep

(* Handlers write no row, cancellations aside. *)
LEMMA HandlerWrites ==
  ASSUME TypeInv, Threads, Writers, Uncancelled', NEW p \in Client,
         ClientStep(p) \/ Call(p)
  PROVE  WriterStep
<1>1. p \in Proc /\ p \notin Worker /\ at[p] \in Frame /\ QuietFrame(at[p])
      /\ at[p].pc # "cascade"
  BY ProcAssumption DEF TypeInv, FramesOK, Proc, Threads, Handlers, Writers
<1>2. ASSUME NEW f, Step(p, f), UNCHANGED <<row, result>>, f.pc \notin {"tellw", "cascade"}
      PROVE  WriterStep
  BY <1>1, <1>2, WriterPlain
<1>3. IdleFrame.pc = "idle"
  BY DEF IdleFrame, FrameFor
<1>4. CASE Submit(p)
  <2>1. PICK c \in Run :
           /\ run[c] = "absent" /\ CreateRun(c, NoRun, 1, "none", "streaming")
           /\ Step(p, FrameFor("starting", StartEnvelope(c), "none", {}, {}))
    BY <1>4 DEF Submit
  <2>2. FrameFor("starting", StartEnvelope(c), "none", {}, {}).pc = "starting"
    BY DEF FrameFor
  <2>3. result' = result /\ \A d \in Run : d # c => row'[d] = row[d]
    BY <1>4, <2>1 DEF Submit, CreateRun, TypeInv, DataOK
  <2>4. QED BY <1>1, <2>1, <2>2, <2>3, WriterCreates
<1>5. CASE DispatchStart(p) \/ EnqueueAnswer(p)
  BY <1>2, <1>3, <1>5 DEF DispatchStart, EnqueueAnswer, Return, rows
<1>6. CASE DecideWrite(p)
  <2>1. At(at[p], "resuming").pc = "resuming"
    BY <1>1 DEF At, Frame
  <2>2. QED BY <1>2, <1>3, <1>6, <2>1 DEF DecideWrite, Return, Goto
<1>7. CASE DecideRead(p)
  <2>1. PICK job : Step(p, FrameFor("decide", job, "none", {}, {}))
    BY <1>7 DEF DecideRead
  <2>2. FrameFor("decide", job, "none", {}, {}).pc = "decide"
    BY DEF FrameFor
  <2>3. QED BY <1>2, <1>7, <2>1, <2>2 DEF DecideRead, rows
<1>8. CASE Cancel(p) \/ ScanTimeouts(p)
  BY <1>8 DEF Cancel, ScanTimeouts, Spend, Uncancelled, Duplicating
<1>9. CASE TimeOutChild(p) \/ Cascade(p) \/ CascadeDone(p)
  BY <1>1, <1>9 DEF TimeOutChild, Cascade, CascadeDone, QuietFrame
<1>10. QED BY <1>4, <1>5, <1>6, <1>7, <1>8, <1>9 DEF ClientStep, Call

(* The worker that reports a child is alone with its row. *)
LEMMA TellWrites ==
  ASSUME TypeInv, Threads, Writers, NEW p \in Proc, TellStep(p) PROVE WriterStep
<1>1. at[p].pc \in {"tell", "tellw", "wake"}
  BY DEF TellStep, TellRead, TellWrite, WakeParent
<1>2. p \in Worker /\ p \notin Client
  BY <1>1, ProcAssumption DEF Threads, Handlers, QuietFrame, Proc
<1>3. PICK c \in Run : c = at[p].job.run
  BY <1>1, <1>2, CarriedRun
<1>4. at[p] \in Frame /\ DataOK
  BY DEF TypeInv, FramesOK
<1>5. ASSUME NEW l \in {"flush", "tellw", "wake"}, Goto(p, l)
      PROVE  \E f : Step(p, f) /\ f.pc = l /\ f.job = at[p].job
  <2>1. l \in Pc
    BY <1>5 DEF Pc
  <2>2. QED BY <1>4, <1>5, <2>1, AtFrame DEF Goto
<1>6. ASSUME NEW q \in Worker, q # p, at[q].pc = "tellw" PROVE at[q].job.run # c
  <2>1. SUFFICES ASSUME at[q].job.run = c PROVE FALSE
    OBVIOUS
  <2>2. Holds("process", q, c) /\ Holds("process", p, c)
    BY <1>1, <1>2, <1>3, <1>6, <2>1 DEF Holds, Owns, Carries, Driving, Proc
  <2>3. QED BY <1>6, <2>2 DEF Threads, Unique
<1>7. ASSUME NEW f, Step(p, f), f.pc # "tellw", f.pc # "cascade", row[c] = "pending",
             \A d \in Run : d # c => row'[d] = row[d] /\ result'[d] = result[d]
      PROVE  WriterStep
  <2>1. \A q \in Proc : at'[q] = IF q = p THEN f ELSE at[q]
    BY <1>7, Moved
  <2>2. \A q \in Worker : q \in Proc
    BY DEF Proc
  <2>3. \A q \in Worker : at'[q].pc = "tellw" => at'[q].job.run # c
    BY <1>6, <1>7, <2>1, <2>2
  <2>4. QED BY <1>2, <1>7, <2>1, <2>2, <2>3 DEF WriterStep, RowMoves, Proc
<1>8. CASE TellRead(p) /\ Goto(p, "flush") /\ row' = row
  <2>1. PICK f : Step(p, f) /\ f.pc = "flush"
    BY <1>5, <1>8
  <2>2. QED BY <1>8, <2>1, WriterPlain DEF TellRead
<1>9. CASE TellRead(p) /\ Goto(p, "tellw") /\ row' = row /\ row[c] = "pending"
  <2>1. PICK f : Step(p, f) /\ f.pc = "tellw" /\ f.job = at[p].job
    BY <1>5, <1>9
  <2>2. QED BY <1>3, <1>9, <2>1, WriterPlain DEF TellRead
<1>10. CASE /\ TellRead(p) /\ Goto(p, "flush") /\ row[c] = "pending"
            /\ row' = [row EXCEPT ![c] = "parent_cancelled"]
  <2>1. PICK f : Step(p, f) /\ f.pc = "flush"
    BY <1>5, <1>10
  <2>2. \A d \in Run : d # c => row'[d] = row[d] /\ result'[d] = result[d]
    BY <1>4, <1>10 DEF DataOK, TellRead
  <2>3. QED BY <1>7, <1>10, <2>1, <2>2
<1>11. CASE TellWrite(p)
  <2>1. /\ at[p].pc = "tellw" /\ Goto(p, "wake")
        /\ row' = [row EXCEPT ![c] = RowOnceReported]
        /\ result' = [result EXCEPT ![c] = Reported(p)]
    BY <1>3, <1>11 DEF TellWrite
  <2>2. PICK f : Step(p, f) /\ f.pc = "wake"
    BY <1>5, <2>1
  <2>3. \A d \in Run : d # c => row'[d] = row[d] /\ result'[d] = result[d]
    BY <1>4, <2>1 DEF DataOK
  <2>4. row[c] = "pending"
    BY <1>2, <1>3, <2>1 DEF Writers
  <2>5. QED BY <1>7, <2>2, <2>3, <2>4
<1>12. CASE WakeParent(p)
  <2>1. Goto(p, "flush") /\ UNCHANGED <<row, result>>
    BY <1>2, <1>12 DEF WakeParent, AfterTell
  <2>2. PICK f : Step(p, f) /\ f.pc = "flush"
    BY <1>5, <2>1
  <2>3. QED BY <2>1, <2>2, WriterPlain
<1>13. TellRead(p) => \/ Goto(p, "flush") /\ row' = row
                      \/ Goto(p, "tellw") /\ row' = row /\ row[c] = "pending"
                      \/ /\ Goto(p, "flush") /\ row[c] = "pending"
                         /\ row' = [row EXCEPT ![c] = "parent_cancelled"]
  BY <1>2, <1>3 DEF TellRead, AfterTell, Unreported
<1>14. QED BY <1>8, <1>9, <1>10, <1>11, <1>12, <1>13 DEF TellStep

(* Failures write no row. *)
LEMMA FaultWrites ==
  ASSUME TypeInv, Uncancelled', Fault PROVE WriterStep
<1>1. IdleFrame.pc = "idle"
  BY DEF IdleFrame, FrameFor
<1>2. UNCHANGED <<row, result>>
  BY DEF Fault, CrashWorker, KillAtTimeLimit, FlushFails, CrashClient, SendFails,
         CrashEager, ExpireHitl, rows
<1>3. ASSUME NEW p \in Proc, NEW f, Step(p, f), f.pc \in {"idle", "fail"} PROVE WriterStep
  BY <1>2, <1>3, WriterPlain
<1>4. ASSUME NEW p \in Worker, CrashWorker(p) \/ KillAtTimeLimit(p) PROVE WriterStep
  BY <1>1, <1>3, <1>4 DEF CrashWorker, KillAtTimeLimit, Return, Proc
<1>5. ASSUME NEW p \in Client, CrashClient(p) PROVE WriterStep
  BY <1>1, <1>3, <1>5 DEF CrashClient, Return, Proc
<1>6. ASSUME NEW p \in Worker, FlushFails(p) PROVE WriterStep
  <2>1. at[p] \in Frame /\ p \in Proc
    BY DEF TypeInv, FramesOK, Proc
  <2>2. Concluded(at[p], "fail", "none").pc = "fail"
    BY <2>1 DEF Concluded, Frame
  <2>3. QED BY <1>3, <1>6, <2>1, <2>2 DEF FlushFails, Conclude
<1>7. ASSUME NEW p \in Proc, SendFails(p) PROVE WriterStep
  <2>1. at[p] \in Frame
    BY DEF TypeInv, FramesOK
  <2>2. At(at[p], "fail").pc = "fail" /\ Carrying(at[p], "fail", {}).pc = "fail"
    BY <2>1 DEF At, Carrying, Frame
  <2>3. QED BY <1>1, <1>3, <1>7, <2>2 DEF SendFails, Return, Goto
<1>8. CASE CrashEager
  BY <1>8 DEF CrashEager, Spend, Uncancelled, Duplicating
<1>9. CASE ExpireHitl
  BY <1>2, <1>9 DEF ExpireHitl, WriterStep, RowMoves
<1>10. QED BY <1>4, <1>5, <1>6, <1>7, <1>8, <1>9 DEF Fault

LEMMA NextWrites ==
  TypeInv /\ ThreadInv /\ WriterInv /\ [Next]_vars =>
    (Uncancelled' => WriterStep /\ Writers')
<1> SUFFICES ASSUME TypeInv, ThreadInv, WriterInv, [Next]_vars, Uncancelled'
             PROVE  WriterStep /\ Writers'
  OBVIOUS
<1>1. Threads /\ Writers
  BY SeenGrows DEF Uncancelled, NoDuplication, ThreadInv, WriterInv
<1>2. WriterStep
  <2>1. CASE UNCHANGED vars
    BY <2>1 DEF vars, WriterStep, RowMoves
  <2>2. CASE Next
    BY <1>1, <2>2, WorkerWrites, HandlerWrites, TellWrites, FaultWrites DEF Next
  <2>3. QED BY <2>1, <2>2
<1>3. QED BY <1>1, <1>2, WritersKept

(* A child row is resolved once, for any number of workers and handlers:   *)
(* unless somebody cancels, or something made a second party that reports  *)
(* the child, no resolved row changes, nor the result in it.               *)
THEOREM RowsResolveOnce == Spec => RowResolvedOnce
<1>1. Init => WriterInv
  <2>1. Init => \A p \in Proc : at[p].pc = "idle"
    BY DEF Init, IdleFrame, FrameFor
  <2>2. QED BY <2>1 DEF WriterInv, Writers, Proc
<1>2. TypeInv /\ ThreadInv /\ WriterInv /\ [Next]_vars => WriterInv'
  BY NextWrites DEF WriterInv
<1> DEFINE Once == seen' \cap (Duplicating \cup {"cancel"}) = {} =>
       \A c \in Run : row[c] \notin {"none", "pending"} =>
         row'[c] = row[c] /\ result'[c] = result[c]
<1>3. TypeInv /\ ThreadInv /\ WriterInv /\ [Next]_vars => [Once]_<<row, result, seen>>
  <2> SUFFICES ASSUME TypeInv, ThreadInv, WriterInv, [Next]_vars PROVE Once
    OBVIOUS
  <2>1. Uncancelled' => WriterStep
    BY NextWrites
  <2>2. QED BY <2>1 DEF Uncancelled, WriterStep, RowMoves
<1>4. QED BY <1>1, <1>2, <1>3, TypeInvariant, ThreadInvariant, PTL DEF Spec, RowResolvedOnce

-----------------------------------------------------------------------------
(* Messages *)

Executed == {"graph", "spawn", "inline", "settle", "spawned"}
Closing == {"tell", "tellw", "wake", "flush"}

(* The worker p is about to write the outcome of r into its message.       *)
Announces(p, r) ==
  /\ at[p].job.run = r
  /\ at[p].pc = "fail" \/ (at[p].pc \in Closing /\ at[p].outcome = run[r])

Shows(r) == run[r] \in Settling /\ msg[r] # "none" =>
              msg[r] = run[r] \/ \E p \in Worker : Announces(p, r)
(* Whoever holds a run knows its status: it has not settled under a worker *)
(* that executes it, and settled as the worker that closes it says.        *)
Informed(p) ==
  /\ at[p].pc \in Executed => run[at[p].job.run] \notin Settling
  /\ at[p].pc \in Closing /\ at[p].outcome \in Settling /\ run[at[p].job.run] \in Settling
       => at[p].outcome = run[at[p].job.run]
ChildrenAreSilent == \A r \in Run : row[r] # "none" => msg[r] = "none"

Messages == /\ \A r \in Run : Shows(r)
            /\ \A p \in Worker : Informed(p)
            /\ ChildrenAreSilent
Announced == NoDuplication /\ "timeLimit" \notin seen
MessageInv == Announced => Messages

(* A step that settles no run and writes no message but a new run's.       *)
NothingSettles ==
  /\ \A r \in Run : run'[r] \in Settling => run'[r] = run[r] /\ msg'[r] = msg[r]
  /\ ChildrenAreSilent'

(* A worker that goes on from where it was, to announce what it would have. *)
GoesOn(p, f) == p \in Worker =>
  /\ f.pc \in Executed => run'[f.job.run] \notin Settling
  /\ f.pc \in Closing /\ f.outcome \in Settling =>
       at[p].pc \in Closing /\ f.job = at[p].job /\ f.outcome = at[p].outcome
  /\ at[p].pc # "fail"
  /\ at[p].pc \in Closing /\ at[p].outcome \in Settling /\ msg[at[p].job.run] # "none" =>
       /\ f.job = at[p].job
       /\ f.pc = "fail" \/ (f.pc \in Closing /\ f.outcome = at[p].outcome)

LEMMA MessagesKept ==
  ASSUME TypeInv, Messages, NEW p \in Proc, NEW f, Step(p, f), NothingSettles, GoesOn(p, f)
  PROVE  Messages'
<1>1. \A q \in Proc : at'[q] = IF q = p THEN f ELSE at[q]
  BY Moved
<1>2. \A q \in Worker : q \in Proc
  BY DEF Proc
<1>3. ASSUME NEW r \in Run PROVE Shows(r)'
  <2> SUFFICES ASSUME run'[r] \in Settling, msg'[r] # "none", msg'[r] # run'[r]
               PROVE  \E q \in Worker : Announces(q, r)'
    BY DEF Shows
  <2>1. run'[r] = run[r] /\ msg'[r] = msg[r]
    BY DEF NothingSettles
  <2>2. PICK q \in Worker : Announces(q, r)
    BY <2>1 DEF Messages, Shows
  <2>3. CASE q # p
    <3>1. Announces(q, r)'
      BY <1>1, <1>2, <2>1, <2>2, <2>3 DEF Announces
    <3>2. QED BY <3>1
  <2>4. CASE q = p
    <3>1. at'[p] = f /\ at[p].job.run = r /\ at[p].pc \in Closing /\ at[p].outcome = run[r]
      BY <1>1, <2>2, <2>4 DEF Announces, GoesOn
    <3>2. f.job.run = r /\ (f.pc = "fail" \/ (f.pc \in Closing /\ f.outcome = run[r]))
      BY <2>1, <2>4, <3>1 DEF GoesOn
    <3>3. Announces(p, r)'
      BY <2>1, <3>1, <3>2 DEF Announces
    <3>4. QED BY <2>4, <3>3
  <2>5. QED BY <2>3, <2>4
<1>4. ASSUME NEW q \in Worker PROVE Informed(q)'
  <2>1. CASE q # p
    <3>1. at'[q] = at[q] /\ (at[q].pc # "idle" => at[q].job.run \in Run)
      BY <1>1, <1>2, <2>1, CarriedRun
    <3>2. at[q].pc \in Executed \cup Closing => at[q].pc # "idle"
      BY DEF Executed, Closing
    <3>3. Informed(q)
      BY DEF Messages
    <3>4. QED BY <3>1, <3>2, <3>3 DEF Informed, NothingSettles
  <2>2. CASE q = p
    <3>1. at'[p] = f /\ (at[p].pc # "idle" => at[p].job.run \in Run)
      BY <1>1, <2>2, CarriedRun
    <3>2. at[p].pc \in Closing => at[p].pc # "idle"
      BY DEF Closing
    <3>3. Informed(p)
      BY <2>2 DEF Messages
    <3>4. f.pc \in Executed => run'[f.job.run] \notin Settling
      BY <2>2 DEF GoesOn
    <3>5. f.pc \in Closing /\ f.outcome \in Settling /\ run'[f.job.run] \in Settling
            => f.outcome = run'[f.job.run]
      BY <2>2, <3>1, <3>2, <3>3 DEF GoesOn, Informed, NothingSettles
    <3>6. QED BY <2>2, <3>1, <3>4, <3>5 DEF Informed
  <2>3. QED BY <2>1, <2>2
<1>5. QED BY <1>3, <1>4 DEF Messages, NothingSettles

(* The transaction that settles a run: nobody else has it in hand.         *)
LEMMA SettlingAnnounces ==
  ASSUME TypeInv, Threads, Messages, NEW p \in Worker, at[p].pc \in {"settle", "fail"},
         NEW r \in Run, r = at[p].job.run, NEW o \in Settling, SetRun(r, o),
         Conclude(p, "tell", o), UNCHANGED <<msg, row>>
  PROVE  Messages'
<1>1. p \in Proc /\ at[p] \in Frame
  BY DEF TypeInv, FramesOK, Proc
<1>2. PICK f : Step(p, f) /\ f.pc = "tell" /\ f.job = at[p].job /\ f.outcome = o
  <2>1. "tell" \in Pc /\ o \in Outcome
    BY DEF Pc, Outcome, Told, Settling
  <2>2. QED BY <1>1, <2>1, ConcludeFrame DEF Conclude
<1>3. \A q \in Worker : at'[q] = IF q = p THEN f ELSE at[q]
  BY <1>1, <1>2, Moved DEF Proc
<1>4. \A d \in Run : run'[d] = IF d = r THEN o ELSE run[d]
  BY DEF TypeInv, DataOK, SetRun
<1>5. ASSUME NEW q \in Worker, q # p, at[q].job.run = r, Carries(q, at[q], r) PROVE FALSE
  <2>1. Holds("process", q, r) /\ Holds("process", p, r)
    BY <1>5 DEF Holds, Owns, Carries, Driving, Proc
  <2>2. QED BY <1>5, <2>1 DEF Threads, Unique
<1>6. ASSUME NEW d \in Run PROVE Shows(d)'
  <2>1. CASE d = r
    <3>1. Announces(p, r)'
      BY <1>2, <1>3, <1>4 DEF Announces, Closing
    <3>2. QED BY <2>1, <3>1 DEF Shows
  <2>2. CASE d # r
    <3>1. \A q \in Worker : Announces(q, d) => Announces(q, d)'
      BY <1>3, <1>4, <2>2 DEF Announces
    <3>2. QED BY <1>4, <2>2, <3>1 DEF Messages, Shows
  <2>3. QED BY <2>1, <2>2
<1>7. ASSUME NEW q \in Worker PROVE Informed(q)'
  <2>1. CASE q = p
    BY <1>2, <1>3, <1>4, <2>1 DEF Informed, Executed, Closing
  <2>2. CASE q # p /\ at[q].job.run = r
    <3>1. ~Carries(q, at[q], r) /\ at'[q] = at[q]
      BY <1>3, <1>5, <2>2
    <3>2. /\ at[q].pc \notin Executed
          /\ at[q].pc \in Closing => at[q].outcome \notin Settling
      BY <2>2, <3>1 DEF Carries, Driving, Executed, Closing
    <3>3. QED BY <3>1, <3>2 DEF Informed
  <2>3. CASE q # p /\ at[q].job.run # r
    <3>1. at'[q] = at[q] /\ (at[q].pc \in Executed \cup Closing => at[q].job.run \in Run)
      BY <1>3, <2>3, CarriedRun DEF Executed, Closing
    <3>2. QED BY <1>4, <2>3, <3>1 DEF Messages, Informed
  <2>4. QED BY <2>1, <2>2, <2>3
<1>8. QED BY <1>6, <1>7 DEF Messages, ChildrenAreSilent

(* The message is written by the worker that knows the outcome.            *)
LEMMA FlushShows ==
  ASSUME TypeInv, Messages, NEW p \in Worker, Flush(p) PROVE Messages'
<1>1. PICK r \in Run : r = at[p].job.run
  BY CarriedRun DEF Flush, HoldsTask
<1>2. /\ at[p].pc = "flush" /\ UNCHANGED <<run, row>> /\ Step(p, IdleFrame)
      /\ p \in Proc /\ IdleFrame.pc = "idle"
  BY DEF Flush, HoldsTask, Return, Proc, IdleFrame, FrameFor
<1>3. \A d \in Run : msg'[d] = IF d = r THEN Shown(msg[r], at[p].outcome) ELSE msg[d]
  BY <1>1 DEF Flush, TypeInv, DataOK
<1>4. \A q \in Worker : at'[q] = IF q = p THEN IdleFrame ELSE at[q]
  BY <1>2, Moved DEF Proc
<1>5. ASSUME NEW d \in Run PROVE Shows(d)'
  <2> SUFFICES ASSUME run[d] \in Settling, msg'[d] # "none", msg'[d] # run[d]
               PROVE  \E q \in Worker : Announces(q, d)'
    BY <1>2 DEF Shows
  <2>1. msg'[d] = msg[d] /\ ~Announces(p, d)
    <3>1. CASE d # r
      BY <1>1, <1>3, <3>1 DEF Announces
    <3>2. CASE d = r /\ at[p].outcome \in Settling
      <4>1. at[p].outcome = run[r]
        BY <1>1, <1>2, <3>2 DEF Messages, Informed, Closing
      <4>2. QED BY <1>3, <3>2, <4>1 DEF Shown, Settling
    <3>3. CASE d = r /\ at[p].outcome \notin Settling
      BY <1>2, <1>3, <3>3 DEF Shown, Settling, Announces
    <3>4. QED BY <3>1, <3>2, <3>3
  <2>2. PICK q \in Worker : Announces(q, d)
    BY <2>1 DEF Messages, Shows
  <2>3. Announces(q, d)'
    BY <1>2, <1>4, <2>1, <2>2 DEF Announces
  <2>4. QED BY <2>3
<1>6. ASSUME NEW q \in Worker PROVE Informed(q)'
  BY <1>2, <1>4 DEF Messages, Informed, Executed, Closing
<1>7. ChildrenAreSilent'
  BY <1>2, <1>3 DEF Messages, ChildrenAreSilent, Shown
<1>8. QED BY <1>5, <1>6, <1>7 DEF Messages

(* Statuses that are not outcomes settle nothing. *)
LEMMA NoneSettles ==
  ASSUME TypeInv, Messages, UNCHANGED msg,
         \A r \in Run : row'[r] # "none" => row[r] # "none",
         \/ UNCHANGED run
         \/ \E r \in Run, s \in RunStatus \ Settling : SetRun(r, s)
         \/ \E r \in Run : CancelTxn(r)
         \/ \A r \in Run : run'[r] = RunOnceExpired(run[r]) \/ run'[r] = run[r]
  PROVE  NothingSettles
<1>1. ChildrenAreSilent'
  BY DEF Messages, ChildrenAreSilent
<1>2. \A r \in Run : run'[r] \in Settling => run'[r] = run[r]
  <2>1. CASE \E r \in Run, s \in RunStatus \ Settling : SetRun(r, s)
    BY <2>1 DEF TypeInv, DataOK, SetRun
  <2>2. CASE \E r \in Run : CancelTxn(r)
    BY <2>2 DEF TypeInv, DataOK, CancelTxn, Settling
  <2>3. CASE \A r \in Run : run'[r] = RunOnceExpired(run[r]) \/ run'[r] = run[r]
    BY <2>3 DEF RunOnceExpired, Settling
  <2>4. QED BY <2>1, <2>2, <2>3
<1>3. QED BY <1>1, <1>2 DEF NothingSettles

(* A process creates the run c, with a message unless it has a row.        *)
LEMMA CreationSettlesNothing ==
  ASSUME TypeInv, Messages, NEW c \in Run, NEW par, NEW d, NEW rs, NEW m,
         CreateRun(c, par, d, rs, m), rs = "none" \/ m = "none",
         \A r \in Run : run'[r] = run[r] \/ run'[r] \in {"pending", "waiting_child"},
         run'[c] = "pending"
  PROVE  NothingSettles
<1>1. \A r \in Run : /\ row'[r] = IF r = c THEN rs ELSE row[r]
                     /\ msg'[r] = IF r = c THEN m ELSE msg[r]
  BY DEF TypeInv, DataOK, CreateRun
<1>2. QED BY <1>1 DEF Messages, ChildrenAreSilent, NothingSettles, Settling

(* Workers. *)
LEMMA WorkerMessages ==
  ASSUME TypeInv, Threads, Messages, NEW p \in Worker, WorkerStep(p) PROVE Messages'
<1>1. p \in Proc /\ at[p] \in Frame
  BY DEF TypeInv, FramesOK, Proc
<1>2. ASSUME NEW f, Step(p, f), NothingSettles, at[p].pc \notin Closing \cup {"fail"},
             f.pc \in Executed => run'[f.job.run] \notin Settling,
             f.pc \in Closing => f.outcome \notin Settling
      PROVE  Messages'
  <2>1. GoesOn(p, f)
    BY <1>2 DEF GoesOn
  <2>2. QED BY <1>1, <1>2, <2>1, MessagesKept
<1>3. (UNCHANGED <<run, msg, row>>) => NothingSettles
  BY NoneSettles
<1>4. at[p].pc \in Executed => run[at[p].job.run] \notin Settling
  BY DEF Messages, Informed
<1>5. ASSUME NEW l \in {"fail", "inline", "markw"}, Goto(p, l), UNCHANGED <<run, msg, row>>,
             at[p].pc \in Executed \/ (at[p].pc = "mark" /\ l = "markw")
      PROVE  Messages'
  <2>1. l \in Pc
    BY <1>5 DEF Pc
  <2>2. PICK f : Step(p, f) /\ f.pc = l /\ f.job = at[p].job
    BY <1>1, <1>5, <2>1, AtFrame DEF Goto
  <2>3. f.pc \in Executed => run'[f.job.run] \notin Settling
    BY <1>4, <1>5, <2>2 DEF Executed
  <2>4. f.pc \notin Closing /\ at[p].pc \notin Closing \cup {"fail"}
    BY <1>5, <2>2 DEF Executed, Closing
  <2>5. QED BY <1>2, <1>3, <1>5, <2>2, <2>3, <2>4
<1>6. ASSUME NEW o \in {"waiting", "interrupted"}, Conclude(p, "flush", o), NothingSettles,
             at[p].pc \notin Closing \cup {"fail"}
      PROVE  Messages'
  <2>1. "flush" \in Pc /\ o \in Outcome /\ o \notin Settling
    BY <1>6 DEF Pc, Outcome, Settling
  <2>2. PICK f : Step(p, f) /\ f.pc = "flush" /\ f.outcome = o
    BY <1>1, <1>6, <2>1, ConcludeFrame DEF Conclude
  <2>3. QED BY <1>2, <1>6, <2>1, <2>2 DEF Executed
<1>7. CASE Claim(p)
  <2>1. PICK e \in broker :
           /\ SetRun(e.run, "running")
           /\ \E n : Step(p, [FrameFor("graph", e, "none", {}, {}) EXCEPT !.rec = n])
    BY <1>7 DEF Claim
  <2>2. PICK f : Step(p, f) /\ f.pc = "graph" /\ f.job = e
    <3>1. PICK n : Step(p, [FrameFor("graph", e, "none", {}, {}) EXCEPT !.rec = n])
      BY <2>1
    <3> DEFINE g == [FrameFor("graph", e, "none", {}, {}) EXCEPT !.rec = n]
    <3>2. Step(p, g) /\ g.pc = "graph" /\ g.job = e
      BY <3>1 DEF FrameFor
    <3>3. QED BY <3>2
  <2>3. e.run \in Run /\ "running" \in RunStatus \ Settling
    BY <2>1 DEF TypeInv, DataOK, Envelope, RunStatus, Settling
  <2>4. NothingSettles
    BY <1>7, <2>1, <2>3, NoneSettles DEF Claim
  <2>5. run'[e.run] \notin Settling
    BY <2>1, <2>3 DEF TypeInv, DataOK, SetRun
  <2>6. QED BY <1>2, <1>7, <2>2, <2>4, <2>5 DEF Claim, HoldsTask, Closing
<1>8. CASE RunGraph(p)
  <2>1. at[p].pc = "graph" /\ UNCHANGED <<run, msg, row>>
    BY <1>8 DEF RunGraph, HoldsTask, rows
  <2>2. PICK l \in {"spawn", "settle"}, k \in {NextStop(at[p].job.run, at[p].job.kind)} :
           Step(p, StoppedAt(at[p], l, k))
    BY <1>8 DEF RunGraph
  <2>3. PICK f : Step(p, f) /\ f.pc \in {"spawn", "settle"} /\ f.job = at[p].job
    <3>1. StoppedAt(at[p], l, k).pc = l /\ StoppedAt(at[p], l, k).job = at[p].job
      BY <1>1 DEF StoppedAt, Frame
    <3>2. QED BY <2>2, <3>1
  <2>4. QED BY <1>2, <1>3, <1>4, <2>1, <2>3 DEF Executed, Closing
<1>9. CASE GraphRaises(p) \/ SpawnRefused(p)
  BY <1>5, <1>9 DEF GraphRaises, SpawnRefused, HoldsTask, rows, Executed
<1>10. CASE SpawnChild(p)
  <2>1. PICK r \in Run : r = at[p].job.run
    BY <1>10, CarriedRun DEF SpawnChild, HoldsTask
  <2>2. PICK c \in Run :
           /\ run[c] = "absent"
           /\ run' = [run EXCEPT ![c] = "pending", ![r] = "waiting_child"]
           /\ CreateRun(c, r, depth[r] + 1, "pending", "none")
           /\ Step(p, Carrying(at[p], "spawned", {c}))
    BY <1>10, <2>1 DEF SpawnChild
  <2>3. at[p].pc = "spawn"
    BY <1>10 DEF SpawnChild, HoldsTask
  <2>4. PICK f : Step(p, f) /\ f.pc = "spawned" /\ f.job = at[p].job
    <3>1. /\ Carrying(at[p], "spawned", {c}).pc = "spawned"
          /\ Carrying(at[p], "spawned", {c}).job = at[p].job
      BY <1>1 DEF Carrying, Frame
    <3>2. QED BY <2>2, <3>1
  <2>5. c # r
    <3>1. Owns("process", p, r)
      BY <1>1, <2>1, <2>3 DEF Owns, Carries, Driving
    <3>2. QED BY <2>2, <3>1 DEF Threads, Untouched
  <2>6. /\ run'[c] = "pending" /\ run'[r] = "waiting_child"
        /\ \A d \in Run : run'[d] = run[d] \/ run'[d] \in {"pending", "waiting_child"}
    BY <2>2, <2>5 DEF TypeInv, DataOK
  <2>7. NothingSettles
    BY <2>2, <2>6, CreationSettlesNothing
  <2>8. QED BY <1>2, <2>1, <2>3, <2>4, <2>6, <2>7 DEF Settling, Closing
<1>11. CASE InlineResume(p)
  <2>1. at[p].pc = "inline" /\ UNCHANGED <<run, msg, row>>
    BY <1>11 DEF InlineResume, HoldsTask, rows
  <2>2. PICK k \in {NextStop(at[p].job.run, "child")} : Step(p, StoppedAt(at[p], "settle", k))
    BY <1>11 DEF InlineResume
  <2>3. PICK f : Step(p, f) /\ f.pc = "settle" /\ f.job = at[p].job
    <3>1. /\ StoppedAt(at[p], "settle", k).pc = "settle"
          /\ StoppedAt(at[p], "settle", k).job = at[p].job
      BY <1>1 DEF StoppedAt, Frame
    <3>2. QED BY <2>2, <3>1
  <2>4. QED BY <1>2, <1>3, <1>4, <2>1, <2>3 DEF Executed, Closing
<1>12. CASE DispatchChild(p)
  <2>1. Carrying(at[p], "mark", {}).pc = "mark"
    BY <1>1 DEF Carrying, Frame
  <2>2. QED BY <1>2, <1>3, <1>12, <2>1 DEF DispatchChild, HoldsTask, rows, Executed, Closing
<1>13. CASE MarkRead(p)
  <2>1. at[p].pc = "mark" /\ UNCHANGED <<run, msg, row>>
    BY <1>13 DEF MarkRead, HoldsTask
  <2>2. QED BY <1>3, <1>5, <1>6, <1>13, <2>1 DEF MarkRead, Closing
<1>14. CASE MarkWrite(p)
  <2>1. /\ at[p].pc = "markw" /\ UNCHANGED <<msg, row>> /\ Conclude(p, "flush", "waiting")
        /\ SetRun(at[p].job.run, "waiting_child")
    BY <1>14 DEF MarkWrite, HoldsTask
  <2>2. at[p].job.run \in Run /\ "waiting_child" \in RunStatus \ Settling
    BY <2>1, CarriedRun DEF RunStatus, Settling
  <2>3. NothingSettles
    BY <2>1, <2>2, NoneSettles
  <2>4. QED BY <1>6, <2>1, <2>3 DEF Closing
<1>15. CASE SettleInterrupt(p)
  <2>1. /\ at[p].pc = "settle" /\ UNCHANGED <<msg, row>> /\ Conclude(p, "flush", "interrupted")
        /\ SetRun(at[p].job.run, "interrupted")
    BY <1>15 DEF SettleInterrupt, HoldsTask
  <2>2. at[p].job.run \in Run /\ "interrupted" \in RunStatus \ Settling
    BY <2>1, CarriedRun DEF RunStatus, Settling
  <2>3. NothingSettles
    BY <2>1, <2>2, NoneSettles
  <2>4. QED BY <1>6, <2>1, <2>3 DEF Closing
<1>16. CASE SettleCompleted(p) \/ FailRun(p)
  <2>1. at[p].pc \in {"settle", "fail"} /\ UNCHANGED <<msg, row>>
    BY <1>16 DEF SettleCompleted, FailRun, HoldsTask
  <2>2. PICK r \in Run : r = at[p].job.run
    BY <2>1, CarriedRun
  <2>3. PICK o \in Settling : SetRun(r, o) /\ Conclude(p, "tell", o)
    BY <1>16, <2>2 DEF SettleCompleted, FailRun, AfterCompletion, Settling
  <2>4. QED BY <2>1, <2>2, <2>3, SettlingAnnounces
<1>17. CASE Flush(p)
  BY <1>17, FlushShows
<1>18. QED BY <1>7, <1>8, <1>9, <1>10, <1>11, <1>12, <1>13, <1>14, <1>15, <1>16, <1>17
           DEF WorkerStep

(* Handlers settle nothing, and only workers announce. *)
LEMMA HandlerMessages ==
  ASSUME TypeInv, Threads, Messages, NEW p \in Client, ClientStep(p) \/ Call(p)
  PROVE  Messages'
<1>1. p \in Proc /\ p \notin Worker /\ at[p] \in Frame /\ QuietFrame(at[p])
  BY ProcAssumption DEF TypeInv, FramesOK, Proc, Threads, Handlers
<1>2. ASSUME NEW f, Step(p, f), NothingSettles PROVE Messages'
  <2>1. GoesOn(p, f)
    BY <1>1 DEF GoesOn
  <2>2. QED BY <1>1, <1>2, <2>1, MessagesKept
<1>3. ASSUME NEW f, Step(p, f), UNCHANGED <<msg, row, run>> PROVE Messages'
  <2>1. NothingSettles
    BY <1>3, NoneSettles
  <2>2. QED BY <1>2, <1>3, <2>1
<1>4. ASSUME NEW f, Step(p, f), UNCHANGED msg, NEW r \in Run, CancelTxn(r) PROVE Messages'
  <2>1. \A d \in Run : row'[d] # "none" => row[d] # "none"
    BY <1>4 DEF CancelTxn, Kids, TypeInv, DataOK
  <2>2. NothingSettles
    BY <1>4, <2>1, NoneSettles
  <2>3. QED BY <1>2, <1>4, <2>2
<1>5. CASE Submit(p)
  <2>1. PICK c \in Run :
           /\ SetRun(c, "pending") /\ CreateRun(c, NoRun, 1, "none", "streaming")
           /\ Step(p, FrameFor("starting", StartEnvelope(c), "none", {}, {}))
    BY <1>5 DEF Submit
  <2>2. /\ run'[c] = "pending"
        /\ \A r \in Run : run'[r] = run[r] \/ run'[r] \in {"pending", "waiting_child"}
    BY <2>1 DEF SetRun, TypeInv, DataOK
  <2>3. NothingSettles
    BY <2>1, <2>2, CreationSettlesNothing
  <2>4. QED BY <1>2, <2>1, <2>3
<1>6. CASE DispatchStart(p) \/ EnqueueAnswer(p)
  BY <1>3, <1>6 DEF DispatchStart, EnqueueAnswer, Return, rows
<1>7. CASE DecideRead(p) \/ ScanTimeouts(p)
  <2>1. PICK f : Step(p, f)
    BY <1>7 DEF DecideRead, ScanTimeouts
  <2>2. QED BY <1>3, <1>7, <2>1 DEF DecideRead, ScanTimeouts, rows
<1>8. CASE DecideWrite(p)
  <2>1. PICK f : Step(p, f)
    BY <1>8 DEF DecideWrite, Return, Goto
  <2>2. at[p].job.run \in Run /\ UNCHANGED <<msg, row>>
    BY <1>1, <1>8 DEF DecideWrite, TypeInv, FramesOK, Fits
  <2>3. "cancelled" \in RunStatus \ Settling
    BY DEF RunStatus, Terminal, Settling
  <2>4. UNCHANGED run \/ SetRun(at[p].job.run, "cancelled")
    BY <1>8 DEF DecideWrite
  <2>5. NothingSettles
    BY <2>2, <2>3, <2>4, NoneSettles
  <2>6. QED BY <1>2, <2>1, <2>5
<1>9. CASE Cancel(p)
  <2>1. PICK r \in Run : CancelTxn(r) /\ \E f : Step(p, f)
    BY <1>9 DEF Cancel
  <2>2. QED BY <1>4, <1>9, <2>1 DEF Cancel
<1>10. CASE TimeOutChild(p)
  BY <1>1, <1>10 DEF TimeOutChild, QuietFrame
<1>11. CASE Cascade(p)
  <2>1. PICK r \in at[p].todo : CancelTxn(r) /\ \E f : Step(p, f)
    BY <1>11 DEF Cascade
  <2>2. r \in Run
    BY <1>1, <2>1 DEF Frame
  <2>3. QED BY <1>4, <1>11, <2>1, <2>2 DEF Cascade
<1>12. CASE CascadeDone(p)
  <2>1. PICK f : Step(p, f)
    BY <1>12 DEF CascadeDone, Return, Goto
  <2>2. QED BY <1>3, <1>12, <2>1 DEF CascadeDone, rows
<1>13. QED BY <1>5, <1>6, <1>7, <1>8, <1>9, <1>10, <1>11, <1>12 DEF ClientStep, Call

(* The worker that reports a child still has the outcome to write. *)
LEMMA TellMessages ==
  ASSUME TypeInv, Threads, Messages, NEW p \in Proc, TellStep(p) PROVE Messages'
<1>1. at[p].pc \in {"tell", "tellw", "wake"} /\ UNCHANGED <<run, msg>>
  BY DEF TellStep, TellRead, TellWrite, WakeParent
<1>2. p \in Worker
  BY <1>1, ProcAssumption DEF Threads, Handlers, QuietFrame, Proc
<1>3. at[p] \in Frame /\ at[p].job.run \in Run
  BY <1>1, <1>2, CarriedRun
<1>4. PICK l \in {"flush", "tellw", "wake"} : Goto(p, l)
  BY <1>2 DEF TellStep, TellRead, TellWrite, WakeParent, AfterTell
<1>5. PICK f : Step(p, f) /\ f.pc = l /\ f.job = at[p].job /\ f.outcome = at[p].outcome
  <2>1. l \in Pc
    BY <1>4 DEF Pc
  <2>2. QED BY <1>3, <1>4, <2>1, AtFrame DEF Goto
<1>6. GoesOn(p, f)
  BY <1>1, <1>4, <1>5 DEF GoesOn, Executed, Closing
<1>7. \A r \in Run : row'[r] # "none" => row[r] # "none"
  <2>1. CASE TellRead(p)
    BY <1>3, <2>1 DEF TellRead, Unreported, TypeInv, DataOK
  <2>2. CASE TellWrite(p)
    <3>1. row[at[p].job.run] # "none"
      BY <2>2 DEF TellWrite, TypeInv, FramesOK, Fits
    <3>2. QED BY <1>3, <2>2, <3>1 DEF TellWrite, TypeInv, DataOK
  <2>3. CASE WakeParent(p)
    BY <2>3 DEF WakeParent
  <2>4. QED BY <2>1, <2>2, <2>3 DEF TellStep
<1>8. NothingSettles
  BY <1>1, <1>7, NoneSettles
<1>9. QED BY <1>5, <1>6, <1>8, MessagesKept

(* A worker that gives up goes on to the except branch, or the run is a    *)
(* child and has no message; none is killed.                               *)
LEMMA FaultMessages ==
  ASSUME TypeInv, Threads, Messages, Announced', Fault PROVE Messages'
<1>1. IdleFrame.pc = "idle"
  BY DEF IdleFrame, FrameFor
<1>2. ASSUME UNCHANGED <<run, msg, row>>, NEW p \in Proc, NEW f, Step(p, f), GoesOn(p, f)
      PROVE  Messages'
  <2>1. NothingSettles
    BY <1>2, NoneSettles
  <2>2. QED BY <1>2, <2>1, MessagesKept
<1>3. ASSUME NEW p \in Worker, CrashWorker(p) PROVE Messages'
  BY <1>3 DEF CrashWorker, Spend, Announced, NoDuplication, Duplicating
<1>4. ASSUME NEW p \in Worker, KillAtTimeLimit(p) PROVE Messages'
  BY <1>4 DEF KillAtTimeLimit, Spend, Announced
<1>5. ASSUME NEW p \in Worker, FlushFails(p) PROVE Messages'
  <2>1. /\ at[p].pc = "flush" /\ UNCHANGED <<run, msg, row>> /\ Conclude(p, "fail", "none")
    BY <1>5 DEF FlushFails, HoldsTask, rows
  <2>2. p \in Proc /\ at[p] \in Frame
    BY <2>1, CarriedRun
  <2>3. PICK f : Step(p, f) /\ f.pc = "fail" /\ f.job = at[p].job
    <3>1. "fail" \in Pc /\ "none" \in Outcome
      BY DEF Pc, Outcome
    <3>2. QED BY <2>1, <2>2, <3>1, ConcludeFrame DEF Conclude
  <2>4. GoesOn(p, f)
    BY <2>1, <2>3 DEF GoesOn, Executed, Closing
  <2>5. QED BY <1>2, <2>1, <2>2, <2>3, <2>4
<1>6. ASSUME NEW p \in Client, CrashClient(p) PROVE Messages'
  <2>1. Step(p, IdleFrame) /\ p \in Proc /\ p \notin Worker /\ UNCHANGED <<run, msg, row>>
    BY <1>6, ProcAssumption DEF CrashClient, Return, rows, Proc
  <2>2. GoesOn(p, IdleFrame)
    BY <2>1 DEF GoesOn
  <2>3. QED BY <1>2, <2>1, <2>2
<1>7. ASSUME NEW p \in Proc, SendFails(p) PROVE Messages'
  <2>1. UNCHANGED <<run, msg, row>> /\ at[p] \in Frame
    BY <1>7 DEF SendFails, TypeInv, FramesOK
  <2>2. CASE at[p].pc \in {"starting", "resuming"} /\ Return(p)
    <3>1. GoesOn(p, IdleFrame)
      BY <1>1, <2>2 DEF GoesOn, Executed, Closing
    <3>2. QED BY <1>2, <2>1, <2>2, <3>1 DEF Return
  <2>3. CASE at[p].pc = "spawned" /\ Step(p, Carrying(at[p], "fail", {}))
    <3>1. "fail" \in Pc /\ {} \in SUBSET Run
      BY DEF Pc
    <3>2. PICK f : Step(p, f) /\ f.pc = "fail" /\ f.job = at[p].job
      BY <2>1, <2>3, <3>1, CarryFrame
    <3>3. GoesOn(p, f)
      BY <2>3, <3>2 DEF GoesOn, Executed, Closing
    <3>4. QED BY <1>2, <2>1, <3>2, <3>3
  <2>4. CASE at[p].pc = "wake" /\ Goto(p, "fail")
    <3>1. "fail" \in Pc
      BY DEF Pc
    <3>2. PICK f : Step(p, f) /\ f.pc = "fail" /\ f.job = at[p].job
      BY <2>1, <2>4, <3>1, AtFrame DEF Goto
    <3>3. GoesOn(p, f)
      BY <2>4, <3>2 DEF GoesOn, Executed, Closing
    <3>4. QED BY <1>2, <2>1, <3>2, <3>3
  <2>5. CASE at[p].pc = "wake" /\ Return(p)
    <3>1. p \in Worker => msg[at[p].job.run] = "none"
      <4>1. SUFFICES ASSUME p \in Worker PROVE msg[at[p].job.run] = "none"
        OBVIOUS
      <4>2. at[p].job.run \in Run
        BY <2>5, <4>1, CarriedRun
      <4>3. row[at[p].job.run] # "none"
        BY <2>5 DEF TypeInv, FramesOK, Fits
      <4>4. QED BY <4>2, <4>3 DEF Messages, ChildrenAreSilent
    <3>2. GoesOn(p, IdleFrame)
      BY <1>1, <2>5, <3>1 DEF GoesOn, Executed, Closing
    <3>3. QED BY <1>2, <2>1, <2>5, <3>2 DEF Return
  <2>6. QED BY <1>7, <2>2, <2>3, <2>4, <2>5 DEF SendFails
<1>8. CASE CrashEager
  BY <1>8 DEF CrashEager, Spend, Announced, NoDuplication, Duplicating
<1>9. CASE ExpireHitl
  <2>1. UNCHANGED <<msg, row, at>>
        /\ \A r \in Run : run'[r] = RunOnceExpired(run[r]) \/ run'[r] = run[r]
    BY <1>9 DEF ExpireHitl
  <2>2. NothingSettles
    BY <2>1, NoneSettles
  <2>3. ASSUME NEW r \in Run PROVE Shows(r)'
    BY <2>1, <2>2 DEF Messages, Shows, NothingSettles, Announces
  <2>4. ASSUME NEW p \in Worker PROVE Informed(p)'
    <3>1. at[p].pc \in Executed \cup Closing => at[p].job.run \in Run
      BY CarriedRun DEF Executed, Closing
    <3>2. QED BY <2>1, <2>2, <3>1 DEF Messages, Informed, NothingSettles
  <2>5. QED BY <2>2, <2>3, <2>4 DEF Messages, NothingSettles
<1>10. QED BY <1>3, <1>4, <1>5, <1>6, <1>7, <1>8, <1>9 DEF Fault

LEMMA NextMessages == TypeInv /\ ThreadInv /\ MessageInv /\ [Next]_vars => MessageInv'
<1> SUFFICES ASSUME TypeInv, ThreadInv, MessageInv, [Next]_vars, Announced'
             PROVE  Messages'
  BY DEF MessageInv
<1>0. NoDuplication'
  BY DEF Announced
<1>1. Threads /\ Messages
  BY SeenGrows DEF Announced, NoDuplication, ThreadInv, MessageInv
<1>2. CASE UNCHANGED vars
  BY <1>1, <1>2 DEF vars, Messages, Shows, Informed, ChildrenAreSilent, Announces
<1>3. CASE Next
  BY <1>0, <1>1, <1>3, WorkerMessages, HandlerMessages, TellMessages, FaultMessages DEF Next
<1>4. QED BY <1>2, <1>3

(* The message of a run nobody works on shows the run's outcome, for any   *)
(* number of workers and handlers: a run settles under the one worker that *)
(* then writes its message, and whatever it does in between, telling the   *)
(* parent or failing to flush, it still has that outcome to write, unless  *)
(* it is killed at the time limit.                                         *)
THEOREM MessagesShowOutcomes == Spec => []MessageShowsOutcome
<1>1. Init => MessageInv
  <2>1. Init => /\ \A p \in Proc : at[p].pc = "idle"
                /\ \A r \in Run : run[r] = "absent" /\ row[r] = "none"
    BY DEF Init, IdleFrame, FrameFor
  <2>2. QED BY <2>1 DEF MessageInv, Messages, Shows, Informed, ChildrenAreSilent, Settling,
                        Executed, Closing, Proc
<1>2. MessageInv => MessageShowsOutcome
  BY DEF MessageInv, Announced, Messages, Shows, Announces, MessageShowsOutcome, Settling
<1>3. QED BY <1>1, <1>2, NextMessages, TypeInvariant, ThreadInvariant, PTL DEF Spec

-----------------------------------------------------------------------------
(* Task records *)

Prompt == NoDuplication /\ seen \cap {"timeLimit", "brokerDown", "apiCrash"} = {}

Recording == {"graph", "spawn", "inline", "settle", "spawned", "fail", "mark", "markw"}

Open(r, n) == task[r][n] \in {"queued", "started"}
(* A worker has the record n of r to close, or it is the newest one and    *)
(* its envelope is queued or about to be.                                  *)
Held(r, n) == \E p \in Worker : /\ at[p].pc \in Recording
                                /\ at[p].job.run = r /\ at[p].rec = n
InHand(r) == \/ Queued(r) \/ Unsent(r)
             \/ \E p \in Client : at[p].pc = "starting" /\ at[p].job.run = r
OpenIsHeld == \A r \in Run, n \in 1..MaxTasks :
                Open(r, n) => Held(r, n) \/ (n = last[r] /\ InHand(r))
Serving == \A p \in Worker : at[p].pc # "idle" => run[at[p].job.run] # "absent"

Records == OpenIsHeld /\ Serving
RecordInv == Prompt => Records

Closed(tasks, r, n) == tasks[r][n] \notin {"queued", "started"}

(* A worker closes its record before it lets go of it. *)
KeepsRecord(p, f) ==
  p \in Worker /\ at[p].pc \in Recording =>
    \/ f.pc \in Recording /\ f.job.run = at[p].job.run /\ f.rec = at[p].rec
    \/ at[p].rec \in 1..MaxTasks => Closed(task', at[p].job.run, at[p].rec)
Lives(p, f) == p \in Worker /\ f.pc # "idle" => run'[f.job.run] # "absent"

(* A record that is open was so before, or somebody has it in hand now.    *)
OpenMoves ==
  \A r \in Run, n \in 1..MaxTasks : Open(r, n)' =>
    \/ Held(r, n)' \/ (n = last'[r] /\ InHand(r)')
    \/ Open(r, n) /\ ~(n = last[r] /\ InHand(r))

LEMMA RecordsMove ==
  ASSUME TypeInv, Records, NEW p \in Proc, NEW f, Step(p, f),
         RunsKept, KeepsRecord(p, f), Lives(p, f), OpenMoves
  PROVE  Records'
<1>1. \A q \in Proc : at'[q] = IF q = p THEN f ELSE at[q]
  BY Moved
<1>2. \A q \in Worker : q \in Proc
  BY DEF Proc
<1>3. ASSUME NEW r \in Run, NEW n \in 1..MaxTasks, Open(r, n)'
      PROVE  Held(r, n)' \/ (n = last'[r] /\ InHand(r)')
  <2>1. CASE Open(r, n) /\ ~(n = last[r] /\ InHand(r))
    <3>1. PICK q \in Worker : at[q].pc \in Recording /\ at[q].job.run = r /\ at[q].rec = n
      BY <2>1 DEF Records, OpenIsHeld, Held
    <3>2. /\ at'[q].pc \in Recording /\ at'[q].job.run = r /\ at'[q].rec = n
      <4>1. CASE q # p
        BY <1>1, <1>2, <3>1, <4>1
      <4>2. CASE q = p
        BY <1>1, <1>2, <1>3, <3>1, <4>2 DEF KeepsRecord, Closed, Open
      <4>3. QED BY <4>1, <4>2
    <3>3. Held(r, n)'
      BY <3>2 DEF Held
    <3>4. QED BY <3>3
  <2>2. QED BY <1>3, <2>1 DEF OpenMoves
<1>4. ASSUME NEW q \in Worker, at'[q].pc # "idle" PROVE run'[at'[q].job.run] # "absent"
  <2>1. CASE q = p
    BY <1>1, <1>2, <1>4, <2>1 DEF Lives
  <2>2. CASE q # p
    <3>1. at'[q] = at[q] /\ at[q].job.run \in Run
      BY <1>1, <1>2, <1>4, <2>2, CarriedRun
    <3>2. QED BY <1>4, <3>1 DEF Records, Serving, RunsKept
  <2>3. QED BY <2>1, <2>2
<1>5. QED BY <1>3, <1>4 DEF Records, OpenIsHeld, Serving

(* No record is opened and none leaves the hands it is in. *)
Undisturbed ==
  /\ last' = last /\ broker \subseteq broker'
  /\ \A r \in Run, n \in 1..MaxTasks : Open(r, n)' => Open(r, n)
(* A worker goes on with its envelope. *)
GoesOnWith(p, f) == p \in Worker /\ f.pc # "idle" => at[p].pc # "idle" /\ f.job = at[p].job

LEMMA RecordsKept ==
  ASSUME TypeInv, Records, NEW p \in Proc, NEW f, Step(p, f), RunsKept,
         KeepsRecord(p, f), GoesOnWith(p, f), Undisturbed,
         at[p].pc \notin {"starting", "spawned"}
  PROVE  Records'
<1>1. \A q \in Proc : at'[q] = IF q = p THEN f ELSE at[q]
  BY Moved
<1>2. ASSUME NEW r \in Run, InHand(r) PROVE InHand(r)'
  <2>1. CASE Queued(r)
    BY <2>1 DEF Undisturbed, Queued, InHand
  <2>2. CASE Unsent(r)
    BY <1>1, <2>2 DEF Unsent, InHand, Proc
  <2>3. CASE \E q \in Client : at[q].pc = "starting" /\ at[q].job.run = r
    BY <1>1, <2>3 DEF InHand, Proc
  <2>4. QED BY <1>2, <2>1, <2>2, <2>3 DEF InHand
<1>3. OpenMoves
  BY <1>2 DEF OpenMoves, Undisturbed
<1>4. Lives(p, f)
  <2>1. p \in Worker /\ at[p].pc # "idle" => at[p].job.run \in Run
    BY CarriedRun
  <2>2. QED BY <2>1 DEF Lives, GoesOnWith, Records, Serving, RunsKept
<1>5. QED BY <1>3, <1>4, RecordsMove

(* The record of the envelope is closed. *)
LEMMA TaskCloses ==
  ASSUME TypeInv, NEW p \in Worker, NEW r \in Run, r = at[p].job.run,
         NEW s \in {"success", "failure"}, SetTask(p, s)
  PROVE  /\ \A d \in Run, n \in 1..MaxTasks : Open(d, n)' => Open(d, n)
         /\ at[p].rec \in 1..MaxTasks => Closed(task', r, at[p].rec)
<1>1. PICK m : m = at[p].rec
  OBVIOUS
<1>2. task' = [task EXCEPT ![r][m] = s]
  BY <1>1 DEF SetTask
<1>3. task \in [Run -> [1..MaxTasks -> TaskStatus]]
  BY DEF TypeInv, DataOK
<1>4. \A d \in Run : d # r => task'[d] = task[d]
  BY <1>2, <1>3
<1>5. task'[r] = [task[r] EXCEPT ![m] = s] /\ task[r] \in [1..MaxTasks -> TaskStatus]
  BY <1>2, <1>3
<1>6. \A n \in 1..MaxTasks : task'[r][n] = IF n = m THEN s ELSE task[r][n]
  BY <1>5
<1>7. QED BY <1>1, <1>4, <1>6 DEF Open, Closed

(* A new run: nothing of it was in hand, and its first record now is.      *)
LEMMA CreationRecords ==
  ASSUME TypeInv, Threads, Records, NEW p \in Proc, NEW f, Step(p, f), RunsKept,
         at[p].pc \notin {"starting", "spawned"}, broker' = broker,
         NEW c \in Run, run[c] = "absent",
         NEW par, NEW d, NEW rs, NEW m, CreateRun(c, par, d, rs, m),
         \/ p \in Client /\ f.pc = "starting" /\ f.job.run = c
         \/ /\ p \in Worker /\ at[p].pc \in Recording /\ f.pc = "spawned" /\ c \in f.todo
            /\ f.job = at[p].job /\ f.rec = at[p].rec
  PROVE  Records'
<1>1. \A q \in Proc : at'[q] = IF q = p THEN f ELSE at[q]
  BY Moved
<1>2. /\ \A r \in Run : r # c => task'[r] = task[r] /\ last'[r] = last[r]
      /\ last'[c] = 1
      /\ \A n \in 1..MaxTasks : n # 1 => task'[c][n] = task[c][n]
  BY DEF TypeInv, DataOK, CreateRun
<1>3. InHand(c)'
  <2>1. CASE p \in Client
    <3>1. p \in Proc /\ p \notin Worker
      BY <2>1, ProcAssumption
    <3>2. at'[p].pc = "starting" /\ at'[p].job.run = c
      BY <1>1, <3>1
    <3>3. QED BY <2>1, <3>2 DEF InHand
  <2>2. CASE p \in Worker
    <3>1. p \notin Client
      BY <2>2, ProcAssumption
    <3>2. at'[p].pc = "spawned" /\ c \in at'[p].todo
      BY <1>1, <3>1
    <3>3. QED BY <2>2, <3>2 DEF InHand, Unsent
  <2>3. QED BY <2>1, <2>2
<1>4. ASSUME NEW n \in 1..MaxTasks, Open(c, n) PROVE FALSE
  <2>1. \A k, x : ~Owns(k, x, c)
    BY DEF Threads, Untouched
  <2>2. ~Held(c, n)
    <3>1. SUFFICES ASSUME NEW q \in Worker, at[q].pc \in Recording, at[q].job.run = c
                   PROVE  FALSE
      BY DEF Held
    <3>2. at[q].pc # "idle"
      BY <3>1 DEF Recording
    <3>3. QED BY <3>1, <3>2 DEF Records, Serving
  <2>3. ~Queued(c)
    BY <2>1 DEF Queued, Owns
  <2>4. ~Unsent(c)
    BY <2>1 DEF Unsent, Owns, Carries, Proc
  <2>5. ~\E q \in Client : at[q].pc = "starting" /\ at[q].job.run = c
    BY <2>1 DEF Owns, Carries, Proc
  <2>6. QED BY <1>4, <2>2, <2>3, <2>4, <2>5 DEF Records, OpenIsHeld, InHand
<1>5. ASSUME NEW r \in Run, InHand(r) PROVE InHand(r)'
  <2>1. CASE Queued(r)
    BY <2>1 DEF Queued, InHand
  <2>2. CASE Unsent(r)
    BY <1>1, <2>2 DEF Unsent, InHand, Proc
  <2>3. CASE \E q \in Client : at[q].pc = "starting" /\ at[q].job.run = r
    BY <1>1, <2>3 DEF InHand, Proc
  <2>4. QED BY <1>5, <2>1, <2>2, <2>3 DEF InHand
<1>6. ASSUME NEW r \in Run, NEW n \in 1..MaxTasks, Open(r, n)'
      PROVE  \/ n = last'[r] /\ InHand(r)'
             \/ Open(r, n) /\ ~(n = last[r] /\ InHand(r))
  <2>1. CASE r = c
    <3>1. n # 1 => Open(c, n)
      BY <1>2, <1>6, <2>1 DEF Open
    <3>2. QED BY <1>2, <1>3, <1>4, <2>1, <3>1
  <2>2. CASE r # c
    BY <1>2, <1>5, <1>6, <2>2 DEF Open
  <2>3. QED BY <2>1, <2>2
<1>7. OpenMoves
  BY <1>6 DEF OpenMoves
<1>8. KeepsRecord(p, f)
  BY ProcAssumption DEF KeepsRecord, Recording
<1>9. Lives(p, f)
  <2>1. SUFFICES ASSUME p \in Worker PROVE run'[f.job.run] # "absent"
    BY DEF Lives
  <2>2. at[p].pc # "idle" /\ f.job = at[p].job
    BY <2>1, ProcAssumption DEF Recording
  <2>3. at[p].job.run \in Run
    BY <2>1, <2>2, CarriedRun
  <2>4. QED BY <2>1, <2>2, <2>3 DEF Records, Serving, RunsKept
<1>10. QED BY <1>7, <1>8, <1>9, RecordsMove

(* A worker takes an envelope, and its run's newest record with it.        *)
LEMMA ClaimRecords ==
  ASSUME TypeInv, Records, NEW p \in Worker, Claim(p) PROVE Records'
<1>1. PICK e \in broker :
        /\ broker' = broker \ {e} /\ SetRun(e.run, "running")
        /\ task' = [task EXCEPT ![e.run][last[e.run]] = "started"]
        /\ Step(p, [FrameFor("graph", e, "none", {}, {}) EXCEPT !.rec = last[e.run]])
  BY DEF Claim, RecordOf
<1>2. PICK r \in Run : r = e.run
  BY <1>1 DEF TypeInv, DataOK, Envelope
<1>3. PICK m : m = last[r]
  OBVIOUS
<1>4. PICK f : Step(p, f) /\ f.pc = "graph" /\ f.job = e /\ f.rec = m
  <2> DEFINE g == [FrameFor("graph", e, "none", {}, {}) EXCEPT !.rec = m]
  <2>1. Step(p, g) /\ g.pc = "graph" /\ g.job = e /\ g.rec = m
    BY <1>1, <1>2, <1>3 DEF FrameFor
  <2>2. QED BY <2>1
<1>5. p \in Proc /\ p \notin Client /\ at[p].pc = "idle" /\ last' = last
  BY ProcAssumption DEF Claim, HoldsTask, Proc
<1>6. \A q \in Proc : at'[q] = IF q = p THEN f ELSE at[q]
  BY <1>4, <1>5, Moved
<1>7. run' = [run EXCEPT ![r] = "running"] /\ run \in [Run -> RunStatus]
  BY <1>1, <1>2 DEF SetRun, TypeInv, DataOK
<1>8. RunsKept /\ Lives(p, f) /\ KeepsRecord(p, f)
  BY <1>2, <1>4, <1>5, <1>7 DEF RunsKept, Lives, KeepsRecord, Recording
<1>9. ASSUME NEW d \in Run, NEW n \in 1..MaxTasks, Open(d, n)'
      PROVE  \/ Held(d, n)' \/ (n = last'[d] /\ InHand(d)')
             \/ Open(d, n) /\ ~(n = last[d] /\ InHand(d))
  <2>1. task' = [task EXCEPT ![r][m] = "started"]
        /\ task \in [Run -> [1..MaxTasks -> TaskStatus]]
    BY <1>1, <1>2, <1>3 DEF TypeInv, DataOK
  <2>2. CASE d = r /\ n = m
    <3>1. at'[p].pc \in Recording /\ at'[p].job.run = d /\ at'[p].rec = n
      BY <1>2, <1>4, <1>5, <1>6, <2>2 DEF Recording
    <3>2. QED BY <3>1 DEF Held
  <2>3. CASE d = r /\ n # m
    <3>1. task'[d][n] = task[d][n]
      BY <2>1, <2>3
    <3>2. QED BY <1>3, <1>9, <2>3, <3>1 DEF Open
  <2>4. CASE d # r
    <3>1. task'[d] = task[d]
      BY <2>1, <2>4
    <3>2. InHand(d) => InHand(d)'
      <4>1. Queued(d) => Queued(d)'
        BY <1>1, <1>2, <2>4 DEF Queued
      <4>2. Unsent(d) => Unsent(d)'
        BY <1>5, <1>6 DEF Unsent, Proc
      <4>3. \A q \in Client : at'[q] = at[q]
        BY <1>5, <1>6 DEF Proc
      <4>4. QED BY <4>1, <4>2, <4>3 DEF InHand
    <3>3. QED BY <1>5, <1>9, <3>1, <3>2 DEF Open
  <2>5. QED BY <2>2, <2>3, <2>4
<1>10. OpenMoves
  BY <1>9 DEF OpenMoves
<1>11. QED BY <1>4, <1>5, <1>8, <1>10, RecordsMove

(* Sending the envelope of a record that is in hand.                       *)
LEMMA DispatchRecords ==
  ASSUME TypeInv, Records, NEW p \in Proc, NEW f, Step(p, f),
         UNCHANGED <<run, task, last>>, KeepsRecord(p, f), GoesOnWith(p, f),
         broker \subseteq broker',
         \A r \in Run : Carries(p, at[p], r) =>
           Queued(r)' \/ (p \in Worker /\ r \notin at[p].todo)
  PROVE  Records'
<1>1. \A q \in Proc : at'[q] = IF q = p THEN f ELSE at[q]
  BY Moved
<1>2. RunsKept
  BY DEF RunsKept
<1>3. Lives(p, f)
  <2>1. p \in Worker /\ at[p].pc # "idle" => at[p].job.run \in Run
    BY CarriedRun
  <2>2. QED BY <2>1 DEF Lives, GoesOnWith, Records, Serving
<1>4. ASSUME NEW r \in Run, InHand(r) PROVE InHand(r)'
  <2>1. CASE Queued(r)
    BY <2>1 DEF Queued, InHand
  <2>2. CASE Unsent(r)
    <3>1. PICK q \in Worker : at[q].pc = "spawned" /\ r \in at[q].todo
      BY <2>2 DEF Unsent
    <3>2. CASE q # p
      <4>1. at'[q] = at[q]
        BY <1>1, <3>2 DEF Proc
      <4>2. QED BY <3>1, <4>1 DEF InHand, Unsent
    <3>3. CASE q = p
      BY <3>1, <3>3 DEF Carries, InHand
    <3>4. QED BY <3>2, <3>3
  <2>3. CASE \E q \in Client : at[q].pc = "starting" /\ at[q].job.run = r
    <3>1. PICK q \in Client : at[q].pc = "starting" /\ at[q].job.run = r
      BY <2>3
    <3>2. CASE q # p
      <4>1. at'[q] = at[q]
        BY <1>1, <3>2 DEF Proc
      <4>2. QED BY <3>1, <4>1 DEF InHand
    <3>3. CASE q = p
      BY <3>1, <3>3, ProcAssumption DEF Carries, InHand
    <3>4. QED BY <3>2, <3>3
  <2>4. QED BY <1>4, <2>1, <2>2, <2>3 DEF InHand
<1>5. OpenMoves
  BY <1>4 DEF OpenMoves, Open
<1>6. QED BY <1>2, <1>3, <1>5, RecordsMove

(* A new record for a run whose thread is held in another way: the record  *)
(* before it is not waiting for anybody.                                   *)
LEMMA EnqueueRecords ==
  ASSUME TypeInv, Threads, Records, NEW p \in Proc, NEW f, Step(p, f),
         UNCHANGED run, NEW r \in Run, NEW kind, EnqueueResume(r, kind, TRUE),
         at[p].pc \notin Recording \cup {"starting"}, GoesOnWith(p, f),
         NEW k, NEW x, Holds(k, x, r),
         k = "child" \/ (k = "process" /\ x \in Client /\ at[x].pc # "starting")
  PROVE  Records'
<1>1. \A q \in Proc : at'[q] = IF q = p THEN f ELSE at[q]
  BY Moved
<1>2. RunsKept /\ KeepsRecord(p, f)
  BY DEF RunsKept, KeepsRecord
<1>3. Lives(p, f)
  <2>1. p \in Worker /\ at[p].pc # "idle" => at[p].job.run \in Run
    BY CarriedRun
  <2>2. QED BY <2>1 DEF Lives, GoesOnWith, Records, Serving
<1>4. PICK m : m = last[r] + 1
  OBVIOUS
<1>5. /\ task' = [task EXCEPT ![r][m] = "queued"] /\ last' = [last EXCEPT ![r] = m]
      /\ task \in [Run -> [1..MaxTasks -> TaskStatus]] /\ last \in [Run -> 0..MaxTasks]
      /\ broker \subseteq broker'
  BY <1>4 DEF EnqueueResume, TypeInv, DataOK
<1>6. Queued(r)'
  <2>1. PICK e : broker' = broker \cup {e} /\ e.run = r
    BY Enqueues
  <2>2. QED BY <2>1 DEF Queued
<1>7. ~InHand(r)
  <2>1. ~Queued(r)
    BY DEF Queued, Holds, Owns, Threads, Unique
  <2>2. ASSUME NEW q \in Worker, at[q].pc = "spawned", r \in at[q].todo PROVE FALSE
    <3>1. Holds("process", q, r) /\ q \notin Client
      BY <2>2, ProcAssumption DEF Holds, Owns, Carries, Proc
    <3>2. QED BY <3>1 DEF Threads, Unique
  <2>3. ASSUME NEW q \in Client, at[q].pc = "starting", at[q].job.run = r PROVE FALSE
    <3>1. Holds("process", q, r)
      BY <2>3 DEF Holds, Owns, Carries, Proc
    <3>2. QED BY <2>3, <3>1 DEF Threads, Unique
  <2>4. QED BY <2>1, <2>2, <2>3 DEF InHand, Unsent
<1>8. ASSUME NEW d \in Run, InHand(d) PROVE InHand(d)'
  <2>1. CASE Queued(d)
    BY <1>5, <2>1 DEF Queued, InHand
  <2>2. CASE Unsent(d)
    BY <1>1, <2>2 DEF Unsent, InHand, Proc, Recording
  <2>3. CASE \E q \in Client : at[q].pc = "starting" /\ at[q].job.run = d
    BY <1>1, <2>3 DEF InHand, Proc
  <2>4. QED BY <1>8, <2>1, <2>2, <2>3 DEF InHand
<1>9. ASSUME NEW d \in Run, NEW n \in 1..MaxTasks, Open(d, n)'
      PROVE  \/ n = last'[d] /\ InHand(d)'
             \/ Open(d, n) /\ ~(n = last[d] /\ InHand(d))
  <2>1. CASE d = r /\ n = m
    BY <1>5, <1>6, <2>1 DEF InHand
  <2>2. CASE d = r /\ n # m
    <3>1. task'[d][n] = task[d][n]
      BY <1>5, <2>2
    <3>2. QED BY <1>7, <1>9, <2>2, <3>1 DEF Open
  <2>3. CASE d # r
    BY <1>5, <1>8, <1>9, <2>3 DEF Open
  <2>4. QED BY <2>1, <2>2, <2>3
<1>10. OpenMoves
  BY <1>9 DEF OpenMoves
<1>11. QED BY <1>2, <1>3, <1>10, RecordsMove

(* Workers. *)
LEMMA WorkerRecords ==
  ASSUME TypeInv, Threads, Records, NEW p \in Worker, WorkerStep(p) PROVE Records'
<1>1. p \in Proc /\ at[p] \in Frame /\ p \notin Client
  BY ProcAssumption DEF TypeInv, FramesOK, Proc
<1>2. IdleFrame.pc = "idle"
  BY DEF IdleFrame, FrameFor
<1>3. ASSUME NEW f, Step(p, f), UNCHANGED <<run, task, last, broker>>,
             at[p].pc \in {"graph", "spawn", "inline", "mark"},
             f.pc \in Recording, f.job = at[p].job, f.rec = at[p].rec
      PROVE  Records'
  <2>1. RunsKept /\ KeepsRecord(p, f) /\ GoesOnWith(p, f) /\ Undisturbed
    BY <1>3 DEF RunsKept, KeepsRecord, GoesOnWith, Undisturbed, Open, Recording
  <2>2. QED BY <1>1, <1>3, <2>1, RecordsKept
<1>4. ASSUME NEW l \in {"fail", "inline", "markw"}, Goto(p, l),
             at[p].pc \in {"graph", "spawn", "inline", "mark"},
             UNCHANGED <<run, task, last, broker>>
      PROVE  Records'
  <2>1. PICK f : /\ Step(p, f) /\ f.pc = l /\ f.job = at[p].job /\ f.rec = at[p].rec
    <3> DEFINE g == [at[p] EXCEPT !.pc = l]
    <3>1. Step(p, g) /\ g.pc = l /\ g.job = at[p].job /\ g.rec = at[p].rec
      BY <1>1, <1>4 DEF Goto, At, Frame
    <3>2. QED BY <3>1
  <2>2. f.pc \in Recording
    BY <1>4, <2>1 DEF Recording
  <2>3. QED BY <1>3, <1>4, <2>1, <2>2
<1>5. ASSUME NEW k, NEW l \in {"spawn", "settle"}, Step(p, StoppedAt(at[p], l, k)),
             at[p].pc \in {"graph", "inline"}, UNCHANGED <<run, task, last, broker>>
      PROVE  Records'
  <2>1. PICK f : Step(p, f) /\ f.pc = l /\ f.job = at[p].job /\ f.rec = at[p].rec
    <3> DEFINE g == [at[p] EXCEPT !.pc = l, !.stop = k]
    <3>1. Step(p, g) /\ g.pc = l /\ g.job = at[p].job /\ g.rec = at[p].rec
      BY <1>1, <1>5 DEF StoppedAt, Frame
    <3>2. QED BY <3>1
  <2>2. f.pc \in Recording
    BY <1>5, <2>1 DEF Recording
  <2>3. QED BY <1>3, <1>5, <2>1, <2>2
<1>6. ASSUME NEW l \in {"flush", "tell"}, NEW o \in Outcome, Conclude(p, l, o),
             NEW s \in {"success", "failure"}, SetTask(p, s), RunsKept,
             at[p].pc \in {"mark", "markw", "settle", "fail"}, UNCHANGED <<last, broker>>
      PROVE  Records'
  <2>1. l \in Pc
    BY <1>6 DEF Pc
  <2>2. PICK f : Step(p, f) /\ f.pc = l /\ f.job = at[p].job
    BY <1>1, <1>6, <2>1, ConcludeFrame DEF Conclude
  <2>3. PICK r \in Run : r = at[p].job.run
    BY <1>6, CarriedRun
  <2>4. /\ \A d \in Run, n \in 1..MaxTasks : Open(d, n)' => Open(d, n)
        /\ at[p].rec \in 1..MaxTasks => Closed(task', r, at[p].rec)
    BY <1>6, <2>3, TaskCloses
  <2>5. KeepsRecord(p, f) /\ GoesOnWith(p, f) /\ Undisturbed
    BY <1>6, <2>2, <2>3, <2>4 DEF KeepsRecord, GoesOnWith, Undisturbed
  <2>6. QED BY <1>1, <1>6, <2>2, <2>5, RecordsKept
<1>7. ASSUME NEW s \in RunStatus \ {"absent"}, SetRun(at[p].job.run, s) PROVE RunsKept
  BY <1>7 DEF SetRun, RunsKept, TypeInv, DataOK
<1>8. CASE Claim(p)
  BY <1>8, ClaimRecords
<1>9. CASE RunGraph(p)
  <2>1. at[p].pc = "graph" /\ UNCHANGED <<run, task, last, broker>>
    BY <1>9 DEF RunGraph, HoldsTask, rows
  <2>2. PICK l \in {"spawn", "settle"}, k \in {NextStop(at[p].job.run, at[p].job.kind)} :
           Step(p, StoppedAt(at[p], l, k))
    BY <1>9 DEF RunGraph
  <2>3. QED BY <1>5, <2>1, <2>2
<1>10. CASE GraphRaises(p) \/ SpawnRefused(p)
  BY <1>4, <1>10 DEF GraphRaises, SpawnRefused, HoldsTask, rows
<1>11. CASE SpawnChild(p)
  <2>1. PICK r \in Run : r = at[p].job.run
    BY <1>11, CarriedRun DEF SpawnChild, HoldsTask
  <2>2. PICK c \in Run :
           /\ run[c] = "absent"
           /\ run' = [run EXCEPT ![c] = "pending", ![r] = "waiting_child"]
           /\ CreateRun(c, r, depth[r] + 1, "pending", "none")
           /\ Step(p, Carrying(at[p], "spawned", {c}))
    BY <1>11, <2>1 DEF SpawnChild
  <2>3. at[p].pc = "spawn" /\ broker' = broker
    BY <1>11 DEF SpawnChild, HoldsTask
  <2>4. PICK f : /\ Step(p, f) /\ f.pc = "spawned" /\ c \in f.todo
                 /\ f.job = at[p].job /\ f.rec = at[p].rec
    <3> DEFINE g == [at[p] EXCEPT !.pc = "spawned", !.todo = {c}]
    <3>1. /\ Step(p, g) /\ g.pc = "spawned" /\ c \in g.todo
          /\ g.job = at[p].job /\ g.rec = at[p].rec
      BY <1>1, <2>2 DEF Carrying, Frame
    <3>2. QED BY <3>1
  <2>5. RunsKept
    BY <2>2 DEF TypeInv, DataOK, RunsKept
  <2>6. at[p].pc \in Recording /\ at[p].pc \notin {"starting", "spawned"}
    BY <2>3 DEF Recording
  <2>7. QED BY <1>1, <2>2, <2>3, <2>4, <2>5, <2>6, CreationRecords
<1>12. CASE InlineResume(p)
  <2>1. at[p].pc = "inline" /\ UNCHANGED <<run, task, last, broker>>
    BY <1>12 DEF InlineResume, HoldsTask, rows
  <2>2. PICK k \in {NextStop(at[p].job.run, "child")} : Step(p, StoppedAt(at[p], "settle", k))
    BY <1>12 DEF InlineResume
  <2>3. QED BY <1>5, <2>1, <2>2
<1>13. CASE DispatchChild(p)
  <2>1. /\ at[p].pc = "spawned" /\ UNCHANGED <<run, task, last>>
        /\ broker' = broker \cup {StartEnvelope(c) : c \in at[p].todo}
    BY <1>13 DEF DispatchChild, HoldsTask, rows
  <2>2. PICK f : /\ Step(p, f) /\ f.pc = "mark" /\ f.job = at[p].job /\ f.rec = at[p].rec
    <3> DEFINE g == [at[p] EXCEPT !.pc = "mark", !.todo = {}]
    <3>1. Step(p, g) /\ g.pc = "mark" /\ g.job = at[p].job /\ g.rec = at[p].rec
      BY <1>1, <1>13 DEF DispatchChild, Carrying, Frame
    <3>2. QED BY <3>1
  <2>3. KeepsRecord(p, f) /\ GoesOnWith(p, f)
    BY <2>1, <2>2 DEF KeepsRecord, GoesOnWith, Recording
  <2>4. \A r \in at[p].todo : Queued(r)'
    <3>1. \A r \in at[p].todo : StartEnvelope(r) \in broker' /\ StartEnvelope(r).run = r
      BY <2>1 DEF StartEnvelope
    <3>2. QED BY <3>1 DEF Queued
  <2>5. \A r \in Run : Carries(p, at[p], r) =>
           Queued(r)' \/ (p \in Worker /\ r \notin at[p].todo)
    BY <2>4
  <2>6. broker \subseteq broker'
    BY <2>1
  <2>7. QED BY <1>1, <2>1, <2>2, <2>3, <2>5, <2>6, DispatchRecords
<1>14. CASE MarkRead(p)
  <2>1. /\ at[p].pc = "mark" /\ UNCHANGED <<run, last, broker>>
        /\ \/ SetTask(p, "success") /\ Conclude(p, "flush", "waiting")
           \/ Goto(p, "markw") /\ task' = task
    BY <1>14 DEF MarkRead, HoldsTask
  <2>2. RunsKept /\ "waiting" \in Outcome
    BY <2>1 DEF RunsKept, Outcome
  <2>3. QED BY <1>4, <1>6, <2>1, <2>2
<1>15. CASE MarkWrite(p)
  <2>1. /\ at[p].pc = "markw" /\ UNCHANGED <<last, broker>> /\ Conclude(p, "flush", "waiting")
        /\ SetRun(at[p].job.run, "waiting_child") /\ SetTask(p, "success")
    BY <1>15 DEF MarkWrite, HoldsTask
  <2>2. "waiting_child" \in RunStatus \ {"absent"} /\ "waiting" \in Outcome
    BY DEF RunStatus, Outcome
  <2>3. QED BY <1>6, <1>7, <2>1, <2>2
<1>16. CASE SettleInterrupt(p)
  <2>1. /\ at[p].pc = "settle" /\ UNCHANGED <<last, broker>> /\ Conclude(p, "flush", "interrupted")
        /\ SetRun(at[p].job.run, "interrupted") /\ SetTask(p, "success")
    BY <1>16 DEF SettleInterrupt, HoldsTask
  <2>2. "interrupted" \in RunStatus \ {"absent"} /\ "interrupted" \in Outcome
    BY DEF RunStatus, Outcome
  <2>3. QED BY <1>6, <1>7, <2>1, <2>2
<1>17. CASE SettleCompleted(p) \/ FailRun(p)
  <2>1. at[p].pc \in {"settle", "fail"} /\ UNCHANGED <<last, broker>>
    BY <1>17 DEF SettleCompleted, FailRun, HoldsTask
  <2>2. PICK o \in Settling, s \in {"success", "failure"} :
           SetRun(at[p].job.run, o) /\ Conclude(p, "tell", o) /\ SetTask(p, s)
    BY <1>17 DEF SettleCompleted, FailRun, AfterCompletion, Settling
  <2>3. o \in RunStatus \ {"absent"} /\ o \in Outcome
    BY DEF RunStatus, Outcome, Settling, Told, Terminal
  <2>4. QED BY <1>6, <1>7, <2>1, <2>2, <2>3
<1>18. CASE Flush(p)
  <2>1. at[p].pc = "flush" /\ Step(p, IdleFrame) /\ UNCHANGED <<run, task, last, broker>>
    BY <1>18 DEF Flush, HoldsTask, Return
  <2>2. RunsKept /\ KeepsRecord(p, IdleFrame) /\ GoesOnWith(p, IdleFrame) /\ Undisturbed
    BY <1>2, <2>1 DEF RunsKept, KeepsRecord, GoesOnWith, Undisturbed, Open, Recording
  <2>3. QED BY <1>1, <2>1, <2>2, RecordsKept
<1>19. QED BY <1>8, <1>9, <1>10, <1>11, <1>12, <1>13, <1>14, <1>15, <1>16, <1>17, <1>18
           DEF WorkerStep

(* Handlers open records for submissions and answers, and close none.      *)
LEMMA HandlerRecords ==
  ASSUME TypeInv, Threads, Records, NEW p \in Client, ClientStep(p) \/ Call(p)
  PROVE  Records'
<1>1. /\ p \in Proc /\ p \notin Worker /\ at[p] \in Frame /\ QuietFrame(at[p])
      /\ Fits(p, at[p], row)
  BY ProcAssumption DEF TypeInv, FramesOK, Proc, Threads, Handlers
<1>2. \A f : KeepsRecord(p, f) /\ GoesOnWith(p, f)
  BY <1>1 DEF KeepsRecord, GoesOnWith
<1>3. ASSUME NEW f, Step(p, f), UNCHANGED <<task, last, broker>>, RunsKept, at[p].pc # "starting"
      PROVE  Records'
  <2>1. Undisturbed
    BY <1>3 DEF Undisturbed, Open
  <2>2. at[p].pc \notin {"starting", "spawned"}
    BY <1>1, <1>3 DEF QuietFrame
  <2>3. QED BY <1>1, <1>2, <1>3, <2>1, <2>2, RecordsKept
<1>4. CASE Submit(p)
  <2>1. PICK c \in Run :
           /\ run[c] = "absent"
           /\ SetRun(c, "pending") /\ CreateRun(c, NoRun, 1, "none", "streaming")
           /\ Step(p, FrameFor("starting", StartEnvelope(c), "none", {}, {}))
    BY <1>4 DEF Submit
  <2>2. PICK f : Step(p, f) /\ f.pc = "starting" /\ f.job.run = c
    <3>1. /\ FrameFor("starting", StartEnvelope(c), "none", {}, {}).pc = "starting"
          /\ FrameFor("starting", StartEnvelope(c), "none", {}, {}).job.run = c
      BY DEF FrameFor, StartEnvelope
    <3>2. QED BY <2>1, <3>1
  <2>3. RunsKept
    BY <2>1 DEF SetRun, TypeInv, DataOK, RunsKept
  <2>4. at[p].pc \notin {"starting", "spawned"} /\ broker' = broker
    BY <1>4 DEF Submit
  <2>5. QED BY <1>1, <2>1, <2>2, <2>3, <2>4, CreationRecords
<1>5. CASE DispatchStart(p)
  <2>1. /\ at[p].pc = "starting" /\ broker' = broker \cup {at[p].job} /\ Step(p, IdleFrame)
        /\ UNCHANGED <<run, task, last>>
    BY <1>5 DEF DispatchStart, Return, rows
  <2>2. \A r \in Run : Carries(p, at[p], r) => Queued(r)'
    <3>1. SUFFICES ASSUME NEW r \in Run, at[p].job.run = r PROVE Queued(r)'
      BY <1>1 DEF Carries
    <3>2. PICK e : e = at[p].job
      OBVIOUS
    <3>3. e \in broker' /\ e.run = r
      BY <2>1, <3>1, <3>2
    <3>4. QED BY <3>3 DEF Queued
  <2>3. broker \subseteq broker'
    BY <2>1
  <2>4. QED BY <1>1, <1>2, <2>1, <2>2, <2>3, DispatchRecords
<1>6. CASE EnqueueAnswer(p)
  <2>1. /\ at[p].pc = "resuming" /\ Step(p, IdleFrame) /\ run' = run
        /\ EnqueueResume(at[p].job.run, "hitl", TRUE)
    BY <1>6 DEF EnqueueAnswer, Return
  <2>2. PICK r \in Run : r = at[p].job.run
    BY <1>1, <2>1 DEF Fits
  <2>3. Holds("process", p, r)
    BY <1>1, <2>1, <2>2 DEF Holds, Owns, Carries
  <2>4. at[p].pc \notin Recording \cup {"starting"}
    BY <2>1 DEF Recording
  <2>5. QED BY <1>1, <1>2, <2>1, <2>2, <2>3, <2>4, EnqueueRecords
<1>7. CASE DecideRead(p) \/ ScanTimeouts(p)
  <2>1. PICK f : Step(p, f)
    BY <1>7 DEF DecideRead, ScanTimeouts
  <2>2. RunsKept
    BY <1>7 DEF DecideRead, ScanTimeouts, rows, RunsKept
  <2>3. QED BY <1>3, <1>7, <2>1, <2>2 DEF DecideRead, ScanTimeouts, rows
<1>8. CASE DecideWrite(p)
  <2>1. PICK f : Step(p, f)
    BY <1>8 DEF DecideWrite, Return, Goto
  <2>2. RunsKept
    <3>1. UNCHANGED run \/ SetRun(at[p].job.run, "cancelled")
      BY <1>8 DEF DecideWrite
    <3>2. QED BY <3>1 DEF SetRun, TypeInv, DataOK, RunsKept
  <2>3. QED BY <1>3, <1>8, <2>1, <2>2 DEF DecideWrite
<1>9. CASE Cancel(p)
  <2>1. PICK r \in Run : CancelTxn(r) /\ \E f : Step(p, f)
    BY <1>9 DEF Cancel
  <2>2. QED BY <1>3, <1>9, <2>1, CancelFades DEF Cancel
<1>10. CASE TimeOutChild(p)
  BY <1>1, <1>10 DEF TimeOutChild, QuietFrame
<1>11. CASE Cascade(p)
  <2>1. PICK r \in at[p].todo : CancelTxn(r) /\ \E f : Step(p, f)
    BY <1>11 DEF Cascade
  <2>2. r \in Run
    BY <1>1, <2>1 DEF Frame
  <2>3. QED BY <1>3, <1>11, <2>1, <2>2, CancelFades DEF Cascade
<1>12. CASE CascadeDone(p)
  <2>1. PICK f : Step(p, f)
    BY <1>12 DEF CascadeDone, Return, Goto
  <2>2. RunsKept
    BY <1>12 DEF CascadeDone, rows, RunsKept
  <2>3. QED BY <1>3, <1>12, <2>1, <2>2 DEF CascadeDone, rows
<1>13. QED BY <1>4, <1>5, <1>6, <1>7, <1>8, <1>9, <1>10, <1>11, <1>12 DEF ClientStep, Call

(* A worker that wakes a parent opens a record for it: the child was all   *)
(* the parent was waiting for.                                             *)
LEMMA TellRecords ==
  ASSUME TypeInv, Threads, Records, NEW p \in Proc, TellStep(p) PROVE Records'
<1>1. at[p].pc \in {"tell", "tellw", "wake"} /\ run' = run
  BY DEF TellStep, TellRead, TellWrite, WakeParent
<1>2. p \in Worker
  BY <1>1, ProcAssumption DEF Threads, Handlers, QuietFrame, Proc
<1>3. at[p] \in Frame /\ at[p].job.run \in Run
  BY <1>1, <1>2, CarriedRun
<1>4. PICK l \in {"flush", "tellw", "wake"} : Goto(p, l)
  BY <1>2 DEF TellStep, TellRead, TellWrite, WakeParent, AfterTell
<1>5. PICK f : Step(p, f) /\ f.pc = l /\ f.job = at[p].job
  <2>1. l \in Pc
    BY <1>4 DEF Pc
  <2>2. QED BY <1>3, <1>4, <2>1, AtFrame DEF Goto
<1>6. at[p].pc \notin Recording \cup {"starting", "spawned"}
  BY <1>1 DEF Recording
<1>7. RunsKept /\ KeepsRecord(p, f) /\ GoesOnWith(p, f)
  BY <1>1, <1>5, <1>6 DEF RunsKept, KeepsRecord, GoesOnWith
<1>8. CASE TellRead(p) \/ TellWrite(p)
  <2>1. Undisturbed
    BY <1>8 DEF TellRead, TellWrite, Undisturbed, Open
  <2>2. QED BY <1>5, <1>6, <1>7, <2>1, RecordsKept
<1>9. CASE WakeParent(p)
  <2>1. at[p].pc = "wake" /\ EnqueueResume(parent[at[p].job.run], "child", TRUE)
    BY <1>9 DEF WakeParent
  <2>2. PICK c \in Run : c = at[p].job.run
    BY <1>3
  <2>3. PICK s \in Run : s = parent[c]
    BY <2>1, <2>2, WakesSomeone
  <2>4. Holds("child", c, s)
    BY <1>2, <2>1, <2>2, <2>3, WakerHolds
  <2>5. EnqueueResume(s, "child", TRUE)
    BY <2>1, <2>2, <2>3
  <2>6. QED BY <1>1, <1>5, <1>6, <1>7, <2>4, <2>5, EnqueueRecords
<1>10. QED BY <1>8, <1>9 DEF TellStep

(* What may fail without leaving a record open: a flush, and a question    *)
(* may expire.                                                             *)
LEMMA FaultRecords ==
  ASSUME TypeInv, Threads, Records, Prompt', Fault PROVE Records'
<1>1. CASE \E p \in Worker : CrashWorker(p) \/ KillAtTimeLimit(p)
  BY <1>1 DEF CrashWorker, KillAtTimeLimit, Spend, Prompt, NoDuplication, Duplicating
<1>2. CASE \E p \in Client : CrashClient(p)
  BY <1>2 DEF CrashClient, Spend, Prompt
<1>3. CASE (\E p \in Proc : SendFails(p)) \/ CrashEager
  BY <1>3 DEF SendFails, CrashEager, Spend, Prompt, NoDuplication, Duplicating
<1>4. ASSUME NEW p \in Worker, FlushFails(p) PROVE Records'
  <2>1. /\ at[p].pc = "flush" /\ UNCHANGED <<run, task, last, broker>>
        /\ Conclude(p, "fail", "none")
    BY <1>4 DEF FlushFails, HoldsTask, rows
  <2>2. p \in Proc /\ at[p] \in Frame
    BY <2>1, CarriedRun
  <2>3. PICK f : Step(p, f) /\ f.pc = "fail" /\ f.job = at[p].job
    <3>1. "fail" \in Pc /\ "none" \in Outcome
      BY DEF Pc, Outcome
    <3>2. QED BY <2>1, <2>2, <3>1, ConcludeFrame DEF Conclude
  <2>4. RunsKept /\ KeepsRecord(p, f) /\ GoesOnWith(p, f) /\ Undisturbed
    BY <2>1, <2>3 DEF RunsKept, KeepsRecord, GoesOnWith, Undisturbed, Open, Recording
  <2>5. QED BY <2>1, <2>2, <2>3, <2>4, RecordsKept
<1>5. CASE ExpireHitl
  <2>1. /\ UNCHANGED <<task, last, broker, at>>
        /\ \A r \in Run : run'[r] = "absent" => run[r] = "absent"
    BY <1>5 DEF ExpireHitl, RunOnceExpired, TypeInv, DataOK
  <2>2. OpenIsHeld'
    BY <2>1 DEF Records, OpenIsHeld, Open, Held, InHand, Queued, Unsent
  <2>3. Serving'
    BY <2>1, CarriedRun DEF Records, Serving
  <2>4. QED BY <2>2, <2>3 DEF Records
<1>6. QED BY <1>1, <1>2, <1>3, <1>4, <1>5 DEF Fault

LEMMA NextRecords == TypeInv /\ ThreadInv /\ RecordInv /\ [Next]_vars => RecordInv'
<1> SUFFICES ASSUME TypeInv, ThreadInv, RecordInv, [Next]_vars, Prompt'
             PROVE  Records'
  BY DEF RecordInv
<1>1. Threads /\ Records
  BY SeenGrows DEF Prompt, NoDuplication, ThreadInv, RecordInv
<1>2. CASE UNCHANGED vars
  BY <1>1, <1>2 DEF vars, Records, OpenIsHeld, Serving, Open, Held, InHand, Queued, Unsent
<1>3. CASE Next
  BY <1>1, <1>3, WorkerRecords, HandlerRecords, TellRecords, FaultRecords DEF Next
<1>4. QED BY <1>2, <1>3

(* No task record stays open behind a run nobody works on, for any number  *)
(* of workers and handlers: a worker looks its record up as the newest one *)
(* of the run, and a newer one is only made when the older was closed.     *)
THEOREM NoRecordStaysOpen == Spec => []RecordsClose
<1>1. Init => RecordInv
  <2>1. Init => /\ \A p \in Proc : at[p].pc = "idle"
                /\ \A r \in Run, n \in 1..MaxTasks : task[r][n] = "none"
    BY DEF Init, IdleFrame, FrameFor
  <2>2. QED BY <2>1 DEF RecordInv, Records, OpenIsHeld, Serving, Open, Proc
<1>2. RecordInv => RecordsClose
  <2> SUFFICES ASSUME Records, NEW r \in Run, NEW n \in 1..MaxTasks, Open(r, n)
               PROVE  \/ Queued(r) \/ \E p \in Proc : Sending(p, r)
                      \/ \E p \in Worker : at[p].pc # "idle" /\ at[p].job.run = r
    BY DEF RecordInv, RecordsClose, Prompt, Open
  <2>1. Held(r, n) \/ InHand(r)
    BY DEF Records, OpenIsHeld
  <2>2. CASE Held(r, n)
    BY <2>2 DEF Held, Recording
  <2>3. CASE InHand(r)
    BY <2>3 DEF InHand, Unsent, Sending, Proc
  <2>4. QED BY <2>1, <2>2, <2>3
<1>3. QED BY <1>1, <1>2, NextRecords, TypeInvariant, ThreadInvariant, PTL DEF Spec
=============================================================================

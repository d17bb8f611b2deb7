--------------------------- MODULE Contract_proofs ---------------------------
(***************************************************************************)
(* The workflow runtime implements RunContract until the first fault.      *)
(* Thread_proofs leaves open who may touch a run that nobody holds.  Here: *)
(* a parent is left alone from the moment its child is dispatched until    *)
(* the child's row is resolved, and it waits for one child only.  From     *)
(* this the phase of every run follows from who holds it, and each handler *)
(* moves the phases by one step of the contract or by none.  At the end,   *)
(* the tables: what the phase of a run says of its newest task record and  *)
(* of its graph, and that therefore no wake-up is lost but a rejection of  *)
(* a child.                                                                *)
(***************************************************************************)
EXTENDS Thread_proofs

-----------------------------------------------------------------------------
(* Health: what holds of every state before the first fault, besides the   *)
(* threads.                                                                *)

Vacant(r) ==
  /\ ~Queued(r)
  /\ \A p \in Proc : ~Carries(p, at[p], r)
  /\ \A k \in 1..MaxHitl : ~Asked(r, k)

CalmPc == {"idle", "starting", "decide", "resuming"}
Calm == \A p \in Client : at[p].pc \in CalmPc
Known == \A p \in Worker : at[p].pc # "idle" => run[at[p].job.run] # "absent"
Agreed == \A p \in Client : at[p].pc = "decide" =>
            hitl[at[p].job.run][at[p].job.n].status = "pending"

(* A parent whose child is dispatched and not reported is left alone, it   *)
(* has one such child, and a cancelled run has none.                       *)
Waits == \A c \in Run : Pressing(c) /\ ~Unsent(c) => Vacant(parent[c])
OnlyKid == \A c, d \in Run : Pressing(c) /\ Pressing(d) /\ parent[c] = parent[d] => c = d
Cut == \A r \in Run : run[r] = "cancelled" =>
         Vacant(r) /\ \A c \in Run : parent[c] = r => ~Pressing(c)

Healthy == Calm /\ Known /\ Agreed /\ Waits /\ OnlyKid /\ Cut
HealthInv == seen = {} => Healthy

(* All that is known of a state before the first fault.                    *)
Sound == TypeInv /\ Threads /\ Healthy /\ Writers

LEMMA OwnedOrVacant ==
  ASSUME NEW r \in Run
  PROVE  Vacant(r) <=> \A k, x : ~Owns(k, x, r)
BY DEF Vacant, Owns, Queued

LEMMA PressingHasParent ==
  ASSUME TypeInv, NEW c \in Run, Pressing(c)
  PROVE  parent[c] \in Run /\ run[c] # "absent" /\ row[c] # "none"
<1>1. CASE row[c] = "pending"
  BY <1>1 DEF TypeInv, RowsOK
<1>2. CASE Reporting(c)
  <2>1. PICK p \in Worker : at[p].pc \in {"tellw", "wake"} /\ at[p].job.run = c
    BY <1>2 DEF Reporting
  <2>2. row[c] # "none"
    BY <2>1 DEF TypeInv, FramesOK, Fits, Proc
  <2>3. QED BY <2>2 DEF TypeInv, RowsOK
<1>3. QED BY <1>1, <1>2 DEF Pressing

(* A vacant run stays so when the step does nothing for it.                *)
Spares(p, f, r) ==
  /\ \A e \in broker' : e.run = r => e \in broker
  /\ ~Carries(p, f, r)
  /\ \A k \in 1..MaxHitl : hitl'[r][k].status = "pending" => hitl[r][k].status = "pending"
  /\ ~(p \in Client /\ f.pc = "decide" /\ f.job.run = r)

LEMMA StaysVacant ==
  ASSUME TypeInv, NEW p \in Proc, NEW f, Step(p, f), NEW r \in Run, Vacant(r), Spares(p, f, r)
  PROVE  Vacant(r)'
<1>1. \A q \in Proc : at'[q] = IF q = p THEN f ELSE at[q]
  BY Moved
<1>2. ~Queued(r)'
  BY DEF Spares, Vacant, Queued
<1>3. \A q \in Proc : ~Carries(q, at'[q], r)
  BY <1>1 DEF Spares, Vacant
<1>4. ASSUME NEW k \in 1..MaxHitl PROVE ~Asked(r, k)'
  <2>1. \A q \in Client : Deciding(q, r, k)' => Deciding(q, r, k)
    BY <1>1 DEF Deciding, Spares, Proc
  <2>2. QED BY <2>1 DEF Asked, Vacant, Spares
<1>5. QED BY <1>2, <1>3, <1>4 DEF Vacant

(* The common case: a process moves, gives nobody a run that nobody had,   *)
(* opens no row and takes none that is to be reported.                     *)
Modest(p, f) ==
  /\ Step(p, f) /\ UNCHANGED parent /\ RunsKept
  /\ at[p].pc # "spawned" /\ f.pc # "spawned"
  /\ \A c \in Run : row'[c] = "pending" => row[c] = "pending"
  /\ p \in Worker /\ f.pc \in {"tellw", "wake"} => Pressing(f.job.run)
  /\ p \in Worker /\ f.pc # "idle" => run'[f.job.run] # "absent"
  /\ p \in Client => f.pc \in CalmPc
  /\ p \in Client /\ f.pc = "decide" => hitl'[f.job.run][f.job.n].status = "pending"
  /\ \A r \in Run, k \in 1..MaxHitl :
       hitl[r][k].status = "pending" /\ ~(p \in Client /\ Deciding(p, r, k)) =>
         hitl'[r][k].status = "pending"

(* It matters to a parent and to a cancelled run that it stays vacant.     *)
Guarded(r) == run[r] = "cancelled" \/ \E c \in Run : parent[c] = r /\ Pressing(c)'
Obeys == \A r \in Run : run'[r] = "cancelled" =>
           run[r] = "cancelled" \/ (Vacant(r)' /\ \A c \in Run : parent[c] = r => ~Pressing(c))

LEMMA HealthFades ==
  ASSUME TypeInv, Threads, Healthy, NEW p \in Proc, NEW f, Modest(p, f), Obeys,
         \A r \in Run : Vacant(r) /\ Guarded(r) => Spares(p, f, r)
  PROVE  Healthy'
<1> USE DEF Modest
<1>1. \A q \in Proc : at'[q] = IF q = p THEN f ELSE at[q]
  BY Moved
<1>2. (\A q \in Worker : q \in Proc) /\ (\A q \in Client : q \in Proc)
  BY DEF Proc
<1>3. \A r \in Run : Vacant(r) /\ Guarded(r) => Vacant(r)'
  BY StaysVacant
<1>4. \A c \in Run : Pressing(c)' => Pressing(c)
  BY <1>1, <1>2 DEF Pressing, Reporting
<1>5. \A c \in Run : Unsent(c) => Unsent(c)'
  BY <1>1, <1>2 DEF Unsent
<1>6. Calm'
  BY <1>1, <1>2 DEF Healthy, Calm
<1>7. Known'
  <2> SUFFICES ASSUME NEW q \in Worker, at'[q].pc # "idle" PROVE run'[at'[q].job.run] # "absent"
    BY DEF Known
  <2>1. CASE q # p
    <3>1. at'[q] = at[q] /\ at[q].job.run \in Run /\ run[at[q].job.run] # "absent"
      BY <1>1, <1>2, <2>1, CarriedRun DEF Healthy, Known
    <3>2. QED BY <3>1 DEF RunsKept
  <2>2. QED BY <1>1, <1>2, <2>1
<1>8. Agreed'
  <2> SUFFICES ASSUME NEW q \in Client, at'[q].pc = "decide"
               PROVE  hitl'[at'[q].job.run][at'[q].job.n].status = "pending"
    BY DEF Agreed
  <2>1. CASE q # p
    <3>1. at'[q] = at[q] /\ Fits(q, at[q], row)
      BY <1>1, <1>2, <2>1 DEF TypeInv, FramesOK
    <3>2. PICK r \in Run, k \in 1..MaxHitl : r = at[q].job.run /\ k = at[q].job.n
      BY <3>1 DEF Fits
    <3>3. Deciding(q, r, k) /\ hitl[r][k].status = "pending"
      BY <3>1, <3>2 DEF Deciding, Healthy, Agreed
    <3>4. p \in Client => ~Deciding(p, r, k)
      BY <2>1, <3>3 DEF Threads, OneDecider
    <3>5. QED BY <3>1, <3>2, <3>3, <3>4
  <2>2. QED BY <1>1, <1>2, <2>1
<1>9. Waits'
  <2> SUFFICES ASSUME NEW c \in Run, Pressing(c)', ~Unsent(c)' PROVE Vacant(parent[c])'
    BY DEF Waits
  <2>1. Pressing(c) /\ ~Unsent(c) /\ parent[c] \in Run
    BY <1>4, <1>5, PressingHasParent
  <2>2. PICK r \in Run : r = parent[c]
    BY <2>1
  <2>3. Vacant(r)
    BY <2>1, <2>2 DEF Healthy, Waits
  <2>4. Vacant(r)'
    BY <1>3, <2>2, <2>3 DEF Guarded
  <2>5. r = parent'[c]
    BY <2>2
  <2>6. QED BY <2>4, <2>5 DEF Vacant, Queued, Carries, Asked, Deciding
<1>10. OnlyKid'
  BY <1>4 DEF Healthy, OnlyKid
<1>11. Cut'
  BY <1>3, <1>4 DEF Healthy, Cut, Obeys, Guarded
<1>12. QED BY <1>6, <1>7, <1>8, <1>9, <1>10, <1>11 DEF Healthy

-----------------------------------------------------------------------------
(* What the steps do *)

Executive == {"graph", "spawn", "inline", "settle", "fail"}

(* A worker goes on with its run, or is done with it.                      *)
Plain(p, f) ==
  /\ Step(p, f) /\ UNCHANGED <<parent, row, hitl, broker>>
  /\ at[p].pc \notin {"idle", "spawned"} /\ f.pc \notin {"spawned", "decide", "wake"}
  /\ \/ f.pc = "idle"
     \/ f.job = at[p].job
  /\ at[p].pc \in Executive => f.pc \in Executive \cup {"tell"}
  /\ at[p].pc \notin Executive => f.pc \notin Executive
  /\ f.pc \in Driving \/ (f.pc = "flush" /\ f.outcome \in Settling) => at[p].pc \in Driving
  /\ at[p].pc = "wake" => FALSE
  /\ f.pc = "tellw" => row[at[p].job.run] = "pending"
  /\ \/ UNCHANGED run
     \/ \E s \in RunStatus \ {"absent", "cancelled"} : SetRun(at[p].job.run, s)

LEMMA ExecutiveIsPlain ==
  ASSUME TypeInv, NEW p \in Worker,
         RunGraph(p) \/ GraphRaises(p) \/ SpawnRefused(p) \/ InlineResume(p)
  PROVE  \E f : Plain(p, f)
<1>1. /\ at[p].pc \in {"graph", "spawn", "inline"}
      /\ UNCHANGED <<run, parent, row, hitl, broker>>
  BY DEF RunGraph, GraphRaises, SpawnRefused, InlineResume, HoldsTask, rows
<1>2. at[p] \in Frame /\ at[p].job.run \in Run
  BY <1>1, CarriedRun
<1>3. ASSUME NEW f, Step(p, f), f.pc \in Executive, f.job = at[p].job PROVE Plain(p, f)
  BY <1>1, <1>3 DEF Plain, Executive, Driving
<1>4. ASSUME NEW l \in {"fail", "inline"}, Goto(p, l) PROVE \E f : Plain(p, f)
  <2>1. l \in Pc
    BY DEF Pc
  <2>2. At(at[p], l).pc = l /\ At(at[p], l).job = at[p].job
    BY <1>2, <2>1, AtFrame
  <2>3. QED BY <1>3, <1>4, <2>2 DEF Goto, Executive
<1>5. ASSUME NEW l \in {"spawn", "settle"}, NEW stop \in Nat, Step(p, StoppedAt(at[p], l, stop))
      PROVE  \E f : Plain(p, f)
  <2>1. l \in Pc
    BY DEF Pc
  <2>2. StoppedAt(at[p], l, stop).pc = l /\ StoppedAt(at[p], l, stop).job = at[p].job
    BY <1>2, <2>1, StopFrame
  <2>3. QED BY <1>3, <1>5, <2>2 DEF Executive
<1>6. NextStop(at[p].job.run, at[p].job.kind) \in Nat /\ NextStop(at[p].job.run, "child") \in Nat
  BY <1>2, NextStopNat DEF TypeInv
<1>7. CASE RunGraph(p)
  BY <1>5, <1>6, <1>7 DEF RunGraph
<1>8. CASE InlineResume(p)
  BY <1>5, <1>6, <1>8 DEF InlineResume
<1>9. CASE GraphRaises(p) \/ SpawnRefused(p)
  BY <1>4, <1>9 DEF GraphRaises, SpawnRefused
<1>10. QED BY <1>7, <1>8, <1>9

LEMMA SettlingIsPlain ==
  ASSUME TypeInv, NEW p \in Worker,
         MarkRead(p) \/ MarkWrite(p) \/ SettleCompleted(p) \/ FailRun(p) \/ Flush(p)
  PROVE  \E f : Plain(p, f)
<1>1. /\ at[p].pc \in {"mark", "markw", "settle", "fail", "flush"}
      /\ UNCHANGED <<parent, row, hitl, broker>>
  BY DEF MarkRead, MarkWrite, SettleCompleted, FailRun, Flush, HoldsTask
<1>2. at[p] \in Frame /\ at[p].job.run \in Run
  BY <1>1, CarriedRun
<1>3. ASSUME NEW l \in {"tell", "flush"}, NEW o \in Outcome, Conclude(p, l, o)
      PROVE  /\ Step(p, Concluded(at[p], l, o)) /\ Concluded(at[p], l, o).pc = l
             /\ Concluded(at[p], l, o).job = at[p].job
             /\ Concluded(at[p], l, o).outcome = o
  <2>1. l \in Pc
    BY DEF Pc
  <2>2. QED BY <1>2, <1>3, <2>1, ConcludeFrame DEF Conclude
<1>4. "waiting" \in Outcome \ Settling /\ {"completed", "failed"} \subseteq Outcome
  BY DEF Outcome, Told, Settling
<1>5. {"waiting_child", "completed", "failed"} \subseteq RunStatus \ {"absent", "cancelled"}
  BY DEF RunStatus, Terminal
<1>6. CASE MarkRead(p)
  <2>1. at[p].pc = "mark" /\ UNCHANGED run
    BY <1>6 DEF MarkRead, HoldsTask
  <2>2. CASE Goto(p, "markw")
    <3>1. "markw" \in Pc
      BY DEF Pc
    <3>2. At(at[p], "markw").pc = "markw" /\ At(at[p], "markw").job = at[p].job
      BY <1>2, <3>1, AtFrame
    <3>3. Plain(p, At(at[p], "markw"))
      BY <1>1, <2>1, <2>2, <3>2 DEF Goto, Plain, Executive, Driving
    <3>4. QED BY <3>3
  <2>3. CASE Conclude(p, "flush", "waiting")
    BY <1>1, <1>3, <1>4, <2>1, <2>3 DEF Plain, Executive, Driving
  <2>4. QED BY <1>6, <2>2, <2>3 DEF MarkRead
<1>7. CASE MarkWrite(p)
  <2>1. /\ at[p].pc = "markw" /\ SetRun(at[p].job.run, "waiting_child")
        /\ Conclude(p, "flush", "waiting")
    BY <1>7 DEF MarkWrite, HoldsTask
  <2>2. QED BY <1>1, <1>3, <1>4, <1>5, <2>1 DEF Plain, Executive, Driving
<1>8. CASE SettleCompleted(p)
  <2>1. /\ at[p].pc = "settle" /\ SetRun(at[p].job.run, "completed")
        /\ Conclude(p, "tell", "completed")
    BY <1>8 DEF SettleCompleted, HoldsTask, AfterCompletion
  <2>2. QED BY <1>1, <1>3, <1>4, <1>5, <2>1 DEF Plain, Executive, Driving
<1>9. CASE FailRun(p)
  <2>1. /\ at[p].pc = "fail" /\ SetRun(at[p].job.run, "failed")
        /\ Conclude(p, "tell", "failed")
    BY <1>9 DEF FailRun, HoldsTask
  <2>2. QED BY <1>1, <1>3, <1>4, <1>5, <2>1 DEF Plain, Executive, Driving
<1>10. CASE Flush(p)
  <2>1. IdleFrame.pc = "idle"
    BY DEF IdleFrame, FrameFor
  <2>2. Plain(p, IdleFrame)
    BY <1>1, <1>10, <2>1 DEF Plain, Executive, Driving, Flush, HoldsTask, Return
  <2>3. QED BY <2>2
<1>11. QED BY <1>6, <1>7, <1>8, <1>9, <1>10

(* A parent that waits for a child is not cancelled as long as nothing has *)
(* gone wrong: who tells it finds it waiting.                              *)
LEMMA TellReadIsPlain ==
  ASSUME TypeInv, Healthy, NEW p \in Worker, TellRead(p)
  PROVE  \E f : Plain(p, f)
<1>1. at[p].pc = "tell" /\ UNCHANGED <<run, parent, hitl, broker>>
  BY DEF TellRead
<1>2. at[p] \in Frame /\ at[p].job.run \in Run
  BY <1>1, CarriedRun
<1>3. row' = row /\ \/ Goto(p, "flush")
                    \/ Goto(p, "tellw") /\ row[at[p].job.run] = "pending"
  <2>1. CASE row[at[p].job.run] = "pending"
    <3>1. PICK c \in Run : c = at[p].job.run
      BY <1>2
    <3>2. Pressing(c) /\ parent[c] \in Run
      BY <2>1, <3>1, PressingHasParent DEF Pressing
    <3>3. run[parent[c]] # "cancelled"
      BY <3>2 DEF Healthy, Cut
    <3>4. QED BY <2>1, <3>1, <3>3 DEF TellRead, Unreported
  <2>2. CASE row[at[p].job.run] # "pending"
    BY <2>2 DEF TellRead, Unreported, AfterTell
  <2>3. QED BY <2>1, <2>2
<1>4. ASSUME NEW l \in {"flush", "tellw"}, Goto(p, l)
      PROVE  Step(p, At(at[p], l)) /\ At(at[p], l).pc = l /\ At(at[p], l).job = at[p].job
  <2>1. l \in Pc
    BY DEF Pc
  <2>2. QED BY <1>2, <1>4, <2>1, AtFrame DEF Goto
<1>5. QED BY <1>1, <1>3, <1>4 DEF Plain, Executive, Driving

LEMMA PlainKeepsHealth ==
  ASSUME TypeInv, Threads, Healthy, NEW p \in Worker, NEW f, Plain(p, f)
  PROVE  Healthy'
<1>1. /\ p \in Proc /\ p \notin Client /\ at[p].job.run \in Run
  BY CarriedRun DEF Plain
<1>2. PICK r \in Run : r = at[p].job.run
  BY <1>1
<1>3. \A d \in Run : (run'[d] = "absent" => run[d] = "absent")
                     /\ (run'[d] = "cancelled" => run[d] = "cancelled")
  BY <1>1 DEF Plain, SetRun, TypeInv, DataOK
<1>4. run[r] # "absent"
  BY <1>2 DEF Plain, Healthy, Known
<1>5. Modest(p, f)
  BY <1>1, <1>2, <1>3, <1>4 DEF Plain, Modest, RunsKept, Pressing
<1>6. \A d \in Run : Vacant(d) => Spares(p, f, d)
  BY <1>1 DEF Vacant, Spares, Plain, Carries, Driving
<1>7. QED BY <1>1, <1>3, <1>5, <1>6, HealthFades DEF Obeys

Claims(p, f, e) ==
  /\ Step(p, f) /\ UNCHANGED <<parent, row, hitl>> /\ SetRun(e.run, "running")
  /\ at[p].pc = "idle" /\ f.pc = "graph" /\ f.job = e
  /\ e \in broker /\ broker' = broker \ {e}

LEMMA ClaimClaims ==
  ASSUME NEW p \in Worker, Claim(p) PROVE \E f : \E e \in broker : Claims(p, f, e)
<1>1. PICK e \in broker :
         /\ broker' = broker \ {e} /\ SetRun(e.run, "running")
         /\ Step(p, [FrameFor("graph", e, "none", {}, {}) EXCEPT !.rec = RecordOf(e.run)])
  BY DEF Claim
<1> DEFINE f == [FrameFor("graph", e, "none", {}, {}) EXCEPT !.rec = RecordOf(e.run)]
<1>2. f.pc = "graph" /\ f.job = e
  BY DEF FrameFor
<1>3. UNCHANGED <<parent, row, hitl>> /\ at[p].pc = "idle"
  BY DEF Claim, HoldsTask
<1>4. Claims(p, f, e)
  BY <1>1, <1>2, <1>3 DEF Claims
<1>5. QED BY <1>4

LEMMA ClaimKeepsHealth ==
  ASSUME TypeInv, Threads, Healthy, NEW p \in Worker, NEW f, NEW e \in broker, Claims(p, f, e)
  PROVE  Healthy'
<1> USE DEF Claims
<1>1. p \in Proc /\ p \notin Client /\ e.run \in Run
  BY ProcAssumption DEF Proc, TypeInv, DataOK, Envelope
<1>2. run'[e.run] = "running" /\ \A d \in Run : d # e.run => run'[d] = run[d]
  BY <1>1 DEF SetRun, TypeInv, DataOK
<1>3. Modest(p, f)
  BY <1>1, <1>2 DEF Modest, RunsKept
<1>4. \A d \in Run : Vacant(d) => Spares(p, f, d)
  BY <1>1 DEF Vacant, Spares, Carries, Queued
<1>5. QED BY <1>1, <1>2, <1>3, <1>4, HealthFades DEF Obeys

(* A worker leaves its run to a question.                                  *)
Asks(p, f, r, k) ==
  /\ Step(p, f) /\ UNCHANGED <<parent, row, broker>> /\ SetRun(r, "interrupted")
  /\ at[p].pc = "settle" /\ at[p].job.run = r
  /\ f.pc = "flush" /\ f.outcome = "interrupted" /\ f.job = at[p].job
  /\ hitl[r][k].status = "absent" /\ hitl'[r][k].status = "pending"
  /\ \A d \in Run, j \in 1..MaxHitl : ~(d = r /\ j = k) => hitl'[d][j] = hitl[d][j]

LEMMA SettleAsks ==
  ASSUME TypeInv, NEW p \in Worker, SettleInterrupt(p)
  PROVE  \E f : \E r \in Run, k \in 1..MaxHitl : Asks(p, f, r, k)
<1>1. PICK r \in Run : r = at[p].job.run
  BY CarriedRun DEF SettleInterrupt, HoldsTask
<1>2. /\ p \in Proc /\ at[p] \in Frame /\ at[p].pc = "settle"
      /\ UNCHANGED <<parent, row, broker>> /\ SetRun(r, "interrupted")
      /\ Conclude(p, "flush", "interrupted")
  BY <1>1, CarriedRun DEF SettleInterrupt, HoldsTask
<1>3. PICK k \in 1..MaxHitl :
         /\ hitl[r][k].status = "absent"
         /\ \E policy : hitl' = [hitl EXCEPT ![r][k] =
                                    [status |-> "pending", onReject |-> policy]]
  BY <1>1 DEF SettleInterrupt
<1>4. PICK policy : hitl' = [hitl EXCEPT ![r][k] = [status |-> "pending", onReject |-> policy]]
  BY <1>3
<1>5. hitl \in [Run -> [1..MaxHitl -> HitlRow]]
  BY DEF TypeInv, DataOK
<1>6. hitl'[r][k] = [status |-> "pending", onReject |-> policy]
  BY <1>4, <1>5
<1>7. \A d \in Run, j \in 1..MaxHitl : ~(d = r /\ j = k) => hitl'[d][j] = hitl[d][j]
  BY <1>4, <1>5
<1> DEFINE f == Concluded(at[p], "flush", "interrupted")
<1>8. f.pc = "flush" /\ f.outcome = "interrupted" /\ f.job = at[p].job /\ Step(p, f)
  <2>1. "flush" \in Pc /\ "interrupted" \in Outcome
    BY DEF Pc, Outcome
  <2>2. QED BY <1>2, <2>1, ConcludeFrame DEF Conclude
<1> HIDE DEF f
<1>9. Asks(p, f, r, k)
  BY <1>1, <1>2, <1>3, <1>6, <1>7, <1>8 DEF Asks
<1>10. QED BY <1>9

LEMMA AskKeepsHealth ==
  ASSUME TypeInv, Threads, Healthy, NEW p \in Worker, NEW f, NEW r \in Run,
         NEW k \in 1..MaxHitl, Asks(p, f, r, k)
  PROVE  Healthy'
<1> USE DEF Asks
<1>1. p \in Proc /\ p \notin Client /\ Carries(p, at[p], r)
  BY CarriedRun DEF Carries, Driving
<1>2. run'[r] = "interrupted" /\ \A d \in Run : d # r => run'[d] = run[d]
  BY <1>1 DEF SetRun, TypeInv, DataOK
<1>3. run[r] # "absent"
  BY DEF Healthy, Known
<1>4. \A d \in Run, j \in 1..MaxHitl :
        hitl[d][j].status = "pending" => hitl'[d][j].status = "pending"
  OBVIOUS
<1>5. Modest(p, f)
  BY <1>1, <1>2, <1>3, <1>4 DEF Modest, RunsKept
<1>6. ASSUME NEW d \in Run, Vacant(d) PROVE Spares(p, f, d)
  <2>1. d # r
    BY <1>1, <1>6 DEF Vacant
  <2>2. ~Carries(p, f, d)
    BY <1>1 DEF Carries, Driving, Settling
  <2>3. QED BY <1>1, <2>1, <2>2 DEF Spares
<1>7. QED BY <1>1, <1>2, <1>5, <1>6, HealthFades DEF Obeys

(* A handler sends the envelope it has announced.                          *)
Hands(p, f, r, e) ==
  /\ Step(p, f) /\ UNCHANGED <<run, parent, row, hitl>>
  /\ at[p].pc \in {"starting", "resuming"} /\ at[p].job.run = r /\ f.pc = "idle"
  /\ broker' = broker \cup {e} /\ e.run = r

LEMMA ClientHands ==
  ASSUME TypeInv, NEW p \in Client, DispatchStart(p) \/ EnqueueAnswer(p)
  PROVE  \E f, e : \E r \in Run : Hands(p, f, r, e)
<1>1. /\ at[p].pc \in {"starting", "resuming"} /\ Step(p, IdleFrame)
      /\ UNCHANGED <<run, parent, row, hitl>>
  BY DEF DispatchStart, EnqueueAnswer, Return, rows
<1>2. PICK r \in Run : r = at[p].job.run
  BY <1>1 DEF TypeInv, FramesOK, Fits, Proc
<1>3. IdleFrame.pc = "idle"
  BY DEF IdleFrame, FrameFor
<1>4. PICK e : broker' = broker \cup {e} /\ e.run = r
  <2>1. CASE DispatchStart(p)
    BY <1>2, <2>1 DEF DispatchStart
  <2>2. CASE EnqueueAnswer(p)
    BY <1>2, <2>2, Enqueues DEF EnqueueAnswer
  <2>3. QED BY <2>1, <2>2
<1>5. Hands(p, IdleFrame, r, e)
  BY <1>1, <1>2, <1>3, <1>4 DEF Hands
<1>6. QED BY <1>5

LEMMA HandKeepsHealth ==
  ASSUME TypeInv, Threads, Healthy, NEW p \in Client, NEW f, NEW e, NEW r \in Run, Hands(p, f, r, e)
  PROVE  Healthy'
<1> USE DEF Hands
<1>1. p \in Proc /\ p \notin Worker /\ Carries(p, at[p], r)
  BY ProcAssumption DEF Proc, Carries
<1>2. Modest(p, f)
  BY <1>1 DEF Modest, RunsKept, CalmPc
<1>3. \A d \in Run : Vacant(d) => Spares(p, f, d)
  BY <1>1 DEF Vacant, Spares, Carries
<1>4. QED BY <1>1, <1>2, <1>3, HealthFades DEF Obeys

(* A handler finds a question that nobody else decides.                    *)
Reads(p, f) ==
  /\ Step(p, f) /\ UNCHANGED <<run, parent, row, hitl, broker>>
  /\ at[p].pc = "idle" /\ f.pc = "decide"
  /\ \E r \in Run, k \in 1..MaxHitl :
       f.job.run = r /\ f.job.n = k /\ hitl[r][k].status = "pending"

LEMMA DecideReads ==
  ASSUME NEW p \in Client, DecideRead(p) PROVE \E f : Reads(p, f)
<1>1. PICK r \in Run, k \in 1..MaxHitl, d \in {"approve", "reject"} :
         /\ Decidable(hitl[r][k])
         /\ Step(p, FrameFor("decide", [run |-> r, n |-> k, kind |-> d], "none", {}, {}))
  BY DEF DecideRead
<1> DEFINE f == FrameFor("decide", [run |-> r, n |-> k, kind |-> d], "none", {}, {})
<1>2. f.pc = "decide" /\ f.job.run = r /\ f.job.n = k
  BY DEF FrameFor
<1>3. UNCHANGED <<run, parent, row, hitl, broker>> /\ at[p].pc = "idle"
  BY DEF DecideRead, rows
<1>4. Reads(p, f)
  BY <1>1, <1>2, <1>3 DEF Reads, Decidable
<1>5. QED BY <1>4

LEMMA ReadKeepsHealth ==
  ASSUME TypeInv, Threads, Healthy, NEW p \in Client, NEW f, Reads(p, f)
  PROVE  Healthy'
<1>1. p \in Proc /\ p \notin Worker
  BY ProcAssumption DEF Proc
<1>2. Modest(p, f)
  BY <1>1 DEF Reads, Modest, RunsKept, CalmPc
<1>3. \A d \in Run : Vacant(d) => Spares(p, f, d)
  BY <1>1 DEF Reads, Vacant, Spares, Carries, Asked
<1>4. QED BY <1>1, <1>2, <1>3, HealthFades DEF Obeys, Reads

(* A handler decides a question, and has an answer to send or has ended    *)
(* the run.                                                                *)
Decides(p, f, r, k) ==
  /\ Step(p, f) /\ UNCHANGED <<parent, row, broker>>
  /\ Deciding(p, r, k)
  /\ hitl'[r][k].status # "pending"
  /\ \A d \in Run, j \in 1..MaxHitl : ~(d = r /\ j = k) => hitl'[d][j] = hitl[d][j]
  /\ \/ f.pc = "resuming" /\ f.job = at[p].job /\ UNCHANGED run
     \/ f.pc = "idle" /\ SetRun(r, "cancelled")

LEMMA ClientDecides ==
  ASSUME TypeInv, NEW p \in Client, DecideWrite(p)
  PROVE  \E f : \E r \in Run, k \in 1..MaxHitl : Decides(p, f, r, k)
<1>1. /\ at[p].pc = "decide" /\ p \in Proc /\ at[p] \in Frame /\ Fits(p, at[p], row)
      /\ UNCHANGED <<parent, row, broker>>
  BY DEF DecideWrite, TypeInv, FramesOK, Proc
<1>2. PICK r \in Run, k \in 1..MaxHitl : r = at[p].job.run /\ k = at[p].job.n
  BY <1>1, ProcAssumption DEF Fits
<1>3. PICK s \in {"approved", "rejected"} : hitl' = [hitl EXCEPT ![r][k].status = s]
  BY <1>2 DEF DecideWrite
<1>4. hitl \in [Run -> [1..MaxHitl -> HitlRow]]
  BY DEF TypeInv, DataOK
<1>5. hitl'[r][k].status = s
  <2>1. hitl[r] \in [1..MaxHitl -> HitlRow]
    BY <1>4
  <2>2. hitl[r][k] \in HitlRow
    BY <2>1
  <2>3. hitl'[r][k] = [hitl[r][k] EXCEPT !.status = s]
    BY <1>3, <1>4
  <2>4. QED BY <2>2, <2>3 DEF HitlRow
<1>6. \A d \in Run, j \in 1..MaxHitl : ~(d = r /\ j = k) => hitl'[d][j] = hitl[d][j]
  BY <1>3, <1>4
<1>7. Deciding(p, r, k)
  BY <1>1, <1>2 DEF Deciding
<1>8. CASE Goto(p, "resuming") /\ UNCHANGED run
  <2>1. "resuming" \in Pc
    BY DEF Pc
  <2>2. At(at[p], "resuming").pc = "resuming" /\ At(at[p], "resuming").job = at[p].job
    BY <1>1, <2>1, AtFrame
  <2>3. Decides(p, At(at[p], "resuming"), r, k)
    BY <1>1, <1>5, <1>6, <1>7, <1>8, <2>2 DEF Goto, Decides
  <2>4. QED BY <2>3
<1>9. CASE SetRun(r, "cancelled") /\ Return(p)
  <2>1. IdleFrame.pc = "idle"
    BY DEF IdleFrame, FrameFor
  <2>2. Decides(p, IdleFrame, r, k)
    BY <1>1, <1>5, <1>6, <1>7, <1>9, <2>1 DEF Return, Decides
  <2>3. QED BY <2>2
<1>10. QED BY <1>2, <1>8, <1>9 DEF DecideWrite

(* Before the first fault, a run is vacant once its question is decided.   *)
LEMMA DecidedIsVacant ==
  ASSUME TypeInv, Threads, Healthy, NEW p \in Client, NEW f, NEW r \in Run, NEW k \in 1..MaxHitl,
         Decides(p, f, r, k)
  PROVE  /\ \A c \in Run : parent[c] = r => ~Pressing(c)
         /\ f.pc = "idle" => Vacant(r)'
<1>1. p \in Proc /\ p \notin Worker /\ at[p].pc = "decide"
  BY ProcAssumption DEF Proc, Decides, Deciding
<1>2. Owns("question", k, r)
  BY DEF Owns, Asked, Decides
<1>3. ASSUME NEW c \in Run, parent[c] = r, Pressing(c) PROVE FALSE
  <2>1. ~Vacant(r)
    BY <1>2, OwnedOrVacant
  <2>2. Unsent(c)
    BY <1>3, <2>1 DEF Healthy, Waits
  <2>3. PICK q \in Worker : at[q].pc = "spawned" /\ c \in at[q].todo
    BY <2>2 DEF Unsent
  <2>4. at[q].job.run = r
    BY <1>3, <2>3 DEF Threads, Spawning, Spawned
  <2>5. Owns("process", q, r)
    BY <2>3, <2>4 DEF Owns, Carries, Driving, Proc
  <2>6. QED BY <1>2, <2>5 DEF Threads, Unique, Holds
<1>4. ASSUME f.pc = "idle" PROVE Vacant(r)'
  <2>1. \A q \in Proc : at'[q] = IF q = p THEN f ELSE at[q]
    BY <1>1, Moved DEF Decides
  <2>2. \A l, x : Owns(l, x, r) => l = "question" /\ x = k
    BY <1>2 DEF Threads, Unique, Holds
  <2>3. ~Queued(r)'
    BY <2>2 DEF Queued, Owns, Decides
  <2>4. \A q \in Proc : ~Carries(q, at'[q], r)
    BY <1>1, <1>4, <2>1, <2>2 DEF Owns, Carries
  <2>5. ASSUME NEW j \in 1..MaxHitl, Asked(r, j)' PROVE FALSE
    <3>1. \A q \in Client : Deciding(q, r, j)' => Deciding(q, r, j) /\ q # p
      BY <1>4, <2>1 DEF Deciding, Proc
    <3>2. j = k \/ Asked(r, j)
      BY <2>5, <3>1 DEF Asked, Decides
    <3>3. j = k
      BY <2>2, <3>2 DEF Owns
    <3>4. PICK q \in Client : Deciding(q, r, k) /\ q # p
      BY <2>5, <3>1, <3>3 DEF Asked, Decides
    <3>5. QED BY <3>4 DEF Threads, OneDecider, Decides
  <2>6. QED BY <2>3, <2>4, <2>5 DEF Vacant
<1>5. QED BY <1>3, <1>4

LEMMA DecideKeepsHealth ==
  ASSUME TypeInv, Threads, Healthy, NEW p \in Client, NEW f, NEW r \in Run, NEW k \in 1..MaxHitl,
         Decides(p, f, r, k)
  PROVE  Healthy'
<1>1. p \in Proc /\ p \notin Worker /\ at[p].pc = "decide" /\ at[p].job.run = r
  BY ProcAssumption DEF Proc, Decides, Deciding
<1>2. \A d \in Run : /\ run'[d] = "absent" => run[d] = "absent"
                     /\ run'[d] = "cancelled" => run[d] = "cancelled" \/ (d = r /\ f.pc = "idle")
  BY DEF Decides, SetRun, TypeInv, DataOK
<1>3. \A d \in Run, j \in 1..MaxHitl :
        hitl[d][j].status = "pending" => hitl'[d][j].status = "pending" \/ Deciding(p, d, j)
  BY DEF Decides
<1>4. Modest(p, f)
  BY <1>1, <1>2, <1>3 DEF Decides, Modest, RunsKept, CalmPc
<1>5. ASSUME NEW d \in Run, Vacant(d) PROVE Spares(p, f, d)
  <2>1. d # r
    BY <1>5 DEF Vacant, Asked, Decides
  <2>2. QED BY <1>1, <2>1 DEF Spares, Decides, Carries
<1>6. Obeys
  BY <1>2, DecidedIsVacant DEF Obeys
<1>7. QED BY <1>1, <1>4, <1>5, <1>6, HealthFades

(* A worker resolves the row of its run ...                                *)
Resolves(p, f, c) ==
  /\ Step(p, f) /\ UNCHANGED <<run, parent, hitl, broker>>
  /\ row' = [row EXCEPT ![c] = "resumed"]
  /\ at[p].pc = "tellw" /\ at[p].job.run = c
  /\ f.pc = "wake" /\ f.job = at[p].job

(* ... and sends the parent its envelope.                                  *)
Wakes(p, f, c, s, e) ==
  /\ Step(p, f) /\ UNCHANGED <<run, parent, row, hitl>>
  /\ at[p].pc = "wake" /\ at[p].job.run = c /\ s = parent[c]
  /\ f.pc = "flush" /\ f.job = at[p].job
  /\ broker' = broker \cup {e} /\ e.run = s

LEMMA TellResolves ==
  ASSUME TypeInv, NEW p \in Worker, TellWrite(p) PROVE \E f : \E c \in Run : Resolves(p, f, c)
<1>1. /\ at[p].pc = "tellw" /\ Goto(p, "wake") /\ UNCHANGED <<run, parent, hitl, broker>>
      /\ row' = [row EXCEPT ![at[p].job.run] = "resumed"]
  BY DEF TellWrite, RowOnceReported
<1>2. at[p] \in Frame /\ at[p].job.run \in Run /\ "wake" \in Pc
  BY <1>1, CarriedRun DEF Pc
<1> DEFINE f == At(at[p], "wake")
<1>3. f.pc = "wake" /\ f.job = at[p].job /\ Step(p, f)
  BY <1>1, <1>2, AtFrame DEF Goto
<1> HIDE DEF f
<1>4. Resolves(p, f, at[p].job.run)
  BY <1>1, <1>3 DEF Resolves
<1>5. QED BY <1>2, <1>4

LEMMA WorkerWakes ==
  ASSUME TypeInv, NEW p \in Worker, WakeParent(p)
  PROVE  \E f, e : \E c, s \in Run : Wakes(p, f, c, s, e)
<1>1. /\ at[p].pc = "wake" /\ Goto(p, "flush") /\ UNCHANGED <<run, parent, row, hitl>>
      /\ EnqueueResume(parent[at[p].job.run], "child", TRUE)
  BY DEF WakeParent, AfterTell
<1>2. PICK c \in Run : c = at[p].job.run
  BY <1>1, CarriedRun
<1>3. at[p] \in Frame /\ "flush" \in Pc
  BY <1>1, CarriedRun DEF Pc
<1>4. PICK s \in Run : s = parent[c]
  BY <1>1, <1>2, WakesSomeone DEF Proc
<1>5. PICK e : broker' = broker \cup {e} /\ e.run = s
  BY <1>1, <1>2, <1>4, Enqueues
<1> DEFINE f == At(at[p], "flush")
<1>6. f.pc = "flush" /\ f.job = at[p].job /\ Step(p, f)
  BY <1>1, <1>3, AtFrame DEF Goto
<1> HIDE DEF f
<1>7. Wakes(p, f, c, s, e)
  BY <1>1, <1>2, <1>4, <1>5, <1>6 DEF Wakes
<1>8. QED BY <1>7

LEMMA ResolveKeepsHealth ==
  ASSUME TypeInv, Threads, Healthy, NEW p \in Worker, NEW f, NEW c \in Run, Resolves(p, f, c)
  PROVE  Healthy'
<1> USE DEF Resolves
<1>1. p \in Proc /\ p \notin Client /\ run[c] # "absent"
  BY CarriedRun DEF Healthy, Known
<1>2. Pressing(c)
  BY DEF Pressing, Reporting
<1>3. \A d \in Run : row'[d] = "pending" => row[d] = "pending"
  BY DEF TypeInv, DataOK
<1>4. Modest(p, f)
  BY <1>1, <1>2, <1>3 DEF Modest, RunsKept
<1>5. \A d \in Run : Vacant(d) => Spares(p, f, d)
  BY <1>1 DEF Vacant, Spares, Carries, Driving
<1>6. QED BY <1>1, <1>4, <1>5, HealthFades DEF Obeys

(* A parent that is about to be woken waits for this child only.           *)
LEMMA WakeKeepsHealth ==
  ASSUME TypeInv, Threads, Healthy, NEW p \in Worker, NEW f, NEW e, NEW c \in Run, NEW s \in Run,
         Wakes(p, f, c, s, e)
  PROVE  Healthy'
<1> USE DEF Wakes
<1>1. p \in Proc /\ p \notin Client /\ run[c] # "absent" /\ Carries(p, at[p], c)
  BY CarriedRun DEF Healthy, Known, Carries, Driving
<1>2. Modest(p, f)
  BY <1>1 DEF Modest, RunsKept
<1>3. Pressing(c)
  BY DEF Pressing, Reporting
<1>4. ~Pressing(c)'
  <2>1. row'[c] # "pending"
    BY DEF Threads, Waking
  <2>2. \A q \in Proc : at'[q] = IF q = p THEN f ELSE at[q]
    BY <1>1, Moved
  <2>3. ASSUME NEW q \in Worker, at'[q].pc \in {"tellw", "wake"}, at'[q].job.run = c PROVE FALSE
    <3>1. q \in Proc /\ q # p /\ Carries(q, at[q], c)
      BY <2>2, <2>3 DEF Proc, Carries, Driving
    <3>2. QED BY <1>1, <3>1 DEF Threads, Unique, Holds, Owns
  <2>4. QED BY <2>1, <2>3 DEF Pressing, Reporting
<1>5. ASSUME NEW d \in Run, Pressing(d)' PROVE Pressing(d) /\ d # c
  <2>1. \A q \in Proc : at'[q] = IF q = p THEN f ELSE at[q]
    BY <1>1, Moved
  <2>2. QED BY <1>4, <1>5, <2>1 DEF Pressing, Reporting, Proc
<1>6. ~Guarded(s)
  BY <1>3, <1>5 DEF Healthy, OnlyKid, Cut, Guarded
<1>7. \A d \in Run : Vacant(d) /\ Guarded(d) => Spares(p, f, d)
  BY <1>1, <1>6 DEF Vacant, Spares, Carries, Driving
<1>8. QED BY <1>1, <1>2, <1>7, HealthFades DEF Obeys

(* A caller submits the run c; a worker spawns it as a child of its run.   *)
Submits(p, f, c, par) ==
  /\ p \in Client /\ par = NoRun /\ row'[c] = "none"
  /\ at[p].pc = "idle" /\ f.pc = "starting" /\ f.job.run = c
Spawns(p, f, c, par) ==
  /\ p \in Worker /\ par \in Run /\ row'[c] = "pending"
  /\ at[p].pc = "spawn" /\ at[p].job.run = par
  /\ f.pc = "spawned" /\ f.job = at[p].job /\ f.todo = {c}
Begins(p, f, c, par) ==
  /\ Step(p, f) /\ UNCHANGED <<hitl, broker>>
  /\ run[c] = "absent" /\ run'[c] = "pending"
  /\ \A d \in Run : d # c => run'[d] = run[d] \/ (d = par /\ run'[d] = "waiting_child")
  /\ \A d \in Run : d # c => row'[d] = row[d]
  /\ parent' = [parent EXCEPT ![c] = par]
  /\ Submits(p, f, c, par) \/ Spawns(p, f, c, par)

LEMMA SubmitBegins ==
  ASSUME TypeInv, NEW p \in Client, Submit(p)
  PROVE  \E f, par : \E c \in Run : Begins(p, f, c, par)
<1>1. PICK c \in Run :
         /\ run[c] = "absent" /\ SetRun(c, "pending")
         /\ CreateRun(c, NoRun, 1, "none", "streaming")
         /\ Step(p, FrameFor("starting", StartEnvelope(c), "none", {}, {}))
  BY DEF Submit
<1> DEFINE f == FrameFor("starting", StartEnvelope(c), "none", {}, {})
<1>2. Step(p, f) /\ f.pc = "starting" /\ f.job.run = c
  BY <1>1 DEF FrameFor, StartEnvelope
<1> HIDE DEF f
<1>3. at[p].pc = "idle" /\ UNCHANGED <<broker, hitl>>
  BY DEF Submit
<1>4. run'[c] = "pending" /\ \A d \in Run : d # c => run'[d] = run[d]
  BY <1>1 DEF TypeInv, DataOK, SetRun
<1>5. row'[c] = "none" /\ \A d \in Run : d # c => row'[d] = row[d]
  BY <1>1 DEF TypeInv, DataOK, CreateRun
<1>6. parent' = [parent EXCEPT ![c] = NoRun]
  BY <1>1 DEF CreateRun
<1>7. Begins(p, f, c, NoRun)
  BY <1>1, <1>2, <1>3, <1>4, <1>5, <1>6 DEF Begins, Submits
<1>8. QED BY <1>7

LEMMA SpawnBegins ==
  ASSUME TypeInv, Healthy, NEW p \in Worker, SpawnChild(p)
  PROVE  \E f, par : \E c \in Run : Begins(p, f, c, par)
<1>1. PICK r \in Run : r = at[p].job.run
  BY CarriedRun DEF SpawnChild, HoldsTask
<1>2. PICK c \in Run :
         /\ run[c] = "absent"
         /\ run' = [run EXCEPT ![c] = "pending", ![r] = "waiting_child"]
         /\ CreateRun(c, r, depth[r] + 1, "pending", "none")
         /\ Step(p, Carrying(at[p], "spawned", {c}))
  BY <1>1 DEF SpawnChild
<1>3. at[p] \in Frame /\ at[p].pc = "spawn" /\ UNCHANGED <<broker, hitl>>
  BY CarriedRun DEF SpawnChild, HoldsTask
<1> DEFINE f == Carrying(at[p], "spawned", {c})
<1>4. Step(p, f) /\ f.pc = "spawned" /\ f.job = at[p].job /\ f.todo = {c}
  BY <1>2, <1>3 DEF Carrying, Frame
<1> HIDE DEF f
<1>5. row'[c] = "pending" /\ \A d \in Run : d # c => row'[d] = row[d]
  BY <1>2 DEF TypeInv, DataOK, CreateRun
<1>6. parent' = [parent EXCEPT ![c] = r]
  BY <1>2 DEF CreateRun
<1>7. \A d \in Run : d # c => run'[d] = run[d] \/ (d = r /\ run'[d] = "waiting_child")
  BY <1>2 DEF TypeInv, DataOK
<1>8. c # r
  BY <1>1, <1>2, <1>3 DEF Healthy, Known
<1>9. run'[c] = "pending"
  BY <1>2, <1>8 DEF TypeInv, DataOK
<1>10. Begins(p, f, c, r)
  BY <1>1, <1>2, <1>3, <1>4, <1>5, <1>6, <1>7, <1>9 DEF Begins, Spawns
<1>11. QED BY <1>10

(* The new run is nobody's yet; nothing of it was known.                   *)
LEMMA BeginningIsNew ==
  ASSUME TypeInv, Threads, Healthy, NEW p \in Proc, NEW f, NEW par, NEW c \in Run,
         Begins(p, f, c, par)
  PROVE  /\ ~Pressing(c) /\ Vacant(c) /\ par # c
         /\ \A d \in Run : parent[d] # c /\ (d # c => parent'[d] = parent[d])
         /\ parent'[c] = par /\ row[c] = "none"
         /\ \A d \in Run : Pressing(d)' =>
              (d # c /\ Pressing(d)) \/ (d = c /\ p \in Worker /\ f.pc = "spawned")
<1> USE DEF Begins
<1>1. Vacant(c) /\ \A d \in Run : parent[d] # c
  BY OwnedOrVacant DEF Threads, Untouched
<1>2. ~Pressing(c) /\ row[c] = "none"
  BY PressingHasParent DEF TypeInv, DataOK, RowsOK, RowStatus
<1>3. parent'[c] = par /\ \A d \in Run : d # c => parent'[d] = parent[d]
  BY DEF TypeInv, DataOK
<1>4. par # c
  BY RunAssumption DEF Submits, Spawns, Healthy, Known
<1>5. \A q \in Proc : at'[q] = IF q = p THEN f ELSE at[q]
  BY Moved
<1>6. ASSUME NEW d \in Run, Pressing(d)'
      PROVE  (d # c /\ Pressing(d)) \/ (d = c /\ p \in Worker /\ f.pc = "spawned")
  <2>1. Reporting(d)' => Reporting(d)
    BY <1>5 DEF Reporting, Submits, Spawns, Proc
  <2>2. CASE d # c
    BY <1>6, <2>1, <2>2 DEF Pressing
  <2>3. CASE d = c
    BY <1>2, <1>6, <2>1, <2>3 DEF Pressing, Submits, Spawns
  <2>4. QED BY <2>2, <2>3
<1>7. QED BY <1>1, <1>2, <1>3, <1>4, <1>6

LEMMA BeginningKeepsHealth ==
  ASSUME TypeInv, Threads, Healthy, NEW p \in Proc, NEW f, NEW par, NEW c \in Run,
         Begins(p, f, c, par)
  PROVE  Healthy'
<1>3. /\ ~Pressing(c) /\ Vacant(c) /\ par # c
      /\ \A d \in Run : parent[d] # c /\ (d # c => parent'[d] = parent[d])
      /\ parent'[c] = par
      /\ \A d \in Run : Pressing(d)' =>
           (d # c /\ Pressing(d)) \/ (d = c /\ p \in Worker /\ f.pc = "spawned")
  BY BeginningIsNew
<1> USE DEF Begins
<1>1. \A q \in Proc : at'[q] = IF q = p THEN f ELSE at[q]
  BY Moved
<1>2. (\A q \in Worker : q \in Proc /\ q \notin Client) /\ (\A q \in Client : q \in Proc)
  BY ProcAssumption DEF Proc
<1>4. Calm'
  BY <1>1, <1>2 DEF Healthy, Calm, CalmPc, Submits, Spawns
<1>5. Known'
  <2> SUFFICES ASSUME NEW q \in Worker, at'[q].pc # "idle" PROVE run'[at'[q].job.run] # "absent"
    BY DEF Known
  <2>1. at[q].pc # "idle" /\ at'[q].job = at[q].job
    BY <1>1, <1>2 DEF Submits, Spawns
  <2>2. at[q].job.run \in Run /\ run[at[q].job.run] # "absent"
    BY <2>1, CarriedRun DEF Healthy, Known
  <2>3. QED BY <2>1, <2>2
<1>6. Agreed'
  BY <1>1, <1>2 DEF Healthy, Agreed, Submits, Spawns
<1>7. ASSUME NEW d \in Run, d # c, Vacant(d) PROVE Vacant(d)'
  <2>1. ~Carries(p, f, d)
    BY <1>1, <1>7 DEF Carries, Submits, Spawns, Vacant, Driving
  <2>2. Spares(p, f, d)
    BY <1>7, <2>1 DEF Spares, Submits, Spawns
  <2>3. QED BY <1>7, <2>2, StaysVacant
<1>8. \A d \in Run : Unsent(d) => Unsent(d)'
  BY <1>1, <1>2 DEF Unsent, Submits, Spawns
<1>9. Waits'
  <2> SUFFICES ASSUME NEW d \in Run, Pressing(d)', ~Unsent(d)' PROVE Vacant(parent[d])'
    BY DEF Waits
  <2>1. d # c
    BY <1>1, <1>3 DEF Unsent, Submits, Spawns
  <2>2. Pressing(d) /\ ~Unsent(d) /\ parent[d] \in Run
    BY <1>3, <1>8, <2>1, PressingHasParent
  <2>3. PICK r \in Run : r = parent[d]
    BY <2>2
  <2>4. Vacant(r)'
    BY <1>3, <1>7, <2>2, <2>3 DEF Healthy, Waits
  <2>5. r = parent'[d]
    BY <1>3, <2>1, <2>3
  <2>6. QED BY <2>4, <2>5 DEF Vacant, Queued, Carries, Asked, Deciding
<1>10. ASSUME NEW d \in Run, Pressing(d), parent[d] = par PROVE FALSE
  <2>1. par \in Run /\ Spawns(p, f, c, par)
    BY <1>10, PressingHasParent, RunAssumption DEF Submits
  <2>2. Carries(p, at[p], par)
    BY <2>1 DEF Spawns, Carries, Driving
  <2>3. ~Vacant(par)
    BY <2>2 DEF Vacant
  <2>4. Unsent(d)
    BY <1>10, <2>3 DEF Healthy, Waits
  <2>5. PICK q \in Worker : at[q].pc = "spawned" /\ d \in at[q].todo
    BY <2>4 DEF Unsent
  <2>6. at[q].job.run = par
    BY <1>10, <2>5 DEF Threads, Spawning, Spawned
  <2>7. Owns("process", q, par) /\ Owns("process", p, par)
    BY <2>2, <2>5, <2>6 DEF Owns, Carries, Driving, Proc
  <2>8. q = p
    BY <2>1, <2>7 DEF Threads, Unique, Holds
  <2>9. QED BY <2>1, <2>5, <2>8 DEF Spawns
<1>11. OnlyKid'
  BY <1>3, <1>10 DEF Healthy, OnlyKid
<1>12. Cut'
  <2> SUFFICES ASSUME NEW r \in Run, run'[r] = "cancelled"
               PROVE  Vacant(r)' /\ \A d \in Run : parent'[d] = r => ~Pressing(d)'
    BY DEF Cut
  <2>1. r # c /\ run[r] = "cancelled"
    OBVIOUS
  <2>2. Vacant(r) /\ \A d \in Run : parent[d] = r => ~Pressing(d)
    BY <2>1 DEF Healthy, Cut
  <2>3. par # r
    BY <1>2, <2>2, RunAssumption DEF Submits, Spawns, Vacant, Carries, Driving
  <2>4. QED BY <1>3, <1>7, <2>1, <2>2, <2>3
<1>13. QED BY <1>4, <1>5, <1>6, <1>9, <1>11, <1>12 DEF Healthy

(* The child's envelope is out.                                            *)
Dispatches(p, f, r, c, e) ==
  /\ Step(p, f) /\ UNCHANGED <<run, parent, row, hitl>>
  /\ at[p].pc = "spawned" /\ at[p].job.run = r /\ Spawned(p, c)
  /\ f.pc = "mark" /\ f.job = at[p].job
  /\ broker' = broker \cup {e} /\ e.run = c

LEMMA WorkerDispatches ==
  ASSUME TypeInv, Threads, NEW p \in Worker, DispatchChild(p)
  PROVE  \E f, e : \E r, c \in Run : Dispatches(p, f, r, c, e)
<1>1. PICK r \in Run : r = at[p].job.run
  BY CarriedRun DEF DispatchChild, HoldsTask
<1>2. at[p] \in Frame /\ at[p].pc = "spawned" /\ UNCHANGED <<run, parent, row, hitl>>
  BY CarriedRun DEF DispatchChild, HoldsTask, rows
<1>3. PICK c \in Run : Spawned(p, c)
  BY <1>2 DEF Threads, Spawning
<1> DEFINE e == StartEnvelope(c)
           f == Carrying(at[p], "mark", {})
<1>4. broker' = broker \cup {e} /\ e.run = c
  BY <1>3 DEF DispatchChild, Spawned, StartEnvelope
<1>5. Step(p, f) /\ f.pc = "mark" /\ f.job = at[p].job
  BY <1>2 DEF DispatchChild, Carrying, Frame
<1> HIDE DEF e, f
<1>6. Dispatches(p, f, r, c, e)
  BY <1>1, <1>2, <1>3, <1>4, <1>5 DEF Dispatches
<1>7. QED BY <1>6

LEMMA DispatchKeepsHealth ==
  ASSUME TypeInv, Threads, Healthy, NEW p \in Worker, NEW f, NEW e, NEW r \in Run, NEW c \in Run,
         Dispatches(p, f, r, c, e)
  PROVE  Healthy'
<1> USE DEF Dispatches
<1>1. p \in Proc /\ p \notin Client
  BY ProcAssumption DEF Proc
<1>2. \A q \in Proc : at'[q] = IF q = p THEN f ELSE at[q]
  BY <1>1, Moved
<1>3. (\A q \in Worker : q \in Proc) /\ (\A q \in Client : q \in Proc /\ at'[q] = at[q])
  BY <1>1, <1>2 DEF Proc
<1>4. at[p].todo = {c} /\ parent[c] = r /\ c # r
  BY DEF Spawned
<1>5. Owns("process", p, r) /\ Owns("process", p, c)
  BY <1>1, <1>4 DEF Owns, Carries, Driving
<1>6. Calm' /\ Agreed'
  BY <1>3 DEF Healthy, Calm, Agreed
<1>7. Known'
  <2> SUFFICES ASSUME NEW q \in Worker, at'[q].pc # "idle" PROVE run'[at'[q].job.run] # "absent"
    BY DEF Known
  <2>1. at[q].pc # "idle" /\ at'[q].job = at[q].job
    BY <1>2, <1>3
  <2>2. QED BY <2>1 DEF Healthy, Known
<1>8. \A d \in Run : Pressing(d)' => Pressing(d)
  BY <1>2, <1>3 DEF Pressing, Reporting
<1>9. \A d \in Run : d # c /\ Unsent(d) => Unsent(d)'
  BY <1>2, <1>3, <1>4 DEF Unsent
<1>10. ASSUME NEW d \in Run, d # c, Vacant(d) PROVE Vacant(d)'
  <2>1. Spares(p, f, d)
    BY <1>1, <1>10 DEF Spares, Carries, Driving
  <2>2. QED BY <1>1, <1>10, <2>1, StaysVacant
<1>11. Vacant(r)'
  <2>1. \A l, x : Owns(l, x, r) => l = "process" /\ x = p
    BY <1>5 DEF Threads, Unique, Holds
  <2>2. ~Queued(r)'
    BY <1>4, <2>1 DEF Queued, Owns
  <2>3. \A q \in Proc : ~Carries(q, at'[q], r)
    BY <1>1, <1>2, <2>1 DEF Owns, Carries, Driving
  <2>4. \A k \in 1..MaxHitl : ~Asked(r, k)'
    BY <1>3, <2>1 DEF Owns, Asked, Deciding
  <2>5. QED BY <2>2, <2>3, <2>4 DEF Vacant
<1>12. ~Vacant(c)
  BY <1>5, OwnedOrVacant
<1>13. Waits'
  <2> SUFFICES ASSUME NEW d \in Run, Pressing(d)', ~Unsent(d)' PROVE Vacant(parent[d])'
    BY DEF Waits
  <2>1. PICK s \in Run : s = parent[d]
    BY <1>8, PressingHasParent
  <2>2. Vacant(s)'
    <3>1. CASE d = c
      BY <1>4, <1>11, <2>1, <3>1
    <3>2. CASE d # c
      <4>1. Vacant(s)
        BY <1>8, <1>9, <2>1, <3>2 DEF Healthy, Waits
      <4>2. QED BY <1>10, <1>12, <4>1
    <3>3. QED BY <3>1, <3>2
  <2>3. s = parent'[d]
    BY <2>1
  <2>4. QED BY <2>2, <2>3 DEF Vacant, Queued, Carries, Asked, Deciding
<1>14. OnlyKid'
  BY <1>8 DEF Healthy, OnlyKid
<1>15. Cut'
  BY <1>8, <1>10, <1>12 DEF Healthy, Cut
<1>16. QED BY <1>6, <1>7, <1>13, <1>14, <1>15 DEF Healthy

(* Before the first fault nothing else happens.                            *)
QuietWorker(p, f) ==
  \/ Plain(p, f)
  \/ \E e \in broker : Claims(p, f, e)
  \/ \E r \in Run, k \in 1..MaxHitl : Asks(p, f, r, k)
  \/ \E c \in Run : Resolves(p, f, c)
  \/ \E e : \E c, s \in Run : Wakes(p, f, c, s, e)
  \/ \E e : \E r, c \in Run : Dispatches(p, f, r, c, e)
QuietClient(p, f) ==
  \/ Reads(p, f)
  \/ \E e : \E r \in Run : Hands(p, f, r, e)
  \/ \E r \in Run, k \in 1..MaxHitl : Decides(p, f, r, k)
QuietStep ==
  \/ \E p \in Worker : \E f : QuietWorker(p, f)
  \/ \E p \in Client : \E f : QuietClient(p, f)
  \/ \E p \in Proc : \E f, par : \E c \in Run : Begins(p, f, c, par)

LEMMA StepsAreQuiet ==
  ASSUME TypeInv, Threads, Healthy, Next, seen' = {}
  PROVE  QuietStep
<1>1. ASSUME NEW kind, Spend(kind) PROVE FALSE
  BY <1>1 DEF Spend
<1>2. ~Fault
  BY <1>1 DEF Fault, CrashWorker, KillAtTimeLimit, FlushFails, CrashClient,
              SendFails, CrashEager, ExpireHitl
<1>3. ASSUME NEW p \in Worker, WorkerStep(p) PROVE QuietStep
  <2>1. CASE RunGraph(p) \/ GraphRaises(p) \/ SpawnRefused(p) \/ InlineResume(p)
    BY <2>1, ExecutiveIsPlain DEF QuietStep, QuietWorker
  <2>2. CASE MarkRead(p) \/ MarkWrite(p) \/ SettleCompleted(p) \/ FailRun(p) \/ Flush(p)
    BY <2>2, SettlingIsPlain DEF QuietStep, QuietWorker
  <2>3. CASE Claim(p)
    BY <2>3, ClaimClaims DEF QuietStep, QuietWorker
  <2>4. CASE SettleInterrupt(p)
    BY <2>4, SettleAsks DEF QuietStep, QuietWorker
  <2>5. CASE SpawnChild(p)
    BY <2>5, SpawnBegins DEF QuietStep, Proc
  <2>6. CASE DispatchChild(p)
    BY <2>6, WorkerDispatches DEF QuietStep, QuietWorker
  <2>7. QED BY <1>3, <2>1, <2>2, <2>3, <2>4, <2>5, <2>6 DEF WorkerStep
<1>4. ASSUME NEW p \in Client, ClientStep(p) PROVE QuietStep
  <2>1. ~(TimeOutChild(p) \/ Cascade(p) \/ CascadeDone(p))
    BY DEF Healthy, Calm, CalmPc, TimeOutChild, Cascade, CascadeDone
  <2>2. CASE DispatchStart(p) \/ EnqueueAnswer(p)
    BY <2>2, ClientHands DEF QuietStep, QuietClient
  <2>3. CASE DecideWrite(p)
    BY <2>3, ClientDecides DEF QuietStep, QuietClient
  <2>4. QED BY <1>4, <2>1, <2>2, <2>3 DEF ClientStep
<1>5. ASSUME NEW p \in Client, Call(p) PROVE QuietStep
  <2>1. ~(Cancel(p) \/ ScanTimeouts(p))
    BY <1>1 DEF Cancel, ScanTimeouts
  <2>2. CASE Submit(p)
    BY <2>2, SubmitBegins DEF QuietStep, Proc
  <2>3. CASE DecideRead(p)
    BY <2>3, DecideReads DEF QuietStep, QuietClient
  <2>4. QED BY <1>5, <2>1, <2>2, <2>3 DEF Call
<1>6. ASSUME NEW p \in Proc, TellStep(p) PROVE QuietStep
  <2>1. p \in Worker
    BY <1>6 DEF Healthy, Calm, CalmPc, TellStep, TellRead, TellWrite, WakeParent, Proc
  <2>2. CASE TellRead(p)
    BY <2>1, <2>2, TellReadIsPlain DEF QuietStep, QuietWorker
  <2>3. CASE TellWrite(p)
    BY <2>1, <2>3, TellResolves DEF QuietStep, QuietWorker
  <2>4. CASE WakeParent(p)
    BY <2>1, <2>4, WorkerWakes DEF QuietStep, QuietWorker
  <2>5. QED BY <1>6, <2>2, <2>3, <2>4 DEF TellStep
<1>7. QED BY <1>2, <1>3, <1>4, <1>5, <1>6 DEF Next

LEMMA NextHealth == TypeInv /\ ThreadInv /\ HealthInv /\ [Next]_vars => HealthInv'
<1> SUFFICES ASSUME TypeInv, ThreadInv, HealthInv, [Next]_vars, seen' = {} PROVE Healthy'
  BY DEF HealthInv
<1>1. seen = {}
  BY SeenGrows
<1>2. Threads /\ Healthy
  BY <1>1 DEF ThreadInv, HealthInv, NoDuplication
<1>3. ASSUME NEW p \in Worker, NEW f, QuietWorker(p, f) PROVE Healthy'
  BY <1>2, <1>3, PlainKeepsHealth, ClaimKeepsHealth, AskKeepsHealth, ResolveKeepsHealth,
     WakeKeepsHealth, DispatchKeepsHealth DEF QuietWorker
<1>4. ASSUME NEW p \in Client, NEW f, QuietClient(p, f) PROVE Healthy'
  BY <1>2, <1>4, ReadKeepsHealth, HandKeepsHealth, DecideKeepsHealth DEF QuietClient
<1>5. CASE Next
  BY <1>2, <1>3, <1>4, <1>5, StepsAreQuiet, BeginningKeepsHealth DEF QuietStep
<1>6. CASE UNCHANGED vars
  BY <1>2, <1>6 DEF vars, Healthy, Calm, Known, Agreed, Waits, OnlyKid, Cut, Pressing,
     Reporting, Unsent, Vacant, Queued, Asked, Deciding
<1>7. QED BY <1>5, <1>6

LEMMA NothingIsHealthy == Init => HealthInv
<1> SUFFICES ASSUME Init PROVE Healthy
  BY DEF HealthInv
<1>1. \A p \in Proc : at[p].pc = "idle"
  BY DEF Init, IdleFrame, FrameFor
<1>2. (\A p \in Worker : p \in Proc) /\ (\A p \in Client : p \in Proc)
  BY DEF Proc
<1>3. \A c \in Run : row[c] = "none" /\ run[c] = "absent"
  BY DEF Init
<1>4. \A c \in Run : ~Pressing(c)
  BY <1>1, <1>2, <1>3 DEF Pressing, Reporting
<1>5. QED BY <1>1, <1>2, <1>3, <1>4 DEF Healthy, Calm, CalmPc, Known, Agreed, Waits, OnlyKid, Cut

LEMMA HealthInvariant == Spec => []HealthInv
BY NothingIsHealthy, NextHealth, TypeInvariant, ThreadInvariant, PTL DEF Spec

LEMMA WriterInvariant == Spec => []WriterInv
<1>1. Init => WriterInv
  <2>1. Init => \A p \in Proc : at[p].pc = "idle"
    BY DEF Init, IdleFrame, FrameFor
  <2>2. QED BY <2>1 DEF WriterInv, Writers, Proc
<1>2. TypeInv /\ ThreadInv /\ WriterInv /\ [Next]_vars => WriterInv'
  BY NextWrites DEF WriterInv
<1>3. QED BY <1>1, <1>2, TypeInvariant, ThreadInvariant, PTL DEF Spec

-----------------------------------------------------------------------------
(* Where a run is, as the contract sees it *)

Sent(r) == Queued(r) \/ \E p \in Proc : Sending(p, r)

(* The holder of a run tells where it is: whoever else it could be with    *)
(* has let it go.                                                          *)
LEMMA OwnedRun ==
  ASSUME Sound, NEW r \in Run, NEW l, NEW x, Owns(l, x, r)
  PROVE  /\ run[r] # "absent"
         /\ Queued(r) => l = "envelope"
         /\ \A p \in Worker : at[p].pc \in Executive /\ at[p].job.run = r =>
              l = "process" /\ x = p
         /\ \A p \in Proc : Sending(p, r) =>
              l = "process" /\ x = p /\ at[p].pc \in {"starting", "resuming", "spawned"}
         /\ AwaitsHuman(r) => l = "question"
         /\ \A c \in Kids(r) : /\ l = "process" /\ x \in Worker
                               /\ at[x].pc = "spawned" /\ at[x].job.run = r /\ at[x].todo = {c}
<1> USE DEF Sound
<1>1. \A m, y : Owns(m, y, r) => m = l /\ y = x
  BY DEF Threads, Unique, Holds
<1>2. run[r] # "absent"
  BY DEF Threads, Untouched
<1>3. Queued(r) => l = "envelope"
  BY <1>1 DEF Queued, Owns
<1>4. ASSUME NEW p \in Worker, at[p].pc \in Executive, at[p].job.run = r
      PROVE  l = "process" /\ x = p
  BY <1>1, <1>4 DEF Owns, Carries, Executive, Driving, Proc
<1>5. ~Vacant(r)
  BY OwnedOrVacant
<1>6. ASSUME NEW c \in Run, Pressing(c), parent[c] = r PROVE Unsent(c)
  BY <1>5, <1>6 DEF Healthy, Waits
<1>7. ASSUME NEW p \in Worker, NEW c \in Run, at[p].pc = "spawned", c \in at[p].todo, parent[c] = r
      PROVE  l = "process" /\ x = p /\ at[p].job.run = r /\ at[p].todo = {c}
  <2>1. at[p].todo = {c} /\ at[p].job.run = r
    BY <1>7 DEF Threads, Spawning, Spawned
  <2>2. Owns("process", p, r)
    BY <1>7, <2>1 DEF Owns, Carries, Driving, Proc
  <2>3. QED BY <1>1, <2>1, <2>2
<1>8. ASSUME NEW p \in Proc, Sending(p, r)
      PROVE  l = "process" /\ x = p /\ at[p].pc \in {"starting", "resuming", "spawned"}
  <2>1. CASE at[p].pc = "wake" /\ parent[at[p].job.run] = r
    <3>1. p \in Worker
      BY <2>1 DEF Healthy, Calm, CalmPc, Proc
    <3>2. PICK c \in Run : c = at[p].job.run
      BY <2>1, <3>1, CarriedRun
    <3>3. Pressing(c) /\ parent[c] = r
      BY <2>1, <3>1, <3>2 DEF Pressing, Reporting
    <3>4. Unsent(c)
      BY <1>6, <3>3
    <3>5. PICK q \in Worker : at[q].pc = "spawned" /\ c \in at[q].todo
      BY <3>4 DEF Unsent
    <3>6. Owns("process", q, c) /\ Owns("process", p, c)
      BY <2>1, <3>1, <3>2, <3>5 DEF Owns, Carries, Driving, Proc
    <3>7. q = p
      BY <3>6 DEF Threads, Unique, Holds
    <3>8. QED BY <2>1, <3>5, <3>7
  <2>2. CASE at[p].pc = "spawned" /\ r \in at[p].todo
    <3>1. p \in Worker
      BY <2>2 DEF Healthy, Calm, CalmPc, Proc
    <3>2. Owns("process", p, r)
      BY <2>2, <3>1 DEF Owns, Carries, Proc
    <3>3. QED BY <1>1, <2>2, <3>2
  <2>3. CASE at[p].pc \in {"starting", "resuming"} /\ at[p].job.run = r
    <3>1. p \in Client
      BY <2>3 DEF TypeInv, FramesOK, Fits, WorkerPc, Proc
    <3>2. Owns("process", p, r)
      BY <2>3, <3>1 DEF Owns, Carries, Proc
    <3>3. QED BY <1>1, <2>3, <3>2
  <2>4. QED BY <1>8, <2>1, <2>2, <2>3 DEF Sending
<1>9. AwaitsHuman(r) => l = "question"
  BY <1>1 DEF AwaitsHuman, Owns, Asked
<1>10. ASSUME NEW c \in Kids(r)
       PROVE  /\ l = "process" /\ x \in Worker
              /\ at[x].pc = "spawned" /\ at[x].job.run = r /\ at[x].todo = {c}
  <2>1. c \in Run /\ Pressing(c) /\ parent[c] = r
    BY DEF Kids, Pressing
  <2>2. PICK q \in Worker : at[q].pc = "spawned" /\ c \in at[q].todo
    BY <1>6, <2>1 DEF Unsent
  <2>3. QED BY <1>7, <2>1, <2>2
<1>11. QED BY <1>2, <1>3, <1>4, <1>8, <1>9, <1>10

LEMMA VacantRun ==
  ASSUME Sound, NEW r \in Run, Vacant(r)
  PROVE  /\ ~Queued(r) /\ ~Executing(r) /\ ~AwaitsHuman(r)
         /\ \A p \in Proc : Sending(p, r) =>
              p \in Worker /\ at[p].pc = "wake" /\ parent[at[p].job.run] = r
         /\ \A c, d \in Run : Pressing(c) /\ Pressing(d) /\ parent[c] = r /\ parent[d] = r => c = d
<1> USE DEF Sound
<1>1. ~Queued(r) /\ ~AwaitsHuman(r)
  BY DEF Vacant, AwaitsHuman, Asked
<1>2. ~Executing(r)
  BY DEF Executing, Working, Vacant, Carries, Driving, Proc
<1>3. ASSUME NEW p \in Proc, Sending(p, r)
      PROVE  p \in Worker /\ at[p].pc = "wake" /\ parent[at[p].job.run] = r
  <2>1. p \in Client => at[p].pc \in CalmPc
    BY DEF Healthy, Calm
  <2>2. p \in Worker => at[p].pc \in WorkerPc
    BY DEF TypeInv, FramesOK, Fits
  <2>3. QED BY <1>3, <2>1, <2>2 DEF Sending, Vacant, Carries, CalmPc, WorkerPc, Proc
<1>4. QED BY <1>1, <1>2, <1>3 DEF Healthy, OnlyKid

(* What the contract sees of r, in each situation there is.                *)
SeenOf(r) ==
  /\ run[r] = "absent" => Phase(r) = "absent" /\ Kids(r) = {}
  /\ \A p \in Worker : at[p].pc \in Executive /\ at[p].job.run = r =>
       Phase(r) = "executing" /\ Kids(r) = {}
  /\ Queued(r) => Phase(r) = "queued" /\ Kids(r) = {}
  /\ \A p \in Client : at[p].pc \in {"starting", "resuming"} /\ at[p].job.run = r =>
       Phase(r) = "queued" /\ Kids(r) = {}
  /\ AwaitsHuman(r) => Phase(r) = "parked" /\ Kids(r) = {}
  /\ \A p \in Worker : at[p].pc \in {"tell", "tellw"} /\ at[p].job.run = r =>
       Phase(r) = "settled" /\ Kids(r) = {}

LEMMA PhaseWhen == ASSUME Sound, NEW r \in Run PROVE SeenOf(r)
<1> USE DEF Sound
<1>1. ASSUME run[r] = "absent" PROVE Phase(r) = "absent" /\ Kids(r) = {}
  BY <1>1 DEF Phase, Kids, Threads, Untouched
<1>2. ASSUME NEW p \in Worker, at[p].pc \in Executive, at[p].job.run = r
      PROVE  Phase(r) = "executing" /\ Kids(r) = {}
  <2>1. Owns("process", p, r)
    BY <1>2 DEF Owns, Carries, Executive, Driving, Proc
  <2>2. run[r] # "absent" /\ Kids(r) = {}
    BY <1>2, <2>1, OwnedRun DEF Executive
  <2>3. Executing(r)
    BY <1>2 DEF Executing, Working, Executive
  <2>4. QED BY <2>2, <2>3 DEF Phase
<1>3. ASSUME Queued(r) PROVE Phase(r) = "queued" /\ Kids(r) = {}
  <2>1. PICK e \in broker : Owns("envelope", e, r)
    BY <1>3 DEF Queued, Owns
  <2>2. run[r] # "absent" /\ Kids(r) = {}
    BY <2>1, OwnedRun
  <2>3. ~Executing(r)
    BY <2>1, OwnedRun DEF Executing, Working, Executive
  <2>4. QED BY <1>3, <2>2, <2>3 DEF Phase
<1>4. ASSUME NEW p \in Client, at[p].pc \in {"starting", "resuming"}, at[p].job.run = r
      PROVE  Phase(r) = "queued" /\ Kids(r) = {}
  <2>1. Owns("process", p, r) /\ p \in Proc /\ p \notin Worker
    BY <1>4, ProcAssumption DEF Owns, Carries, Proc
  <2>2. run[r] # "absent" /\ Kids(r) = {}
    BY <2>1, OwnedRun
  <2>3. ~Executing(r)
    BY <2>1, OwnedRun DEF Executing, Working, Executive
  <2>4. Sending(p, r)
    BY <1>4 DEF Sending
  <2>5. QED BY <2>1, <2>2, <2>3, <2>4 DEF Phase
<1>5. ASSUME AwaitsHuman(r) PROVE Phase(r) = "parked" /\ Kids(r) = {}
  <2>1. PICK k \in 1..MaxHitl : Owns("question", k, r)
    BY <1>5 DEF AwaitsHuman, Owns, Asked
  <2>2. run[r] # "absent" /\ Kids(r) = {} /\ ~Queued(r) /\ \A p \in Proc : ~Sending(p, r)
    BY <2>1, OwnedRun
  <2>3. ~Executing(r)
    BY <2>1, OwnedRun DEF Executing, Working, Executive
  <2>4. QED BY <1>5, <2>2, <2>3 DEF Phase
<1>6. ASSUME NEW p \in Worker, at[p].pc \in {"tell", "tellw"}, at[p].job.run = r
      PROVE  Phase(r) = "settled" /\ Kids(r) = {}
  <2>1. Owns("process", p, r) /\ p \in Proc
    BY <1>6 DEF Owns, Carries, Driving, Proc
  <2>2. run[r] # "absent" /\ Kids(r) = {} /\ ~Queued(r) /\ ~AwaitsHuman(r)
    BY <1>6, <2>1, OwnedRun
  <2>3. \A q \in Proc : ~Sending(q, r)
    BY <1>6, <2>1, OwnedRun
  <2>4. ~Executing(r)
    BY <1>6, <2>1, OwnedRun DEF Executing, Working, Executive
  <2>5. QED BY <2>2, <2>3, <2>4 DEF Phase
<1>7. QED BY <1>1, <1>2, <1>3, <1>4, <1>5, <1>6 DEF SeenOf

(* The same of a parent and its child.                                     *)
SeenOfParent(r) ==
  /\ \A p \in Worker : at[p].pc = "spawned" /\ r \in at[p].todo =>
       Phase(r) = "queued" /\ Kids(r) = {}
  /\ \A p \in Worker, c \in Kids(r) : at[p].pc = "spawned" /\ at[p].job.run = r =>
       Phase(r) = "parked" /\ Kids(r) = {c}
  /\ \A c \in Kids(r) : ~Unsent(c) => Phase(r) = "parked" /\ Kids(r) = {c}
  /\ \A p \in Worker : at[p].pc = "wake" /\ parent[at[p].job.run] = r =>
       Phase(r) = "queued" /\ Kids(r) = {}
  /\ run[r] # "absent" /\ Vacant(r) /\ (\A c \in Run : parent[c] = r => ~Pressing(c)) =>
       Phase(r) = "settled" /\ Kids(r) = {}

LEMMA PhaseOfParent == ASSUME Sound, NEW r \in Run PROVE SeenOfParent(r)
<1> USE DEF Sound
<1>1. ASSUME NEW p \in Worker, at[p].pc = "spawned", r \in at[p].todo
      PROVE  Phase(r) = "queued" /\ Kids(r) = {}
  <2>1. Owns("process", p, r) /\ p \in Proc
    BY <1>1 DEF Owns, Carries, Proc
  <2>2. at[p].job.run # r
    BY <1>1 DEF Threads, Spawning, Spawned
  <2>3. run[r] # "absent" /\ Kids(r) = {}
    BY <2>1, <2>2, OwnedRun
  <2>4. ~Executing(r)
    BY <1>1, <2>1, OwnedRun DEF Executing, Working, Executive
  <2>5. Sending(p, r)
    BY <1>1 DEF Sending
  <2>6. QED BY <2>1, <2>3, <2>4, <2>5 DEF Phase
<1>2. ASSUME NEW p \in Worker, NEW c \in Kids(r), at[p].pc = "spawned", at[p].job.run = r
      PROVE  Phase(r) = "parked" /\ Kids(r) = {c}
  <2>1. Owns("process", p, r) /\ p \in Proc
    BY <1>2 DEF Owns, Carries, Driving, Proc
  <2>2. run[r] # "absent" /\ ~Queued(r) /\ \A d \in Kids(r) : at[p].todo = {d}
    BY <2>1, OwnedRun
  <2>3. ~Executing(r)
    BY <1>2, <2>1, OwnedRun DEF Executing, Working, Executive
  <2>4. ASSUME NEW q \in Proc, Sending(q, r) PROVE FALSE
    <3>1. q = p
      BY <2>1, <2>4, OwnedRun
    <3>2. r \in at[p].todo
      BY <1>2, <2>4, <3>1 DEF Sending
    <3>3. QED BY <1>2, <3>2 DEF Threads, Spawning, Spawned
  <2>5. QED BY <2>2, <2>3, <2>4 DEF Phase
<1>3. ASSUME NEW c \in Kids(r), ~Unsent(c) PROVE Phase(r) = "parked" /\ Kids(r) = {c}
  <2>1. c \in Run /\ Pressing(c) /\ parent[c] = r /\ row[c] = "pending"
    BY DEF Kids, Pressing
  <2>2. Vacant(r)
    BY <1>3, <2>1 DEF Healthy, Waits
  <2>3. ~Queued(r) /\ ~Executing(r)
    BY <2>2, VacantRun
  <2>4. ASSUME NEW p \in Proc, Sending(p, r) PROVE FALSE
    <3>1. p \in Worker /\ at[p].pc = "wake" /\ parent[at[p].job.run] = r
      BY <2>2, <2>4, VacantRun
    <3>2. PICK d \in Run : d = at[p].job.run
      BY <3>1, CarriedRun
    <3>3. Pressing(d) /\ row[d] # "pending"
      BY <3>1, <3>2 DEF Pressing, Reporting, Threads, Waking
    <3>4. QED BY <2>1, <2>2, <3>1, <3>2, <3>3, VacantRun
  <2>5. Kids(r) = {c}
    BY <2>1 DEF Kids, Pressing, Healthy, OnlyKid
  <2>6. run[r] # "absent"
    BY <2>1 DEF Threads, Untouched
  <2>7. QED BY <2>3, <2>4, <2>5, <2>6 DEF Phase
<1>4. ASSUME NEW p \in Worker, at[p].pc = "wake", parent[at[p].job.run] = r
      PROVE  Phase(r) = "queued" /\ Kids(r) = {}
  <2>1. PICK c \in Run : c = at[p].job.run
    BY <1>4, CarriedRun
  <2>2. Pressing(c) /\ row[c] # "pending" /\ parent[c] = r
    BY <1>4, <2>1 DEF Pressing, Reporting, Threads, Waking
  <2>3. ~Unsent(c)
    <3>1. SUFFICES ASSUME NEW q \in Worker, at[q].pc = "spawned", c \in at[q].todo PROVE FALSE
      BY DEF Unsent
    <3>2. Owns("process", q, c) /\ Owns("process", p, c)
      BY <1>4, <2>1, <3>1 DEF Owns, Carries, Driving, Proc
    <3>3. QED BY <1>4, <3>1, <3>2 DEF Threads, Unique, Holds
  <2>4. Vacant(r)
    BY <2>2, <2>3 DEF Healthy, Waits
  <2>5. Kids(r) = {}
    BY <2>2, <2>4, VacantRun DEF Kids, Pressing
  <2>6. run[r] # "absent" /\ Sending(p, r) /\ p \in Proc
    BY <1>4, <2>2 DEF Threads, Untouched, Sending, Proc
  <2>7. QED BY <2>4, <2>5, <2>6, VacantRun DEF Phase
<1>5. ASSUME run[r] # "absent", Vacant(r), \A c \in Run : parent[c] = r => ~Pressing(c)
      PROVE  Phase(r) = "settled" /\ Kids(r) = {}
  <2>1. ASSUME NEW p \in Proc, Sending(p, r) PROVE FALSE
    <3>1. p \in Worker /\ at[p].pc = "wake" /\ parent[at[p].job.run] = r
      BY <1>5, <2>1, VacantRun
    <3>2. at[p].job.run \in Run
      BY <3>1, CarriedRun
    <3>3. QED BY <1>5, <3>1, <3>2 DEF Pressing, Reporting
  <2>2. Kids(r) = {}
    BY <1>5 DEF Kids, Pressing
  <2>3. QED BY <1>5, <2>1, <2>2, VacantRun DEF Phase
<1>6. QED BY <1>1, <1>2, <1>3, <1>4, <1>5 DEF SeenOfParent

LEMMA WhereRunsAre == Sound => \A r \in Run : SeenOf(r) /\ SeenOfParent(r)
BY PhaseWhen, PhaseOfParent

-----------------------------------------------------------------------------
(* The contract's steps *)

Runs(p, f, x) == p \in Worker /\ f.pc \in Executive /\ f.job.run = x
Sends(f, x) == \/ f.pc \in {"starting", "resuming"} /\ f.job.run = x
               \/ f.pc = "spawned" /\ x \in f.todo
               \/ f.pc = "wake" /\ parent[f.job.run] = x

(* The step says nothing of x that was not so before.                      *)
Skips(p, f, x) ==
  /\ run'[x] = "absent" <=> run[x] = "absent"
  /\ Runs(p, f, x) <=> Runs(p, at[p], x)
  /\ Sends(f, x) <=> Sends(at[p], x)
  /\ (\E e \in broker' : e.run = x) <=> (\E e \in broker : e.run = x)
  /\ \A k \in 1..MaxHitl : hitl'[x][k].status = "pending" <=> hitl[x][k].status = "pending"

(* What the contract has of x is as it was.                                *)
Still(x) == Phase(x)' = Phase(x) /\ WaitsFor(x)' = WaitsFor(x)

LEMMA SkippedIsStill ==
  ASSUME TypeInv, NEW p \in Proc, NEW f, Step(p, f), NEW x \in Run, Skips(p, f, x),
         \A q \in Proc : q # p /\ at[q].pc = "wake" =>
           (parent'[at[q].job.run] = x <=> parent[at[q].job.run] = x),
         f.pc = "wake" => (parent'[f.job.run] = x <=> parent[f.job.run] = x),
         Kids(x)' = Kids(x)
  PROVE  Still(x)
<1>1. \A q \in Proc : at'[q] = IF q = p THEN f ELSE at[q]
  BY Moved
<1>2. Executing(x)' <=> Executing(x)
  <2>1. \A q \in Worker : Runs(q, at'[q], x) <=> Runs(q, at[q], x)
    BY <1>1 DEF Skips, Proc
  <2>2. Executing(x) <=> \E q \in Worker : Runs(q, at[q], x)
    BY DEF Executing, Working, Runs, Executive
  <2>3. Executing(x)' <=> \E q \in Worker : Runs(q, at'[q], x)
    BY DEF Executing, Working, Runs, Executive
  <2>4. QED BY <2>1, <2>2, <2>3
<1>3. (\E q \in Proc : Sending(q, x))' <=> \E q \in Proc : Sending(q, x)
  <2>1. ASSUME NEW q \in Proc PROVE Sending(q, x)' <=> Sending(q, x)
    BY <1>1, <2>1 DEF Skips, Sends, Sending
  <2>2. QED BY <2>1
<1>4. Queued(x)' <=> Queued(x)
  BY DEF Skips, Queued
<1>5. AwaitsHuman(x)' <=> AwaitsHuman(x)
  BY DEF Skips, AwaitsHuman
<1>6. run'[x] = "absent" <=> run[x] = "absent"
  BY DEF Skips
<1>7. Phase(x)' = Phase(x)
  BY <1>2, <1>3, <1>4, <1>5, <1>6 DEF Phase
<1>8. WaitsFor(x)' = WaitsFor(x)
  BY <1>6 DEF WaitsFor
<1>9. QED BY <1>7, <1>8 DEF Still

(* Nobody starts or reports a child in the step.                           *)
LEMMA SkipsAreStill ==
  ASSUME TypeInv, NEW p \in Proc, NEW f, Step(p, f), UNCHANGED <<parent, row>>,
         NEW x \in Run, Skips(p, f, x)
  PROVE  Still(x)
<1>1. Kids(x)' = Kids(x)
  BY DEF Kids
<1>2. QED BY <1>1, SkippedIsStill

LEMMA StutterIsStill ==
  ASSUME UNCHANGED vars, NEW x \in Run
  PROVE  Still(x)
<1> USE DEF vars
<1>1. Executing(x)' <=> Executing(x)
  BY DEF Executing, Working
<1>2. (\E q \in Proc : Sending(q, x))' <=> \E q \in Proc : Sending(q, x)
  BY DEF Sending
<1>3. Queued(x)' <=> Queued(x)
  BY DEF Queued
<1>4. AwaitsHuman(x)' <=> AwaitsHuman(x)
  BY DEF AwaitsHuman
<1>5. Kids(x)' = Kids(x)
  BY DEF Kids
<1>6. Phase(x)' = Phase(x)
  BY <1>1, <1>2, <1>3, <1>4, <1>5 DEF Phase
<1>7. WaitsFor(x)' = WaitsFor(x)
  BY <1>5 DEF WaitsFor
<1>8. QED BY <1>6, <1>7 DEF Still

LEMMA PhasesMean ==
  ASSUME NEW r \in Run
  PROVE  /\ Phase(r) \in {"absent", "executing", "queued", "parked", "settled"}
         /\ Phase(r) = "absent" <=> run[r] = "absent"
         /\ Phase(r) = "executing" => Executing(r)
         /\ Phase(r) = "queued" => Queued(r) \/ \E p \in Proc : Sending(p, r)
         /\ Phase(r) = "parked" => AwaitsHuman(r) \/ Kids(r) # {}
BY DEF Phase

LEMMA NothingIsSeen ==
  ASSUME Init, NEW r \in Run
  PROVE  Phase(r) = "absent" /\ WaitsFor(r) = NoRun
<1>1. run[r] = "absent"
  BY DEF Init
<1>2. QED BY <1>1 DEF Phase, WaitsFor

LEMMA WaitsStay ==
  ASSUME NEW x \in Run, UNCHANGED <<parent, row>>, run'[x] = "absent" <=> run[x] = "absent"
  PROVE  WaitsFor(x)' = WaitsFor(x)
<1>1. Kids(x)' = Kids(x)
  BY DEF Kids
<1>2. QED BY <1>1 DEF WaitsFor

LEMMA ContractMoves ==
  ASSUME NEW r \in Run, \A x \in Run : x # r => Still(x)
  PROVE  /\ Contract!Move(r, Phase(r), Phase(r)')
         /\ WaitsFor(r)' = WaitsFor(r) =>
              UNCHANGED [x \in Run |-> WaitsFor(x)]
         /\ [x \in Run |-> WaitsFor(x)]' = [[x \in Run |-> WaitsFor(x)] EXCEPT ![r] = WaitsFor(r)']
BY DEF Still, Contract!Move

LEMMA ContractStutters ==
  ASSUME \A x \in Run : Still(x)
  PROVE  UNCHANGED Contract!vars
BY DEF Still, Contract!vars

Mapped == /\ Sound /\ Sound'
          /\ \A r \in Run : SeenOf(r) /\ SeenOfParent(r)
          /\ (\A r \in Run : SeenOf(r) /\ SeenOfParent(r))'
Promised == Contract!Next \/ UNCHANGED Contract!vars

(* The step moves r and no other run, and nobody begins or ends to wait.   *)
Steers(r, from, to) ==
  /\ Phase(r) = from /\ Phase(r)' = to /\ WaitsFor(r)' = WaitsFor(r)
  /\ \A x \in Run : x # r => Still(x)

LEMMA PlainSteers ==
  ASSUME Mapped, NEW p \in Worker, NEW f, Plain(p, f), NEW r \in Run, r = at[p].job.run
  PROVE  IF at[p].pc \in Executive /\ f.pc = "tell" THEN Steers(r, "executing", "settled")
         ELSE \A x \in Run : Still(x)
<1> USE DEF Mapped, Sound
<1>1. p \in Proc
  BY DEF Proc
<1>2. r = at[p].job.run
  OBVIOUS
<1>3. \A x \in Run : run'[x] = "absent" <=> run[x] = "absent"
  BY <1>2 DEF Plain, SetRun, TypeInv, DataOK, Healthy, Known
<1>4. at'[p] = f
  BY <1>1, Moved DEF Plain
<1>5. ASSUME NEW x \in Run, x # r \/ ~(at[p].pc \in Executive /\ f.pc = "tell")
      PROVE  Still(x)
  <2>1. Runs(p, f, x) <=> Runs(p, at[p], x)
    BY <1>2, <1>5 DEF Plain, Runs, Executive
  <2>2. Sends(f, x) <=> Sends(at[p], x)
    <3>1. ~Sends(at[p], x)
      BY <1>1 DEF Plain, Sends, Sound, TypeInv, FramesOK, Fits, WorkerPc
    <3>2. ~Sends(f, x)
      BY <1>1, <1>4 DEF Plain, Sends, Sound, TypeInv, FramesOK, Fits, WorkerPc
    <3>3. QED BY <3>1, <3>2
  <2>3. Skips(p, f, x)
    BY <1>3, <2>1, <2>2 DEF Skips, Plain
  <2>4. QED BY <1>1, <2>3, SkipsAreStill DEF Plain
<1>6. CASE at[p].pc \in Executive /\ f.pc = "tell"
  <2>1. Phase(r) = "executing"
    BY <1>2, <1>6 DEF SeenOf
  <2>2. Phase(r)' = "settled"
    BY <1>2, <1>4, <1>6 DEF SeenOf, Plain
  <2>3. WaitsFor(r)' = WaitsFor(r)
    BY <1>3, WaitsStay DEF Plain
  <2>4. QED BY <1>2, <1>5, <1>6, <2>1, <2>2, <2>3 DEF Steers
<1>7. CASE ~(at[p].pc \in Executive /\ f.pc = "tell")
  BY <1>5, <1>7
<1>8. QED BY <1>6, <1>7

LEMMA ClaimSteers ==
  ASSUME Mapped, NEW p \in Worker, NEW f, NEW e \in broker, Claims(p, f, e)
  PROVE  e.run \in Run /\ Steers(e.run, "queued", "executing")
<1> USE DEF Mapped, Sound
<1>1. p \in Proc /\ p \in Worker
  BY DEF Proc
<1>2. PICK r \in Run : r = e.run
  BY DEF TypeInv, DataOK, Envelope
<1>3. Queued(r)
  BY <1>2 DEF Queued
<1>4. run[r] # "absent"
  BY <1>3 DEF Threads, Untouched, Owns, Queued
<1>5. \A x \in Run : run'[x] = "absent" <=> run[x] = "absent"
  BY <1>2, <1>4 DEF Claims, SetRun, TypeInv, DataOK
<1>6. at'[p] = f
  BY <1>1, Moved DEF Claims
<1>7. ASSUME NEW x \in Run, x # r PROVE Still(x)
  <2>1. ~Runs(p, f, x) /\ ~Runs(p, at[p], x) /\ ~Sends(f, x) /\ ~Sends(at[p], x)
    BY <1>2, <1>7 DEF Claims, Runs, Sends, Executive
  <2>2. Skips(p, f, x)
    BY <1>2, <1>5, <1>7, <2>1 DEF Skips, Claims
  <2>3. QED BY <1>1, <2>2, SkipsAreStill DEF Claims
<1>8. Phase(r) = "queued"
  BY <1>3 DEF SeenOf
<1>9. Phase(r)' = "executing"
  BY <1>2, <1>6 DEF SeenOf, Claims, Executive
<1>10. WaitsFor(r)' = WaitsFor(r)
  BY <1>5, WaitsStay DEF Claims
<1>11. QED BY <1>2, <1>7, <1>8, <1>9, <1>10 DEF Steers

LEMMA AskSteers ==
  ASSUME Mapped, NEW p \in Worker, NEW f, NEW r \in Run, NEW k \in 1..MaxHitl, Asks(p, f, r, k)
  PROVE  Steers(r, "executing", "parked")
<1> USE DEF Mapped, Sound
<1>1. p \in Proc
  BY DEF Proc
<1>2. \A x \in Run : run'[x] = "absent" <=> run[x] = "absent"
  BY DEF Asks, SetRun, TypeInv, DataOK, Healthy, Known
<1>3. ASSUME NEW x \in Run, x # r PROVE Still(x)
  <2>1. ~Runs(p, f, x) /\ ~Runs(p, at[p], x) /\ ~Sends(f, x) /\ ~Sends(at[p], x)
    BY <1>3 DEF Asks, Runs, Sends, Executive
  <2>2. Skips(p, f, x)
    BY <1>2, <1>3, <2>1 DEF Skips, Asks
  <2>3. QED BY <1>1, <2>2, SkipsAreStill DEF Asks
<1>4. Phase(r) = "executing"
  BY DEF SeenOf, Asks, Executive
<1>5. Phase(r)' = "parked"
  <2>1. AwaitsHuman(r)'
    BY DEF AwaitsHuman, Asks
  <2>2. QED BY <2>1 DEF SeenOf
<1>6. WaitsFor(r)' = WaitsFor(r)
  BY <1>2, WaitsStay DEF Asks
<1>7. QED BY <1>3, <1>4, <1>5, <1>6 DEF Steers

LEMMA HandSteers ==
  ASSUME Mapped, NEW p \in Client, NEW f, NEW r \in Run, NEW e, Hands(p, f, r, e)
  PROVE  Steers(r, "queued", "queued")
<1> USE DEF Mapped, Sound
<1>1. p \in Proc /\ p \notin Worker
  BY ProcAssumption DEF Proc
<1>2. ASSUME NEW x \in Run, x # r PROVE Still(x)
  <2>1. ~Runs(p, f, x) /\ ~Runs(p, at[p], x) /\ ~Sends(f, x) /\ ~Sends(at[p], x)
    BY <1>1, <1>2 DEF Hands, Runs, Sends
  <2>2. Skips(p, f, x)
    BY <1>2, <2>1 DEF Skips, Hands
  <2>3. QED BY <1>1, <2>2, SkipsAreStill DEF Hands
<1>3. Phase(r) = "queued"
  BY DEF SeenOf, Hands
<1>4. Phase(r)' = "queued"
  <2>1. Queued(r)'
    BY DEF Queued, Hands
  <2>2. QED BY <2>1 DEF SeenOf
<1>5. WaitsFor(r)' = WaitsFor(r)
  BY WaitsStay DEF Hands
<1>6. QED BY <1>2, <1>3, <1>4, <1>5 DEF Steers

LEMMA ReadSteers ==
  ASSUME Mapped, NEW p \in Client, NEW f, Reads(p, f)
  PROVE  \A x \in Run : Still(x)
<1> USE DEF Mapped, Sound
<1>1. p \in Proc /\ p \notin Worker
  BY ProcAssumption DEF Proc
<1>2. ASSUME NEW x \in Run PROVE Still(x)
  <2>1. ~Runs(p, f, x) /\ ~Runs(p, at[p], x) /\ ~Sends(f, x) /\ ~Sends(at[p], x)
    BY <1>1, <1>2 DEF Reads, Runs, Sends
  <2>2. Skips(p, f, x)
    BY <1>2, <2>1 DEF Skips, Reads
  <2>3. QED BY <1>1, <2>2, SkipsAreStill DEF Reads
<1>3. QED BY <1>2

LEMMA DispatchSteers ==
  ASSUME Mapped, NEW p \in Worker, NEW f, NEW r \in Run, NEW c \in Run, NEW e,
         Dispatches(p, f, r, c, e)
  PROVE  Steers(c, "queued", "queued")
<1> USE DEF Mapped, Sound
<1>1. p \in Proc
  BY DEF Proc
<1>2. c \in at[p].todo /\ at[p].todo = {c}
  BY DEF Dispatches, Spawned
<1>3. ASSUME NEW x \in Run, x # c PROVE Still(x)
  <2>1. ~Runs(p, f, x) /\ ~Runs(p, at[p], x) /\ ~Sends(f, x) /\ ~Sends(at[p], x)
    BY <1>2, <1>3 DEF Dispatches, Runs, Sends, Executive
  <2>2. Skips(p, f, x)
    BY <1>3, <2>1 DEF Skips, Dispatches
  <2>3. QED BY <1>1, <2>2, SkipsAreStill DEF Dispatches
<1>4. Phase(c) = "queued"
  BY <1>2 DEF SeenOfParent, Dispatches
<1>5. Phase(c)' = "queued"
  <2>1. Queued(c)'
    BY DEF Queued, Dispatches
  <2>2. QED BY <2>1 DEF SeenOf
<1>6. WaitsFor(c)' = WaitsFor(c)
  BY WaitsStay DEF Dispatches
<1>7. QED BY <1>3, <1>4, <1>5, <1>6 DEF Steers

(* The answered question was open, so the run was parked on it; after an   *)
(* answer its envelope is on the way, after a rejection nobody has it.     *)
LEMMA DecisionSteers ==
  ASSUME Mapped, NEW p \in Client, NEW f, NEW r \in Run, NEW k \in 1..MaxHitl, Decides(p, f, r, k)
  PROVE  WaitsFor(r) = NoRun /\ Steers(r, "parked", IF f.pc = "idle" THEN "settled" ELSE "queued")
<1> USE DEF Mapped, Sound
<1>1. p \in Proc /\ p \notin Worker
  BY ProcAssumption DEF Proc
<1>2. AwaitsHuman(r)
  BY DEF Decides, Deciding, AwaitsHuman, Healthy, Agreed
<1>3. run[r] # "absent"
  BY <1>2 DEF AwaitsHuman, Threads, Untouched, Owns, Asked
<1>4. \A x \in Run : run'[x] = "absent" <=> run[x] = "absent"
  BY <1>3 DEF Decides, SetRun, TypeInv, DataOK
<1>5. at'[p] = f
  BY <1>1, Moved DEF Decides
<1>6. ASSUME NEW x \in Run, x # r PROVE Still(x)
  <2>1. ~Runs(p, f, x) /\ ~Runs(p, at[p], x) /\ ~Sends(f, x) /\ ~Sends(at[p], x)
    BY <1>1, <1>6 DEF Decides, Deciding, Runs, Sends
  <2>2. Skips(p, f, x)
    BY <1>4, <1>6, <2>1 DEF Skips, Decides
  <2>3. QED BY <1>1, <2>2, SkipsAreStill DEF Decides
<1>7. Phase(r) = "parked" /\ Kids(r) = {}
  BY <1>2 DEF SeenOf
<1>8. WaitsFor(r) = NoRun
  BY <1>7 DEF WaitsFor
<1>9. WaitsFor(r)' = WaitsFor(r)
  BY <1>4, WaitsStay DEF Decides
<1>10. CASE f.pc = "resuming" /\ f.job = at[p].job
  <2>1. Phase(r)' = "queued"
    BY <1>5, <1>10 DEF SeenOf, Decides, Deciding
  <2>2. QED BY <1>6, <1>7, <1>8, <1>9, <1>10, <2>1 DEF Steers
<1>11. CASE f.pc = "idle" /\ SetRun(r, "cancelled")
  <2>1. run'[r] = "cancelled"
    BY <1>11 DEF SetRun, TypeInv, DataOK
  <2>2. Vacant(r)' /\ \A c \in Run : parent'[c] = r => ~Pressing(c)'
    BY <2>1 DEF Healthy, Cut
  <2>3. Phase(r)' = "settled"
    BY <2>1, <2>2 DEF SeenOfParent
  <2>4. QED BY <1>6, <1>7, <1>8, <1>9, <1>11, <2>3 DEF Steers
<1>12. QED BY <1>10, <1>11 DEF Decides

(* Whoever resolves the row of c finds it open and c settled.              *)
LEMMA ResolutionSteers ==
  ASSUME Mapped, NEW p \in Worker, NEW f, NEW c \in Run, Resolves(p, f, c)
  PROVE  \E s \in Run :
           /\ s = parent[c] /\ Vacant(s) /\ ~Unsent(c)
           /\ Phase(s) = "parked" /\ Phase(s)' = "queued"
           /\ WaitsFor(s) = c /\ Phase(c) = "settled" /\ WaitsFor(s)' = NoRun
           /\ \A x \in Run : x # s => Still(x)
<1> USE DEF Mapped, Sound
<1>1. p \in Proc
  BY DEF Proc
<1>2. row[c] = "pending" /\ Pressing(c)
  BY DEF Resolves, Writers, Pressing
<1>3. PICK s \in Run : s = parent[c]
  BY <1>2, PressingHasParent
<1>4. at'[p] = f
  BY <1>1, Moved DEF Resolves
<1>5. ~Unsent(c)
  <2>1. SUFFICES ASSUME NEW q \in Worker, at[q].pc = "spawned", c \in at[q].todo PROVE FALSE
    BY DEF Unsent
  <2>2. Owns("process", q, c) /\ Owns("process", p, c)
    BY <1>1, <2>1 DEF Owns, Carries, Driving, Proc, Resolves
  <2>3. QED BY <2>1, <2>2 DEF Threads, Unique, Holds, Resolves
<1>6. Phase(s) = "parked" /\ Kids(s) = {c}
  BY <1>2, <1>3, <1>5 DEF SeenOfParent, Kids
<1>7. Phase(c) = "settled"
  BY DEF SeenOf, Resolves
<1>8. run[s] # "absent" /\ run'[s] # "absent"
  BY <1>3 DEF Threads, Untouched, Resolves
<1>9. WaitsFor(s) = c
  BY <1>6, <1>8 DEF WaitsFor
<1>10. Phase(s)' = "queued" /\ Kids(s)' = {}
  BY <1>3, <1>4 DEF SeenOfParent, Resolves
<1>11. WaitsFor(s)' = NoRun
  BY <1>10 DEF WaitsFor
<1>12. ASSUME NEW x \in Run, x # s PROVE Still(x)
  <2>1. ~Runs(p, f, x) /\ ~Runs(p, at[p], x) /\ ~Sends(f, x) /\ ~Sends(at[p], x)
    BY <1>3, <1>12 DEF Resolves, Runs, Sends, Executive
  <2>2. Skips(p, f, x)
    BY <2>1 DEF Skips, Resolves
  <2>3. \A d \in Run : parent[d] = x => row'[d] = row[d]
    BY <1>3, <1>12 DEF Resolves, TypeInv, DataOK
  <2>4. Kids(x)' = Kids(x)
    BY <2>3 DEF Kids, Resolves
  <2>5. QED BY <1>1, <2>2, <2>4, SkippedIsStill DEF Resolves
<1>13. Vacant(s)
  BY <1>2, <1>3, <1>5 DEF Healthy, Waits
<1>14. QED BY <1>3, <1>5, <1>6, <1>7, <1>9, <1>10, <1>11, <1>12, <1>13

LEMMA WakeSteers ==
  ASSUME Mapped, NEW p \in Worker, NEW f, NEW c \in Run, NEW s \in Run, NEW e,
         Wakes(p, f, c, s, e)
  PROVE  Steers(s, "queued", "queued")
<1> USE DEF Mapped, Sound
<1>1. p \in Proc
  BY DEF Proc
<1>2. ASSUME NEW x \in Run, x # s PROVE Still(x)
  <2>1. ~Runs(p, f, x) /\ ~Runs(p, at[p], x) /\ ~Sends(f, x) /\ ~Sends(at[p], x)
    BY <1>2 DEF Wakes, Runs, Sends, Executive
  <2>2. Skips(p, f, x)
    BY <1>2, <2>1 DEF Skips, Wakes
  <2>3. QED BY <1>1, <2>2, SkipsAreStill DEF Wakes
<1>3. Phase(s) = "queued"
  BY DEF SeenOfParent, Wakes
<1>4. Phase(s)' = "queued"
  <2>1. Queued(s)'
    BY DEF Queued, Wakes
  <2>2. QED BY <2>1 DEF SeenOf
<1>5. WaitsFor(s)' = WaitsFor(s)
  BY WaitsStay DEF Wakes
<1>6. QED BY <1>2, <1>3, <1>4, <1>5 DEF Steers

(* A new run is queued; when a worker begins it, its parent is parked on   *)
(* it in the same step.                                                    *)
LEMMA BeginningSteers ==
  ASSUME Mapped, NEW p \in Proc, NEW f, NEW par, NEW c \in Run, Begins(p, f, c, par)
  PROVE  \/ Submits(p, f, c, par) /\ Steers(c, "absent", "queued")
         \/ /\ Spawns(p, f, c, par) /\ par \in Run /\ par # c
            /\ Phase(par) = "executing" /\ Phase(c) = "absent"
            /\ WaitsFor(c) = NoRun /\ WaitsFor(c)' = NoRun /\ WaitsFor(par)' = c
            /\ Phase(par)' = "parked" /\ Phase(c)' = "queued"
            /\ \A x \in Run \ {c, par} : Still(x)
<1> USE DEF Mapped, Sound
<1>1. /\ par # c /\ parent'[c] = par /\ row[c] = "none"
      /\ \A d \in Run : parent[d] # c /\ (d # c => parent'[d] = parent[d])
  BY BeginningIsNew
<1>2. at'[p] = f
  BY Moved DEF Begins
<1>3. run[c] = "absent" /\ run'[c] = "pending"
  BY DEF Begins
<1>4. \A d \in Run : d # c => (run'[d] = "absent" <=> run[d] = "absent")
  <2>1. par \in Run => run[par] # "absent"
    BY RunAssumption DEF Begins, Submits, Spawns, Healthy, Known
  <2>2. par \notin Run \/ par \in Run
    OBVIOUS
  <2>3. QED BY <1>3, <2>1, <2>2 DEF Begins
<1>5. \A q \in Proc : at[q].pc = "wake" => at[q].job.run \in Run /\ at[q].job.run # c
  <2>1. \A q \in Proc : at[q].pc = "wake" => q \in Worker
    BY DEF Healthy, Calm, CalmPc, Proc
  <2>2. \A q \in Worker : at[q].pc = "wake" => at[q].job.run \in Run
    BY CarriedRun
  <2>3. \A q \in Worker : at[q].pc = "wake" => run[at[q].job.run] # "absent"
    BY DEF Healthy, Known
  <2>4. QED BY <1>3, <2>1, <2>2, <2>3
<1>6. f.pc # "wake" /\ at[p].pc # "wake"
  BY DEF Begins, Submits, Spawns
<1>7. ASSUME NEW x \in Run, x # c, x # par PROVE Still(x)
  <2>1. ~Runs(p, f, x) /\ ~Runs(p, at[p], x) /\ ~Sends(f, x) /\ ~Sends(at[p], x)
    BY <1>7, ProcAssumption DEF Begins, Submits, Spawns, Runs, Sends, Executive
  <2>2. Skips(p, f, x)
    BY <1>4, <1>7, <2>1 DEF Skips, Begins
  <2>3. \A d \in Run : parent'[d] = x /\ row'[d] = "pending" <=> parent[d] = x /\ row[d] = "pending"
    BY <1>1, <1>7 DEF Begins
  <2>4. Kids(x)' = Kids(x)
    BY <2>3 DEF Kids
  <2>5. QED BY <1>1, <1>5, <1>6, <2>2, <2>4, SkippedIsStill DEF Begins
<1>8. Phase(c) = "absent" /\ Kids(c) = {}
  BY <1>3 DEF SeenOf
<1>9. WaitsFor(c) = NoRun
  BY <1>8 DEF WaitsFor
<1>10. CASE Submits(p, f, c, par)
  <2>1. Phase(c)' = "queued" /\ Kids(c)' = {}
    BY <1>2, <1>10 DEF SeenOf, Submits
  <2>2. WaitsFor(c)' = NoRun
    BY <2>1 DEF WaitsFor
  <2>3. \A x \in Run : x # c => Still(x)
    BY <1>7, <1>10, RunAssumption DEF Submits
  <2>4. QED BY <1>8, <1>9, <1>10, <2>1, <2>2, <2>3 DEF Steers
<1>11. CASE Spawns(p, f, c, par)
  <2>1. PICK r \in Run : r = par
    BY <1>11 DEF Spawns
  <2>2. Phase(r) = "executing"
    BY <1>11, <2>1 DEF SeenOf, Spawns, Executive
  <2>3. c \in Kids(r)'
    BY <1>1, <1>11, <2>1 DEF Kids, Spawns
  <2>4. Phase(r)' = "parked" /\ Kids(r)' = {c}
    BY <1>2, <1>11, <2>1, <2>3 DEF SeenOfParent, Spawns
  <2>5. WaitsFor(r)' = c
    <3>1. run'[r] # "absent"
      BY <1>1, <1>11, <2>1, <1>4 DEF Spawns, Healthy, Known
    <3>2. QED BY <2>4, <3>1 DEF WaitsFor
  <2>6. Phase(c)' = "queued" /\ Kids(c)' = {}
    BY <1>2, <1>11 DEF SeenOfParent, Spawns
  <2>7. WaitsFor(c)' = NoRun
    BY <2>6 DEF WaitsFor
  <2>8. QED BY <1>1, <1>7, <1>8, <1>9, <1>11, <2>1, <2>2, <2>4, <2>5, <2>6, <2>7
<1>12. QED BY <1>10, <1>11 DEF Begins

(* Each of these is a step of the contract.                                *)
LEMMA SteeringIsPromised ==
  ASSUME NEW r \in Run, NEW from, NEW to, Steers(r, from, to),
         \/ from = to
         \/ <<from, to>> \in {<<"absent", "queued">>, <<"queued", "executing">>,
                              <<"executing", "parked">>, <<"executing", "settled">>}
         \/ from = "parked" /\ to \in {"queued", "settled"} /\ WaitsFor(r) = NoRun
  PROVE  Promised
<1>1. CASE from = to
  <2>1. \A x \in Run : Still(x)
    BY <1>1 DEF Steers, Still
  <2>2. QED BY <2>1, ContractStutters DEF Promised
<1>2. Contract!Move(r, from, to) /\ UNCHANGED [x \in Run |-> WaitsFor(x)]
  BY ContractMoves DEF Steers
<1>3. CASE <<from, to>> \in {<<"absent", "queued">>, <<"queued", "executing">>,
                             <<"executing", "parked">>, <<"executing", "settled">>}
  <2>1. Contract!Create(r) \/ Contract!Take(r) \/ Contract!ParkOnHuman(r) \/ Contract!Settle(r)
    BY <1>2, <1>3 DEF Contract!Create, Contract!Take, Contract!ParkOnHuman, Contract!Settle
  <2>2. QED BY <2>1 DEF Promised, Contract!Next
<1>4. CASE from = "parked" /\ to \in {"queued", "settled"} /\ WaitsFor(r) = NoRun
  <2>1. Contract!Answer(r) \/ Contract!Reject(r)
    BY <1>2, <1>4 DEF Contract!Answer, Contract!Reject
  <2>2. QED BY <2>1 DEF Promised, Contract!Next
<1>5. QED BY <1>1, <1>3, <1>4

LEMMA QuietIsPromised ==
  ASSUME Mapped, NEW p, NEW f
  PROVE  /\ p \in Worker /\ QuietWorker(p, f) => Promised
         /\ p \in Client /\ QuietClient(p, f) => Promised
<1>1. ASSUME p \in Worker, Plain(p, f) PROVE Promised
  <2>1. PICK r \in Run : r = at[p].job.run
    BY <1>1, CarriedRun DEF Plain, Mapped, Sound
  <2>2. CASE at[p].pc \in Executive /\ f.pc = "tell"
    BY <1>1, <2>1, <2>2, PlainSteers, SteeringIsPromised
  <2>3. CASE ~(at[p].pc \in Executive /\ f.pc = "tell")
    BY <1>1, <2>1, <2>3, PlainSteers, ContractStutters DEF Promised
  <2>4. QED BY <2>2, <2>3
<1>2. ASSUME p \in Worker, NEW c \in Run, Resolves(p, f, c) PROVE Promised
  <2>1. PICK s \in Run :
           /\ Phase(s) = "parked" /\ Phase(s)' = "queued"
           /\ WaitsFor(s) = c /\ Phase(c) = "settled" /\ WaitsFor(s)' = NoRun
           /\ \A x \in Run : x # s => Still(x)
    BY <1>2, ResolutionSteers
  <2>2. Contract!Return(s)
    BY <2>1, RunAssumption, ContractMoves DEF Contract!Return
  <2>3. QED BY <2>2 DEF Promised, Contract!Next
<1>3. ASSUME p \in Worker, NEW e \in broker, Claims(p, f, e) PROVE Promised
  BY <1>3, ClaimSteers, SteeringIsPromised
<1>4. ASSUME p \in Worker, NEW r \in Run, NEW k \in 1..MaxHitl, Asks(p, f, r, k) PROVE Promised
  BY <1>4, AskSteers, SteeringIsPromised
<1>5. ASSUME p \in Worker, NEW e, NEW c \in Run, NEW s \in Run, Wakes(p, f, c, s, e)
      PROVE  Promised
  BY <1>5, WakeSteers, SteeringIsPromised
<1>6. ASSUME p \in Worker, NEW e, NEW r \in Run, NEW c \in Run, Dispatches(p, f, r, c, e)
      PROVE  Promised
  BY <1>6, DispatchSteers, SteeringIsPromised
<1>7. ASSUME p \in Client, Reads(p, f) PROVE Promised
  BY <1>7, ReadSteers, ContractStutters DEF Promised
<1>8. ASSUME p \in Client, NEW e, NEW r \in Run, Hands(p, f, r, e) PROVE Promised
  BY <1>8, HandSteers, SteeringIsPromised
<1>9. ASSUME p \in Client, NEW r \in Run, NEW k \in 1..MaxHitl, Decides(p, f, r, k)
      PROVE  Promised
  <2>1. WaitsFor(r) = NoRun /\ Steers(r, "parked", IF f.pc = "idle" THEN "settled" ELSE "queued")
    BY <1>9, DecisionSteers
  <2>2. (IF f.pc = "idle" THEN "settled" ELSE "queued") \in {"queued", "settled"}
    OBVIOUS
  <2>3. QED BY <2>1, <2>2, SteeringIsPromised
<1>10. QED BY <1>1, <1>2, <1>3, <1>4, <1>5, <1>6, <1>7, <1>8, <1>9 DEF QuietWorker, QuietClient

LEMMA BeginningIsPromised ==
  ASSUME Mapped, NEW p \in Proc, NEW f, NEW par, NEW c \in Run, Begins(p, f, c, par)
  PROVE  Promised
<1>1. CASE Steers(c, "absent", "queued")
  BY <1>1, SteeringIsPromised
<1>2. CASE ~Steers(c, "absent", "queued")
  <2>1. PICK r \in Run :
          /\ r # c /\ Phase(r) = "executing" /\ Phase(c) = "absent"
          /\ WaitsFor(c) = NoRun /\ WaitsFor(c)' = NoRun /\ WaitsFor(r)' = c
          /\ Phase(r)' = "parked" /\ Phase(c)' = "queued"
          /\ \A x \in Run \ {c, r} : Still(x)
    BY <1>2, BeginningSteers
  <2>2. \A x \in Run : Phase(x)' = IF x = c THEN "queued" ELSE IF x = r THEN "parked" ELSE Phase(x)
    BY <2>1 DEF Still
  <2>3. \A x \in Run : WaitsFor(x)' = IF x = r THEN c ELSE WaitsFor(x)
    BY <2>1 DEF Still
  <2>4. Contract!Delegate(r, c)
    BY <2>1, <2>2, <2>3 DEF Contract!Delegate
  <2>5. QED BY <2>4 DEF Promised, Contract!Next
<1>3. QED BY <1>1, <1>2

-----------------------------------------------------------------------------
LEMMA HealthyStepIsMapped ==
  TypeInv /\ TypeInv' /\ ThreadInv /\ ThreadInv' /\ HealthInv /\ HealthInv' /\ WriterInv
    /\ WriterInv' /\ [Next]_vars => (seen' = {} => seen = {} /\ Mapped)
<1> SUFFICES ASSUME TypeInv, TypeInv', ThreadInv, ThreadInv', HealthInv, HealthInv',
                    WriterInv, WriterInv', [Next]_vars, seen' = {}
             PROVE  seen = {} /\ Mapped
  OBVIOUS
<1>1. seen = {}
  BY SeenGrows
<1>2. Sound
  BY <1>1 DEF Sound, ThreadInv, NoDuplication, HealthInv, WriterInv, Uncancelled
<1>3. Sound'
  BY DEF Sound, ThreadInv, NoDuplication, HealthInv, WriterInv, Uncancelled
<1>4. (Sound => \A r \in Run : SeenOf(r) /\ SeenOfParent(r))'
  BY WhereRunsAre, PTL
<1>5. QED BY <1>1, <1>2, <1>3, <1>4, WhereRunsAre DEF Mapped

LEMMA StepIsPromised ==
  TypeInv /\ TypeInv' /\ ThreadInv /\ ThreadInv' /\ HealthInv /\ HealthInv' /\ WriterInv
    /\ WriterInv' /\ [Next]_vars => (seen' = {} => Promised)
<1> SUFFICES ASSUME TypeInv, TypeInv', ThreadInv, ThreadInv', HealthInv, HealthInv',
                    WriterInv, WriterInv', [Next]_vars, seen' = {}
             PROVE  Promised
  OBVIOUS
<1>1. Mapped
  BY HealthyStepIsMapped
<1>2. ASSUME NEW p \in Worker, NEW f, QuietWorker(p, f) PROVE Promised
  BY <1>1, <1>2, QuietIsPromised
<1>3. ASSUME NEW p \in Client, NEW f, QuietClient(p, f) PROVE Promised
  BY <1>1, <1>3, QuietIsPromised
<1>4. CASE Next
  <2>1. QuietStep
    BY <1>1, <1>4, StepsAreQuiet DEF Mapped, Sound
  <2>2. QED BY <1>1, <1>2, <1>3, <2>1, BeginningIsPromised DEF QuietStep
<1>5. CASE UNCHANGED vars
  <2>1. \A x \in Run : Still(x)
    BY <1>5, StutterIsStill
  <2>2. QED BY <2>1, ContractStutters DEF Promised
<1>6. QED BY <1>4, <1>5

LEMMA FirstIsPromised == Init => Contract!Init
BY NothingIsSeen DEF Contract!Init

(* The runtime keeps the contract of a run until the first fault: what the *)
(* workers, the API handlers and the people do to a run is a step of       *)
(* RunContract or nothing at all, whatever the tables and the queue go     *)
(* through meanwhile (scheduler.py, worker_loop.py and hitl.py together).  *)
THEOREM RuntimeKeepsContract ==
  Spec => Contract!Init /\ [][seen' = {} => Contract!Next]_(Contract!vars)
<1>1. TypeInv /\ TypeInv' /\ ThreadInv /\ ThreadInv' /\ HealthInv /\ HealthInv' /\ WriterInv
        /\ WriterInv' /\ [Next]_vars => [seen' = {} => Contract!Next]_(Contract!vars)
  BY StepIsPromised DEF Promised
<1>2. QED
  BY <1>1, FirstIsPromised, TypeInvariant, ThreadInvariant, HealthInvariant, WriterInvariant, PTL
     DEF Spec

LEMMA FaultsAreAllowed == Spec => [](seen \subseteq Faults)
<1>1. Init => seen \subseteq Faults
  BY DEF Init
<1>2. seen \subseteq Faults /\ [Next]_vars => (seen \subseteq Faults)'
  BY SeenGrows
<1>3. QED BY <1>1, <1>2, PTL DEF Spec

(* Where no fault is possible, every behaviour of the runtime is one of    *)
(* the contract: the safety part of KeepsContract.                         *)
THEOREM HealthyRuntimeKeepsContract ==
  ASSUME Faults = {}
  PROVE  Spec => Contract!Init /\ [][Contract!Next]_(Contract!vars)
<1>1. (seen \subseteq Faults)' /\ [seen' = {} => Contract!Next]_(Contract!vars)
        => [Contract!Next]_(Contract!vars)
  OBVIOUS
<1>2. QED BY <1>1, RuntimeKeepsContract, FaultsAreAllowed, PTL

-----------------------------------------------------------------------------
(* Wake-ups.  The phase of a run agrees with its newest task record and    *)
(* with how far its graph is: only a settled run has ended or failed, and  *)
(* every settled run has, or was rejected.                                 *)

Through(r) == cp[r] > Len(Script(r))
Over(r) == /\ last[r] > 0
           /\ \/ task[r][last[r]] = "failure"
              \/ task[r][last[r]] = "success" /\ Through(r)
Teller(p, r) == at[p].pc \in {"tell", "tellw"} /\ at[p].job.run = r
Awaited(r) == \E c \in Run : parent[c] = r /\ Pressing(c) /\ ~Unsent(c)

RunTally(r) ==
  /\ Phase(r) = "absent" => cp[r] = 0 /\ last[r] = 0
  /\ Phase(r) # "absent" => last[r] > 0
  /\ Phase(r) \in {"queued", "parked"} => ~Through(r) /\ task[r][last[r]] # "failure"
  /\ Phase(r) = "settled" => Over(r) \/ Rejected(r)
  /\ Phase(r) = "settled" /\ row[r] = "pending" =>
       Rejected(r) \/ \E p \in Worker : Teller(p, r)

(* A subgraph request is settled like a question only after another one    *)
(* that was refused.                                                       *)
AfterSubgraph(r, stop) == AtSubgraph(r, stop) => stop > 1 /\ Script(r)[stop - 1] = "sub"

(* A worker that is done with its record may find a newer one of its run,  *)
(* but not before the child has reported.                                  *)
FrameTally(f) ==
  LET r == f.job.run
  IN  /\ f.pc \in Executive \cup {"spawned"} => f.rec = last[r]
      /\ f.pc \in Executive => task[r][last[r]] = "started"
      /\ f.pc \in {"spawn", "inline"} => AtSubgraph(r, cp[r]) /\ cp[r] > 0
      /\ f.pc = "settle" => f.stop = cp[r] /\ f.stop > 0 /\ AfterSubgraph(r, f.stop)
      /\ f.pc = "spawned" => \A c \in f.todo : row[c] = "pending"
      /\ f.pc \in {"mark", "markw"} =>
           f.rec <= last[r] /\ (f.rec = last[r] => Awaited(r))

Tally == (\A r \in Run : RunTally(r)) /\ (\A p \in Worker : FrameTally(at[p]))
TallyInv == seen = {} => Tally

(* The tables of x are as they were.                                       *)
Same(x) == /\ last'[x] = last[x] /\ cp'[x] = cp[x] /\ depth'[x] = depth[x]
           /\ task'[x][last[x]] = task[x][last[x]]

(* The step concerns the runs in S and the process p.                      *)
Concerns(p, f, S) ==
  /\ Step(p, f)
  /\ \A x \in Run \ S : Still(x) /\ Same(x) /\ (row'[x] = "pending" => row[x] = "pending")
  /\ \A x \in Run, k \in 1..MaxHitl :
       hitl[x][k].status = "rejected" => hitl'[x][k] = hitl[x][k]
  /\ \A x \in S : last[x] <= last'[x]
  /\ \A x \in Run : Awaited(x) => Awaited(x)' \/ (x \in S /\ last[x] < last'[x])
  /\ \A c \in Run : Unsent(c) /\ row[c] = "pending" => row'[c] = "pending"
  /\ \A c \in Run : p \in Worker /\ Teller(p, c) =>
       row'[c] # "pending" \/ (f.pc \in {"tell", "tellw"} /\ f.job.run = c)
  /\ \A q \in Worker : q # p /\ at[q].pc \in Executive \cup {"spawned"} =>
       at[q].job.run \notin S

LEMMA ScriptLength ==
  ASSUME TypeInv, NEW r \in Run
  PROVE  cp[r] \in Nat /\ Len(Script(r)) \in Nat
BY ScriptAssumption DEF Script, TypeInv, DataOK

LEMMA TallyMoves ==
  ASSUME TypeInv, TypeInv', Tally, NEW p \in Proc, NEW f, NEW S \in SUBSET Run, Concerns(p, f, S),
         \A x \in S : RunTally(x)', p \in Worker => FrameTally(f)'
  PROVE  Tally'
<1>1. \A q \in Proc : at'[q] = IF q = p THEN f ELSE at[q]
  BY Moved DEF Concerns
<1>2. \A q \in Worker : q \in Proc
  BY DEF Proc
<1>3. ASSUME NEW x \in Run \ S PROVE RunTally(x)'
  <2>1. Phase(x)' = Phase(x) /\ Same(x) /\ (row'[x] = "pending" => row[x] = "pending")
    BY DEF Concerns, Still
  <2>2. Through(x)' <=> Through(x)
    BY <2>1 DEF Same, Through, Script
  <2>3. Over(x)' <=> Over(x)
    BY <2>1, <2>2 DEF Same, Over
  <2>4. Rejected(x) => Rejected(x)'
    BY DEF Concerns, Rejected
  <2>5. (\E q \in Worker : Teller(q, x)) => row'[x] # "pending" \/ (\E q \in Worker : Teller(q, x))'
    <3>1. ASSUME NEW q \in Worker, Teller(q, x), row'[x] = "pending" PROVE Teller(q, x)'
      BY <1>1, <1>2, <3>1 DEF Concerns, Teller
    <3>2. QED BY <3>1
  <2>6. RunTally(x)
    BY DEF Tally
  <2>7. QED BY <2>1, <2>2, <2>3, <2>4, <2>5, <2>6 DEF RunTally, Same
<1>4. ASSUME NEW q \in Worker, NEW g, g = at'[q] PROVE FrameTally(g)'
  <2>1. CASE q = p
    BY <1>1, <1>2, <1>4, <2>1
  <2>2. CASE at[q].pc = "idle" /\ q # p
    BY <1>1, <1>2, <1>4, <2>2 DEF FrameTally, Executive
  <2>3. CASE at[q].pc # "idle" /\ q # p
    <3>1. at[q] = g /\ FrameTally(g)
      BY <1>1, <1>2, <1>4, <2>3 DEF Tally
    <3>2. PICK x \in Run : x = g.job.run
      BY <2>3, <3>1, CarriedRun
    <3>3. g.pc \in Executive \cup {"spawned"} => Same(x)
      BY <2>3, <3>1, <3>2 DEF Concerns
    <3>4. Same(x) => (AtSubgraph(x, cp[x])' <=> AtSubgraph(x, cp[x]))
                     /\ (AfterSubgraph(x, g.stop)' <=> AfterSubgraph(x, g.stop))
      BY DEF Same, AtSubgraph, AfterSubgraph, Script
    <3>5. g.pc = "spawned" => \A c \in g.todo : row'[c] = "pending"
      <4>1. SUFFICES ASSUME g.pc = "spawned", NEW c \in g.todo PROVE row'[c] = "pending"
        OBVIOUS
      <4>2. c \in Run
        BY <2>3, <3>1, CarriedRun DEF Frame
      <4>3. Unsent(c) /\ row[c] = "pending"
        BY <3>1, <4>1 DEF Unsent, FrameTally
      <4>4. QED BY <4>2, <4>3 DEF Concerns
    <3>6. g.pc \in {"mark", "markw"} => g.rec <= last'[x] /\ (g.rec = last'[x] => Awaited(x)')
      <4>1. last[x] \in Nat /\ last'[x] \in Nat
        BY DEF TypeInv, DataOK
      <4>2. g.rec \in Nat
        BY <2>3, <3>1, CarriedRun DEF Frame
      <4>3. g.pc \in {"mark", "markw"} => g.rec <= last[x] /\ (g.rec = last[x] => Awaited(x))
        BY <3>1, <3>2 DEF FrameTally
      <4>4. last[x] <= last'[x] /\ (Awaited(x) => Awaited(x)' \/ last[x] < last'[x])
        BY <4>1 DEF Concerns, Same
      <4>5. QED BY <4>1, <4>2, <4>3, <4>4
    <3>7. QED BY <3>1, <3>2, <3>3, <3>4, <3>5, <3>6 DEF FrameTally, Same, Executive
  <2>4. QED BY <2>1, <2>2, <2>3
<1>5. \A q \in Worker : FrameTally(at[q])'
  BY <1>4
<1>6. QED BY <1>3, <1>5 DEF Tally

LEMMA RestOfFrame ==
  ASSUME NEW f \in Frame, NEW l, NEW x
  PROVE  /\ At(f, l).rec = f.rec
         /\ Concluded(f, l, x).rec = f.rec
         /\ StoppedAt(f, l, x).rec = f.rec /\ StoppedAt(f, l, x).stop = x
         /\ Carrying(f, l, x).rec = f.rec /\ Carrying(f, l, x).todo = x
BY DEF Frame, At, Concluded, StoppedAt, Carrying

LEMMA OneFrame ==
  ASSUME TypeInv, NEW p \in Proc, NEW f, NEW g, Step(p, f), Step(p, g)
  PROVE  f = g
<1>1. at'[p] = f /\ at'[p] = g
  BY Moved
<1>2. QED BY <1>1

(* A run that p has, or nobody, is in the hands of no other worker.        *)
LEMMA ElseNobody ==
  ASSUME Sound, NEW p, NEW r \in Run,
         Vacant(r) \/ \E l, x : Owns(l, x, r) /\ (l = "process" => x = p)
  PROVE  \A q \in Worker : q # p /\ at[q].pc \in Executive \cup {"spawned"} => at[q].job.run # r
<1> SUFFICES ASSUME NEW q \in Worker, q # p, at[q].pc \in Executive \cup {"spawned"},
                    at[q].job.run = r
             PROVE  FALSE
  OBVIOUS
<1>1. Owns("process", q, r)
  BY DEF Owns, Carries, Executive, Driving, Proc
<1>2. ~Vacant(r)
  BY <1>1, OwnedOrVacant
<1>3. PICK l, x : Owns(l, x, r) /\ (l = "process" => x = p)
  BY <1>2
<1>4. l = "process" /\ x = q
  BY <1>1, <1>3 DEF Sound, Threads, Unique, Holds
<1>5. QED BY <1>3, <1>4

LEMMA AwaitedStays ==
  ASSUME NEW x \in Run, \A c \in Run : parent[c] = x => parent'[c] = x,
         \A c \in Run : (Pressing(c) => Pressing(c)') /\ (Pressing(c) /\ Unsent(c)' => Unsent(c))
  PROVE  Awaited(x) => Awaited(x)'
BY DEF Awaited

(* An awaited run waits for its child, or its envelope is on the way.      *)
LEMMA AwaitedIsOut ==
  ASSUME Sound, NEW r \in Run, SeenOfParent(r), Awaited(r)
  PROVE  Vacant(r) /\ Phase(r) \in {"queued", "parked"}
<1>1. PICK c \in Run : parent[c] = r /\ Pressing(c) /\ ~Unsent(c)
  BY DEF Awaited
<1>2. Vacant(r)
  BY <1>1 DEF Sound, Healthy, Waits
<1>3. CASE row[c] = "pending"
  BY <1>1, <1>2, <1>3 DEF SeenOfParent, Kids
<1>4. CASE Reporting(c)
  <2>1. PICK p \in Worker : at[p].pc \in {"tellw", "wake"} /\ at[p].job.run = c
    BY <1>4 DEF Reporting
  <2>2. CASE at[p].pc = "tellw"
    BY <1>3, <2>1, <2>2 DEF Sound, Writers
  <2>3. CASE at[p].pc = "wake"
    BY <1>1, <1>2, <2>1, <2>3 DEF SeenOfParent
  <2>4. QED BY <2>1, <2>2, <2>3
<1>5. QED BY <1>1, <1>3, <1>4, <1>2 DEF Pressing

(* A worker that goes on with its run or leaves it.                        *)
LEMMA PlainConcerns ==
  ASSUME Mapped, NEW p \in Worker, NEW f, Plain(p, f), NEW r \in Run, r = at[p].job.run,
         NEW S \in SUBSET {r}, r \in S => at[p].pc \in Executive \/ Awaited(r),
         at[p].pc \in Executive /\ f.pc = "tell" => r \in S,
         UNCHANGED last, \A x \in Run \ S : Same(x),
         at[p].pc \in {"tell", "tellw"} => row[r] # "pending" \/ f.pc \in {"tell", "tellw"}
  PROVE  Concerns(p, f, S)
<1> USE DEF Mapped, Sound
<1>1. p \in Proc /\ Step(p, f) /\ UNCHANGED <<parent, row, hitl>>
  BY DEF Proc, Plain
<1>2. \A q \in Proc : at'[q] = IF q = p THEN f ELSE at[q]
  BY <1>1, Moved
<1>3. \A x \in Run \ S : Still(x)
  BY PlainSteers DEF Steers
<1>4. \A x \in S : last[x] <= last'[x]
  BY DEF TypeInv, DataOK
<1>5. \A c \in Run : Pressing(c) => Pressing(c)'
  <2>1. ASSUME NEW c \in Run, row[c] # "pending", NEW q \in Worker,
               at[q].pc \in {"tellw", "wake"}, at[q].job.run = c
        PROVE  q # p
    BY <2>1 DEF Writers, Plain
  <2>2. QED BY <1>1, <1>2, <2>1 DEF Pressing, Reporting, Proc
<1>6. \A c \in Run : Unsent(c)' => Unsent(c)
  BY <1>1, <1>2 DEF Unsent, Proc, Plain
<1>7. \A x \in Run : Awaited(x) => Awaited(x)'
  BY <1>1, <1>5, <1>6, AwaitedStays
<1>8. \A q \in Worker : q # p /\ at[q].pc \in Executive \cup {"spawned"} => at[q].job.run \notin S
  <2>1. CASE S = {}
    BY <2>1
  <2>2. CASE r \in S
    <3>1. Awaited(r) => Vacant(r)
      BY AwaitedIsOut
    <3>2. at[p].pc \in Executive => Owns("process", p, r)
      BY <1>1 DEF Owns, Carries, Executive, Driving
    <3>3. QED BY <2>2, <3>1, <3>2, ElseNobody
  <2>3. QED BY <2>1, <2>2
<1>9. \A c \in Run : Teller(p, c) =>
        row'[c] # "pending" \/ (f.pc \in {"tell", "tellw"} /\ f.job.run = c)
  BY <1>1 DEF Teller, Plain
<1>10. QED BY <1>1, <1>3, <1>4, <1>7, <1>8, <1>9 DEF Concerns

LEMMA GraphTallies ==
  ASSUME Mapped, Tally, NEW p \in Worker, RunGraph(p) \/ InlineResume(p)
  PROVE  Tally'
<1> USE DEF Mapped, Sound
<1>1. at[p].pc \in {"graph", "inline"}
  BY DEF RunGraph, InlineResume, HoldsTask
<1>2. PICK r \in Run : r = at[p].job.run
  BY <1>1, CarriedRun
<1>3. p \in Proc /\ at[p] \in Frame
  BY <1>1, CarriedRun
<1>4. PICK l \in {"spawn", "settle"}, stop \in Nat :
         /\ cp' = [cp EXCEPT ![r] = stop] /\ Step(p, StoppedAt(at[p], l, stop)) /\ stop > 0
         /\ l = "spawn" => AtSubgraph(r, stop)
         /\ l = "settle" => AfterSubgraph(r, stop)
  <2>1. ASSUME NEW kind PROVE NextStop(r, kind) \in Nat /\ NextStop(r, kind) > 0
    <3>1. cp[r] \in Nat /\ Len(Script(r)) \in Nat
      BY ScriptAssumption DEF Script, TypeInv, DataOK
    <3>2. QED BY <3>1 DEF NextStop
  <2>2. CASE RunGraph(p)
    BY <1>2, <2>1, <2>2 DEF RunGraph, AfterSubgraph
  <2>3. CASE InlineResume(p)
    <3>1. AtSubgraph(r, cp[r]) /\ cp[r] > 0 /\ cp[r] \in Nat
      BY <1>2, <2>3 DEF InlineResume, HoldsTask, Tally, FrameTally, TypeInv, DataOK
    <3>2. NextStop(r, "child") = cp[r] + 1
      BY <3>1 DEF NextStop, AtSubgraph
    <3>3. AfterSubgraph(r, NextStop(r, "child"))
      BY <3>1, <3>2 DEF AfterSubgraph, AtSubgraph
    <3>4. QED BY <1>2, <2>1, <2>3, <3>3 DEF InlineResume
  <2>4. QED BY <2>2, <2>3
<1>5. PICK f : Plain(p, f)
  BY ExecutiveIsPlain
<1>6. f = StoppedAt(at[p], l, stop)
  BY <1>3, <1>4, <1>5, OneFrame DEF Plain
<1>7. f.pc = l /\ f.job = at[p].job /\ f.rec = at[p].rec /\ f.stop = stop
  <2>1. l \in Pc
    BY DEF Pc
  <2>2. QED BY <1>3, <1>6, <2>1, StopFrame, RestOfFrame
<1>8. UNCHANGED <<last, task, depth>>
  BY DEF RunGraph, InlineResume, rows
<1>9. cp'[r] = stop /\ \A x \in Run : x # r => cp'[x] = cp[x]
  BY <1>4 DEF TypeInv, DataOK
<1>10. Concerns(p, f, {r})
  <2>1. \A x \in Run \ {r} : Same(x)
    BY <1>8, <1>9 DEF Same
  <2>2. QED BY <1>1, <1>2, <1>5, <1>8, <2>1, PlainConcerns DEF Executive
<1>11. RunTally(r)'
  <2>1. Phase(r)' = "executing"
    BY <1>3, <1>2, <1>5, <1>7, Moved DEF Plain, SeenOf, Executive
  <2>2. last[r] > 0
    BY <1>1, <1>2 DEF Tally, RunTally, SeenOf, Executive
  <2>3. QED BY <1>8, <2>1, <2>2 DEF RunTally
<1>12. FrameTally(f)'
  <2>1. at[p].rec = last[r] /\ task[r][last[r]] = "started"
    BY <1>1, <1>2 DEF Tally, FrameTally, Executive
  <2>2. /\ l = "spawn" => AtSubgraph(r, cp[r])'
        /\ l = "settle" => AfterSubgraph(r, stop)'
    BY <1>4, <1>8, <1>9 DEF AtSubgraph, AfterSubgraph, Script
  <2>3. QED BY <1>2, <1>4, <1>7, <1>8, <1>9, <2>1, <2>2 DEF FrameTally
<1>13. QED BY <1>3, <1>10, <1>11, <1>12, TallyMoves

LEMMA RaiseTallies ==
  ASSUME Mapped, Tally, NEW p \in Worker, GraphRaises(p) \/ SpawnRefused(p)
  PROVE  Tally'
<1> USE DEF Mapped, Sound
<1>1. /\ at[p].pc \in {"graph", "spawn", "inline"}
      /\ UNCHANGED <<last, task, depth, cp>>
  BY DEF GraphRaises, SpawnRefused, HoldsTask, rows
<1>2. PICK r \in Run : r = at[p].job.run
  BY <1>1, CarriedRun
<1>3. p \in Proc /\ at[p] \in Frame
  BY <1>1, CarriedRun
<1>4. PICK l \in {"fail", "inline"} : Step(p, At(at[p], l))
  BY DEF GraphRaises, SpawnRefused, Goto
<1>5. PICK f : Plain(p, f)
  BY ExecutiveIsPlain
<1>6. f = At(at[p], l)
  BY <1>3, <1>4, <1>5, OneFrame DEF Plain
<1>7. f.pc = l /\ f.job = at[p].job /\ f.rec = at[p].rec
  <2>1. l \in Pc
    BY DEF Pc
  <2>2. QED BY <1>3, <1>6, <2>1, AtFrame, RestOfFrame
<1>8. Concerns(p, f, {})
  <2>1. \A x \in Run : Same(x)
    BY <1>1 DEF Same
  <2>2. QED BY <1>1, <1>2, <1>5, <1>7, <2>1, PlainConcerns
<1>9. FrameTally(f)'
  <2>1. l = "inline" => at[p].pc = "spawn"
    <3>1. CASE SpawnRefused(p)
      BY <3>1 DEF SpawnRefused, HoldsTask
    <3>2. CASE GraphRaises(p)
      <4>1. f = At(at[p], "fail") /\ "fail" \in Pc
        BY <1>3, <1>5, <3>2, OneFrame DEF Plain, GraphRaises, Goto, Pc
      <4>2. QED BY <1>3, <1>7, <4>1, AtFrame
    <3>3. QED BY <3>1, <3>2
  <2>2. at[p].pc = "spawn" => AtSubgraph(r, cp[r]) /\ cp[r] > 0
    BY <1>2 DEF Tally, FrameTally
  <2>3. (AtSubgraph(r, cp[r]))' <=> AtSubgraph(r, cp[r])
    BY <1>1 DEF AtSubgraph, Script
  <2>4. QED BY <1>1, <1>2, <1>7, <2>1, <2>2, <2>3 DEF Tally, FrameTally, Executive
<1>10. QED BY <1>3, <1>8, <1>9, TallyMoves

Marks(r, n, s) == task' = [task EXCEPT ![r][n] = s]

LEMMA RecordSet ==
  ASSUME TypeInv, NEW r \in Run, NEW n, NEW s, Marks(r, n, s)
  PROVE  /\ \A x \in Run : x # r => task'[x] = task[x]
         /\ \A m \in 1..MaxTasks : task'[r][m] = IF m = n THEN s ELSE task[r][m]
<1>1. task \in [Run -> [1..MaxTasks -> TaskStatus]]
  BY DEF TypeInv, DataOK
<1>2. task'[r] = [task[r] EXCEPT ![n] = s] /\ task[r] \in [1..MaxTasks -> TaskStatus]
  BY <1>1 DEF Marks
<1>3. QED BY <1>1, <1>2 DEF Marks

(* The worker closes the record of its envelope. *)
LEMMA RecordClosed ==
  ASSUME TypeInv, NEW p \in Worker, NEW r \in Run, r = at[p].job.run, NEW s, SetTask(p, s),
         last[r] > 0
  PROVE  /\ \A x \in Run : x # r => task'[x] = task[x]
         /\ task'[r][last[r]] = IF at[p].rec = last[r] THEN s ELSE task[r][last[r]]
<1>1. Marks(r, at[p].rec, s)
  BY DEF SetTask, Marks
<1>2. last[r] \in 1..MaxTasks
  BY DEF TypeInv, DataOK
<1>3. /\ \A x \in Run : x # r => task'[x] = task[x]
      /\ \A m \in 1..MaxTasks : task'[r][m] = IF m = at[p].rec THEN s ELSE task[r][m]
  BY <1>1, RecordSet
<1>4. QED BY <1>2, <1>3

LEMMA SettleTallies ==
  ASSUME Mapped, Tally, NEW p \in Worker, SettleCompleted(p) \/ FailRun(p)
  PROVE  Tally'
<1> USE DEF Mapped, Sound
<1>1. /\ at[p].pc \in {"settle", "fail"}
      /\ UNCHANGED <<last, depth, cp>>
  BY DEF SettleCompleted, FailRun, HoldsTask
<1>2. PICK r \in Run : r = at[p].job.run
  BY <1>1, CarriedRun
<1>3. p \in Proc /\ at[p] \in Frame
  BY <1>1, CarriedRun
<1>4. PICK o \in {"completed", "failed"} :
         /\ Step(p, Concluded(at[p], "tell", o))
         /\ SetTask(p, IF o = "completed" THEN "success" ELSE "failure")
         /\ o = "completed" => at[p].pc = "settle" /\ at[p].stop > Len(Script(r))
  BY <1>2 DEF SettleCompleted, FailRun, Conclude, AfterCompletion, HoldsTask
<1>5. PICK f : Plain(p, f)
  BY SettlingIsPlain
<1>6. f = Concluded(at[p], "tell", o)
  BY <1>3, <1>4, <1>5, OneFrame DEF Plain
<1>7. f.pc = "tell" /\ f.job = at[p].job
  <2>1. "tell" \in Pc /\ o \in Outcome
    BY DEF Pc, Outcome, Told
  <2>2. QED BY <1>3, <1>6, <2>1, ConcludeFrame
<1>8. last[r] > 0 /\ at[p].rec = last[r]
  BY <1>1, <1>2 DEF Tally, RunTally, FrameTally, SeenOf, Executive
<1>9. /\ \A x \in Run : x # r => task'[x] = task[x]
      /\ task'[r][last[r]] = IF o = "completed" THEN "success" ELSE "failure"
  BY <1>2, <1>4, <1>8, RecordClosed
<1>10. Concerns(p, f, {r})
  <2>1. \A x \in Run \ {r} : Same(x)
    BY <1>1, <1>9 DEF Same
  <2>2. QED BY <1>1, <1>2, <1>5, <2>1, PlainConcerns DEF Executive
<1>11. RunTally(r)'
  <2>1. Phase(r)' = "settled"
    BY <1>3, <1>2, <1>5, <1>7, Moved DEF Plain, SeenOf
  <2>2. Over(r)'
    <3>1. o = "completed" => Through(r)'
      BY <1>1, <1>2, <1>4 DEF Tally, FrameTally, Through, Script
    <3>2. QED BY <1>1, <1>8, <1>9, <3>1 DEF Over
  <2>3. Teller(p, r)'
    BY <1>2, <1>3, <1>5, <1>7, Moved DEF Plain, Teller
  <2>4. QED BY <1>1, <1>8, <2>1, <2>2, <2>3 DEF RunTally
<1>12. FrameTally(f)'
  BY <1>7 DEF FrameTally, Executive
<1>13. QED BY <1>3, <1>10, <1>11, <1>12, TallyMoves

LEMMA KnownRun ==
  ASSUME Sound, Tally, NEW p \in Worker, NEW r \in Run, at[p].pc # "idle", r = at[p].job.run
  PROVE  Phase(r) # "absent" /\ last[r] > 0
<1>1. run[r] # "absent"
  BY DEF Sound, Healthy, Known
<1>2. Phase(r) # "absent"
  BY <1>1, PhasesMean
<1>3. QED BY <1>2 DEF Tally, RunTally

LEMMA QuietTally ==
  ASSUME NEW r \in Run, RunTally(r), Same(r), Phase(r) \in {"queued", "parked"},
         Phase(r)' \in {"queued", "parked"}
  PROVE  RunTally(r)'
BY DEF RunTally, Same, Through, Script

(* The worker's run has been woken already, or it waits for the child.     *)
LEMMA MarkTallies ==
  ASSUME Mapped, Tally, NEW p \in Worker, MarkRead(p) \/ MarkWrite(p)
  PROVE  Tally'
<1> USE DEF Mapped, Sound
<1>1. /\ at[p].pc \in {"mark", "markw"}
      /\ UNCHANGED <<last, depth, cp>>
  BY DEF MarkRead, MarkWrite, HoldsTask
<1>2. PICK r \in Run : r = at[p].job.run
  BY <1>1, CarriedRun
<1>3. p \in Proc /\ at[p] \in Frame
  BY <1>1, CarriedRun
<1>4. PICK f : Plain(p, f)
  BY SettlingIsPlain
<1>5. at[p].rec <= last[r] /\ (at[p].rec = last[r] => Awaited(r))
  BY <1>1, <1>2 DEF Tally, FrameTally
<1>6. CASE Goto(p, "markw") /\ UNCHANGED task
  <2>1. f.pc = "markw" /\ f.job = at[p].job /\ f.rec = at[p].rec
    <3>1. f = At(at[p], "markw")
      BY <1>3, <1>4, <1>6, OneFrame DEF Plain, Goto
    <3>2. "markw" \in Pc
      BY DEF Pc
    <3>3. QED BY <1>3, <3>1, <3>2, AtFrame, RestOfFrame
  <2>2. Concerns(p, f, {})
    <3>1. \A x \in Run : Same(x)
      BY <1>1, <1>6 DEF Same
    <3>2. QED BY <1>1, <1>2, <1>4, <2>1, <3>1, PlainConcerns
  <2>3. Awaited(r) => Awaited(r)'
    BY <2>2 DEF Concerns
  <2>4. FrameTally(f)'
    BY <1>1, <1>2, <1>5, <2>1, <2>3 DEF FrameTally, Executive
  <2>5. QED BY <1>3, <2>2, <2>4, TallyMoves
<1>7. CASE Conclude(p, "flush", "waiting") /\ SetTask(p, "success")
  <2>1. f.pc = "flush"
    <3>1. f = Concluded(at[p], "flush", "waiting")
      BY <1>3, <1>4, <1>7, OneFrame DEF Plain, Conclude
    <3>2. "flush" \in Pc /\ "waiting" \in Outcome
      BY DEF Pc, Outcome
    <3>3. QED BY <1>3, <3>1, <3>2, ConcludeFrame
  <2>2. FrameTally(f)'
    BY <2>1 DEF FrameTally, Executive
  <2>3. last[r] > 0
    BY <1>1, <1>2, KnownRun
  <2>4. /\ \A x \in Run : x # r => task'[x] = task[x]
        /\ task'[r][last[r]] = IF at[p].rec = last[r] THEN "success" ELSE task[r][last[r]]
    BY <1>2, <1>7, <2>3, RecordClosed
  <2>5. CASE at[p].rec # last[r]
    <3>1. \A x \in Run : Same(x)
      BY <1>1, <2>4, <2>5 DEF Same
    <3>2. Concerns(p, f, {})
      BY <1>1, <1>2, <1>4, <3>1, PlainConcerns DEF Executive
    <3>3. QED BY <1>3, <2>2, <3>2, TallyMoves
  <2>6. CASE at[p].rec = last[r]
    <3>1. \A x \in Run \ {r} : Same(x)
      BY <1>1, <2>4 DEF Same
    <3>2. Concerns(p, f, {r})
      BY <1>1, <1>2, <1>4, <1>5, <2>1, <2>6, <3>1, PlainConcerns
    <3>3. Phase(r) \in {"queued", "parked"}
      BY <1>5, <2>6, AwaitedIsOut
    <3>4. Phase(r)' = Phase(r)
      BY <1>1, <1>2, <1>4, PlainSteers DEF Still, Executive
    <3>5. ~Through(r)
      BY <3>3 DEF Tally, RunTally
    <3>6. RunTally(r)'
      BY <1>1, <2>3, <2>4, <2>6, <3>3, <3>4, <3>5 DEF RunTally, Through, Script
    <3>7. QED BY <1>3, <2>2, <3>2, <3>6, TallyMoves
  <2>7. QED BY <2>5, <2>6
<1>8. QED BY <1>6, <1>7 DEF MarkRead, MarkWrite

LEMMA LeaveTallies ==
  ASSUME Mapped, Tally, NEW p \in Worker, Flush(p) \/ TellRead(p)
  PROVE  Tally'
<1> USE DEF Mapped, Sound
<1>1. /\ at[p].pc \in {"flush", "tell"}
      /\ UNCHANGED <<last, depth, cp, task>>
  BY DEF Flush, TellRead, HoldsTask
<1>2. PICK r \in Run : r = at[p].job.run
  BY <1>1, CarriedRun
<1>3. p \in Proc /\ at[p] \in Frame
  BY <1>1, CarriedRun
<1>4. PICK f : Plain(p, f)
  BY SettlingIsPlain, TellReadIsPlain
<1>5. /\ f.pc \in {"idle", "flush", "tellw"}
      /\ at[p].pc = "tell" => row[r] # "pending" \/ f.pc = "tellw"
  <2>1. CASE Flush(p)
    <3>1. f = IdleFrame
      BY <1>3, <1>4, <2>1, OneFrame DEF Plain, Flush, Return
    <3>2. QED BY <2>1, <3>1 DEF Flush, HoldsTask, IdleFrame, FrameFor
  <2>2. CASE TellRead(p)
    <3>1. ASSUME NEW l \in {"flush", "tellw"}, Goto(p, l) PROVE f.pc = l
      <4>1. f = At(at[p], l)
        BY <1>3, <1>4, <3>1, OneFrame DEF Plain, Goto
      <4>2. l \in Pc
        BY DEF Pc
      <4>3. QED BY <1>3, <4>1, <4>2, AtFrame
    <3>2. CASE ~Unreported(r)
      BY <1>2, <2>2, <3>1, <3>2 DEF TellRead, AfterTell, Unreported
    <3>3. CASE Unreported(r) /\ Goto(p, "tellw")
      BY <3>1, <3>3
    <3>4. row' = row
      BY <1>4 DEF Plain
    <3>5. row' # [row EXCEPT ![r] = "parent_cancelled"] \/ ~Unreported(r)
      BY <3>4 DEF TypeInv, DataOK, Unreported
    <3>6. QED BY <1>2, <2>2, <3>2, <3>3, <3>5 DEF TellRead
  <2>3. QED BY <2>1, <2>2
<1>6. Concerns(p, f, {})
  <2>1. \A x \in Run : Same(x)
    BY <1>1 DEF Same
  <2>2. QED BY <1>1, <1>2, <1>4, <1>5, <2>1, PlainConcerns DEF Executive
<1>7. FrameTally(f)'
  BY <1>5 DEF FrameTally, Executive
<1>8. QED BY <1>3, <1>6, <1>7, TallyMoves

-----------------------------------------------------------------------------
(* A holder hands its run on, or goes on with it.                          *)
LEMMA HolderConcerns ==
  ASSUME Mapped, NEW p \in Proc, NEW f, Step(p, f), NEW r \in Run,
         \A x \in Run : x # r => Still(x) /\ Same(x),
         UNCHANGED <<parent, row>>, last[r] <= last'[r],
         \A x \in Run, k \in 1..MaxHitl :
           hitl[x][k].status = "rejected" => hitl'[x][k] = hitl[x][k],
         \E l, x : Owns(l, x, r) /\ (l = "process" => x = p),
         p \in Worker => at[p].pc \notin {"tell", "tellw", "wake"}, f.pc # "spawned"
  PROVE  Concerns(p, f, {r})
<1> USE DEF Mapped, Sound
<1>1. \A q \in Proc : at'[q] = IF q = p THEN f ELSE at[q]
  BY Moved
<1>2. \A q \in Worker : q \in Proc
  BY DEF Proc
<1>3. \A c \in Run : (Pressing(c) => Pressing(c)') /\ (Unsent(c)' => Unsent(c))
  BY <1>1, <1>2 DEF Pressing, Reporting, Unsent
<1>4. \A x \in Run : Awaited(x) => Awaited(x)'
  BY <1>3, AwaitedStays
<1>5. \A q \in Worker : q # p /\ at[q].pc \in Executive \cup {"spawned"} => at[q].job.run # r
  BY ElseNobody
<1>6. QED BY <1>4, <1>5 DEF Concerns, Teller

LEMMA ClaimTallies ==
  ASSUME Mapped, Tally, NEW p \in Worker, Claim(p)
  PROVE  Tally'
<1> USE DEF Mapped, Sound
<1>1. p \in Proc /\ at[p].pc = "idle" /\ UNCHANGED <<parent, row, hitl, last, cp, depth>>
  BY DEF Claim, HoldsTask, Proc
<1>2. PICK e \in broker :
         /\ broker' = broker \ {e} /\ SetRun(e.run, "running")
         /\ Marks(e.run, last[e.run], "started")
         /\ Step(p, [FrameFor("graph", e, "none", {}, {}) EXCEPT !.rec = last[e.run]])
  BY DEF Claim, RecordOf, Marks
<1>3. PICK r \in Run : r = e.run
  BY DEF TypeInv, DataOK, Envelope
<1>4. PICK f : f = [FrameFor("graph", e, "none", {}, {}) EXCEPT !.rec = last[e.run]]
  OBVIOUS
<1>5. Step(p, f) /\ f.pc = "graph" /\ f.job = e /\ f.rec = last[r]
  BY <1>2, <1>3, <1>4 DEF FrameFor
<1>6. Claims(p, f, e)
  BY <1>1, <1>2, <1>5 DEF Claims
<1>7. Steers(r, "queued", "executing")
  BY <1>3, <1>6, ClaimSteers
<1>8. last[r] \in 1..MaxTasks
  <2>1. RunTally(r) /\ Phase(r) = "queued"
    BY <1>7 DEF Tally, Steers
  <2>2. last[r] > 0
    BY <2>1 DEF RunTally
  <2>3. QED BY <2>2 DEF TypeInv, DataOK
<1>9. /\ \A x \in Run : x # r => task'[x] = task[x]
      /\ task'[r][last[r]] = "started"
  BY <1>2, <1>3, <1>8, RecordSet
<1>10. Owns("envelope", e, r)
  BY <1>3 DEF Owns
<1>11. Concerns(p, f, {r})
  <2>1. \A x \in Run : x # r => Still(x) /\ Same(x)
    BY <1>1, <1>7, <1>9 DEF Steers, Same
  <2>2. last[r] <= last'[r]
    BY <1>1, <1>8
  <2>3. QED BY <1>1, <1>5, <1>10, <2>1, <2>2, HolderConcerns
<1>12. RunTally(r)'
  BY <1>1, <1>7, <1>8 DEF Steers, RunTally
<1>13. FrameTally(f)'
  BY <1>1, <1>3, <1>5, <1>9 DEF FrameTally
<1>14. QED BY <1>1, <1>11, <1>12, <1>13, TallyMoves

LEMMA AskTallies ==
  ASSUME Mapped, Tally, NEW p \in Worker, SettleInterrupt(p)
  PROVE  Tally'
<1> USE DEF Mapped, Sound
<1>1. PICK f : \E r \in Run, k \in 1..MaxHitl : Asks(p, f, r, k)
  BY SettleAsks
<1>2. PICK r \in Run, k \in 1..MaxHitl : Asks(p, f, r, k)
  BY <1>1
<1>3. /\ p \in Proc /\ at[p].pc = "settle" /\ r = at[p].job.run
      /\ UNCHANGED <<parent, row, last, cp, depth>>
      /\ SetTask(p, "success") /\ at[p].stop <= Len(Script(r))
  BY <1>2 DEF SettleInterrupt, HoldsTask, Proc, Asks
<1>4. Steers(r, "executing", "parked")
  BY <1>2, AskSteers
<1>5. last[r] > 0 /\ last[r] \in Nat
  BY <1>3, KnownRun DEF TypeInv, DataOK
<1>6. at[p].rec = last[r] /\ at[p].stop = cp[r]
  BY <1>3 DEF Tally, FrameTally, Executive
<1>7. /\ \A x \in Run : x # r => task'[x] = task[x]
      /\ task'[r][last[r]] = "success"
  BY <1>3, <1>5, <1>6, RecordClosed
<1>8. Concerns(p, f, {r})
  <2>1. \A x \in Run : x # r => Still(x) /\ Same(x)
    BY <1>3, <1>4, <1>7 DEF Steers, Same
  <2>2. last[r] <= last'[r]
    BY <1>3, <1>5
  <2>3. Owns("process", p, r)
    BY <1>3 DEF Owns, Carries, Driving
  <2>4. \A x \in Run, j \in 1..MaxHitl :
          hitl[x][j].status = "rejected" => hitl'[x][j] = hitl[x][j]
    BY <1>2 DEF Asks
  <2>5. QED BY <1>2, <1>3, <2>1, <2>2, <2>3, <2>4, HolderConcerns DEF Asks
<1>9. RunTally(r)'
  <2>1. ~Through(r)'
    <3>1. cp[r] \in Nat /\ Len(Script(r)) \in Nat
      BY ScriptAssumption DEF Script, TypeInv, DataOK
    <3>2. QED BY <1>3, <1>6, <3>1 DEF Through, Script
  <2>2. QED BY <1>3, <1>4, <1>5, <1>7, <2>1 DEF Steers, RunTally
<1>10. FrameTally(f)'
  BY <1>2 DEF Asks, FrameTally, Executive
<1>11. QED BY <1>3, <1>8, <1>9, <1>10, TallyMoves

LEMMA NewRecord ==
  ASSUME TypeInv, NEW r \in Run, NEW kind, EnqueueResume(r, kind, TRUE)
  PROVE  /\ last'[r] = last[r] + 1 /\ last'[r] \in 1..MaxTasks
         /\ task'[r][last'[r]] = "queued"
         /\ \A x \in Run : x # r => last'[x] = last[x] /\ task'[x] = task[x]
<1>1. last \in [Run -> 0..MaxTasks]
  BY DEF TypeInv, DataOK
<1>2. last' = [last EXCEPT ![r] = last[r] + 1] /\ last[r] + 1 <= MaxTasks
  BY DEF EnqueueResume
<1>3. Marks(r, last[r] + 1, "queued")
  BY DEF EnqueueResume, Marks
<1>4. /\ \A x \in Run : x # r => task'[x] = task[x]
      /\ \A m \in 1..MaxTasks : task'[r][m] = IF m = last[r] + 1 THEN "queued" ELSE task[r][m]
  BY <1>3, RecordSet
<1>5. last[r] \in Nat /\ MaxTasks \in Nat
  BY <1>1, BoundAssumption
<1>6. last'[r] = last[r] + 1 /\ \A x \in Run : x # r => last'[x] = last[x]
  BY <1>1, <1>2
<1>7. last'[r] \in 1..MaxTasks
  BY <1>2, <1>5, <1>6
<1>8. QED BY <1>4, <1>6, <1>7

(* A run that gets a new envelope was not at its end.                      *)
LEMMA RenewedTally ==
  ASSUME TypeInv, NEW r \in Run, RunTally(r), NEW kind, EnqueueResume(r, kind, TRUE),
         Phase(r) \in {"queued", "parked"}, Phase(r)' = "queued", UNCHANGED <<cp, depth>>
  PROVE  RunTally(r)'
<1>1. /\ last'[r] = last[r] + 1 /\ last'[r] \in 1..MaxTasks
      /\ task'[r][last'[r]] = "queued"
  BY NewRecord
<1>2. ~Through(r)' /\ last'[r] > 0
  BY <1>1 DEF RunTally, Through, Script
<1>3. QED BY <1>1, <1>2 DEF RunTally

LEMMA HandTallies ==
  ASSUME Mapped, Tally, NEW p \in Client, DispatchStart(p) \/ EnqueueAnswer(p)
  PROVE  Tally'
<1> USE DEF Mapped, Sound
<1>1. PICK f, e : \E r \in Run : Hands(p, f, r, e)
  BY ClientHands
<1>2. PICK r \in Run : Hands(p, f, r, e)
  BY <1>1
<1>3. Steers(r, "queued", "queued")
  BY <1>2, HandSteers
<1>4. /\ p \in Proc /\ p \notin Worker /\ r = at[p].job.run
      /\ UNCHANGED <<parent, row, hitl, cp, depth>>
  BY <1>2, ProcAssumption DEF DispatchStart, EnqueueAnswer, Proc, Hands, rows
<1>5. Owns("process", p, r)
  BY <1>2, <1>4 DEF Hands, Owns, Carries
<1>6. RunTally(r)
  BY DEF Tally
<1>7. CASE UNCHANGED <<last, task>>
  <2>1. \A x \in Run : Same(x)
    BY <1>4, <1>7 DEF Same
  <2>2. last[r] <= last'[r]
    BY <1>7 DEF TypeInv, DataOK
  <2>3. Concerns(p, f, {r})
    BY <1>2, <1>3, <1>4, <1>5, <2>1, <2>2, HolderConcerns DEF Hands, Steers
  <2>4. RunTally(r)'
    BY <1>3, <1>6, <2>1, QuietTally DEF Steers
  <2>5. QED BY <1>4, <2>3, <2>4, TallyMoves
<1>8. CASE EnqueueResume(r, "hitl", TRUE)
  <2>1. /\ last'[r] = last[r] + 1
        /\ \A x \in Run : x # r => last'[x] = last[x] /\ task'[x] = task[x]
    BY <1>8, NewRecord
  <2>2. \A x \in Run : x # r => Still(x) /\ Same(x)
    BY <1>3, <1>4, <2>1 DEF Same, Steers
  <2>3. last[r] <= last'[r]
    BY <2>1 DEF TypeInv, DataOK
  <2>4. Concerns(p, f, {r})
    BY <1>2, <1>4, <1>5, <2>2, <2>3, HolderConcerns DEF Hands
  <2>5. RunTally(r)'
    BY <1>3, <1>4, <1>6, <1>8, RenewedTally DEF Steers
  <2>6. QED BY <1>4, <2>4, <2>5, TallyMoves
<1>9. QED BY <1>4, <1>7, <1>8 DEF DispatchStart, EnqueueAnswer, rows

LEMMA ReadTallies ==
  ASSUME Mapped, Tally, NEW p \in Client, DecideRead(p)
  PROVE  Tally'
<1> USE DEF Mapped, Sound
<1>1. PICK f : Reads(p, f)
  BY DecideReads
<1>2. p \in Proc /\ p \notin Worker /\ UNCHANGED <<parent, row, hitl, cp, depth, last, task>>
  BY ProcAssumption DEF DecideRead, Proc, rows
<1>3. PICK r \in Run, k \in 1..MaxHitl : hitl[r][k].status = "pending"
  BY <1>1 DEF Reads
<1>4. \A x \in Run : Still(x) /\ Same(x)
  BY <1>1, <1>2, ReadSteers DEF Same
<1>5. Owns("question", k, r)
  BY <1>3 DEF Owns, Asked
<1>6. last[r] <= last'[r]
  BY <1>2 DEF TypeInv, DataOK
<1>7. Concerns(p, f, {r})
  BY <1>1, <1>2, <1>4, <1>5, <1>6, HolderConcerns DEF Reads
<1>8. RunTally(r)'
  <2>1. Phase(r) = "parked"
    BY <1>3 DEF SeenOf, AwaitsHuman
  <2>2. RunTally(r) /\ Phase(r)' = Phase(r) /\ Same(r)
    BY <1>4 DEF Tally, Still
  <2>3. QED BY <2>1, <2>2, QuietTally
<1>9. QED BY <1>2, <1>7, <1>8, TallyMoves

(* The answer is on its way, or the run is rejected.                       *)
LEMMA DecideTallies ==
  ASSUME Mapped, Tally, NEW p \in Client, DecideWrite(p)
  PROVE  Tally'
<1> USE DEF Mapped, Sound
<1>1. PICK f : \E r \in Run, k \in 1..MaxHitl : Decides(p, f, r, k)
  BY ClientDecides
<1>2. PICK r \in Run, k \in 1..MaxHitl : Decides(p, f, r, k)
  BY <1>1
<1>3. /\ p \in Proc /\ p \notin Worker /\ r = at[p].job.run /\ k = at[p].job.n
      /\ UNCHANGED <<parent, row, cp, depth, last, task>>
  BY <1>2, ProcAssumption DEF DecideWrite, Proc, Decides, Deciding
<1>4. Steers(r, "parked", IF f.pc = "idle" THEN "settled" ELSE "queued")
  BY <1>2, DecisionSteers
<1>5. hitl[r][k].status = "pending"
  BY <1>2 DEF Decides, Deciding, Healthy, Agreed
<1>6. \A x \in Run : Same(x)
  BY <1>3 DEF Same
<1>7. Concerns(p, f, {r})
  <2>1. \A x \in Run : x # r => Still(x)
    BY <1>4 DEF Steers
  <2>2. Owns("question", k, r)
    BY <1>5 DEF Owns, Asked
  <2>3. last[r] <= last'[r]
    BY <1>3 DEF TypeInv, DataOK
  <2>4. \A x \in Run, j \in 1..MaxHitl :
          hitl[x][j].status = "rejected" => hitl'[x][j] = hitl[x][j]
    BY <1>2, <1>5 DEF Decides
  <2>5. QED BY <1>2, <1>3, <1>6, <2>1, <2>2, <2>3, <2>4, HolderConcerns DEF Decides
<1>8. RunTally(r)
  BY DEF Tally
<1>9. CASE f.pc # "idle"
  <2>1. RunTally(r)'
    BY <1>4, <1>6, <1>8, <1>9, QuietTally DEF Steers
  <2>2. QED BY <1>3, <1>7, <2>1, TallyMoves
<1>10. CASE f.pc = "idle"
  <2>1. EndsRun(hitl[r][k], at[p].job.kind)
    <3>1. ~Goto(p, "resuming")
      <4>1. at[p] \in Frame /\ "resuming" \in Pc
        BY <1>3 DEF TypeInv, FramesOK, Pc
      <4>2. At(at[p], "resuming").pc = "resuming"
        BY <4>1, AtFrame
      <4>3. QED BY <1>2, <1>3, <1>10, <4>2, OneFrame DEF Decides, Goto
    <3>2. QED BY <1>3, <3>1 DEF DecideWrite
  <2>2. hitl' = [hitl EXCEPT ![r][k].status = "rejected"]
    BY <1>3, <2>1 DEF DecideWrite, EndsRun
  <2>3. hitl'[r][k] = [hitl[r][k] EXCEPT !.status = "rejected"] /\ hitl[r][k] \in HitlRow
    <3>1. hitl \in [Run -> [1..MaxHitl -> HitlRow]]
      BY DEF TypeInv, DataOK
    <3>2. hitl[r] \in [1..MaxHitl -> HitlRow]
      BY <3>1
    <3>3. QED BY <2>2, <3>1, <3>2
  <2>4. Rejected(r)'
    <3>1. hitl'[r][k].status = "rejected" /\ hitl'[r][k].onReject # "route"
      BY <2>1, <2>3 DEF EndsRun, HitlRow
    <3>2. QED BY <3>1 DEF Rejected
  <2>5. last'[r] > 0
    BY <1>3, <1>4, <1>8 DEF RunTally, Steers
  <2>6. RunTally(r)'
    BY <1>4, <1>10, <2>4, <2>5 DEF RunTally, Steers
  <2>7. QED BY <1>3, <1>7, <2>6, TallyMoves
<1>11. QED BY <1>9, <1>10

LEMMA DispatchTallies ==
  ASSUME Mapped, Tally, NEW p \in Worker, DispatchChild(p)
  PROVE  Tally'
<1> USE DEF Mapped, Sound
<1>1. PICK f, e : \E r, c \in Run : Dispatches(p, f, r, c, e)
  BY WorkerDispatches
<1>2. PICK r \in Run, c \in Run : Dispatches(p, f, r, c, e)
  BY <1>1
<1>3. /\ p \in Proc /\ at[p] \in Frame /\ at[p].pc = "spawned" /\ r = at[p].job.run
      /\ at[p].todo = {c} /\ parent[c] = r
      /\ UNCHANGED <<parent, row, hitl, cp, depth, last, task>>
  BY <1>2, CarriedRun DEF DispatchChild, Proc, Dispatches, rows, Spawned
<1>4. Steers(c, "queued", "queued")
  BY <1>2, DispatchSteers
<1>5. \A x \in Run : Same(x)
  BY <1>3 DEF Same
<1>6. Owns("process", p, c)
  BY <1>3 DEF Owns, Carries
<1>7. Concerns(p, f, {c})
  <2>1. last[c] <= last'[c]
    BY <1>3 DEF TypeInv, DataOK
  <2>2. QED BY <1>2, <1>3, <1>4, <1>5, <1>6, <2>1, HolderConcerns DEF Steers, Dispatches
<1>8. RunTally(c)'
  BY <1>4, <1>5, QuietTally DEF Steers, Tally
<1>9. f.pc = "mark" /\ f.job = at[p].job /\ f.rec = at[p].rec
  <2>1. f = Carrying(at[p], "mark", {})
    BY <1>2, <1>3, OneFrame DEF Dispatches, DispatchChild
  <2>2. QED BY <1>2, <1>3, <2>1, RestOfFrame DEF Dispatches
<1>10. at[p].rec = last[r] /\ row[c] = "pending"
  BY <1>3 DEF Tally, FrameTally
<1>11. ~Unsent(c)'
  <2>1. SUFFICES ASSUME NEW q \in Worker, at'[q].pc = "spawned", c \in at'[q].todo PROVE FALSE
    BY DEF Unsent
  <2>2. at'[q] = IF q = p THEN f ELSE at[q]
    BY <1>2, <1>3, Moved DEF Dispatches, Proc
  <2>3. q # p /\ Owns("process", q, c)
    BY <1>9, <2>1, <2>2 DEF Owns, Carries, Proc
  <2>4. QED BY <1>6, <2>3 DEF Threads, Unique, Holds
<1>12. Awaited(r)'
  BY <1>3, <1>10, <1>11 DEF Awaited, Pressing
<1>13. FrameTally(f)'
  <2>1. last[r] \in Nat
    BY DEF TypeInv, DataOK
  <2>2. QED BY <1>3, <1>9, <1>10, <1>12, <2>1 DEF FrameTally, Executive
<1>14. QED BY <1>3, <1>7, <1>8, <1>13, TallyMoves

(* The child's row is closed; its parent's envelope is on the way.         *)
LEMMA ResolveTallies ==
  ASSUME Mapped, Tally, NEW p \in Worker, TellWrite(p)
  PROVE  Tally'
<1> USE DEF Mapped, Sound
<1>1. PICK f : \E c \in Run : Resolves(p, f, c)
  BY TellResolves
<1>2. PICK c \in Run : Resolves(p, f, c)
  BY <1>1
<1>3. /\ p \in Proc /\ at[p].pc = "tellw" /\ c = at[p].job.run /\ Step(p, f)
      /\ f.pc = "wake" /\ f.job = at[p].job
      /\ UNCHANGED <<parent, hitl, cp, depth, last, task>>
  BY <1>2 DEF TellWrite, Proc, Resolves
<1>4. PICK s \in Run :
         /\ s = parent[c] /\ Vacant(s) /\ ~Unsent(c)
         /\ Phase(s) = "parked" /\ Phase(s)' = "queued"
         /\ \A x \in Run : x # s => Still(x)
  BY <1>2, ResolutionSteers
<1>5. row'[c] = "resumed" /\ \A d \in Run : d # c => row'[d] = row[d]
  BY <1>2 DEF Resolves, TypeInv, DataOK
<1>6. \A q \in Proc : at'[q] = IF q = p THEN f ELSE at[q]
  BY <1>3, Moved
<1>7. \A x \in Run : Same(x)
  BY <1>3 DEF Same
<1>8. \A x \in Run : Awaited(x) => Awaited(x)'
  <2>1. \A d \in Run : Pressing(d) => Pressing(d)'
    BY <1>3, <1>5, <1>6 DEF Pressing, Reporting, Proc
  <2>2. \A d \in Run : Unsent(d)' => Unsent(d)
    BY <1>3, <1>6 DEF Unsent, Proc
  <2>3. QED BY <1>3, <2>1, <2>2, AwaitedStays
<1>9. Concerns(p, f, {s})
  <2>1. \A q \in Worker : q # p /\ at[q].pc \in Executive \cup {"spawned"} => at[q].job.run # s
    BY <1>4, ElseNobody
  <2>2. last[s] <= last'[s]
    BY <1>3 DEF TypeInv, DataOK
  <2>3. \A x \in Run : row'[x] = "pending" => row[x] = "pending"
    BY <1>5
  <2>4. \A d \in Run : Unsent(d) /\ row[d] = "pending" => row'[d] = "pending"
    BY <1>4, <1>5
  <2>5. \A d \in Run : Teller(p, d) => row'[d] # "pending"
    BY <1>3, <1>5 DEF Teller
  <2>6. QED BY <1>3, <1>4, <1>7, <1>8, <2>1, <2>2, <2>3, <2>4, <2>5 DEF Concerns
<1>10. RunTally(s)'
  BY <1>4, <1>7, QuietTally DEF Tally
<1>11. FrameTally(f)'
  BY <1>3 DEF FrameTally, Executive
<1>12. QED BY <1>3, <1>9, <1>10, <1>11, TallyMoves

LEMMA WakeTallies ==
  ASSUME Mapped, Tally, NEW p \in Worker, WakeParent(p)
  PROVE  Tally'
<1> USE DEF Mapped, Sound
<1>1. PICK f, e : \E c, s \in Run : Wakes(p, f, c, s, e)
  BY WorkerWakes
<1>2. PICK c \in Run, s \in Run : Wakes(p, f, c, s, e)
  BY <1>1
<1>3. /\ p \in Proc /\ at[p].pc = "wake" /\ c = at[p].job.run /\ s = parent[c] /\ Step(p, f)
      /\ f.pc = "flush" /\ UNCHANGED <<parent, row, hitl, cp, depth>>
      /\ EnqueueResume(s, "child", TRUE)
  BY <1>2 DEF WakeParent, Proc, Wakes
<1>4. Steers(s, "queued", "queued")
  BY <1>2, WakeSteers
<1>5. \A q \in Proc : at'[q] = IF q = p THEN f ELSE at[q]
  BY <1>3, Moved
<1>6. /\ last'[s] = last[s] + 1
      /\ \A x \in Run : x # s => last'[x] = last[x] /\ task'[x] = task[x]
  BY <1>3, NewRecord
<1>7. last[s] <= last'[s] /\ last[s] < last'[s]
  BY <1>6 DEF TypeInv, DataOK
<1>8. Vacant(s)
  <2>1. Pressing(c)
    BY <1>3 DEF Pressing, Reporting
  <2>2. SUFFICES ASSUME NEW q \in Worker, at[q].pc = "spawned", c \in at[q].todo PROVE FALSE
    BY <1>3, <2>1 DEF Unsent, Healthy, Waits
  <2>3. Owns("process", q, c) /\ Owns("process", p, c)
    BY <1>3, <2>2 DEF Owns, Carries, Driving, Proc
  <2>4. QED BY <1>3, <2>2, <2>3 DEF Threads, Unique, Holds
<1>9. ASSUME NEW x \in Run, x # s, Awaited(x) PROVE Awaited(x)'
  <2>1. PICK d \in Run : parent[d] = x /\ Pressing(d) /\ ~Unsent(d)
    BY <1>9 DEF Awaited
  <2>2. d # c
    BY <1>3, <1>9, <2>1
  <2>3. Pressing(d)'
    BY <1>3, <1>5, <2>1, <2>2 DEF Pressing, Reporting, Proc
  <2>4. ~Unsent(d)'
    BY <1>3, <1>5, <2>1 DEF Unsent, Proc
  <2>5. QED BY <1>3, <2>1, <2>3, <2>4 DEF Awaited
<1>10. Concerns(p, f, {s})
  <2>1. \A q \in Worker : q # p /\ at[q].pc \in Executive \cup {"spawned"} => at[q].job.run # s
    BY <1>8, ElseNobody
  <2>2. \A x \in Run : x # s => Still(x) /\ Same(x)
    BY <1>3, <1>4, <1>6 DEF Steers, Same
  <2>3. QED BY <1>3, <1>7, <1>9, <2>1, <2>2 DEF Concerns, Teller
<1>11. RunTally(s)'
  BY <1>3, <1>4, RenewedTally DEF Tally, Steers
<1>12. FrameTally(f)'
  BY <1>3 DEF FrameTally, Executive
<1>13. QED BY <1>3, <1>10, <1>11, <1>12, TallyMoves

(* The tables of a new run.                                                *)
Enters(c) ==
  /\ \A x \in Run : x # c => Same(x)
  /\ cp'[c] = cp[c] /\ depth'[c] \in 1..Len(Scripts)
  /\ last'[c] = 1 /\ task'[c][1] = "queued"

LEMMA CreatedEnters ==
  ASSUME TypeInv, NEW c \in Run, NEW par, NEW d \in 1..Len(Scripts), NEW rowStatus, NEW message,
         CreateRun(c, par, d, rowStatus, message), UNCHANGED cp
  PROVE  Enters(c)
<1>1. Marks(c, 1, "queued")
  BY DEF CreateRun, Marks
<1>2. 1 \in 1..MaxTasks
  BY BoundAssumption
<1>3. /\ \A x \in Run : x # c => task'[x] = task[x]
      /\ \A m \in 1..MaxTasks : task'[c][m] = IF m = 1 THEN "queued" ELSE task[c][m]
  BY <1>1, RecordSet
<1>4. /\ depth'[c] = d /\ last'[c] = 1
      /\ \A x \in Run : x # c => depth'[x] = depth[x] /\ last'[x] = last[x]
  BY DEF CreateRun, TypeInv, DataOK
<1>5. QED BY <1>2, <1>3, <1>4 DEF Enters, Same

LEMMA BeginConcerns ==
  ASSUME Mapped, Tally, NEW p \in Proc, NEW f, NEW par, NEW c \in Run, Begins(p, f, c, par),
         Enters(c)
  PROVE  /\ Concerns(p, f, {c, par} \cap Run)
         /\ RunTally(c)'
<1> USE DEF Mapped, Sound
<1>1. /\ ~Pressing(c) /\ Vacant(c) /\ par # c
      /\ \A d \in Run : parent[d] # c /\ (d # c => parent'[d] = parent[d])
      /\ row[c] = "none"
  BY BeginningIsNew
<1>2. /\ Phase(c) = "absent" /\ Phase(c)' = "queued"
      /\ \A x \in Run : x # c /\ x # par => Still(x)
  BY BeginningSteers DEF Steers
<1>3. cp[c] = 0 /\ last[c] = 0
  BY <1>2 DEF Tally, RunTally
<1>4. \A q \in Proc : at'[q] = IF q = p THEN f ELSE at[q]
  BY Moved DEF Begins
<1>5. /\ at[p].pc \in {"idle", "spawn"} /\ f.pc \in {"starting", "spawned"}
      /\ f.pc = "spawned" => f.todo = {c}
      /\ \A d \in Run : d # c => row'[d] = row[d]
  BY DEF Begins, Submits, Spawns
<1>6. \A x \in Run : Awaited(x) => Awaited(x)'
  <2>1. SUFFICES ASSUME NEW x \in Run, NEW d \in Run, parent[d] = x, Pressing(d), ~Unsent(d)
                 PROVE  Awaited(x)'
    BY DEF Awaited
  <2>2. d # c
    BY <1>1, <2>1
  <2>3. Pressing(d)'
    BY <1>4, <1>5, <2>1, <2>2 DEF Pressing, Reporting, Proc
  <2>4. ~Unsent(d)'
    BY <1>4, <1>5, <2>1, <2>2 DEF Unsent, Proc
  <2>5. QED BY <1>1, <2>1, <2>2, <2>3, <2>4 DEF Awaited
<1>7. \A x \in {c, par} \cap Run : last[x] <= last'[x]
  <2>1. last[c] <= last'[c]
    BY <1>3 DEF Enters
  <2>2. par \in Run => last[par] <= last'[par]
    BY <1>1 DEF Enters, Same, TypeInv, DataOK
  <2>3. QED BY <2>1, <2>2
<1>8. ASSUME NEW q \in Worker, q # p, at[q].pc \in Executive \cup {"spawned"}
      PROVE  at[q].job.run \notin {c, par} \cap Run
  <2>1. at[q].job.run # c
    BY <1>1, <1>8, ElseNobody
  <2>2. par \in Run => at[q].job.run # par
    <3>1. SUFFICES ASSUME par \in Run PROVE at[q].job.run # par
      OBVIOUS
    <3>2. Owns("process", p, par)
      BY <3>1, RunAssumption DEF Begins, Submits, Spawns, Owns, Carries, Driving
    <3>3. QED BY <1>8, <3>1, <3>2, ElseNobody
  <2>3. QED BY <2>1, <2>2
<1>9. Concerns(p, f, {c, par} \cap Run)
  <2>1. \A x \in Run \ ({c, par} \cap Run) :
          Still(x) /\ Same(x) /\ (row'[x] = "pending" => row[x] = "pending")
    BY <1>2, <1>5 DEF Enters
  <2>2. \A d \in Run : Unsent(d) /\ row[d] = "pending" => row'[d] = "pending"
    BY <1>1, <1>5
  <2>3. QED BY <1>5, <1>6, <1>7, <1>8, <2>1, <2>2 DEF Concerns, Begins, Teller
<1>10. RunTally(c)'
  <2>1. Len(Script(c))' \in Nat
    BY ScriptAssumption DEF Script, Enters
  <2>2. ~Through(c)'
    BY <1>3, <2>1 DEF Through, Enters
  <2>3. QED BY <1>2, <2>2 DEF RunTally, Enters
<1>11. QED BY <1>9, <1>10

LEMMA SubmitTallies ==
  ASSUME Mapped, Tally, NEW p \in Client, Submit(p)
  PROVE  Tally'
<1> USE DEF Mapped, Sound
<1>1. PICK f, par : \E c \in Run : Begins(p, f, c, par)
  BY SubmitBegins
<1>2. PICK c \in Run : Begins(p, f, c, par)
  BY <1>1
<1>3. p \in Proc /\ p \notin Worker
  BY ProcAssumption DEF Proc
<1>4. par = NoRun /\ f.job.run = c
  BY <1>2, <1>3 DEF Begins, Submits, Spawns
<1>5. PICK d \in Run :
         /\ CreateRun(d, NoRun, 1, "none", "streaming")
         /\ Step(p, FrameFor("starting", StartEnvelope(d), "none", {}, {}))
  BY DEF Submit
<1>6. d = c
  <2>1. f = FrameFor("starting", StartEnvelope(d), "none", {}, {})
    BY <1>2, <1>3, <1>5, OneFrame DEF Begins
  <2>2. QED BY <1>4, <2>1 DEF FrameFor, StartEnvelope
<1>7. Enters(c)
  <2>1. 1 \in 1..Len(Scripts) /\ UNCHANGED cp
    BY ScriptAssumption DEF Submit
  <2>2. QED BY <1>5, <1>6, <2>1, CreatedEnters
<1>8. Concerns(p, f, {c, par} \cap Run) /\ RunTally(c)'
  BY <1>2, <1>3, <1>7, BeginConcerns
<1>9. {c, par} \cap Run = {c}
  BY <1>4, RunAssumption
<1>10. QED BY <1>3, <1>8, <1>9, TallyMoves

(* A worker parks its run on the child it spawns.                          *)
LEMMA SpawnTallies ==
  ASSUME Mapped, Tally, NEW p \in Worker, SpawnChild(p)
  PROVE  Tally'
<1> USE DEF Mapped, Sound
<1>1. PICK f, par : \E c \in Run : Begins(p, f, c, par)
  BY SpawnBegins
<1>2. PICK c \in Run : Begins(p, f, c, par)
  BY <1>1
<1>3. p \in Proc /\ p \notin Client
  BY ProcAssumption DEF Proc
<1>4. PICK r \in Run : r = par
  BY <1>2, <1>3 DEF Begins, Submits, Spawns
<1>5. /\ at[p].pc = "spawn" /\ at[p].job.run = r /\ row'[c] = "pending"
      /\ f.pc = "spawned" /\ f.job = at[p].job /\ f.todo = {c}
  BY <1>2, <1>3, <1>4 DEF Begins, Submits, Spawns
<1>6. PICK d \in Run :
         /\ CreateRun(d, r, depth[r] + 1, "pending", "none")
         /\ Step(p, Carrying(at[p], "spawned", {d}))
  BY <1>5 DEF SpawnChild
<1>7. at[p] \in Frame
  BY <1>5, CarriedRun
<1>8. d = c /\ f.rec = at[p].rec
  <2>1. f = Carrying(at[p], "spawned", {d})
    BY <1>2, <1>3, <1>6, OneFrame DEF Begins
  <2>2. f.todo = {d} /\ f.rec = at[p].rec
    BY <1>7, <2>1, RestOfFrame
  <2>3. QED BY <1>5, <2>2
<1>9. Enters(c)
  <2>1. depth[r] < Len(Scripts) /\ UNCHANGED cp
    BY <1>5 DEF SpawnChild
  <2>2. depth[r] \in 1..Len(Scripts)
    BY DEF TypeInv, DataOK
  <2>3. Len(Scripts) \in Nat
    BY ScriptAssumption
  <2>4. depth[r] + 1 \in 1..Len(Scripts)
    BY <2>1, <2>2, <2>3
  <2>5. QED BY <1>6, <1>8, <2>1, <2>4, CreatedEnters
<1>10. Concerns(p, f, {c, r}) /\ RunTally(c)'
  <2>1. {c, par} \cap Run = {c, r}
    BY <1>4
  <2>2. QED BY <1>2, <1>3, <1>9, <2>1, BeginConcerns
<1>11. r # c /\ Phase(r)' = "parked"
  BY <1>2, <1>3, <1>4, BeginningSteers, RunAssumption DEF Submits
<1>12. last[r] > 0 /\ at[p].rec = last[r] /\ task[r][last[r]] = "started" /\ ~Through(r)
  <2>1. cp[r] \in Nat /\ Len(Script(r)) \in Nat
    BY ScriptLength
  <2>2. AtSubgraph(r, cp[r])
    BY <1>5 DEF Tally, FrameTally
  <2>3. ~Through(r)
    BY <2>1, <2>2 DEF AtSubgraph, Through
  <2>4. QED BY <1>5, <2>3, KnownRun DEF Tally, FrameTally, Executive
<1>13. Same(r)
  BY <1>9, <1>11 DEF Enters
<1>14. RunTally(r)'
  BY <1>11, <1>12, <1>13 DEF RunTally, Same, Through, Script
<1>15. FrameTally(f)'
  BY <1>5, <1>8, <1>12, <1>13 DEF FrameTally, Same, Executive
<1>16. QED BY <1>3, <1>10, <1>14, <1>15, TallyMoves

LEMMA NextTallies ==
  ASSUME Mapped, Tally, Next, seen' = {}
  PROVE  Tally'
<1>1. ASSUME NEW kind, Spend(kind) PROVE FALSE
  BY <1>1 DEF Spend
<1>2. ~Fault
  BY <1>1 DEF Fault, CrashWorker, KillAtTimeLimit, FlushFails, CrashClient,
              SendFails, CrashEager, ExpireHitl
<1>3. Calm
  BY DEF Mapped, Sound, Healthy
<1>4. ASSUME NEW p \in Worker, WorkerStep(p) PROVE Tally'
  <2>1. CASE RunGraph(p) \/ InlineResume(p) \/ GraphRaises(p) \/ SpawnRefused(p)
    BY <2>1, GraphTallies, RaiseTallies
  <2>2. CASE MarkRead(p) \/ MarkWrite(p) \/ Flush(p)
    BY <2>2, MarkTallies, LeaveTallies
  <2>3. CASE SettleCompleted(p) \/ FailRun(p) \/ SettleInterrupt(p)
    BY <2>3, SettleTallies, AskTallies
  <2>4. CASE Claim(p) \/ SpawnChild(p) \/ DispatchChild(p)
    BY <2>4, ClaimTallies, SpawnTallies, DispatchTallies
  <2>5. QED BY <1>4, <2>1, <2>2, <2>3, <2>4 DEF WorkerStep
<1>5. ASSUME NEW p \in Client, ClientStep(p) PROVE Tally'
  <2>1. ~(TimeOutChild(p) \/ Cascade(p) \/ CascadeDone(p))
    BY <1>3 DEF Calm, CalmPc, TimeOutChild, Cascade, CascadeDone
  <2>2. QED BY <1>5, <2>1, HandTallies, DecideTallies DEF ClientStep
<1>6. ASSUME NEW p \in Client, Call(p) PROVE Tally'
  <2>1. ~(Cancel(p) \/ ScanTimeouts(p))
    BY <1>1 DEF Cancel, ScanTimeouts
  <2>2. QED BY <1>6, <2>1, SubmitTallies, ReadTallies DEF Call
<1>7. ASSUME NEW p \in Proc, TellStep(p) PROVE Tally'
  <2>1. p \in Worker
    BY <1>3, <1>7 DEF Calm, CalmPc, TellStep, TellRead, TellWrite, WakeParent, Proc
  <2>2. QED BY <1>7, <2>1, LeaveTallies, ResolveTallies, WakeTallies DEF TellStep
<1>8. QED BY <1>2, <1>4, <1>5, <1>6, <1>7 DEF Next

LEMMA StutterTallies == ASSUME Tally, UNCHANGED vars PROVE Tally'
<1> USE DEF vars
<1>1. ASSUME NEW r \in Run PROVE RunTally(r)'
  <2>1. Still(r) /\ (Rejected(r)' <=> Rejected(r)) /\ (Over(r)' <=> Over(r))
    BY StutterIsStill DEF Rejected, Over, Through, Script
  <2>2. RunTally(r)
    BY DEF Tally
  <2>3. QED BY <2>1, <2>2 DEF RunTally, Still, Through, Script, Teller
<1>2. ASSUME NEW p \in Worker PROVE FrameTally(at[p])'
  <2>1. \A x \in Run : Awaited(x)' <=> Awaited(x)
    BY DEF Awaited, Pressing, Reporting, Unsent
  <2>2. FrameTally(at[p])
    BY DEF Tally
  <2>3. QED BY <2>1, <2>2 DEF FrameTally, AtSubgraph, AfterSubgraph, Script, Awaited, Pressing,
                             Reporting, Unsent
<1>3. QED BY <1>1, <1>2 DEF Tally

LEMMA NextTally ==
  TypeInv /\ TypeInv' /\ ThreadInv /\ ThreadInv' /\ HealthInv /\ HealthInv' /\ WriterInv
    /\ WriterInv' /\ TallyInv /\ [Next]_vars => TallyInv'
<1> SUFFICES ASSUME TypeInv, TypeInv', ThreadInv, ThreadInv', HealthInv, HealthInv',
                    WriterInv, WriterInv', TallyInv, [Next]_vars, seen' = {}
             PROVE  Tally'
  BY DEF TallyInv
<1>1. seen = {} /\ Mapped
  BY HealthyStepIsMapped
<1>2. Tally
  BY <1>1 DEF TallyInv
<1>3. QED BY <1>1, <1>2, NextTallies, StutterTallies

LEMMA FirstTallies == Init => TallyInv
<1> SUFFICES ASSUME Init PROVE Tally
  BY DEF TallyInv
<1>1. ASSUME NEW r \in Run PROVE RunTally(r)
  <2>1. Phase(r) = "absent" /\ cp[r] = 0 /\ last[r] = 0
    BY NothingIsSeen DEF Init
  <2>2. QED BY <2>1 DEF RunTally
<1>2. ASSUME NEW p \in Worker PROVE FrameTally(at[p])
  <2>1. at[p].pc = "idle"
    BY DEF Init, IdleFrame, FrameFor, Proc
  <2>2. QED BY <2>1 DEF FrameTally, Executive
<1>3. QED BY <1>1, <1>2 DEF Tally

LEMMA TallyInvariant == Spec => []TallyInv
BY FirstTallies, NextTally, TypeInvariant, ThreadInvariant, HealthInvariant, WriterInvariant, PTL
   DEF Spec

LEMMA TalliedIsAwake ==
  ASSUME Sound, Tally, NEW r \in Run, run[r] # "absent", ~Settled(r),
         \A c \in Run : row[c] = "pending" => ~Rejected(c)
  PROVE  \/ Queued(r) \/ AwaitsHuman(r)
         \/ \E p \in Proc : Sending(p, r)
         \/ \E p \in Worker : at[p].job.run = r /\ at[p].pc \notin {"idle", "flush"}
         \/ \E c \in Kids(r) :
              ~Settled(c) \/ \E p \in Proc : at[p].job.run = c /\ at[p].pc \in {"tell", "tellw"}
<1> USE DEF Sound
<1>1. RunTally(r)
  BY DEF Tally
<1>2. Phase(r) # "settled"
  BY <1>1 DEF RunTally, Over, Settled, Rejected, Through
<1>3. CASE Phase(r) = "executing"
  <2>1. Executing(r)
    BY <1>3, PhasesMean
  <2>2. QED BY <2>1 DEF Executing, Working
<1>4. CASE Phase(r) = "parked" /\ ~AwaitsHuman(r)
  <2>1. PICK c \in Kids(r) : TRUE
    BY <1>4, PhasesMean
  <2>2. c \in Run /\ row[c] = "pending" /\ ~Rejected(c) /\ run[c] # "absent"
    BY <2>1 DEF Kids, TypeInv, RowsOK
  <2>3. CASE Settled(c)
    <3>1. Over(c)
      BY <2>2, <2>3 DEF Settled, Over, Through
    <3>2. RunTally(c)
      BY <2>2 DEF Tally
    <3>3. Phase(c) # "executing"
      <4>1. SUFFICES ASSUME NEW p \in Worker, at[p].pc \in Executive, at[p].job.run = c PROVE FALSE
        BY <2>2, PhasesMean DEF Executing, Working, Executive
      <4>2. task[c][last[c]] = "started"
        BY <4>1 DEF Tally, FrameTally
      <4>3. QED BY <3>1, <4>2 DEF Over
    <3>4. Phase(c) = "settled"
      BY <2>2, <3>1, <3>2, <3>3, PhasesMean DEF RunTally, Over
    <3>5. PICK p \in Worker : Teller(p, c)
      BY <2>2, <3>2, <3>4 DEF RunTally
    <3>6. QED BY <3>5 DEF Teller, Proc
  <2>4. QED BY <2>3
<1>5. QED BY <1>2, <1>3, <1>4, PhasesMean

-----------------------------------------------------------------------------
(* Rejections of children                                                  *)

(* No flow that runs as a child ends on a rejection: its HITL nodes route, *)
(* and no subgraph node, whose request would be settled as one that fails, *)
(* follows another.                                                        *)
Forgiving ==
  \A d \in 2..Len(Scripts) : \A k \in 1..Len(Scripts[d]) :
    /\ Scripts[d][k] # "hitl_fail"
    /\ Scripts[d][k] = "sub" => ~(k > 1 /\ Scripts[d][k - 1] = "sub")

(* A child is below the first level, and its requests route.               *)
Routes(r) ==
  /\ row[r] # "none" => depth[r] > 1
  /\ \A k \in 1..MaxHitl : hitl[r][k].status # "absent" =>
       run[r] # "absent" /\ (depth[r] > 1 => hitl[r][k].onReject = "route")
RoutesInv == seen = {} => \A r \in Run : Routes(r)

RunsStay == \A r \in Run : run[r] # "absent" => run'[r] # "absent"
RowlessKept == \A r \in Run : row[r] = "none" => row'[r] = "none"
RequestsKept ==
  \A r \in Run, k \in 1..MaxHitl :
    /\ hitl[r][k].status = "absent" => hitl'[r][k].status = "absent"
    /\ hitl'[r][k].onReject = hitl[r][k].onReject
Ordinary == UNCHANGED depth /\ RowlessKept /\ RunsStay /\ RequestsKept

LEMMA OrdinaryRoutes ==
  ASSUME \A r \in Run : Routes(r), Ordinary
  PROVE  \A r \in Run : Routes(r)'
BY DEF Routes, Ordinary, RowlessKept, RunsStay, RequestsKept

LEMMA SetRunKeeps ==
  ASSUME TypeInv, NEW x, NEW s, s # "absent", SetRun(x, s)
  PROVE  RunsStay
BY DEF SetRun, RunsStay, TypeInv, DataOK

LEMMA SameRunKeeps == UNCHANGED run => RunsStay
BY DEF RunsStay

LEMMA SameRequestsOrdinary ==
  ASSUME UNCHANGED <<depth, hitl>>, RowlessKept, RunsStay
  PROVE  Ordinary
BY DEF Ordinary, RequestsKept

LEMMA WorkIsOrdinary ==
  ASSUME TypeInv, NEW p \in Worker,
         \/ RunGraph(p) \/ InlineResume(p) \/ GraphRaises(p) \/ SpawnRefused(p)
         \/ MarkRead(p) \/ MarkWrite(p) \/ Flush(p) \/ SettleCompleted(p) \/ FailRun(p)
         \/ Claim(p) \/ DispatchChild(p)
  PROVE  Ordinary
<1>1. UNCHANGED <<depth, hitl, row>>
  BY DEF RunGraph, InlineResume, GraphRaises, SpawnRefused, MarkRead, MarkWrite, Flush,
         SettleCompleted, FailRun, Claim, DispatchChild, rows
<1>2. RunsStay
  <2>1. CASE MarkWrite(p)
    BY <2>1, SetRunKeeps DEF MarkWrite
  <2>2. CASE SettleCompleted(p)
    BY <2>2, SetRunKeeps DEF SettleCompleted
  <2>3. CASE FailRun(p)
    BY <2>3, SetRunKeeps DEF FailRun
  <2>4. CASE Claim(p)
    BY <2>4, SetRunKeeps DEF Claim
  <2>5. CASE UNCHANGED run
    BY <2>5, SameRunKeeps
  <2>6. QED
    BY <2>1, <2>2, <2>3, <2>4, <2>5 DEF RunGraph, InlineResume, GraphRaises, SpawnRefused,
       MarkRead, Flush, DispatchChild, rows
<1>3. QED BY <1>1, <1>2, SameRequestsOrdinary DEF RowlessKept

LEMMA TellIsOrdinary ==
  ASSUME TypeInv, Writers, NEW p \in Worker, TellStep(p)
  PROVE  Ordinary
<1>1. UNCHANGED <<depth, hitl, run>>
  BY DEF TellStep, TellRead, TellWrite, WakeParent
<1>2. RowlessKept
  <2>1. CASE TellRead(p)
    BY <2>1 DEF TellRead, RowlessKept, Unreported, TypeInv, DataOK
  <2>2. CASE TellWrite(p)
    BY <2>2 DEF TellWrite, RowlessKept, Writers, TypeInv, DataOK
  <2>3. CASE WakeParent(p)
    BY <2>3 DEF WakeParent, RowlessKept
  <2>4. QED BY <2>1, <2>2, <2>3 DEF TellStep
<1>3. QED BY <1>1, <1>2, SameRunKeeps, SameRequestsOrdinary

LEMMA HandIsOrdinary ==
  ASSUME TypeInv, Healthy, NEW p \in Client,
         DispatchStart(p) \/ EnqueueAnswer(p) \/ DecideRead(p) \/ DecideWrite(p)
  PROVE  Ordinary
<1>1. UNCHANGED <<depth, row>>
  BY DEF DispatchStart, EnqueueAnswer, DecideRead, DecideWrite, rows
<1>2. CASE DispatchStart(p) \/ EnqueueAnswer(p) \/ DecideRead(p)
  <2>1. UNCHANGED <<depth, hitl, run>>
    BY <1>2 DEF DispatchStart, EnqueueAnswer, DecideRead, rows
  <2>2. QED BY <1>1, <2>1, SameRunKeeps, SameRequestsOrdinary DEF RowlessKept
<1>3. CASE DecideWrite(p)
  <2>1. PICK r, n : r = at[p].job.run /\ n = at[p].job.n
    OBVIOUS
  <2>2. RunsStay
    BY <1>3, SetRunKeeps, SameRunKeeps DEF DecideWrite
  <2>3. hitl[r][n].status = "pending"
    BY <1>3, <2>1 DEF DecideWrite, Healthy, Agreed
  <2>4. PICK s : hitl' = [hitl EXCEPT ![r][n].status = s]
    BY <1>3, <2>1 DEF DecideWrite
  <2>5. hitl \in [Run -> [1..MaxHitl -> HitlRow]]
    BY DEF TypeInv, DataOK
  <2>6. RequestsKept
    <3>1. SUFFICES ASSUME NEW x \in Run, NEW k \in 1..MaxHitl
                   PROVE  /\ hitl[x][k].status = "absent" => hitl'[x][k].status = "absent"
                          /\ hitl'[x][k].onReject = hitl[x][k].onReject
      BY DEF RequestsKept
    <3>2. hitl'[x][k] = IF x = r /\ k = n THEN [hitl[x][k] EXCEPT !.status = s] ELSE hitl[x][k]
      BY <2>4, <2>5
    <3>3. hitl[x][k] \in HitlRow
      BY <2>5
    <3>4. QED BY <2>3, <3>2, <3>3 DEF HitlRow
  <2>7. QED BY <1>1, <2>2, <2>6 DEF Ordinary, RowlessKept
<1>4. QED BY <1>2, <1>3

LEMMA CreationRoutes ==
  ASSUME TypeInv, \A r \in Run : Routes(r), UNCHANGED hitl, RunsStay,
         NEW c \in Run, NEW par, NEW d \in Nat, NEW s, NEW m, CreateRun(c, par, d, s, m),
         run[c] = "absent", s # "none" => d > 1
  PROVE  \A r \in Run : Routes(r)'
<1>1. depth' = [depth EXCEPT ![c] = d] /\ row' = [row EXCEPT ![c] = s]
  BY DEF CreateRun
<1>2. ASSUME NEW r \in Run PROVE Routes(r)'
  <2>1. CASE r = c
    <3>1. \A k \in 1..MaxHitl : hitl[r][k].status = "absent"
      BY <2>1 DEF Routes
    <3>2. depth'[r] = d /\ row'[r] = s
      BY <1>1, <2>1 DEF TypeInv, DataOK
    <3>3. QED BY <3>1, <3>2 DEF Routes
  <2>2. CASE r # c
    <3>1. depth'[r] = depth[r] /\ row'[r] = row[r]
      BY <1>1, <2>2 DEF TypeInv, DataOK
    <3>2. QED BY <3>1 DEF Routes, RunsStay
  <2>3. QED BY <2>1, <2>2
<1>3. QED BY <1>2

LEMMA BeginningRoutes ==
  ASSUME TypeInv, \A r \in Run : Routes(r), NEW p \in Proc, Submit(p) \/ SpawnChild(p)
  PROVE  \A r \in Run : Routes(r)'
<1>1. CASE Submit(p)
  <2>1. PICK c \in Run : run[c] = "absent" /\ SetRun(c, "pending")
                         /\ CreateRun(c, NoRun, 1, "none", "streaming")
    BY <1>1 DEF Submit
  <2>2. RunsStay
    BY <2>1, SetRunKeeps
  <2>3. QED BY <1>1, <2>1, <2>2, CreationRoutes DEF Submit
<1>2. CASE SpawnChild(p)
  <2>1. PICK r : r = at[p].job.run
    OBVIOUS
  <2>2. PICK c \in Run : /\ run[c] = "absent"
                         /\ run' = [run EXCEPT ![c] = "pending", ![r] = "waiting_child"]
                         /\ CreateRun(c, r, depth[r] + 1, "pending", "none")
    BY <1>2, <2>1 DEF SpawnChild
  <2>3. RunsStay
    BY <2>2 DEF RunsStay, TypeInv, DataOK
  <2>4. depth[r] + 1 \in Nat /\ depth[r] + 1 > 1
    <3>1. r \in Run
      BY <1>2, <2>1, CarriedRun DEF SpawnChild, HoldsTask
    <3>2. depth[r] \in 1..Len(Scripts)
      BY <3>1 DEF TypeInv, DataOK
    <3>3. QED BY <3>2
  <2>5. QED BY <1>2, <2>2, <2>3, <2>4, CreationRoutes DEF SpawnChild
<1>3. QED BY <1>1, <1>2

(* A child stops for a person at a node that routes.                       *)
LEMMA AskingRoutes ==
  ASSUME TypeInv, Tally, Forgiving, \A r \in Run : Routes(r), NEW p \in Worker, SettleInterrupt(p)
  PROVE  \A r \in Run : Routes(r)'
<1>1. PICK r \in Run : r = at[p].job.run
  BY CarriedRun DEF SettleInterrupt, HoldsTask
<1>2. PICK stop : stop = at[p].stop
  OBVIOUS
<1>3. PICK n \in 1..MaxHitl, policy \in {"fail", "route"} :
         /\ policy = IF Script(r)[stop] = "hitl_route" THEN "route" ELSE "fail"
         /\ hitl' = [hitl EXCEPT ![r][n] = [status |-> "pending", onReject |-> policy]]
  BY <1>1, <1>2 DEF SettleInterrupt
<1>4. SetRun(r, "interrupted") /\ UNCHANGED <<depth, row>>
  BY <1>1 DEF SettleInterrupt
<1>5. RunsStay
  BY <1>4, SetRunKeeps
<1>6. depth[r] > 1 => policy = "route"
  <2>1. stop \in Nat /\ stop > 0 /\ AfterSubgraph(r, stop) /\ stop <= Len(Script(r))
    BY <1>1, <1>2 DEF SettleInterrupt, HoldsTask, Tally, FrameTally, TypeInv, DataOK
  <2>2. depth[r] \in 1..Len(Scripts) /\ Len(Scripts) \in Nat
    BY ScriptAssumption DEF TypeInv, DataOK
  <2>3. Scripts[depth[r]] \in Seq(Stop)
    BY <2>2, ScriptAssumption
  <2>4. Len(Script(r)) \in Nat /\ Script(r)[stop] \in Stop
    BY <2>1, <2>3 DEF Script
  <2>5. SUFFICES ASSUME depth[r] > 1 PROVE Script(r)[stop] = "hitl_route"
    BY <1>3
  <2>6. depth[r] \in 2..Len(Scripts) /\ stop \in 1..Len(Script(r))
    BY <2>1, <2>2, <2>4, <2>5
  <2>7. Script(r)[stop] # "hitl_fail" /\ Script(r)[stop] # "sub"
    BY <2>1, <2>6 DEF Forgiving, Script, AfterSubgraph, AtSubgraph
  <2>8. QED BY <2>4, <2>7 DEF Stop
<1>7. ASSUME NEW x \in Run PROVE Routes(x)'
  <2>1. hitl \in [Run -> [1..MaxHitl -> HitlRow]]
    BY DEF TypeInv, DataOK
  <2>2. \A k \in 1..MaxHitl :
          hitl'[x][k] = IF x = r /\ k = n THEN [status |-> "pending", onReject |-> policy]
                        ELSE hitl[x][k]
    BY <1>3, <2>1
  <2>3. run'[r] = "interrupted"
    BY <1>4 DEF SetRun, TypeInv, DataOK
  <2>4. QED BY <1>4, <1>5, <1>6, <2>2, <2>3 DEF Routes, RunsStay
<1>8. QED BY <1>7

LEMMA NextRoutes ==
  ASSUME TypeInv, Healthy, Writers, Tally, Forgiving, \A r \in Run : Routes(r), Next, seen' = {}
  PROVE  \A r \in Run : Routes(r)'
<1>1. ASSUME NEW kind, Spend(kind) PROVE FALSE
  BY <1>1 DEF Spend
<1>2. ~Fault
  BY <1>1 DEF Fault, CrashWorker, KillAtTimeLimit, FlushFails, CrashClient,
              SendFails, CrashEager, ExpireHitl
<1>3. Calm
  BY DEF Healthy
<1>4. ASSUME NEW p \in Worker, WorkerStep(p) PROVE \A r \in Run : Routes(r)'
  <2>1. p \in Proc
    BY DEF Proc
  <2>2. QED BY <1>4, <2>1, WorkIsOrdinary, OrdinaryRoutes, BeginningRoutes, AskingRoutes
            DEF WorkerStep
<1>5. ASSUME NEW p \in Client, ClientStep(p) PROVE \A r \in Run : Routes(r)'
  <2>1. ~(TimeOutChild(p) \/ Cascade(p) \/ CascadeDone(p))
    BY <1>3 DEF Calm, CalmPc, TimeOutChild, Cascade, CascadeDone
  <2>2. QED BY <1>5, <2>1, HandIsOrdinary, OrdinaryRoutes DEF ClientStep
<1>6. ASSUME NEW p \in Client, Call(p) PROVE \A r \in Run : Routes(r)'
  <2>1. ~(Cancel(p) \/ ScanTimeouts(p)) /\ p \in Proc
    BY <1>1 DEF Cancel, ScanTimeouts, Proc
  <2>2. QED BY <1>6, <2>1, HandIsOrdinary, OrdinaryRoutes, BeginningRoutes DEF Call
<1>7. ASSUME NEW p \in Proc, TellStep(p) PROVE \A r \in Run : Routes(r)'
  <2>1. p \in Worker
    BY <1>3, <1>7 DEF Calm, CalmPc, TellStep, TellRead, TellWrite, WakeParent, Proc
  <2>2. QED BY <1>7, <2>1, TellIsOrdinary, OrdinaryRoutes
<1>8. QED BY <1>2, <1>4, <1>5, <1>6, <1>7 DEF Next

LEMMA NextRoutesInv ==
  ASSUME Forgiving
  PROVE  TypeInv /\ TypeInv' /\ ThreadInv /\ ThreadInv' /\ HealthInv /\ HealthInv' /\ WriterInv
           /\ WriterInv' /\ TallyInv /\ RoutesInv /\ [Next]_vars => RoutesInv'
<1> SUFFICES ASSUME TypeInv, TypeInv', ThreadInv, ThreadInv', HealthInv, HealthInv', WriterInv,
                    WriterInv', TallyInv, RoutesInv, [Next]_vars, seen' = {}
             PROVE  \A r \in Run : Routes(r)'
  BY DEF RoutesInv
<1>1. seen = {} /\ Mapped
  BY HealthyStepIsMapped
<1>2. Tally /\ (\A r \in Run : Routes(r)) /\ TypeInv /\ Healthy /\ Writers
  BY <1>1 DEF TallyInv, RoutesInv, Mapped, Sound
<1>3. CASE Next
  BY <1>2, <1>3, NextRoutes
<1>4. CASE UNCHANGED vars
  BY <1>2, <1>4 DEF Routes, vars
<1>5. QED BY <1>3, <1>4

LEMMA FirstRoutes == Init => RoutesInv
BY DEF Init, RoutesInv, Routes

LEMMA RoutesInvariant == ASSUME Forgiving PROVE Spec => []RoutesInv
BY FirstRoutes, NextRoutesInv, TypeInvariant, ThreadInvariant, HealthInvariant, WriterInvariant,
   TallyInvariant, PTL DEF Spec

LEMMA ChildIsNotRejected ==
  ASSUME TypeInv, \A r \in Run : Routes(r), NEW c \in Run, row[c] = "pending"
  PROVE  ~Rejected(c)
BY DEF Routes, Rejected, TypeInv, DataOK

(* No wake-up is lost: as long as nothing fails or interferes, a run that  *)
(* has not settled has a worker, an envelope, a person or a child to move  *)
(* it on, in every deployment and with any nesting, unless it waits for a  *)
(* child that a person has rejected: apply_resume_decision tells nobody    *)
(* (hitl.py), which is what the run reject shows.                          *)
THEOREM WakeUpsAreNotLost ==
  Spec => []((\A c \in Run : row[c] = "pending" => ~Rejected(c)) => NoLostWakeup)
<1>1. TypeInv /\ ThreadInv /\ HealthInv /\ WriterInv /\ TallyInv
        => ((\A c \in Run : row[c] = "pending" => ~Rejected(c)) => NoLostWakeup)
  <2> SUFFICES ASSUME TypeInv, ThreadInv, HealthInv, WriterInv, TallyInv, seen = {},
                      \A c \in Run : row[c] = "pending" => ~Rejected(c)
               PROVE  NoLostWakeup
    BY DEF NoLostWakeup
  <2>1. Sound /\ Tally
    BY DEF Sound, ThreadInv, NoDuplication, HealthInv, WriterInv, Uncancelled, TallyInv
  <2>2. QED BY <2>1, TalliedIsAwake DEF NoLostWakeup
<1>2. QED
  BY <1>1, TypeInvariant, ThreadInvariant, HealthInvariant, WriterInvariant, TallyInvariant, PTL

(* When no child's flow ends on a rejection, no wake-up is lost at all.    *)
THEOREM ForgivingFlowsLoseNoWakeUp ==
  ASSUME Forgiving
  PROVE  Spec => []NoLostWakeup
<1>1. TypeInv /\ RoutesInv
        /\ ((\A c \in Run : row[c] = "pending" => ~Rejected(c)) => NoLostWakeup) => NoLostWakeup
  <2> SUFFICES ASSUME TypeInv, RoutesInv, seen = {},
                      (\A c \in Run : row[c] = "pending" => ~Rejected(c)) => NoLostWakeup
               PROVE  NoLostWakeup
    BY DEF NoLostWakeup
  <2>1. \A r \in Run : Routes(r)
    BY DEF RoutesInv
  <2>2. QED BY <2>1, ChildIsNotRejected
<1>2. QED
  BY <1>1, TypeInvariant, RoutesInvariant, WakeUpsAreNotLost, PTL
=============================================================================

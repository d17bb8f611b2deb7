---------------------------- MODULE Workers_proofs ----------------------------
(***************************************************************************)
(* The parts of a worker besides its graphs.  The two that rely on a Redis *)
(* lock with a time to live: beat, where two ticks may meet at a task, and *)
(* knowledge ingestion, where two jobs may meet at a document.  The one    *)
(* that relies on the order of its transactions: the flushes of what a run *)
(* observed.  The two that cut texts: the chunks of a document and the     *)
(* thoughts of a model in its stream.  Then all parts together: what was   *)
(* proved of each alone, here and in Graph_proofs, holds of the workers.   *)
(***************************************************************************)
EXTENDS MCWorkers, Graph_proofs, FiniteSetTheorems

-----------------------------------------------------------------------------
(* Occurrences and runs of beat tasks *)

Frames == {Waiting} \cup Ticking \cup Starting
BeatTyped ==
  /\ clock \in Instant
  /\ last \in [BeatTask -> Instant \cup {Never}]
  /\ held \in [BeatTask -> Nat]
  /\ ticks \in [Dispatcher -> Frames]
  /\ started \in [BeatTask -> [Instant -> Nat]]
  /\ \A d \in Dispatcher : ticks[d] # Waiting => ticks[d].now <= clock

(* A tick on its way to start the run of an occurrence.                    *)
Claims(d, t, o) ==
  /\ ticks[d].at = "starting" /\ ticks[d].task = t
  /\ o \in InWindow(t, ticks[d].now)

(* An occurrence that is started or claimed is so once, and its lock lasts *)
(* until the occurrence has left every window.                             *)
OnceClaimed(t, o) ==
  /\ started[t][o] <= 1
  /\ started[t][o] # 0 => o + Period[t] <= held[t]
  /\ \A d \in Dispatcher : Claims(d, t, o) => o + Period[t] <= held[t] /\ started[t][o] = 0
  /\ \A d, e \in Dispatcher : Claims(d, t, o) /\ Claims(e, t, o) => d = e
BeatInv == BeatTyped /\ \A t \in BeatTask \ slow : \A o \in Instant : OnceClaimed(t, o)

-----------------------------------------------------------------------------
LEMMA FrameFields ==
  ASSUME NEW f \in Frames
  PROVE  /\ f # Waiting => f.at \in {"deciding", "starting"} /\ f.now \in Instant
                           /\ f.todo \subseteq BeatTask /\ f.fired \subseteq BeatTask
                           /\ f.seen \in [BeatTask -> Instant \cup {Never}]
         /\ f = Waiting => f.at = "waiting"
         /\ f.at = "starting" => f.task \in BeatTask
<1>1. CASE f = Waiting BY <1>1 DEF Waiting
<1>2. CASE f \in Ticking BY <1>2 DEF Ticking, Waiting
<1>3. CASE f \in Starting BY <1>3 DEF Starting, Waiting
<1>4. QED BY <1>1, <1>2, <1>3 DEF Frames

(* An occurrence in the window of a tick leaves it before a lock set at    *)
(* the tick or later expires.                                              *)
LEMMA WindowIsShort ==
  ASSUME NEW t \in BeatTask, NEW now \in Nat, NEW o \in InWindow(t, now)
  PROVE  o \in Instant /\ o <= now /\ now < o + Period[t]
<1>1. o \in Instant /\ now < o + Tick /\ o <= now BY DEF InWindow
<1>2. Tick \in Nat /\ Period[t] \in Nat /\ Tick <= Period[t] BY BeatAssumption
<1>3. o \in Nat BY <1>1, BeatAssumption DEF Instant
<1>4. QED BY <1>1, <1>2, <1>3

LEMMA Initially == BeatInit => BeatInv
<1> SUFFICES ASSUME BeatInit PROVE BeatInv OBVIOUS
<1>1. 0 \in Instant BY BeatAssumption DEF Instant
<1>2. BeatTyped BY <1>1 DEF BeatInit, BeatTyped, Frames
<1>3. \A d \in Dispatcher : ticks[d].at # "starting" BY DEF BeatInit, Waiting
<1>4. \A t \in BeatTask, o \in Instant : started[t][o] = 0 BY DEF BeatInit
<1>5. QED BY <1>2, <1>3, <1>4 DEF BeatInv, OnceClaimed, Claims

(* Steps that start no run and claim no occurrence.                        *)
LEMMA Untouched ==
  ASSUME BeatInv, BeatTyped', UNCHANGED <<held, started, slow>>,
         \A d \in Dispatcher : ticks'[d] = ticks[d] \/ ticks'[d].at # "starting"
  PROVE  BeatInv'
<1>1. \A d \in Dispatcher : \A t, o : Claims(d, t, o)' => Claims(d, t, o) BY DEF Claims
<1>2. QED BY <1>1 DEF BeatInv, OnceClaimed

LEMMA DecideKeeps ==
  ASSUME BeatInv, NEW d \in Dispatcher, NEW t \in BeatTask, Decide(d, t)
  PROVE  BeatInv'
<1>0. PICK f : f = ticks[d] OBVIOUS
<1> DEFINE g == [f EXCEPT !.todo = @ \ {t}]
           s == [at |-> "starting", now |-> f.now, todo |-> g.todo, seen |-> f.seen,
                 fired |-> f.fired, task |-> t]
<1>1. /\ f \in Ticking /\ f # Waiting /\ f.at = "deciding" /\ f.now \in Instant
      /\ f.now <= clock
  <2>1. f.at = "deciding" /\ f \in Frames BY <1>0 DEF Decide, BeatInv, BeatTyped
  <2>2. f # Waiting BY <2>1 DEF Waiting
  <2>3. f \notin Starting BY <2>1 DEF Starting
  <2>4. f \in Ticking BY <2>1, <2>2, <2>3 DEF Frames
  <2>5. f.now \in Instant BY <2>4 DEF Ticking
  <2>6. QED BY <1>0, <2>1, <2>2, <2>4, <2>5 DEF BeatInv, BeatTyped
<1>2. clock \in Nat /\ f.now \in Nat /\ LastTime \in Nat
  BY <1>1, BeatAssumption DEF BeatInv, BeatTyped, Instant
<1>3. g \in Ticking /\ g.now = f.now /\ g.at = "deciding" /\ g.todo \subseteq BeatTask
  BY <1>1 DEF Ticking
<1>4. s \in Starting /\ s.now = f.now /\ s.at = "starting" /\ s.task = t
  <2>1. f.seen \in [BeatTask -> Instant \cup {Never}] /\ f.fired \in SUBSET BeatTask
    BY <1>1 DEF Ticking
  <2>2. QED BY <1>1, <1>3, <2>1 DEF Starting
<1> HIDE DEF g, s
<1>5. ASSUME ticks' = [ticks EXCEPT ![d] = g], UNCHANGED <<held, slow>> PROVE BeatInv'
  <2>1. UNCHANGED <<clock, last, started>> BY DEF Decide
  <2>2. ticks' \in [Dispatcher -> Frames] BY <1>3, <1>5 DEF BeatInv, BeatTyped, Frames
  <2>3. \A e \in Dispatcher : ticks'[e] # Waiting => ticks'[e].now <= clock
    BY <1>1, <1>3, <1>5 DEF BeatInv, BeatTyped
  <2>4. BeatTyped' BY <1>5, <2>1, <2>2, <2>3 DEF BeatInv, BeatTyped
  <2>5. \A e \in Dispatcher : ticks'[e] = ticks[e] \/ ticks'[e].at # "starting"
    BY <1>3, <1>5 DEF BeatInv, BeatTyped
  <2>6. QED BY <1>5, <2>1, <2>4, <2>5, Untouched
<1>6. ASSUME LockFree(t), held' = [held EXCEPT ![t] = clock + Period[t]],
             slow' = IF clock > f.now THEN slow \cup {t} ELSE slow,
             ticks' = [ticks EXCEPT ![d] = s]
      PROVE  BeatInv'
  <2>1. UNCHANGED <<clock, last, started>> BY DEF Decide
  <2>2. Period[t] \in Nat BY BeatAssumption
  <2>3. held' \in [BeatTask -> Nat] BY <1>2, <1>6, <2>2 DEF BeatInv, BeatTyped
  <2>4. ticks' \in [Dispatcher -> Frames] BY <1>4, <1>6 DEF BeatInv, BeatTyped, Frames
  <2>5. \A e \in Dispatcher : ticks'[e] # Waiting => ticks'[e].now <= clock
    BY <1>1, <1>4, <1>6 DEF BeatInv, BeatTyped
  <2>6. BeatTyped' BY <2>1, <2>3, <2>4, <2>5 DEF BeatInv, BeatTyped
  <2>7. /\ ticks'[d] = s /\ \A e \in Dispatcher \ {d} : ticks'[e] = ticks[e]
        /\ held'[t] = clock + Period[t] /\ \A u \in BeatTask \ {t} : held'[u] = held[u]
    BY <1>6 DEF BeatInv, BeatTyped
  <2>8. \A e \in Dispatcher : \A u, o : Claims(e, u, o)' =>
          Claims(e, u, o) \/ (e = d /\ u = t /\ o \in InWindow(t, f.now))
    <3> SUFFICES ASSUME NEW e \in Dispatcher, NEW u, NEW o, Claims(e, u, o)'
                 PROVE  Claims(e, u, o) \/ (e = d /\ u = t /\ o \in InWindow(t, f.now))
      OBVIOUS
    <3>1. /\ ticks'[e].at = "starting" /\ ticks'[e].task = u
          /\ o \in InWindow(u, ticks'[e].now)
      BY DEF Claims, InWindow
    <3>2. CASE e = d
      <4>1. u = t BY <1>4, <2>7, <3>1, <3>2
      <4>2. o \in InWindow(u, f.now) BY <1>4, <2>7, <3>1, <3>2
      <4>3. QED BY <3>2, <4>1, <4>2
    <3>3. CASE e # d
      <4>1. ticks'[e] = ticks[e] BY <2>7, <3>3
      <4>2. QED BY <3>1, <4>1 DEF Claims
    <3>4. QED BY <3>2, <3>3
  <2>9. SUFFICES ASSUME NEW u \in BeatTask \ slow', NEW o \in Instant
                 PROVE  OnceClaimed(u, o)'
    BY <2>6 DEF BeatInv
  <2>10. u \in BeatTask \ slow /\ OnceClaimed(u, o) BY <1>6, <2>9 DEF BeatInv
  <2>11. CASE u # t
    <3>1. held'[u] = held[u] BY <2>7, <2>10, <2>11
    <3>2. \A e \in Dispatcher : Claims(e, u, o)' => Claims(e, u, o) BY <2>8, <2>11
    <3>3. QED BY <2>1, <2>10, <3>1, <3>2 DEF OnceClaimed
  <2>12. CASE u = t
    <3>1. clock = f.now BY <1>1, <1>2, <1>6, <2>12
    <3>2. held[t] \in Nat /\ held[t] <= clock BY <1>6 DEF LockFree, BeatInv, BeatTyped
    <3>3. o \in Nat /\ started[t][o] \in Nat BY BeatAssumption DEF Instant, BeatInv, BeatTyped
    <3>4. CASE o \in InWindow(t, f.now)
      <4>1. o <= clock /\ clock < o + Period[t] BY <1>2, <3>1, <3>4, WindowIsShort
      <4>2. ~(o + Period[t] <= held[t]) BY <1>2, <2>2, <3>2, <3>3, <4>1
      <4>3. started[t][o] = 0 /\ \A e \in Dispatcher : ~Claims(e, t, o)
        BY <2>10, <2>12, <4>2 DEF OnceClaimed
      <4>4. o + Period[t] <= held'[t] BY <1>2, <2>2, <2>7, <3>3, <4>1
      <4>5. \A e \in Dispatcher : Claims(e, t, o)' => e = d BY <2>8, <4>3
      <4>6. QED BY <2>1, <2>12, <4>3, <4>4, <4>5 DEF OnceClaimed
    <3>5. CASE o \notin InWindow(t, f.now)
      <4>1. \A e \in Dispatcher : Claims(e, t, o)' => Claims(e, t, o) BY <2>8, <3>5
      <4>2. o + Period[t] <= held[t] => o + Period[t] <= held'[t]
        BY <1>2, <2>2, <2>7, <3>2, <3>3
      <4>3. QED BY <2>1, <2>10, <2>12, <4>1, <4>2 DEF OnceClaimed
    <3>6. QED BY <3>4, <3>5
  <2>13. QED BY <2>11, <2>12
<1>7. QED BY <1>0, <1>5, <1>6 DEF Decide, g, s

LEMMA FireKeeps == ASSUME BeatInv, NEW d \in Dispatcher, Fire(d) PROVE BeatInv'
<1>0. PICK f : f = ticks[d] OBVIOUS
<1> DEFINE t == f.task
           runs == [o \in Instant |-> IF o \in InWindow(t, f.now)
                                      THEN started[t][o] + 1 ELSE started[t][o]]
           g == [at |-> "deciding", now |-> f.now, todo |-> f.todo, seen |-> f.seen,
                 fired |-> f.fired \cup {t}]
<1>1. f.at = "starting" /\ f \in Frames /\ f.now <= clock
  <2>1. f.at = "starting" /\ f \in Frames BY <1>0 DEF Fire, BeatInv, BeatTyped
  <2>2. f # Waiting BY <2>1 DEF Waiting
  <2>3. QED BY <1>0, <2>1, <2>2 DEF BeatInv, BeatTyped
<1>2. /\ t \in BeatTask /\ f.now \in Instant /\ f.todo \in SUBSET BeatTask
      /\ f.fired \in SUBSET BeatTask /\ f.seen \in [BeatTask -> Instant \cup {Never}]
  <2>1. f # Waiting BY <1>1 DEF Waiting
  <2>2. QED BY <1>1, <2>1, FrameFields
<1>3. g \in Ticking /\ g.at = "deciding" /\ g.now = f.now BY <1>2 DEF Ticking
<1>4. ticks' = [ticks EXCEPT ![d] = g] /\ UNCHANGED <<clock, last, held, slow>>
  BY <1>0 DEF Fire
<1>5. started' = [started EXCEPT ![t] = runs] BY <1>0 DEF Fire
<1>6. started[t] \in [Instant -> Nat] BY <1>2 DEF BeatInv, BeatTyped
<1>7. runs \in [Instant -> Nat] BY <1>6
<1>8. \A o \in Instant : runs[o] = IF o \in InWindow(t, f.now)
                                   THEN started[t][o] + 1 ELSE started[t][o]
  OBVIOUS
<1> HIDE DEF runs, g
<1>9. BeatTyped'
  <2>1. started' \in [BeatTask -> [Instant -> Nat]] BY <1>2, <1>5, <1>7 DEF BeatInv, BeatTyped
  <2>2. ticks' \in [Dispatcher -> Frames] BY <1>3, <1>4 DEF BeatInv, BeatTyped, Frames
  <2>3. \A e \in Dispatcher : ticks'[e] # Waiting => ticks'[e].now <= clock
    BY <1>1, <1>3, <1>4 DEF BeatInv, BeatTyped
  <2>4. QED BY <1>4, <2>1, <2>2, <2>3 DEF BeatInv, BeatTyped
<1>10. /\ ticks'[d] = g /\ \A e \in Dispatcher \ {d} : ticks'[e] = ticks[e]
       /\ started'[t] = runs /\ \A u \in BeatTask \ {t} : started'[u] = started[u]
  BY <1>2, <1>4, <1>5 DEF BeatInv, BeatTyped
<1>11. \A e \in Dispatcher : \A u, o : Claims(e, u, o)' => Claims(e, u, o) /\ e # d
  BY <1>3, <1>10 DEF Claims
<1>12. \A o \in InWindow(t, f.now) : Claims(d, t, o) BY <1>0, <1>1 DEF Claims
<1>13. SUFFICES ASSUME NEW u \in BeatTask \ slow, NEW o \in Instant
                PROVE  OnceClaimed(u, o)'
  BY <1>4, <1>9 DEF BeatInv
<1>14. OnceClaimed(u, o) BY DEF BeatInv
<1>15. CASE u # t \/ o \notin InWindow(t, f.now)
  <2>1. started'[u][o] = started[u][o] BY <1>8, <1>10, <1>15
  <2>2. QED BY <1>4, <1>11, <1>14, <2>1 DEF OnceClaimed
<1>16. CASE u = t /\ o \in InWindow(t, f.now)
  <2>1. Claims(d, t, o) BY <1>12, <1>16
  <2>2. o + Period[t] <= held[t] /\ started[t][o] = 0 BY <1>14, <1>16, <2>1 DEF OnceClaimed
  <2>3. started'[t][o] = 1 BY <1>8, <1>10, <1>16, <2>2
  <2>4. \A e \in Dispatcher : ~Claims(e, t, o)'
    BY <1>11, <1>14, <1>16, <2>1 DEF OnceClaimed
  <2>5. QED BY <1>4, <1>16, <2>2, <2>3, <2>4 DEF OnceClaimed
<1>17. QED BY <1>15, <1>16

LEMMA Inductive == BeatInv /\ [BeatNext]_beatVars => BeatInv'
<1> SUFFICES ASSUME BeatInv, [BeatNext]_beatVars PROVE BeatInv' OBVIOUS
<1>1. CASE UNCHANGED beatVars
  BY <1>1 DEF beatVars, BeatInv, BeatTyped, OnceClaimed, Claims
<1>2. CASE Elapse
  <2>1. clock \in Nat /\ clock' = clock + 1 /\ clock' \in Instant
    BY <1>2, BeatAssumption DEF Elapse, BeatInv, BeatTyped, Instant
  <2>2. UNCHANGED <<last, held, ticks, started, slow>> BY <1>2 DEF Elapse
  <2>3. \A d \in Dispatcher : ticks[d] # Waiting => ticks[d].now \in Nat
    BY FrameFields, BeatAssumption DEF BeatInv, BeatTyped, Instant
  <2>4. BeatTyped' BY <2>1, <2>2, <2>3 DEF BeatInv, BeatTyped
  <2>5. QED BY <2>2, <2>4, Untouched
<1>3. ASSUME NEW d \in Dispatcher, NEW f \in Frames, f.at # "starting",
             f # Waiting => f.now <= clock, ticks' = [ticks EXCEPT ![d] = f],
             last' \in [BeatTask -> Instant \cup {Never}],
             UNCHANGED <<clock, held, started, slow>>
      PROVE  BeatInv'
  <2>1. BeatTyped' BY <1>3 DEF BeatInv, BeatTyped
  <2>2. \A e \in Dispatcher : ticks'[e] = ticks[e] \/ ticks'[e].at # "starting"
    BY <1>3 DEF BeatInv, BeatTyped
  <2>3. QED BY <1>3, <2>1, <2>2, Untouched
<1>4. Waiting \in Frames /\ Waiting.at # "starting" BY DEF Frames, Waiting
<1>5. ASSUME NEW d \in Dispatcher, BeginTick(d) PROVE BeatInv'
  <2> DEFINE f == [at |-> "deciding", now |-> clock, todo |-> BeatTask, seen |-> last,
                   fired |-> {}]
  <2>1. f \in Ticking BY DEF Ticking, BeatInv, BeatTyped
  <2>2. f \in Frames /\ f.at # "starting" /\ f.now = clock BY <2>1 DEF Frames
  <2>3. clock <= clock BY BeatAssumption DEF BeatInv, BeatTyped, Instant
  <2>4. ticks' = [ticks EXCEPT ![d] = f] /\ UNCHANGED <<clock, last, held, started, slow>>
    BY <1>5 DEF BeginTick
  <2> HIDE DEF f
  <2>5. last' \in [BeatTask -> Instant \cup {Never}] BY <2>4 DEF BeatInv, BeatTyped
  <2>6. QED BY <1>3, <2>2, <2>3, <2>4, <2>5
<1>6. ASSUME NEW d \in Dispatcher, Abort(d) PROVE BeatInv'
  <2>1. last' \in [BeatTask -> Instant \cup {Never}] BY <1>6 DEF Abort, BeatInv, BeatTyped
  <2>2. QED BY <1>3, <1>4, <1>6, <2>1 DEF Abort
<1>7. ASSUME NEW d \in Dispatcher, EndTick(d) PROVE BeatInv'
  <2>1. ticks[d] # Waiting /\ ticks[d] \in Frames
    BY <1>7 DEF EndTick, Waiting, BeatInv, BeatTyped
  <2>2. ticks[d].now \in Instant BY <2>1, FrameFields
  <2>3. last' \in [BeatTask -> Instant \cup {Never}]
    BY <1>7, <2>2 DEF EndTick, BeatInv, BeatTyped
  <2>4. QED BY <1>3, <1>4, <1>7, <2>3 DEF EndTick
<1>8. ASSUME NEW d \in Dispatcher, NEW t \in BeatTask, Decide(d, t) PROVE BeatInv'
  BY <1>8, DecideKeeps
<1>9. ASSUME NEW d \in Dispatcher, Fire(d) PROVE BeatInv' BY <1>9, FireKeeps
<1>10. QED BY <1>1, <1>2, <1>5, <1>6, <1>7, <1>8, <1>9 DEF BeatNext

(* However many ticks overlap, are late, or are aborted after starting a   *)
(* run, an occurrence starts one run: the lock outlives the window in      *)
(* which the occurrence is due.  What a tick writes at its end is not      *)
(* needed for that.                                                        *)
THEOREM StartedOnce == BeatSpec => []OncePerOccurrence
<1>1. BeatInv => OncePerOccurrence BY DEF BeatInv, OnceClaimed, OncePerOccurrence
<1>2. BeatSpec => []BeatInv BY Initially, Inductive, PTL DEF BeatSpec
<1>3. QED BY <1>1, <1>2, PTL

-----------------------------------------------------------------------------
(* The index of a document and its status *)

IngestTyped == work \in [Job -> Work] /\ index \subseteq Chunks

(* Who is at work holds the lock; who has given it back, and has not       *)
(* committed, is alone unless somebody began early.                        *)
OneAtWork ==
  /\ \A j \in Job : InWork(j) => locked = j
  /\ early = {} => \A j, k \in Job : work[j].at = "released" /\ InWork(k) => FALSE
  /\ early = {} => \A j, k \in Job : work[j].at = "released" /\ work[k].at = "released" => j = k

(* What the open transaction of a job will leave behind.                   *)
Prepared(j) ==
  /\ work[j].at = "deleted" => work[j].gone = index
  /\ work[j].at \in {"finished", "released"} =>
       \/ work[j].gone = {} /\ work[j].put = {} /\ ~work[j].ok
       \/ /\ work[j].gone = index
          /\ work[j].put = {[of |-> j, vectors |-> work[j].ok]}

OfOneJob == \A c, d \in index : c = d
Indexed == document = "indexed" => index # {} /\ \A c \in index : c.vectors

(* The inductive invariant: without early jobs the index belongs to one    *)
(* job and is whole, now and after whatever is about to be committed.      *)
IngestInv ==
  /\ IngestTyped /\ OneAtWork
  /\ early = {} => OfOneJob /\ Indexed /\ \A j \in Job : Prepared(j)

-----------------------------------------------------------------------------
LEMMA IngestInitially == IngestInit => IngestInv
BY DEF IngestInit, IngestInv, IngestTyped, OneAtWork, InWork, Work, OfOneJob, Indexed, Prepared

(* A job that is in no transaction now, and none of the others moved.      *)
LEMMA Idles ==
  ASSUME IngestInv, NEW j \in Job, work' = [work EXCEPT ![j] = Rest]
         \/ work' = [work EXCEPT ![j] = [at |-> "queued"]],
         UNCHANGED <<document, index, locked, early>>
  PROVE  IngestInv'
<1>1. IngestTyped'
  BY DEF IngestInv, IngestTyped, Work, Rest
<1>2. OneAtWork'
  BY DEF IngestInv, IngestTyped, OneAtWork, InWork, Rest
<1>3. ASSUME early' = {}, NEW k \in Job PROVE Prepared(k)'
  BY <1>3 DEF IngestInv, IngestTyped, Prepared, Rest
<1>4. QED BY <1>1, <1>2, <1>3 DEF IngestInv, OfOneJob, Indexed

LEMMA AcquireKeeps ==
  ASSUME IngestInv, NEW j \in Job, Acquire(j) PROVE IngestInv'
<1>1. CASE LockTaken
  BY <1>1, Idles DEF Acquire, Goto
<1>2. CASE ~LockTaken
  <2> USE <1>2 DEF Acquire, Goto, LockTaken
  <2>1. IngestTyped' BY DEF IngestInv, IngestTyped, Work
  <2>2. \A k \in Job : ~InWork(k) BY IngestAssumption DEF IngestInv, OneAtWork
  <2>3. early' = {} => early = {} /\ \A k \in Job : work[k].at # "released"
    OBVIOUS
  <2>4. OneAtWork'
    BY <2>2, <2>3 DEF IngestInv, IngestTyped, OneAtWork, InWork
  <2>5. ASSUME early' = {}, NEW k \in Job PROVE Prepared(k)'
    BY <2>3, <2>5 DEF IngestInv, IngestTyped, Prepared
  <2>6. QED BY <2>1, <2>3, <2>4, <2>5 DEF IngestInv, OfOneJob, Indexed
<1>3. QED BY <1>1, <1>2

(* Steps inside a transaction, by the job that holds the lock.             *)
LEMMA WorksOn ==
  ASSUME IngestInv, NEW j \in Job, InWork(j), NEW w \in Work, work' = [work EXCEPT ![j] = w],
         w.at \in {"deleted", "finished"},
         early = {} => Prepared(j)',
         UNCHANGED <<document, index, locked, early>>
  PROVE  IngestInv'
<1>1. IngestTyped' BY DEF IngestInv, IngestTyped
<1>2. OneAtWork' BY DEF IngestInv, IngestTyped, OneAtWork, InWork
<1>3. ASSUME early' = {}, NEW k \in Job PROVE Prepared(k)'
  BY <1>3 DEF IngestInv, IngestTyped, Prepared
<1>4. QED BY <1>1, <1>2, <1>3 DEF IngestInv, OfOneJob, Indexed

LEMMA TransactionKeeps ==
  ASSUME IngestInv, NEW j \in Job,
         DeleteIndex(j) \/ Embed(j) \/ FailEmbed(j) \/ FailParse(j)
  PROVE  IngestInv'
<1> USE DEF Goto
<1>1. CASE DeleteIndex(j)
  <2> DEFINE w == [at |-> "deleted", gone |-> index]
  <2>1. w \in Work /\ InWork(j) BY <1>1 DEF IngestInv, IngestTyped, Work, DeleteIndex, InWork
  <2>2. Prepared(j)' BY <1>1 DEF IngestInv, IngestTyped, DeleteIndex, Prepared
  <2>3. QED BY <1>1, <2>1, <2>2, WorksOn DEF DeleteIndex
<1>2. CASE Embed(j) \/ FailEmbed(j)
  <2>1. PICK b \in BOOLEAN : work[j].at = "deleted" /\ Finished(j, b)
    BY <1>2 DEF Embed, FailEmbed
  <2> DEFINE w == [at |-> "finished", gone |-> work[j].gone, ok |-> b,
                   put |-> {[of |-> j, vectors |-> b]}]
  <2>2. work[j].gone \in SUBSET Chunks BY <2>1 DEF IngestInv, IngestTyped, Work, Rest
  <2>3. {[of |-> j, vectors |-> b]} \in SUBSET Chunks BY DEF Chunks
  <2>4. w \in Work BY <2>2, <2>3 DEF Work
  <2>5. InWork(j) BY <2>1 DEF InWork
  <2>6. early = {} => Prepared(j)'
    BY <1>2, <2>1 DEF IngestInv, IngestTyped, Finished, Prepared, Embed, FailEmbed
  <2>7. UNCHANGED <<document, index, locked, early>> BY <1>2 DEF Embed, FailEmbed
  <2>8. QED BY <2>1, <2>4, <2>5, <2>6, <2>7, WorksOn DEF Finished
<1>3. CASE FailParse(j)
  <2> DEFINE w == [at |-> "finished", gone |-> {}, put |-> {}, ok |-> FALSE]
  <2>1. w \in Work /\ InWork(j) BY <1>3 DEF Work, FailParse, InWork
  <2>2. Prepared(j)' BY <1>3 DEF IngestInv, IngestTyped, FailParse, Prepared
  <2>3. QED BY <1>3, <2>1, <2>2, WorksOn DEF FailParse
<1>4. QED BY <1>1, <1>2, <1>3

LEMMA ReleaseKeeps ==
  ASSUME IngestInv, NEW j \in Job, Release(j) PROVE IngestInv'
<1> USE DEF Release, Goto
<1>1. work[j] \in [at : {"finished", "released"}, gone : SUBSET Chunks, put : SUBSET Chunks,
                   ok : BOOLEAN]
  BY DEF IngestInv, IngestTyped, Work, Rest
<1>2. [work[j] EXCEPT !.at = "released"] =
        [at |-> "released", gone |-> work[j].gone, put |-> work[j].put, ok |-> work[j].ok]
  BY <1>1
<1>3. IngestTyped' BY <1>1, <1>2 DEF IngestInv, IngestTyped, Work
<1>4. \A k \in Job \ {j} : ~InWork(k) /\ (early = {} => work[k].at # "released")
  BY DEF IngestInv, OneAtWork, InWork
<1>5. OneAtWork'
  BY <1>2, <1>4 DEF IngestInv, IngestTyped, OneAtWork, InWork
<1>6. ASSUME early' = {}, NEW k \in Job PROVE Prepared(k)'
  BY <1>2, <1>6 DEF IngestInv, IngestTyped, Prepared
<1>7. QED BY <1>3, <1>5, <1>6 DEF IngestInv, OfOneJob, Indexed

LEMMA CommitKeeps ==
  ASSUME IngestInv, NEW j \in Job, Commit(j) PROVE IngestInv'
<1> USE DEF Commit, Goto
<1>1. work[j].put \in SUBSET Chunks /\ work[j].gone \in SUBSET Chunks /\ work[j].ok \in BOOLEAN
  BY DEF IngestInv, IngestTyped, Work, Rest
<1>2. IngestTyped' BY <1>1 DEF IngestInv, IngestTyped, Work, Rest
<1>3. OneAtWork' BY DEF IngestInv, IngestTyped, OneAtWork, InWork, Rest
<1>4. ASSUME early' = {} PROVE OfOneJob' /\ Indexed' /\ \A k \in Job : Prepared(k)'
  <2>1. early = {} BY <1>4
  <2>2. \A k \in Job \ {j} : ~InWork(k) /\ work[k].at # "released"
    BY <2>1 DEF IngestInv, OneAtWork
  <2>3. \A k \in Job : Prepared(k)'
    BY <2>2 DEF IngestInv, IngestTyped, Prepared, InWork, Rest
  <2>4. CASE work[j].gone = {} /\ work[j].put = {} /\ ~work[j].ok
    BY <2>1, <2>3, <2>4 DEF IngestInv, OfOneJob, Indexed, DocStatus
  <2>5. CASE /\ work[j].gone = index
             /\ work[j].put = {[of |-> j, vectors |-> work[j].ok]}
    <3>1. index' = {[of |-> j, vectors |-> work[j].ok]} BY <2>5
    <3>2. [of |-> j, vectors |-> work[j].ok].vectors = work[j].ok OBVIOUS
    <3>3. OfOneJob' BY <3>1, Zenon DEF OfOneJob
    <3>4. Indexed' BY <1>1, <3>1, <3>2 DEF Indexed, DocStatus
    <3>5. QED BY <2>3, <3>3, <3>4
  <2>6. QED BY <2>1, <2>4, <2>5 DEF IngestInv, Prepared
<1>5. QED BY <1>2, <1>3, <1>4 DEF IngestInv

LEMMA ExpireKeeps ==
  ASSUME IngestInv, ExpireLock PROVE IngestInv'
<1>1. \A k \in Job : ~InWork(k) BY DEF IngestInv, OneAtWork, ExpireLock
<1>2. QED
  BY <1>1 DEF ExpireLock, IngestInv, IngestTyped, OneAtWork, InWork, OfOneJob, Indexed, Prepared

LEMMA IngestInductive == IngestInv /\ [IngestNext]_ingestVars => IngestInv'
<1> SUFFICES ASSUME IngestInv, [IngestNext]_ingestVars PROVE IngestInv' OBVIOUS
<1>1. CASE UNCHANGED ingestVars
  BY <1>1 DEF ingestVars, IngestInv, IngestTyped, OneAtWork, InWork, OfOneJob, Indexed, Prepared
<1>2. CASE ExpireLock BY <1>2, ExpireKeeps
<1>3. ASSUME NEW j \in Job, Acquire(j) PROVE IngestInv' BY <1>3, AcquireKeeps
<1>4. ASSUME NEW j \in Job, DeleteIndex(j) \/ Embed(j) \/ FailEmbed(j) \/ FailParse(j)
      PROVE IngestInv'
  BY <1>4, TransactionKeeps
<1>5. ASSUME NEW j \in Job, Release(j) PROVE IngestInv' BY <1>5, ReleaseKeeps
<1>6. ASSUME NEW j \in Job, Commit(j) PROVE IngestInv' BY <1>6, CommitKeeps
<1>7. ASSUME NEW j \in Job, Crash(j) \/ Resubmit(j) PROVE IngestInv'
  BY <1>7, Idles DEF Crash, Resubmit, Goto
<1>8. QED BY <1>1, <1>2, <1>3, <1>4, <1>5, <1>6, <1>7 DEF IngestNext

(* A set whose elements are all equal has one at most.                     *)
LEMMA AtMostOne == ASSUME NEW S, \A c, d \in S : c = d PROVE Cardinality(S) <= 1
<1>1. CASE S = {} BY <1>1, FS_EmptySet
<1>2. CASE S # {}
  <2>1. PICK c \in S : TRUE BY <1>2
  <2>2. S = {c} BY <2>1
  <2>3. Cardinality({c}) = 1 BY FS_Singleton, Zenon
  <2>4. QED BY <2>2, <2>3
<1>3. QED BY <1>1, <1>2

LEMMA IngestInvSuffices == IngestInv => IndexMatchesStatus
BY AtMostOne DEF IngestInv, IndexMatchesStatus, OfOneJob, Indexed

(* Whatever failures, lost workers, expired locks and repeated deliveries  *)
(* there are, the index holds one job's chunks, whole when the document is *)
(* called indexed, as long as no job begins between another's release of   *)
(* the lock and its commit.                                                *)
THEOREM IndexIsWhole == IngestSpec => []IndexMatchesStatus
<1>1. IngestSpec => []IngestInv
  BY IngestInitially, IngestInductive, PTL DEF IngestSpec
<1>2. QED BY <1>1, IngestInvSuffices, PTL

-----------------------------------------------------------------------------
(* What was observed of a run                                              *)

Stages == {"absent", "queued", "graph", "failed", "flush", "reflush", "writing", "rewriting",
           "finalize", "done", "lost"}
TraceTyped ==
  /\ stage \in [Exec -> Stages]
  /\ trace \in [Exec -> Exec]
  /\ node \in [Exec -> [GraphNode -> {"none", "open", "ended"}]]
  /\ calls \in [Exec -> SUBSET Observation]
  /\ hits \in [Exec -> SUBSET Observation]
  /\ recorded \in [Exec -> SUBSET Observation]
  /\ seen \in [Exec -> BOOLEAN]
  /\ rolledBack \in [Exec -> BOOLEAN]
  /\ callRows \in [Observation -> 0 .. MaxCopies]

(* The nodes of an execution run in its graph only, and what was observed  *)
(* was observed in one of them.                                            *)
Observed(e) ==
  /\ stage[e] # "graph" => OpenNodes(e) = {}
  /\ calls[e] \cup hits[e] \subseteq recorded[e]
  /\ \A o \in recorded[e] : o.exec = e /\ node[e][o.span] # "none"

(* An observation is in a buffer or in the tables, or it was lost with a   *)
(* transaction.                                                            *)
Buffered(o) == o \in calls[o.exec] \cup hits[o.exec]
Kept(o) ==
  /\ Buffered(o) => callRows[o] = 0
  /\ o \notin recorded[o.exec] => callRows[o] = 0
  /\ callRows[o] <= 1
  /\ o \in recorded[o.exec] /\ ~Buffered(o) => callRows[o] = 1 \/ rolledBack[o.exec]
  /\ callRows[o] = 1 => <<o.exec, o.span>> \in spanRows

(* A trace row that a flush has read or written stays; a flush that        *)
(* succeeded left nothing behind.                                          *)
Traced(e) ==
  /\ Writing(e) /\ seen[e] => TraceOf(trace[e]) # {}
  /\ stage[e] \in {"finalize", "done"} => TraceOf(trace[e]) # {} /\ calls[e] \cup hits[e] = {}

OneRow == \A r, s \in traceRows : r.trace = s.trace => r = s
TraceInv ==
  /\ TraceTyped /\ OneRow
  /\ \A e \in Exec : Observed(e) /\ Traced(e)
  /\ \A o \in Observation : Kept(o)
LEMMA NotedFields ==
  ASSUME NEW e \in Exec, NEW n \in GraphNode, NEW k \in {"llm", "tool", "hit"}
  PROVE  /\ Noted(e, n, k) \in Observation
         /\ Noted(e, n, k).exec = e /\ Noted(e, n, k).span = n
BY DEF Noted, Observation

LEMMA ObservationFields ==
  ASSUME NEW o \in Observation PROVE o.exec \in Exec /\ o.span \in GraphNode
<1>1. PICK e \in Exec, n \in GraphNode, k \in {"llm", "tool", "hit"} : o = Noted(e, n, k)
  BY DEF Observation
<1>2. QED BY <1>1 DEF Noted

LEMMA TraceInitially == RunInit => TraceInv
<1> SUFFICES ASSUME RunInit PROVE TraceInv OBVIOUS
<1>1. TraceTyped
  <2>1. stage \in [Exec -> Stages] BY DEF RunInit, Stages
  <2>2. trace \in [Exec -> Exec] BY DEF RunInit
  <2>3. node \in [Exec -> [GraphNode -> {"none", "open", "ended"}]] BY DEF RunInit
  <2>4. callRows \in [Observation -> 0 .. MaxCopies] BY DEF RunInit, MaxCopies
  <2>5. QED BY <2>1, <2>2, <2>3, <2>4 DEF RunInit, TraceTyped
<1>2. OneRow BY DEF RunInit, OneRow
<1>3. \A e \in Exec : Observed(e) BY DEF RunInit, Observed, OpenNodes
<1>4. \A e \in Exec : Traced(e) BY DEF RunInit, Traced, Writing
<1>5. ASSUME NEW o \in Observation PROVE Kept(o)
  <2>1. o.exec \in Exec /\ callRows[o] = 0 /\ calls[o.exec] = {} /\ hits[o.exec] = {}
        /\ recorded[o.exec] = {}
    BY ObservationFields DEF RunInit
  <2>2. QED BY <2>1 DEF Kept, Buffered
<1>6. QED BY <1>1, <1>2, <1>3, <1>4, <1>5 DEF TraceInv

(* Steps that touch neither the buffers nor the tables.                    *)
TablesStay == UNCHANGED <<calls, hits, recorded, traceRows, spanRows, callRows, rolledBack>>
LEMMA KeptStays == ASSUME NEW o, Kept(o), TablesStay PROVE Kept(o)'
BY DEF Kept, Buffered, TablesStay

LEMMA OneRowStays == ASSUME OneRow, UNCHANGED traceRows PROVE OneRow'
BY DEF OneRow

(* An execution that moves within, into or out of its graph, the other one *)
(* staying as it is.                                                       *)
LEMMA MovesOn ==
  ASSUME TraceInv, TablesStay, UNCHANGED <<trace, seen, node>>,
         NEW e \in Exec, NEW s \in Stages, stage' = [stage EXCEPT ![e] = s],
         s # "graph" => OpenNodes(e) = {},
         s \notin {"writing", "rewriting"},
         s \in {"finalize", "done"} => stage[e] \in {"finalize", "done"}
  PROVE  TraceInv'
<1>1. TraceTyped' BY DEF TraceInv, TraceTyped, TablesStay
<1>2. OneRow' BY OneRowStays DEF TraceInv, TablesStay
<1>3. stage'[e] = s /\ \A f \in Exec \ {e} : stage'[f] = stage[f] BY DEF TraceInv, TraceTyped
<1>4. ASSUME NEW f \in Exec PROVE Observed(f)' /\ Traced(f)'
  <2>1. OpenNodes(f)' = OpenNodes(f) BY DEF OpenNodes
  <2>2. TraceOf(trace[f])' = TraceOf(trace[f]) BY DEF TraceOf, TablesStay
  <2>3. Observed(f)' BY <1>3, <2>1 DEF TraceInv, Observed, TablesStay
  <2>4. Traced(f)' BY <1>3, <2>2 DEF TraceInv, Traced, TablesStay, Writing
  <2>5. QED BY <2>3, <2>4
<1>5. \A o \in Observation : Kept(o)' BY KeptStays DEF TraceInv
<1>6. QED BY <1>1, <1>2, <1>4, <1>5 DEF TraceInv

LEMMA StartTraceKeeps == ASSUME TraceInv, NEW e \in Exec, StartTrace(e) PROVE TraceInv'
<1>1. "graph" \in Stages BY DEF Stages
<1>2. QED BY <1>1, MovesOn DEF StartTrace, TablesStay

LEMMA FinalizeKeeps == ASSUME TraceInv, NEW e \in Exec, Finalize(e) PROVE TraceInv'
<1>1. "done" \in Stages /\ "failed" \in Stages BY DEF Stages
<1>2. OpenNodes(e) = {} BY DEF Finalize, TraceInv, Observed
<1>3. QED BY <1>1, <1>2, MovesOn DEF Finalize, Raised, TablesStay

LEMMA EndTraceKeeps == ASSUME TraceInv, NEW e \in Exec, EndTrace(e) PROVE TraceInv'
<1> DEFINE s == IF stage[e] = "graph" THEN "flush" ELSE "reflush"
<1>1. s \in Stages /\ s \in {"flush", "reflush"} BY DEF Stages
<1>2. stage' = [stage EXCEPT ![e] = s] BY DEF EndTrace, TraceInv, TraceTyped
<1> HIDE DEF s
<1>3. QED BY <1>1, <1>2, MovesOn DEF EndTrace, TablesStay

LEMMA DispatchKeeps == ASSUME TraceInv, Dispatch PROVE TraceInv'
<1>1. Earlier \in Exec /\ Later \in Exec BY DEF Exec
<1>2. TraceTyped'
  <2>1. "queued" \in Stages /\ Inherited(Earlier) \in Exec
    BY <1>1 DEF Stages, Inherited, TraceInv, TraceTyped
  <2>2. QED BY <1>1, <2>1 DEF Dispatch, TraceInv, TraceTyped
<1>3. TablesStay /\ UNCHANGED <<seen, node>> BY DEF Dispatch, TablesStay
<1>4. OneRow' BY <1>3, OneRowStays DEF TraceInv, TablesStay
<1>5. /\ stage[Later] = "absent" /\ stage'[Later] = "queued"
      /\ \A f \in Exec \ {Later} : stage'[f] = stage[f] /\ trace'[f] = trace[f]
  BY <1>1 DEF Dispatch, TraceInv, TraceTyped
<1>6. ASSUME NEW f \in Exec PROVE Observed(f)' /\ Traced(f)'
  <2>1. OpenNodes(f)' = OpenNodes(f) BY <1>3 DEF OpenNodes
  <2>2. f # Later => TraceOf(trace[f])' = TraceOf(trace[f])
    BY <1>3, <1>5 DEF TraceOf, TablesStay
  <2>3. Observed(f)' BY <1>3, <1>5, <2>1 DEF TraceInv, Observed, TablesStay
  <2>4. Traced(f)' BY <1>3, <1>5, <2>2 DEF TraceInv, Traced, TablesStay, Writing
  <2>5. QED BY <2>3, <2>4
<1>7. \A o \in Observation : Kept(o)' BY <1>3, KeptStays DEF TraceInv
<1>8. QED BY <1>2, <1>4, <1>6, <1>7 DEF TraceInv

(* A node is entered or left.                                              *)
LEMMA NodeKeeps ==
  ASSUME TraceInv, TablesStay, UNCHANGED <<stage, trace, seen>>,
         NEW e \in Exec, NEW n \in GraphNode, NEW s \in {"open", "ended"},
         node' = [node EXCEPT ![e][n] = s], s = "open" => stage[e] = "graph"
  PROVE  TraceInv'
<1>0. node[e] \in [GraphNode -> {"none", "open", "ended"}] BY DEF TraceInv, TraceTyped
<1>1. node' = [node EXCEPT ![e] = [node[e] EXCEPT ![n] = s]] BY DEF TraceInv, TraceTyped
<1>2. node' \in [Exec -> [GraphNode -> {"none", "open", "ended"}]]
  BY <1>0, <1>1 DEF TraceInv, TraceTyped
<1>3. TraceTyped' BY <1>2 DEF TraceInv, TraceTyped, TablesStay
<1>4. OneRow' BY OneRowStays DEF TraceInv, TablesStay
<1>5. /\ node'[e][n] = s /\ \A m \in GraphNode \ {n} : node'[e][m] = node[e][m]
      /\ \A f \in Exec \ {e} : node'[f] = node[f]
  BY <1>0, <1>1 DEF TraceInv, TraceTyped
<1>6. ASSUME NEW f \in Exec PROVE Observed(f)' /\ Traced(f)'
  <2>1. stage[f] # "graph" => OpenNodes(f)' = {}
    <3>1. SUFFICES ASSUME stage[f] # "graph", NEW m \in GraphNode, node'[f][m] = "open"
                   PROVE  FALSE
      BY DEF OpenNodes
    <3>2. node[f][m] # "open" BY <3>1 DEF TraceInv, Observed, OpenNodes
    <3>3. QED BY <1>5, <3>1, <3>2
  <2>2. TraceOf(trace[f])' = TraceOf(trace[f]) BY DEF TraceOf, TablesStay
  <2>3. \A o \in recorded[f] : node'[f][o.span] # "none"
    <3>1. ASSUME NEW o \in recorded[f] PROVE node'[f][o.span] # "none"
      <4>1. o \in Observation /\ o.span \in GraphNode /\ node[f][o.span] # "none"
        BY ObservationFields DEF TraceInv, TraceTyped, Observed
      <4>2. QED BY <1>5, <4>1
    <3>2. QED BY <3>1
  <2>4. Observed(f)' BY <2>1, <2>3 DEF TraceInv, Observed, TablesStay
  <2>5. Traced(f)' BY <2>2 DEF TraceInv, Traced, TablesStay, Writing
  <2>6. QED BY <2>4, <2>5
<1>7. \A o \in Observation : Kept(o)' BY KeptStays DEF TraceInv
<1>8. QED BY <1>3, <1>4, <1>6, <1>7 DEF TraceInv

(* The graph goes on, or raises with what still ran in it cancelled.       *)
Stops(e) == \/ UNCHANGED <<stage, node>>
            \/ stage' = [stage EXCEPT ![e] = "failed"] /\ node' = Cancelled(e)
Stopped(f) == /\ stage'[f] = "failed" /\ OpenNodes(f)' = {}
              /\ \A m \in GraphNode : node[f][m] # "none" => node'[f][m] # "none"
LEMMA StopsOne ==
  ASSUME TraceTyped, NEW e \in Exec, Stops(e)
  PROVE  /\ stage' \in [Exec -> Stages]
         /\ node' \in [Exec -> [GraphNode -> {"none", "open", "ended"}]]
         /\ \A f \in Exec : \/ (stage'[f] = stage[f] /\ node'[f] = node[f])
                            \/ (f = e /\ Stopped(f))
<1> DEFINE c == [n \in GraphNode |-> IF node[e][n] = "open" THEN "ended" ELSE node[e][n]]
<1>1. c \in [GraphNode -> {"none", "open", "ended"}] BY DEF TraceTyped
<1>2. CASE UNCHANGED <<stage, node>> BY <1>2 DEF TraceTyped
<1>3. CASE stage' = [stage EXCEPT ![e] = "failed"] /\ node' = Cancelled(e)
  <2>1. node' = [node EXCEPT ![e] = c] BY <1>3 DEF Cancelled, TraceTyped
  <2>2. "failed" \in Stages BY DEF Stages
  <2>3. \A m \in GraphNode : c[m] # "open" /\ (node[e][m] # "none" => c[m] # "none") OBVIOUS
  <2> HIDE DEF c
  <2>4. /\ stage' \in [Exec -> Stages]
        /\ node' \in [Exec -> [GraphNode -> {"none", "open", "ended"}]]
    BY <1>1, <1>3, <2>1, <2>2 DEF TraceTyped
  <2>5. stage'[e] = "failed" /\ node'[e] = c BY <1>3, <2>1 DEF TraceTyped
  <2>6. Stopped(e) BY <2>3, <2>5 DEF Stopped, OpenNodes
  <2>7. \A f \in Exec \ {e} : stage'[f] = stage[f] /\ node'[f] = node[f]
    BY <1>3, <2>1 DEF TraceTyped
  <2>8. QED BY <2>4, <2>6, <2>7
<1>4. QED BY <1>2, <1>3 DEF Stops

LEMMA StopsStays ==
  ASSUME TraceInv, NEW e \in Exec, Stops(e), TablesStay, UNCHANGED <<trace, seen>>
  PROVE  TraceInv'
<1>1. TraceTyped BY DEF TraceInv
<1>2. /\ stage' \in [Exec -> Stages]
      /\ node' \in [Exec -> [GraphNode -> {"none", "open", "ended"}]]
      /\ \A f \in Exec : \/ (stage'[f] = stage[f] /\ node'[f] = node[f])
                         \/ (f = e /\ Stopped(f))
  BY <1>1, StopsOne
<1>3. TraceTyped' BY <1>1, <1>2 DEF TraceTyped, TablesStay
<1>4. OneRow' BY OneRowStays DEF TraceInv, TablesStay
<1>5. ASSUME NEW f \in Exec PROVE Observed(f)' /\ Traced(f)'
  <2>1. TraceOf(trace[f])' = TraceOf(trace[f]) BY DEF TraceOf, TablesStay
  <2>2. CASE stage'[f] = stage[f] /\ node'[f] = node[f]
    <3>1. OpenNodes(f)' = OpenNodes(f) BY <2>2 DEF OpenNodes
    <3>2. QED BY <2>1, <2>2, <3>1 DEF TraceInv, Observed, Traced, TablesStay, Writing
  <2>3. CASE Stopped(f)
    <3>1. \A o \in recorded[f] : o.span \in GraphNode
      BY ObservationFields DEF TraceInv, TraceTyped
    <3>2. QED BY <2>1, <2>3, <3>1 DEF Stopped, TraceInv, Observed, Traced, TablesStay, Writing
  <2>4. QED BY <1>2, <2>2, <2>3
<1>6. \A o \in Observation : Kept(o)' BY KeptStays DEF TraceInv
<1>7. QED BY <1>3, <1>4, <1>5, <1>6 DEF TraceInv

(* What an execution observes is new, under a node that runs, and buffered.*)
Records(e, o) ==
  /\ o \in Observation /\ o.exec = e /\ o.span \in OpenNodes(e) /\ o \notin recorded[e]
  /\ recorded' = [recorded EXCEPT ![e] = @ \cup {o}]
  /\ \/ calls' = [calls EXCEPT ![e] = @ \cup {o}] /\ hits' = hits
     \/ hits' = [hits EXCEPT ![e] = @ \cup {o}] /\ calls' = calls
  /\ UNCHANGED <<trace, seen, traceRows, spanRows, callRows, rolledBack>>
LEMMA RecordKeeps ==
  ASSUME TraceInv, NEW e \in Exec, NEW o, Records(e, o), Stops(e)
  PROVE  TraceInv'
<1>0. TraceTyped BY DEF TraceInv
<1>1. /\ recorded'[e] = recorded[e] \cup {o}
      /\ calls'[e] \cup hits'[e] = calls[e] \cup hits[e] \cup {o}
      /\ \A f \in Exec \ {e} : /\ recorded'[f] = recorded[f] /\ calls'[f] = calls[f]
                             /\ hits'[f] = hits[f]
  BY <1>0 DEF Records, TraceTyped
<1>2. stage[e] = "graph" /\ node[e][o.span] = "open" /\ o.span \in GraphNode
  BY DEF Records, OpenNodes, TraceInv, Observed
<1>3. /\ stage' \in [Exec -> Stages]
      /\ node' \in [Exec -> [GraphNode -> {"none", "open", "ended"}]]
      /\ \A f \in Exec : \/ (stage'[f] = stage[f] /\ node'[f] = node[f])
                         \/ (f = e /\ Stopped(f))
  BY <1>0, StopsOne
<1>4. TraceTyped'
  <2>1. recorded' \in [Exec -> SUBSET Observation] BY <1>0 DEF Records, TraceTyped
  <2>2. calls' \in [Exec -> SUBSET Observation] /\ hits' \in [Exec -> SUBSET Observation]
    <3>1. /\ calls \in [Exec -> SUBSET Observation] /\ hits \in [Exec -> SUBSET Observation]
          /\ o \in Observation
      BY <1>0 DEF Records, TraceTyped
    <3>2. CASE calls' = [calls EXCEPT ![e] = @ \cup {o}] /\ hits' = hits BY <3>1, <3>2
    <3>3. CASE hits' = [hits EXCEPT ![e] = @ \cup {o}] /\ calls' = calls BY <3>1, <3>3
    <3>4. QED BY <3>2, <3>3 DEF Records
  <2>3. QED BY <1>0, <1>3, <2>1, <2>2 DEF Records, TraceTyped
<1>5. OneRow' BY OneRowStays DEF TraceInv, Records
<1>6. ASSUME NEW f \in Exec PROVE Observed(f)' /\ Traced(f)'
  <2>1. TraceOf(trace[f])' = TraceOf(trace[f]) BY DEF TraceOf, Records
  <2>2. \A p \in recorded'[f] : p.span \in GraphNode /\ p.exec = f /\ node[f][p.span] # "none"
    BY <1>0, <1>1, <1>2, ObservationFields DEF Records, TraceTyped, TraceInv, Observed
  <2>3. calls'[f] \cup hits'[f] \subseteq recorded'[f] BY <1>1 DEF TraceInv, Observed
  <2>4. CASE stage'[f] = stage[f] /\ node'[f] = node[f]
    <3>1. OpenNodes(f)' = OpenNodes(f) BY <2>4 DEF OpenNodes
    <3>2. Observed(f)' BY <2>2, <2>3, <2>4, <3>1 DEF TraceInv, Observed
    <3>3. Traced(f)' BY <1>1, <1>2, <2>1, <2>4 DEF TraceInv, Traced, Writing, Records
    <3>4. QED BY <3>2, <3>3
  <2>5. CASE Stopped(f)
    <3>1. Observed(f)' BY <2>2, <2>3, <2>5 DEF Stopped, Observed
    <3>2. Traced(f)' BY <2>5 DEF Stopped, Traced, Writing
    <3>3. QED BY <3>1, <3>2
  <2>6. QED BY <1>3, <2>4, <2>5
<1>7. ASSUME NEW p \in Observation PROVE Kept(p)'
  <2>1. p.exec \in Exec /\ Kept(p) BY ObservationFields DEF TraceInv
  <2>2. CASE p = o
    <3>1. callRows[p] = 0 /\ callRows' = callRows BY <2>1, <2>2 DEF Kept, Records
    <3>2. Buffered(p)' BY <1>1, <2>2 DEF Buffered, Records
    <3>3. p \in recorded'[p.exec] BY <1>1, <2>2 DEF Records
    <3>4. QED BY <3>1, <3>2, <3>3 DEF Kept
  <2>3. CASE p # o
    <3>1. Buffered(p)' <=> Buffered(p) BY <1>1, <2>1, <2>3 DEF Buffered
    <3>2. p \in recorded'[p.exec] <=> p \in recorded[p.exec] BY <1>1, <2>1, <2>3
    <3>3. QED BY <2>1, <3>1, <3>2 DEF Kept, Records
  <2>4. QED BY <2>2, <2>3
<1>8. QED BY <1>4, <1>5, <1>6, <1>7 DEF TraceInv

LEMMA RecordCallKeeps ==
  ASSUME TraceInv, NEW e \in Exec, NEW n \in GraphNode, NEW k \in {"llm", "tool"},
         RecordCall(e, n, k)
  PROVE  TraceInv'
<1>1. PICK o : o = Noted(e, n, k) OBVIOUS
<1>2. o \in Observation /\ o.exec = e /\ o.span = n BY <1>1, NotedFields
<1>3. Records(e, o) /\ Stops(e) BY <1>1, <1>2 DEF RecordCall, Records, Stops
<1>4. QED BY <1>3, RecordKeeps

LEMMA CheckTextKeeps ==
  ASSUME TraceInv, NEW e \in Exec, NEW n \in GraphNode, NEW b \in BOOLEAN,
         CheckText(e, n, b)
  PROVE  TraceInv'
<1>1. PICK o : o = Noted(e, n, "hit") OBVIOUS
<1>2. o \in Observation /\ o.exec = e /\ o.span = n BY <1>1, NotedFields
<1>3. Records(e, o) /\ Stops(e) BY <1>1, <1>2 DEF CheckText, Records, Stops, Raised
<1>4. QED BY <1>3, RecordKeeps

(* A flush has looked for the trace row.                                   *)
LEMMA FlushReadsKeeps == ASSUME TraceInv, NEW e \in Exec, FlushReads(e) PROVE TraceInv'
<1> DEFINE s == WritingAfter(stage[e])
<1>1. s \in Stages /\ s \in {"writing", "rewriting"} BY DEF Stages, WritingAfter
<1>2. stage' = [stage EXCEPT ![e] = s] BY DEF FlushReads, TraceInv, TraceTyped
<1> HIDE DEF s
<1>3. TablesStay /\ UNCHANGED <<trace, node>> BY DEF FlushReads, TablesStay
<1>4. TraceTyped' BY <1>1, <1>2, <1>3 DEF FlushReads, TraceInv, TraceTyped, TablesStay
<1>5. OneRow' BY <1>3, OneRowStays DEF TraceInv, TablesStay
<1>6. /\ stage'[e] = s /\ seen'[e] = (TraceOf(trace[e]) # {})
      /\ \A f \in Exec \ {e} : stage'[f] = stage[f] /\ seen'[f] = seen[f]
  BY <1>2 DEF FlushReads, TraceInv, TraceTyped
<1>7. OpenNodes(e) = {} BY DEF FlushReads, Flushing, TraceInv, Observed
<1>8. ASSUME NEW f \in Exec PROVE Observed(f)' /\ Traced(f)'
  <2>1. OpenNodes(f)' = OpenNodes(f) BY <1>3 DEF OpenNodes
  <2>2. TraceOf(trace[f])' = TraceOf(trace[f]) BY <1>3 DEF TraceOf, TablesStay
  <2>3. Observed(f)' BY <1>1, <1>3, <1>6, <1>7, <2>1 DEF TraceInv, Observed, TablesStay
  <2>4. Traced(f)' BY <1>1, <1>3, <1>6, <2>2 DEF TraceInv, Traced, TablesStay, Writing
  <2>5. QED BY <2>3, <2>4
<1>9. \A o \in Observation : Kept(o)' BY <1>3, KeptStays DEF TraceInv
<1>10. QED BY <1>4, <1>5, <1>8, <1>9 DEF TraceInv

(* Every observation that was buffered becomes a row, with its span.       *)
LEMMA FlushCommitsKeeps == ASSUME TraceInv, NEW e \in Exec, FlushCommits(e) PROVE TraceInv'
<1> DEFINE s == AfterFlush(stage[e])
           row == [trace |-> trace[e], exec |-> e, status |-> status[e]]
<1>0. TraceTyped /\ Observed(e) BY DEF TraceInv
<1>1. s \in Stages /\ s \in {"finalize", "done"} BY DEF Stages, AfterFlush
<1>2. stage' = [stage EXCEPT ![e] = s] BY <1>0 DEF FlushCommits, TraceTyped
<1> HIDE DEF s
<1>3. /\ stage'[e] = s /\ calls'[e] = {} /\ hits'[e] = {}
      /\ \A f \in Exec \ {e} : /\ stage'[f] = stage[f] /\ calls'[f] = calls[f]
                             /\ hits'[f] = hits[f]
      /\ UNCHANGED <<trace, node, recorded, seen, rolledBack>>
  BY <1>0, <1>2 DEF FlushCommits, TraceTyped, Cleared
<1>4. /\ callRows' = [o \in Observation |->
           IF o \in calls[e] \cup hits[e] /\ callRows[o] < MaxCopies THEN callRows[o] + 1
           ELSE callRows[o]]
      /\ spanRows' = spanRows \cup Spans(e)
      /\ traceRows' = traceRows \cup (IF seen[e] THEN {} ELSE {row})
      /\ Writing(e) /\ ~Collides(e)
  BY DEF FlushCommits
<1>5. OpenNodes(e) = {} BY <1>0, <1>4 DEF Writing, Observed
<1>6. ASSUME NEW o \in Observation
      PROVE  /\ o \in calls[e] \cup hits[e] <=> Buffered(o) /\ o.exec = e
             /\ Buffered(o) /\ o.exec = e => callRows'[o] = 1
             /\ ~(Buffered(o) /\ o.exec = e) => callRows'[o] = callRows[o]
  <2>1. o \in calls[e] \cup hits[e] <=> Buffered(o) /\ o.exec = e
    BY <1>0 DEF Observed, Buffered
  <2>2. Buffered(o) => callRows[o] = 0 BY DEF TraceInv, Kept
  <2>3. QED BY <1>4, <2>1, <2>2 DEF MaxCopies
<1>7. TraceTyped'
  <2>1. callRows' \in [Observation -> 0 .. MaxCopies]
    <3>1. \A o \in Observation : callRows[o] \in 0 .. MaxCopies BY <1>0 DEF TraceTyped
    <3>2. QED BY <1>4, <3>1 DEF MaxCopies
  <2>2. calls' \in [Exec -> SUBSET Observation] /\ hits' \in [Exec -> SUBSET Observation]
    BY <1>0 DEF FlushCommits, TraceTyped, Cleared
  <2>3. QED BY <1>0, <1>1, <1>2, <1>3, <2>1, <2>2 DEF TraceTyped
<1>8. OneRow'
  <2>1. CASE seen[e] BY <1>4, <2>1 DEF TraceInv, OneRow
  <2>2. CASE ~seen[e]
    <3>1. \A r \in traceRows : r.trace # row.trace BY <1>4, <2>2 DEF Collides, TraceOf
    <3>2. QED BY <1>4, <2>2, <3>1 DEF TraceInv, OneRow
  <2>3. QED BY <1>0, <2>1, <2>2 DEF TraceTyped
<1>9. ASSUME NEW f \in Exec PROVE Observed(f)' /\ Traced(f)'
  <2>1. OpenNodes(f)' = OpenNodes(f) BY <1>3 DEF OpenNodes
  <2>2. TraceOf(trace[f]) \subseteq TraceOf(trace[f])' BY <1>3, <1>4 DEF TraceOf
  <2>3. TraceOf(trace[e])' # {}
    <3>1. CASE seen[e] BY <1>3, <1>4, <2>2, <3>1 DEF TraceInv, Traced, TraceOf
    <3>2. CASE ~seen[e]
      <4>1. row \in traceRows' /\ row.trace = trace'[e] BY <1>3, <1>4, <3>2
      <4>2. QED BY <4>1 DEF TraceOf
    <3>3. QED BY <3>1, <3>2
  <2>4. Observed(f)' BY <1>1, <1>3, <1>5, <2>1 DEF TraceInv, Observed
  <2>5. Traced(f)'
    <3>1. CASE f = e BY <1>1, <1>3, <2>3, <3>1 DEF Traced, Writing
    <3>2. CASE f # e BY <1>3, <2>2, <3>2 DEF TraceInv, Traced, Writing
    <3>3. QED BY <3>1, <3>2
  <2>6. QED BY <2>4, <2>5
<1>10. ASSUME NEW o \in Observation PROVE Kept(o)'
  <2>1. o.exec \in Exec /\ Kept(o) /\ o.span \in GraphNode BY ObservationFields DEF TraceInv
  <2>2. CASE Buffered(o) /\ o.exec = e
    <3>1. ~Buffered(o)' /\ callRows'[o] = 1 BY <1>3, <1>6, <2>2 DEF Buffered
    <3>2. o \in recorded[e] BY <1>0, <2>2 DEF Observed, Buffered
    <3>3. node[e][o.span] = "ended"
      <4>1. node[e][o.span] # "none" BY <1>0, <3>2 DEF Observed
      <4>2. node[e][o.span] # "open" BY <1>5, <2>1 DEF OpenNodes
      <4>3. QED BY <1>0, <2>1, <4>1, <4>2 DEF TraceTyped
    <3>4. <<o.exec, o.span>> \in spanRows' BY <1>4, <2>1, <2>2, <3>3 DEF Spans
    <3>5. QED BY <1>3, <2>2, <3>1, <3>2, <3>4 DEF Kept
  <2>3. CASE ~(Buffered(o) /\ o.exec = e)
    <3>1. callRows'[o] = callRows[o] BY <1>6, <2>3
    <3>2. Buffered(o)' <=> Buffered(o) BY <1>3, <2>1, <2>3 DEF Buffered
    <3>3. QED BY <1>3, <1>4, <2>1, <3>1, <3>2 DEF Kept
  <2>4. QED BY <2>2, <2>3
<1>11. QED BY <1>7, <1>8, <1>9, <1>10 DEF TraceInv

(* A transaction that fails writes nothing, and may lose what was buffered.*)
LEMMA FlushFailsKeeps ==
  ASSUME TraceInv, NEW e \in Exec, NEW c \in BOOLEAN, NEW h \in BOOLEAN, FlushFails(e, c, h)
  PROVE  TraceInv'
<1> DEFINE s == IF stage[e] = "writing" THEN "failed" ELSE "lost"
<1>0. TraceTyped /\ Observed(e) BY DEF TraceInv
<1>1. s \in Stages /\ s \in {"failed", "lost"} BY DEF Stages
<1>2. stage' = [stage EXCEPT ![e] = s] BY <1>0 DEF FlushFails, TraceTyped
<1> HIDE DEF s
<1>3. /\ stage'[e] = s /\ calls'[e] \subseteq calls[e] /\ hits'[e] \subseteq hits[e]
      /\ \A f \in Exec \ {e} : /\ stage'[f] = stage[f] /\ calls'[f] = calls[f]
                             /\ hits'[f] = hits[f] /\ rolledBack'[f] = rolledBack[f]
      /\ UNCHANGED <<trace, node, recorded, seen, traceRows, spanRows, callRows>>
      /\ (calls'[e] = calls[e] /\ hits'[e] = hits[e] /\ rolledBack'[e] = rolledBack[e])
           \/ rolledBack'[e] = TRUE
      /\ Writing(e)
  BY <1>0, <1>2 DEF FlushFails, TraceTyped
<1>4. OpenNodes(e) = {} BY <1>0, <1>3 DEF Writing, Observed
<1>5. TraceTyped'
  <2>1. calls' \in [Exec -> SUBSET Observation] /\ hits' \in [Exec -> SUBSET Observation]
    BY <1>0 DEF FlushFails, TraceTyped
  <2>2. rolledBack' \in [Exec -> BOOLEAN] BY <1>0 DEF FlushFails, TraceTyped
  <2>3. QED BY <1>0, <1>1, <1>2, <1>3, <2>1, <2>2 DEF TraceTyped
<1>6. OneRow' BY <1>3, OneRowStays DEF TraceInv
<1>7. ASSUME NEW f \in Exec PROVE Observed(f)' /\ Traced(f)'
  <2>1. OpenNodes(f)' = OpenNodes(f) BY <1>3 DEF OpenNodes
  <2>2. TraceOf(trace[f])' = TraceOf(trace[f]) BY <1>3 DEF TraceOf
  <2>3. Observed(f)' BY <1>1, <1>3, <1>4, <2>1 DEF TraceInv, Observed
  <2>4. Traced(f)' BY <1>1, <1>3, <2>2 DEF TraceInv, Traced, Writing
  <2>5. QED BY <2>3, <2>4
<1>8. ASSUME NEW o \in Observation PROVE Kept(o)'
  <2>1. o.exec \in Exec /\ Kept(o) BY ObservationFields DEF TraceInv
  <2>2. Buffered(o)' => Buffered(o) BY <1>3, <2>1 DEF Buffered
  <2>3. Buffered(o)' \/ ~Buffered(o) \/ rolledBack'[o.exec] BY <1>3, <2>1 DEF Buffered
  <2>4. rolledBack[o.exec] => rolledBack'[o.exec] BY <1>3, <2>1
  <2>5. QED BY <1>3, <2>1, <2>2, <2>3, <2>4 DEF Kept
<1>9. QED BY <1>5, <1>6, <1>7, <1>8 DEF TraceInv

LEMMA TraceInductive == TraceInv /\ [TraceNext]_traceVars => TraceInv'
<1> SUFFICES ASSUME TraceInv, [TraceNext]_traceVars PROVE TraceInv' OBVIOUS
<1>1. CASE UNCHANGED traceVars
  <2>1. TablesStay /\ UNCHANGED <<stage, trace, node, seen>> BY <1>1 DEF traceVars, TablesStay
  <2>2. Earlier \in Exec /\ Stops(Earlier) BY <2>1 DEF Exec, Stops
  <2>3. QED BY <2>1, <2>2, StopsStays
<1>2. CASE Dispatch BY <1>2, DispatchKeeps
<1>3. ASSUME NEW e \in Exec, StartTrace(e) PROVE TraceInv' BY <1>3, StartTraceKeeps
<1>4. ASSUME NEW e \in Exec, GraphRaises(e) PROVE TraceInv'
  <2>1. Stops(e) /\ TablesStay /\ UNCHANGED <<trace, seen>>
    BY <1>4 DEF GraphRaises, Raised, Stops, TablesStay
  <2>2. QED BY <2>1, StopsStays
<1>5. ASSUME NEW e \in Exec, EndTrace(e) PROVE TraceInv' BY <1>5, EndTraceKeeps
<1>6. ASSUME NEW e \in Exec, FlushReads(e) PROVE TraceInv' BY <1>6, FlushReadsKeeps
<1>7. ASSUME NEW e \in Exec, FlushCommits(e) PROVE TraceInv' BY <1>7, FlushCommitsKeeps
<1>8. ASSUME NEW e \in Exec, Finalize(e) PROVE TraceInv' BY <1>8, FinalizeKeeps
<1>9. ASSUME NEW e \in Exec, NEW c \in BOOLEAN, NEW h \in BOOLEAN, FlushFails(e, c, h)
      PROVE  TraceInv'
  BY <1>9, FlushFailsKeeps
<1>10. ASSUME NEW e \in Exec, NEW n \in GraphNode, EnterNode(e, n) PROVE TraceInv'
  <2>1. TablesStay /\ UNCHANGED <<stage, trace, seen>> BY <1>10 DEF EnterNode, TablesStay
  <2>2. node' = [node EXCEPT ![e][n] = "open"] /\ stage[e] = "graph" BY <1>10 DEF EnterNode
  <2>3. QED BY <2>1, <2>2, NodeKeeps
<1>11. ASSUME NEW e \in Exec, NEW n \in GraphNode, LeaveNode(e, n) PROVE TraceInv'
  <2>1. TablesStay /\ UNCHANGED <<stage, trace, seen>> BY <1>11 DEF LeaveNode, TablesStay
  <2>2. node' = [node EXCEPT ![e][n] = "ended"] BY <1>11 DEF LeaveNode
  <2>3. QED BY <2>1, <2>2, NodeKeeps
<1>12. ASSUME NEW e \in Exec, NEW n \in GraphNode, NEW k \in {"llm", "tool"},
              RecordCall(e, n, k)
       PROVE  TraceInv'
  BY <1>12, RecordCallKeeps
<1>13. ASSUME NEW e \in Exec, NEW n \in GraphNode, NEW b \in BOOLEAN, CheckText(e, n, b)
       PROVE  TraceInv'
  BY <1>13, CheckTextKeeps
<1>14. QED BY <1>1, <1>2, <1>3, <1>4, <1>5, <1>6, <1>7, <1>8, <1>9, <1>10, <1>11, <1>12,
              <1>13 DEF TraceNext

LEMMA TraceInvSuffices == TraceInv => ObservedOnce
<1> SUFFICES ASSUME TraceInv, NEW e \in Exec
             PROVE  /\ \A o \in recorded[e] : callRows[o] <= 1
                    /\ stage[e] = "done" =>
                         /\ ~rolledBack[e] => \A o \in recorded[e] : callRows[o] = 1
                         /\ \A o \in recorded[e] :
                              callRows[o] = 1 /\ o.kind # "hit" => <<e, o.span>> \in spanRows
                         /\ Cardinality(TraceOf(trace[e])) = 1
  BY DEF ObservedOnce
<1>1. \A o \in recorded[e] : o \in Observation /\ o.exec = e /\ Kept(o)
  BY DEF TraceInv, TraceTyped, Observed
<1>2. stage[e] = "done" => calls[e] \cup hits[e] = {} /\ TraceOf(trace[e]) # {}
  BY DEF TraceInv, Traced
<1>3. stage[e] = "done" => Cardinality(TraceOf(trace[e])) = 1
  <2> SUFFICES ASSUME stage[e] = "done" PROVE Cardinality(TraceOf(trace[e])) = 1 OBVIOUS
  <2>1. PICK r : r \in TraceOf(trace[e]) BY <1>2
  <2>2. TraceOf(trace[e]) = {r} BY <2>1 DEF TraceOf, TraceInv, OneRow
  <2>3. QED BY <2>2, FS_Singleton
<1>4. QED BY <1>1, <1>2, <1>3 DEF Kept, Buffered

(* RunTrace: however a run fails and whatever its flushes meet, what it    *)
(* observed is written once, under a span and a trace that are there, for  *)
(* any nodes, failures and either deployment.                              *)
THEOREM ObservationsWrittenOnce == TraceSpec => []ObservedOnce
<1>1. QED BY TraceInitially, TraceInductive, TraceInvSuffices, PTL DEF TraceSpec

-----------------------------------------------------------------------------
(* Chunks of a document *)

(* A set of numbers has a least one, and a bounded one a greatest.         *)
LEMMA LeastNumber == ASSUME NEW S \in SUBSET Nat, S # {} PROVE \E x \in S : \A y \in S : x <= y
<1>1. \E R : R = {ss \in Nat \X Nat : ss[1] < ss[2]} /\ IsWellFoundedOn(R, Nat)
  BY NatLessThanWellFounded, Zenon DEF OpToRel
<1>2. PICK R : R = {ss \in Nat \X Nat : ss[1] < ss[2]} /\ IsWellFoundedOn(R, Nat) BY <1>1
<1>3. PICK x \in S : \A y \in S : ~(<<y, x>> \in R) BY <1>2, WFMin
<1>4. \A y \in S : ~(y < x) BY <1>2, <1>3
<1>5. QED BY <1>4

LEMMA MinIs ==
  ASSUME NEW S \in SUBSET Nat, S # {}
  PROVE  Min(S) \in S /\ \A y \in S : Min(S) <= y
BY LeastNumber DEF Min

LEMMA MaxIs ==
  ASSUME NEW S \in SUBSET Nat, S # {}, NEW b \in Nat, \A y \in S : y <= b
  PROVE  Max(S) \in S /\ \A y \in S : Max(S) >= y
<1>1. PICK T : T = {n \in Nat : \E y \in S : n = b - y} OBVIOUS
<1>2. T \in SUBSET Nat BY <1>1
<1>3. T # {}
  <2>1. PICK y \in S : TRUE OBVIOUS
  <2>2. b - y \in T BY <1>1, <2>1
  <2>3. QED BY <2>2
<1>4. PICK n \in T : \A m \in T : n <= m BY <1>2, <1>3, LeastNumber
<1>5. PICK x \in S : n = b - x BY <1>1, <1>4
<1>6. \A y \in S : x >= y
  <2> TAKE y \in S
  <2>1. b - y \in T BY <1>1
  <2>2. n <= b - y BY <1>4, <2>1
  <2>3. QED BY <1>5, <2>2
<1>7. QED BY <1>6 DEF Max

-----------------------------------------------------------------------------
(* Where sections begin, besides at the beginning.                         *)
Cuts ==
  CASE strategy = "fixed" -> {}
    [] strategy = "page"  -> {m + 1 : m \in Marks}
    [] OTHER              -> Marks

Parsed == /\ text \in Seq(Character) /\ strategy \in Strategy
          /\ size \in Nat \ {0} /\ overlap \in Nat

LEMMA CutsAreInText == ASSUME Parsed PROVE Cuts \in SUBSET (0 .. Len(text))
BY DEF Parsed, Cuts, Marks, Strategy

(* A section ends at the next cut.                                         *)
LEMMA EndsIs ==
  ASSUME Parsed, NEW lo \in 0 .. Len(text)
  PROVE  /\ Ends(lo, Cuts) \in lo .. Len(text)
         /\ lo < Len(text) => lo < Ends(lo, Cuts)
         /\ \A c \in Cuts : lo < c => Ends(lo, Cuts) <= c
         /\ lo < Ends(lo, Cuts) => Ends(lo, Cuts) \in Cuts \cup {Len(text)}
<1>1. PICK S : S = {c \in Cuts \cup {Len(text)} : c > lo} \cup {Len(text)} OBVIOUS
<1>2. Len(text) \in Nat BY DEF Parsed
<1>3. S \in SUBSET Nat /\ S # {} BY <1>1, <1>2, CutsAreInText
<1>4. Min(S) \in S /\ \A y \in S : Min(S) <= y BY <1>3, MinIs
<1>5. Ends(lo, Cuts) = Min(S) BY <1>1 DEF Ends
<1>6. QED BY <1>1, <1>2, <1>4, <1>5, CutsAreInText

(* Every section goes from a cut, or the beginning, to the next cut.       *)
LEMMA SectionsAre ==
  ASSUME Parsed, NEW s \in Sections
  PROVE  s[1] \in Cuts \cup {0} /\ s = <<s[1], Ends(s[1], Cuts)>>
<1>1. CASE strategy = "fixed"
  <2>1. s = <<0, Len(text)>> BY <1>1 DEF Sections
  <2>2. Cuts = {} BY <1>1 DEF Cuts
  <2>3. 0 \in 0 .. Len(text) BY DEF Parsed
  <2>4. Ends(0, Cuts) = Len(text)
    BY <2>2, <2>3, EndsIs DEF Parsed
  <2>5. QED BY <2>1, <2>4
<1>2. CASE strategy = "page"
  <2>1. Cuts = {m + 1 : m \in Marks} BY <1>2 DEF Cuts
  <2>2. Sections = PageSections BY <1>2 DEF Sections
  <2>3. s \in {<<t, Ends(t, Cuts)>> : t \in {t \in Cuts \cup {0} : t = 0 \/ Ink(t, Ends(t, Cuts)) # {}}}
    BY <2>1, <2>2 DEF PageSections
  <2>4. QED BY <2>3
<1>3. CASE strategy \notin {"fixed", "page"}
  <2>1. Cuts = Marks BY <1>3 DEF Cuts
  <2>2. Sections = HeadingSections BY <1>3 DEF Sections
  <2>3. QED BY <2>1, <2>2 DEF HeadingSections
<1>4. QED BY <1>1, <1>2, <1>3

(* What is not blank is in a section.                                      *)
LEMMA SectionsCover ==
  ASSUME Parsed, NEW i \in Ink(0, Len(text))
  PROVE  \E s \in Sections : s[1] <= i /\ i < s[2]
<1>1. i \in 0 .. Len(text) - 1 /\ ~Blank(At(i)) BY DEF Ink
<1>2. Len(text) \in Nat /\ i \in Nat BY <1>1 DEF Parsed
<1>3. CASE strategy = "fixed"
  <2>1. <<0, Len(text)>> \in Sections BY <1>3 DEF Sections
  <2>2. QED BY <1>1, <1>2, <2>1
<1>4. ASSUME strategy # "fixed"
      PROVE  \E s \in Sections : s[1] <= i /\ i < s[2]
  <2>1. PICK S : S = {c \in Cuts : c <= i} OBVIOUS
  <2>2. S \in SUBSET Nat BY <2>1, CutsAreInText
  <2>3. CASE S # {}
    <3>1. Max(S) \in S /\ \A y \in S : Max(S) >= y BY <1>2, <2>1, <2>2, <2>3, MaxIs
    <3>2. PICK b \in Cuts : b <= i /\ \A c \in Cuts : c <= i => c <= b
      BY <2>1, <3>1
    <3>3. b \in 0 .. Len(text) BY CutsAreInText
    <3>4. PICK e : e = Ends(b, Cuts) OBVIOUS
    <3>5. e \in Nat /\ b < e /\ e \in Cuts \cup {Len(text)}
      BY <1>1, <1>2, <3>2, <3>3, <3>4, EndsIs
    <3>6. i < e
      BY <1>1, <1>2, <3>2, <3>3, <3>5
    <3>7. i \in Ink(b, e) BY <1>1, <1>2, <3>2, <3>3, <3>5, <3>6 DEF Ink
    <3>8. <<b, e>> \in Sections
      <4>1. CASE strategy = "page"
        <5>1. Cuts = {m + 1 : m \in Marks} /\ Sections = PageSections BY <4>1 DEF Cuts, Sections
        <5>2. QED BY <3>2, <3>4, <3>7, <5>1 DEF PageSections
      <4>2. CASE strategy # "page"
        <5>1. Cuts = Marks /\ Sections = HeadingSections BY <1>4, <4>2 DEF Cuts, Sections
        <5>2. QED BY <3>2, <3>4, <5>1 DEF HeadingSections
      <4>3. QED BY <4>1, <4>2
    <3>9. QED BY <3>2, <3>6, <3>8
  <2>4. CASE S = {}
    <3>1. PICK e : e = Ends(0, Cuts) OBVIOUS
    <3>2. 0 \in 0 .. Len(text) BY <1>2
    <3>3. e \in Nat /\ 0 < e /\ e \in Cuts \cup {Len(text)}
      BY <1>1, <1>2, <3>1, <3>2, EndsIs
    <3>4. i < e
      BY <1>1, <1>2, <2>1, <2>4, <3>3
    <3>5. i \in Ink(0, e) BY <1>1, <1>2, <3>3, <3>4 DEF Ink
    <3>6. <<0, e>> \in Sections
      <4>1. CASE strategy = "page"
        <5>1. Cuts = {m + 1 : m \in Marks} /\ Sections = PageSections BY <4>1 DEF Cuts, Sections
        <5>2. QED BY <3>1, <5>1 DEF PageSections
      <4>2. CASE strategy # "page"
        <5>1. Cuts = Marks /\ Sections = HeadingSections BY <1>4, <4>2 DEF Cuts, Sections
        <5>2. 0 \notin Marks BY <1>2, <2>1, <2>4, <5>1
        <5>3. QED BY <3>1, <3>5, <5>1, <5>2 DEF HeadingSections
      <4>3. QED BY <4>1, <4>2
    <3>7. QED BY <1>2, <3>4, <3>6
  <2>5. QED BY <2>3, <2>4
<1>5. QED BY <1>3, <1>4
-----------------------------------------------------------------------------
(* A chunk has the letters i, and every chunk so far begins before i.      *)
Holds(k, i) == chunks[k].from <= i /\ i < chunks[k].to
Chunked(i) == \E k \in DOMAIN chunks : Holds(k, i)
Done(i) == \E s \in Sections \ todo : s[1] <= i /\ i < s[2]
Letters == Ink(0, Len(text))

ChunkRecord == [from : Nat, to : Nat, char_start : Nat]
Located(c) == c.char_start = c.from \/ KeptWhole(c)
ChunkShape ==
  /\ chunks \in Seq(ChunkRecord)
  /\ \A k \in DOMAIN chunks : Located(chunks[k])
  /\ \A k \in DOMAIN chunks : chunks[k].from < chunks[k].to /\ chunks[k].to <= chunks[k].from + size
  /\ \A k, m \in DOMAIN chunks : k < m => chunks[k].from <= chunks[m].from

(* Sections are cut in the order of the text, and the first of them from   *)
(* its beginning to start; what lies behind start begins no chunk yet.     *)
ChunkInv ==
  /\ Parsed /\ ChunkShape
  /\ todo \subseteq Sections
  /\ start \in 0 .. Len(text)
  /\ \A s \in Sections, t \in todo : t[1] <= s[1] => s \in todo
  /\ todo # {} => First[1] <= start /\ start <= First[2]
  /\ \A k \in DOMAIN chunks : \A i \in Letters : start <= i => chunks[k].from <= i
  /\ \A i \in Letters : Done(i) => Chunked(i)
  /\ todo # {} => \A i \in Letters : First[1] <= i /\ i < start => Chunked(i)

LEMMA SectionIsInText ==
  ASSUME Parsed, NEW s \in Sections
  PROVE  /\ s[1] \in 0 .. Len(text) /\ s[2] \in s[1] .. Len(text)
         /\ s = <<s[1], s[2]>>
         /\ \A t \in Sections : s[1] < t[1] => s[2] <= t[1]
         /\ \A t \in Sections : s[1] = t[1] => s = t
<1>1. \A t \in Sections : t[1] \in Cuts \cup {0} /\ t = <<t[1], Ends(t[1], Cuts)>>
  BY SectionsAre
<1>2. Len(text) \in Nat BY DEF Parsed
<1>3. \A t \in Sections : t[1] \in 0 .. Len(text) BY <1>1, <1>2, CutsAreInText
<1>4. s[2] = Ends(s[1], Cuts) BY <1>1
<1>5. s[2] \in s[1] .. Len(text) /\ \A c \in Cuts : s[1] < c => s[2] <= c
  BY <1>3, <1>4, EndsIs
<1>6. ASSUME NEW t \in Sections, s[1] < t[1] PROVE s[2] <= t[1]
  <2>1. t[1] # 0 BY <1>2, <1>3, <1>6
  <2>2. QED BY <1>1, <1>5, <1>6, <2>1
<1>7. ASSUME NEW t \in Sections, s[1] = t[1] PROVE s = t
  BY <1>1, <1>7
<1>8. QED BY <1>1, <1>3, <1>4, <1>5, <1>6, <1>7

(* First is the section to be cut.                                         *)
LEMMA FirstIs ==
  ASSUME Parsed, todo \subseteq Sections, todo # {}
  PROVE  First \in todo /\ \A t \in todo : First[1] <= t[1]
<1>1. PICK S : S = {n \in Nat : \E s \in todo : n = s[1]} OBVIOUS
<1>2. \A s \in todo : s[1] \in Nat
  <2> TAKE s \in todo
  <2>1. s[1] \in 0 .. Len(text) BY SectionIsInText
  <2>2. QED BY <2>1 DEF Parsed
<1>3. S \in SUBSET Nat BY <1>1
<1>4. S # {}
  <2>1. PICK s \in todo : TRUE OBVIOUS
  <2>2. s[1] \in S BY <1>1, <1>2, <2>1
  <2>3. QED BY <2>2
<1>5. PICK n \in S : \A m \in S : n <= m BY <1>3, <1>4, LeastNumber
<1>6. PICK s \in todo : n = s[1] BY <1>1, <1>5
<1>7. \A t \in todo : s[1] <= t[1]
  <2> TAKE t \in todo
  <2>1. t[1] \in S BY <1>1, <1>2
  <2>2. QED BY <1>5, <1>6, <2>1
<1>8. QED BY <1>7 DEF First

(* What Put adds: the letters from lo to hi.                               *)
PutMeans(lo, hi, pos) ==
  \/ /\ chunks' = chunks /\ Ink(lo, hi) = {}
  \/ \E a, b \in Nat :
       /\ chunks' = Append(chunks, [from |-> a, to |-> b, char_start |-> pos])
       /\ a \in Ink(lo, hi) /\ b - 1 \in Ink(lo, hi) /\ <<a, b>> = Strip(lo, hi)
       /\ \A i \in Ink(lo, hi) : a <= i /\ i < b

LEMMA PutPuts ==
  ASSUME Parsed, NEW lo \in 0 .. Len(text), NEW hi \in lo .. Len(text), NEW pos,
         Put(lo, hi, pos)
  PROVE  PutMeans(lo, hi, pos)
<1>1. Len(text) \in Nat /\ lo \in Nat /\ hi \in Nat BY DEF Parsed
<1>2. CASE Ink(lo, hi) = {} BY <1>2 DEF Put, PutMeans
<1>3. CASE Ink(lo, hi) # {}
  <2>1. Ink(lo, hi) \in SUBSET Nat /\ \A i \in Ink(lo, hi) : i <= hi BY <1>1 DEF Ink
  <2>2. PICK a \in Nat : a = Min(Ink(lo, hi)) /\ a \in Ink(lo, hi) /\ \A i \in Ink(lo, hi) : a <= i
    BY <1>3, <2>1, MinIs
  <2>3. PICK z \in Nat : z = Max(Ink(lo, hi)) /\ z \in Ink(lo, hi) /\ \A i \in Ink(lo, hi) : z >= i
    BY <1>1, <1>3, <2>1, MaxIs
  <2>4. PICK b \in Nat : b = z + 1 OBVIOUS
  <2>5. Strip(lo, hi) = <<a, b>> BY <2>2, <2>3, <2>4 DEF Strip
  <2>6. \A i \in Ink(lo, hi) : a <= i /\ i < b BY <2>1, <2>2, <2>3, <2>4
  <2>7. b - 1 \in Ink(lo, hi) BY <2>3, <2>4
  <2>8. chunks' = Append(chunks, [from |-> a, to |-> b, char_start |-> pos])
    BY <1>3, <2>5 DEF Put, Draft
  <2>9. QED BY <2>2, <2>5, <2>6, <2>7, <2>8 DEF PutMeans
<1>4. QED BY <1>2, <1>3

LEMMA TextStays ==
  ASSUME UNCHANGED <<text, strategy, size, overlap>>
  PROVE  /\ Sections' = Sections /\ Letters' = Letters /\ (Parsed => Parsed')
         /\ \A c : KeptWhole(c)' = KeptWhole(c)
<1>1. Marks' = Marks BY DEF Marks, At
<1>2. \A lo, hi : Ink(lo, hi)' = Ink(lo, hi) BY DEF Ink, At, Blank
<1>3. \A lo, cuts : Ends(lo, cuts)' = Ends(lo, cuts) BY DEF Ends
<1>4. HeadingSections' = HeadingSections
  BY <1>1, <1>2, <1>3 DEF HeadingSections
<1>5. PageSections' = PageSections
  BY <1>1, <1>2, <1>3 DEF PageSections
<1>6. Sections' = Sections /\ Letters' = Letters /\ (Parsed => Parsed')
  BY <1>4, <1>5 DEF Sections, Letters, Ink, At, Blank, Parsed
<1>7. \A c : KeptWhole(c)' = KeptWhole(c) BY <1>2, <1>6 DEF KeptWhole
<1>8. QED BY <1>6, <1>7

(* Chunks stay in shape when letters behind all of them are put, as many   *)
(* as a chunk may have.                                                    *)
NoneBegun(lo) == \A k \in DOMAIN chunks : \A i \in Letters : lo <= i => chunks[k].from <= i
FitsSize(lo, hi) == Ink(lo, hi) # {} => Strip(lo, hi)[2] - Strip(lo, hi)[1] <= size
Places(lo, hi, pos) == Ink(lo, hi) # {} => pos \in Nat /\ Located(Draft(lo, hi, pos))

LEMMA PutKeepsShape ==
  ASSUME Parsed, ChunkShape, NEW lo \in 0 .. Len(text), NEW hi \in lo .. Len(text), NEW pos,
         Put(lo, hi, pos), NoneBegun(lo), FitsSize(lo, hi), Places(lo, hi, pos),
         UNCHANGED <<text, strategy, size, overlap>>
  PROVE  /\ ChunkShape'
         /\ \A i \in Letters : Chunked(i) => Chunked(i)'
         /\ \A i \in Letters : lo <= i /\ i < hi => Chunked(i)'
         /\ \A m \in lo .. Len(text) : NoneBegun(m)'
<1>1. Len(text) \in Nat /\ lo \in Nat /\ hi \in Nat /\ size \in Nat BY DEF Parsed
<1>2. Letters \in SUBSET Nat /\ Ink(lo, hi) \subseteq Letters
      /\ \A i \in Letters : lo <= i /\ i < hi => i \in Ink(lo, hi)
  BY <1>1 DEF Letters, Ink
<1>3. Letters' = Letters /\ \A c : Located(c)' = Located(c) BY TextStays DEF Located
<1>4. PutMeans(lo, hi, pos) BY PutPuts
<1>5. CASE chunks' = chunks /\ Ink(lo, hi) = {}
  <2>1. ChunkShape' BY <1>3, <1>5 DEF ChunkShape
  <2>2. \A i \in Letters : Chunked(i)' = Chunked(i) BY <1>5 DEF Chunked, Holds
  <2>3. \A m \in lo .. Len(text) : NoneBegun(m)'
    BY <1>1, <1>2, <1>3, <1>5 DEF NoneBegun
  <2>4. QED BY <1>2, <1>5, <2>1, <2>2, <2>3
<1>6. CASE chunks' # chunks \/ Ink(lo, hi) # {}
  <2>1. PICK a, b \in Nat :
          /\ chunks' = Append(chunks, [from |-> a, to |-> b, char_start |-> pos])
          /\ a \in Ink(lo, hi) /\ b - 1 \in Ink(lo, hi) /\ <<a, b>> = Strip(lo, hi)
          /\ \A i \in Ink(lo, hi) : a <= i /\ i < b
    BY <1>4, <1>6 DEF PutMeans
  <2>2. PICK n \in Nat : n = Len(chunks) BY DEF ChunkShape
  <2>3. chunks \in Seq(ChunkRecord) /\ DOMAIN chunks = 1 .. n BY <2>2 DEF ChunkShape
  <2> DEFINE c == [from |-> a, to |-> b, char_start |-> pos]
  <2>c. c \in ChunkRecord /\ Located(c) /\ c.from = a /\ c.to = b
    <3>1. Strip(lo, hi)[1] = a /\ Strip(lo, hi)[2] = b BY <2>1
    <3>2. Draft(lo, hi, pos) = c BY <3>1 DEF Draft
    <3>3. Ink(lo, hi) # {} BY <2>1
    <3>4. QED BY <3>2, <3>3 DEF Places, ChunkRecord
  <2> HIDE DEF c
  <2>4. /\ chunks' \in Seq(ChunkRecord) /\ DOMAIN chunks' = 1 .. (n + 1)
        /\ \A k \in 1 .. n : chunks'[k] = chunks[k]
        /\ chunks'[n + 1] = c
    <3>1. chunks' = Append(chunks, c) BY <2>1 DEF c
    <3>2. QED BY <2>2, <2>3, <2>c, <3>1
  <2>5. a < b /\ b <= a + size /\ lo <= a
    <3>1. Strip(lo, hi)[1] = a /\ Strip(lo, hi)[2] = b
      BY <2>1
    <3>2. b - a <= size BY <2>1, <3>1 DEF FitsSize
    <3>3. a >= lo BY <1>1, <2>1 DEF Ink
    <3>4. QED BY <1>1, <2>1, <3>2, <3>3
  <2>6. \A k \in 1 .. n : chunks[k].from <= a
    BY <1>2, <2>1, <2>3, <2>5 DEF NoneBegun
  <2>7. ChunkShape'
    <3>1. \A k \in DOMAIN chunks' : chunks'[k].from < chunks'[k].to
                                    /\ chunks'[k].to <= chunks'[k].from + size'
      <4> TAKE k \in DOMAIN chunks'
      <4>1. CASE k \in 1 .. n BY <2>3, <2>4, <4>1 DEF ChunkShape
      <4>2. CASE k = n + 1
        <5>1. chunks'[k].from = a /\ chunks'[k].to = b BY <2>4, <2>c, <4>2
        <5>2. QED BY <2>5, <5>1
      <4>3. QED BY <2>2, <2>4, <4>1, <4>2
    <3>2. \A k, m \in DOMAIN chunks' : k < m => chunks'[k].from <= chunks'[m].from
      <4> TAKE k, m \in DOMAIN chunks'
      <4> HAVE k < m
      <4>1. k \in 1 .. n BY <2>2, <2>4
      <4>2. CASE m \in 1 .. n BY <2>3, <2>4, <4>1, <4>2 DEF ChunkShape
      <4>3. CASE m = n + 1
        <5>1. chunks'[m].from = a BY <2>4, <2>c, <4>3
        <5>2. chunks'[k] = chunks[k] BY <2>4, <4>1
        <5>3. QED BY <2>6, <4>1, <5>1, <5>2
      <4>4. QED BY <2>2, <2>4, <4>2, <4>3
    <3>3. chunks' \in Seq(ChunkRecord) BY <2>4
    <3>4. (\A k \in DOMAIN chunks : Located(chunks[k]))'
      <4> SUFFICES ASSUME NEW k \in DOMAIN chunks' PROVE Located(chunks[k])' OBVIOUS
      <4>1. Located(chunks'[k])
        <5>1. CASE k \in 1 .. n BY <2>3, <2>4, <5>1 DEF ChunkShape
        <5>2. CASE k = n + 1 BY <2>4, <2>c, <5>2
        <5>3. QED BY <2>2, <2>4, <5>1, <5>2
      <4>2. Sections' = Sections BY TextStays
      <4>3. QED BY <4>1, <4>2 DEF Located, KeptWhole, Ink, At, Blank
    <3>5. QED BY <3>1, <3>2, <3>3, <3>4 DEF ChunkShape
  <2>8. \A i \in Letters : Chunked(i) => Chunked(i)'
    <3> TAKE i \in Letters
    <3> HAVE Chunked(i)
    <3>1. PICK k \in DOMAIN chunks : Holds(k, i) BY DEF Chunked
    <3>2. k \in DOMAIN chunks' /\ chunks'[k] = chunks[k] BY <2>2, <2>3, <2>4
    <3>3. Holds(k, i)' BY <3>1, <3>2 DEF Holds
    <3>4. QED BY <3>2, <3>3 DEF Chunked
  <2>9. \A i \in Letters : lo <= i /\ i < hi => Chunked(i)'
    <3> TAKE i \in Letters
    <3> HAVE lo <= i /\ i < hi
    <3>1. a <= i /\ i < b BY <1>2, <2>1
    <3>2. n + 1 \in DOMAIN chunks' /\ chunks'[n + 1].from = a /\ chunks'[n + 1].to = b
      BY <2>2, <2>4, <2>c
    <3>3. QED BY <3>1, <3>2 DEF Chunked, Holds
  <2>10. \A m \in lo .. Len(text) : NoneBegun(m)'
    <3> SUFFICES ASSUME NEW m \in lo .. Len(text), NEW k \in DOMAIN chunks', NEW i \in Letters, m <= i
                 PROVE  chunks'[k].from <= i
      BY <1>3 DEF NoneBegun
    <3>1. lo <= i /\ i \in Nat BY <1>1, <1>2
    <3>2. CASE k \in 1 .. n BY <2>3, <2>4, <3>1, <3>2 DEF NoneBegun
    <3>3. CASE k = n + 1
      <4>1. a <= i
        <5>1. CASE i < hi BY <1>2, <2>1, <3>1, <5>1
        <5>2. CASE ~(i < hi)
          <6>1. a < hi BY <1>1, <2>1 DEF Ink
          <6>2. QED BY <1>1, <2>1, <3>1, <5>2, <6>1
        <5>3. QED BY <5>1, <5>2
      <4>2. QED BY <2>4, <2>c, <3>3, <4>1
    <3>4. QED BY <2>2, <2>4, <3>2, <3>3
  <2>11. QED BY <2>7, <2>8, <2>9, <2>10
<1>7. QED BY <1>5, <1>6

-----------------------------------------------------------------------------
FirstMeans ==
  Parsed /\ todo \subseteq Sections /\ todo # {} =>
    /\ First \in todo /\ First \in Sections
    /\ \A t \in todo : First[1] <= t[1]
    /\ First[1] \in 0 .. Len(text) /\ First[2] \in First[1] .. Len(text)

LEMMA FirstFacts == FirstMeans
BY FirstIs, SectionIsInText DEF FirstMeans

(* What is put of the first section, and that it is its rest.              *)
PutsRest ==
  /\ ChunkShape'
  /\ \A i \in Letters : Chunked(i) => Chunked(i)'
  /\ \A i \in Letters : start <= i /\ i < First[2] => Chunked(i)'
  /\ \A m \in start .. Len(text) : NoneBegun(m)'

LEMMA AdvanceKeeps ==
  ASSUME ChunkInv, todo # {}, Advance, PutsRest
  PROVE  ChunkInv'
<1>1. PICK f : f = First OBVIOUS
<1>2. PICK rest : rest = todo \ {f} OBVIOUS
<1>3. /\ todo' = rest /\ UNCHANGED <<text, strategy, size, overlap>>
      /\ start' = IF rest = {} THEN Len(text) ELSE Min({s[1] : s \in rest})
  BY <1>1, <1>2 DEF Advance
<1>4. Parsed /\ todo \subseteq Sections /\ Len(text) \in Nat /\ start \in 0 .. Len(text)
  BY DEF ChunkInv, Parsed
<1>5. /\ f \in todo /\ f \in Sections /\ \A t \in todo : f[1] <= t[1]
      /\ f[1] \in 0 .. Len(text) /\ f[2] \in f[1] .. Len(text)
  BY <1>1, <1>4, FirstFacts DEF FirstMeans
<1>6. f[1] <= start /\ start <= f[2] BY <1>1 DEF ChunkInv
<1>7. Sections' = Sections /\ Letters' = Letters /\ Parsed' BY <1>3, <1>4, TextStays
<1>8. ASSUME NEW t \in rest
      PROVE  t[1] \in 0 .. Len(text) /\ f[1] < t[1] /\ f[2] <= t[1]
  <2>1. t \in todo /\ t \in Sections /\ t # f BY <1>2, <1>4, <1>8
  <2>2. t[1] \in 0 .. Len(text) BY <1>4, <2>1, SectionIsInText
  <2>3. f[1] <= t[1] /\ f[1] # t[1] BY <1>4, <1>5, <2>1, SectionIsInText
  <2>4. f[1] < t[1] BY <1>4, <1>5, <2>2, <2>3
  <2>5. QED BY <1>4, <1>5, <2>1, <2>2, <2>4, SectionIsInText
<1>9. /\ start' \in start .. Len(text)
      /\ rest # {} => (\E t \in rest : start' = t[1]) /\ \A t \in rest : start' <= t[1]
  <2>1. CASE rest = {} BY <1>3, <1>4, <2>1
  <2>2. CASE rest # {}
    <3>1. PICK S : S = {s[1] : s \in rest} OBVIOUS
    <3>2. S \in SUBSET Nat BY <1>4, <1>8, <3>1
    <3>3. S # {} BY <2>2, <3>1
    <3>4. Min(S) \in S /\ \A y \in S : Min(S) <= y BY <3>2, <3>3, MinIs
    <3>5. start' = Min(S) BY <1>3, <2>2, <3>1
    <3>6. (\E t \in rest : start' = t[1]) /\ \A t \in rest : start' <= t[1]
      BY <3>1, <3>4, <3>5
    <3>7. QED BY <1>4, <1>5, <1>6, <1>8, <3>6
  <2>3. QED BY <2>1, <2>2
<1>10. start' \in 0 .. Len(text) BY <1>4, <1>9
<1>11. rest # {} => First'[1] = start' /\ start' <= First'[2]
  <2> SUFFICES ASSUME rest # {} PROVE First'[1] = start' /\ start' <= First'[2] OBVIOUS
  <2>1. FirstMeans' BY FirstFacts, PTL
  <2>2. todo' \subseteq Sections' /\ todo' # {} BY <1>2, <1>3, <1>4, <1>7
  <2>3. /\ First' \in rest /\ \A t \in rest : First'[1] <= t[1]
        /\ First'[1] \in 0 .. Len(text)' /\ First'[2] \in First'[1] .. Len(text)'
    BY <1>3, <1>7, <2>1, <2>2 DEF FirstMeans
  <2>4. PICK t \in rest : start' = t[1] BY <1>9
  <2>5. start' <= First'[1] /\ First'[1] <= start' BY <1>9, <2>3, <2>4
  <2>6. QED BY <1>3, <1>4, <1>9, <2>3, <2>5
<1>12. \A s \in Sections, t \in rest : t[1] <= s[1] => s \in rest
  <2> SUFFICES ASSUME NEW s \in Sections, NEW t \in rest, t[1] <= s[1] PROVE s \in rest OBVIOUS
  <2>1. s \in todo BY <1>2 DEF ChunkInv
  <2>2. s # f BY <1>4, <1>5, <1>8
  <2>3. QED BY <1>2, <2>1, <2>2
<1>13. \A i \in Letters : Done(i)' => Chunked(i)'
  <2> SUFFICES ASSUME NEW i \in Letters, Done(i)' PROVE Chunked(i)' OBVIOUS
  <2>1. PICK s \in Sections \ rest : s[1] <= i /\ i < s[2] BY <1>3, <1>7 DEF Done
  <2>2. CASE s \notin todo
    <3>1. Done(i) BY <2>1, <2>2 DEF Done
    <3>2. QED BY <3>1 DEF ChunkInv, PutsRest
  <2>3. CASE s \in todo
    <3>1. s = f BY <1>2, <2>1, <2>3
    <3>2. i \in Int BY <1>4 DEF Letters, Ink
    <3>3. CASE i < start BY <1>1, <2>1, <3>1, <3>3 DEF ChunkInv, PutsRest
    <3>4. CASE ~(i < start)
      <4>1. start <= i BY <1>4, <3>2, <3>4
      <4>2. QED BY <1>1, <2>1, <3>1, <4>1 DEF PutsRest
    <3>5. QED BY <3>3, <3>4
  <2>4. QED BY <2>2, <2>3
<1>14. rest # {} => \A i \in Letters : ~(First'[1] <= i /\ i < start')
  BY <1>4, <1>10, <1>11 DEF Letters, Ink
<1>15. \A k \in DOMAIN chunks' : \A i \in Letters : start' <= i => chunks'[k].from <= i
  <2>1. PICK m \in start .. Len(text) : m = start' BY <1>9
  <2>2. NoneBegun(m)' BY DEF PutsRest
  <2>3. QED BY <1>7, <2>1, <2>2 DEF NoneBegun
<1>16. ChunkShape' BY DEF PutsRest
<1>17. (todo # {} => First[1] <= start /\ start <= First[2])'
  BY <1>3, <1>10, <1>11, <1>4
<1>18. QED
  BY <1>2, <1>3, <1>4, <1>7, <1>10, <1>12, <1>13, <1>14, <1>15, <1>16, <1>17 DEF ChunkInv

-----------------------------------------------------------------------------
LEMMA WholeSectionKeeps == ASSUME ChunkInv, WholeSection PROVE ChunkInv'
<1>1. Parsed /\ todo \subseteq Sections /\ ChunkShape /\ NoneBegun(start)
  BY DEF ChunkInv, NoneBegun
<1>2. todo # {} /\ start = First[1] /\ Put(First[1], First[2], First[1]) /\ Advance /\ Short(First)
  BY DEF WholeSection
<1>3. PICK lo, hi : lo = First[1] /\ hi = First[2] OBVIOUS
<1>4. lo \in 0 .. Len(text) /\ hi \in lo .. Len(text)
  BY <1>1, <1>2, <1>3, FirstFacts DEF FirstMeans
<1>5. FitsSize(lo, hi) BY <1>2, <1>3 DEF Short, FitsSize
<1>6. Put(lo, hi, lo) /\ NoneBegun(lo) /\ UNCHANGED <<text, strategy, size, overlap>>
  BY <1>1, <1>2, <1>3 DEF Advance
<1>7. Places(lo, hi, lo)
  <2> SUFFICES ASSUME Ink(lo, hi) # {} PROVE lo \in Nat /\ Located(Draft(lo, hi, lo))
    BY DEF Places
  <2>1. Len(text) \in Nat /\ lo \in Nat /\ hi \in Nat BY <1>1, <1>4 DEF Parsed
  <2>2. Ink(lo, hi) \in SUBSET Nat /\ \A i \in Ink(lo, hi) : lo <= i /\ i < hi
    BY <2>1 DEF Ink
  <2>3. PICK a \in Nat : a = Min(Ink(lo, hi)) /\ lo <= a /\ \A i \in Ink(lo, hi) : a <= i
    BY <2>2, MinIs
  <2>4. PICK z \in Nat : z = Max(Ink(lo, hi)) /\ z < hi /\ \A i \in Ink(lo, hi) : z >= i
    <3>1. \A i \in Ink(lo, hi) : i <= hi BY <2>1, <2>2
    <3>2. QED BY <2>1, <2>2, <3>1, MaxIs
  <2>5. PICK c : c = Draft(lo, hi, lo) OBVIOUS
  <2>6. c.from = a /\ c.to = z + 1 /\ c.char_start = lo BY <2>3, <2>4, <2>5 DEF Draft, Strip
  <2>7. Ink(lo, a) = {} /\ Ink(z + 1, hi) = {}
    <3>1. a <= hi
      <4>1. Min(Ink(lo, hi)) \in Ink(lo, hi) BY <2>2, MinIs
      <4>2. QED BY <2>1, <2>2, <2>3, <4>1
    <3>2. \A i \in Ink(lo, a) : i \in Ink(lo, hi) /\ i < a BY <2>1, <2>3, <3>1 DEF Ink
    <3>3. \A i \in Ink(z + 1, hi) : i \in Ink(lo, hi) /\ z < i
      <4>1. lo <= z
        <5>1. Max(Ink(lo, hi)) \in Ink(lo, hi)
          <6>1. \A i \in Ink(lo, hi) : i <= hi BY <2>1, <2>2
          <6>2. QED BY <2>1, <2>2, <6>1, MaxIs
        <5>2. QED BY <2>2, <2>4, <5>1
      <4>2. QED BY <2>1, <2>4, <4>1 DEF Ink
    <3>4. QED BY <2>2, <2>3, <2>4, <3>2, <3>3
  <2>8. First \in Sections /\ strategy \in {"markdown", "page"}
    BY <1>1, <1>2, FirstFacts DEF FirstMeans, Short
  <2>9. KeptWhole(c) BY <1>3, <2>3, <2>6, <2>7, <2>8 DEF KeptWhole
  <2>10. QED BY <2>1, <2>5, <2>9 DEF Located
<1>8. PutsRest
  BY <1>1, <1>2, <1>3, <1>4, <1>5, <1>6, <1>7, PutKeepsShape DEF PutsRest
<1>9. QED BY <1>2, <1>8, AdvanceKeeps

LEMMA EmptySectionKeeps == ASSUME ChunkInv, EmptySection PROVE ChunkInv'
<1>1. Parsed /\ todo \subseteq Sections /\ ChunkShape /\ start \in 0 .. Len(text)
  BY DEF ChunkInv
<1>2. todo # {} /\ start >= First[2] /\ chunks' = chunks /\ Advance
  BY DEF EmptySection
<1>3. UNCHANGED <<text, strategy, size, overlap>> BY <1>2 DEF Advance
<1>4. First[2] \in Nat /\ Len(text) \in Nat /\ start \in Nat /\ Letters \in SUBSET Nat
  <2>1. First[1] \in 0 .. Len(text) /\ First[2] \in First[1] .. Len(text)
    BY <1>1, <1>2, FirstFacts DEF FirstMeans
  <2>2. QED BY <1>1, <2>1 DEF Parsed, Letters, Ink
<1>5. ChunkShape' BY <1>1, <1>2, <1>3, TextStays DEF ChunkShape, Located
<1>6. \A i \in Letters : Chunked(i) => Chunked(i)' BY <1>2 DEF Chunked, Holds
<1>7. \A m \in start .. Len(text) : NoneBegun(m)'
  <2> TAKE m \in start .. Len(text)
  <2>1. Letters' = Letters BY <1>3, TextStays
  <2>2. \A i \in Letters : m <= i => start <= i BY <1>4
  <2>3. QED BY <1>2, <2>1, <2>2 DEF NoneBegun, ChunkInv
<1>8. \A i \in Letters : ~(start <= i /\ i < First[2]) BY <1>2, <1>4
<1>9. PutsRest BY <1>5, <1>6, <1>7, <1>8 DEF PutsRest
<1>10. QED BY <1>2, <1>9, AdvanceKeeps

(* A cut is behind the beginning, in the section and within the size.      *)
LEMMA CutIsAhead ==
  ASSUME Parsed, NEW lo \in Nat, NEW hi \in Nat, lo < hi
  PROVE  CutAt(lo, hi) \in lo + 1 .. hi /\ CutAt(lo, hi) <= lo + size
<1>1. size \in Nat \ {0} BY DEF Parsed
<1>2. PICK end \in Nat : end = IF lo + size < hi THEN lo + size ELSE hi BY <1>1
<1>3. lo < end /\ end <= hi /\ end <= lo + size BY <1>1, <1>2
<1>4. PICK sep : sep = LastSeparator(lo, end) OBVIOUS
<1>5. ASSUME NEW c, Seps(c, lo, end) # {}
      PROVE  Max(Seps(c, lo, end)) + 1 \in lo + 1 .. end
  <2>1. Seps(c, lo, end) \in SUBSET Nat /\ \A i \in Seps(c, lo, end) : lo < i /\ i < end
    BY <1>2, <1>3 DEF Seps
  <2>2. \A i \in Seps(c, lo, end) : i <= end BY <2>1, <1>2
  <2>3. Max(Seps(c, lo, end)) \in Seps(c, lo, end) BY <1>2, <1>5, <2>1, <2>2, MaxIs
  <2>4. QED BY <1>2, <2>1, <2>3
<1>6. sep \in lo + 1 .. end
  <2>1. CASE Seps(".", lo, end) # {}
    <3>1. Max(Seps(".", lo, end)) + 1 \in lo + 1 .. end BY <1>5, <2>1
    <3>2. QED BY <1>4, <2>1, <3>1 DEF LastSeparator
  <2>2. CASE Seps(".", lo, end) = {} /\ Seps(" ", lo, end) # {}
    <3>1. Max(Seps(" ", lo, end)) + 1 \in lo + 1 .. end BY <1>5, <2>2
    <3>2. QED BY <1>4, <2>2, <3>1 DEF LastSeparator
  <2>3. CASE Seps(".", lo, end) = {} /\ Seps(" ", lo, end) = {}
    <3>1. sep = end BY <1>4, <2>3 DEF LastSeparator
    <3>2. QED BY <1>2, <1>3, <3>1
  <2>4. QED BY <2>1, <2>2, <2>3
<1>7. CutAt(lo, hi) = IF end < hi /\ sep - lo >= size \div 4 THEN sep ELSE end
  BY <1>2, <1>4 DEF CutAt
<1>8. QED BY <1>1, <1>2, <1>3, <1>6, <1>7

(* The next chunk begins behind this one's beginning, and leaves no gap.   *)
LEMMA NextStartIsAhead ==
  ASSUME Parsed, NEW lo \in Nat, NEW end \in Nat, lo < end
  PROVE  NextStart(lo, end) \in lo + 1 .. end
<1>1. ClipOverlap \in Nat BY DEF Parsed, ClipOverlap
<1>2. PICK S : S = {end - ClipOverlap, lo + 1} OBVIOUS
<1>3. \A y \in S : y \in Int /\ y <= end BY <1>1, <1>2
<1>4. Max(S) \in S /\ \A y \in S : Max(S) >= y
  <2>1. \E x \in S : \A y \in S : x >= y BY <1>1, <1>2
  <2>2. QED BY <2>1 DEF Max
<1>5. QED BY <1>2, <1>3, <1>4 DEF NextStart

LEMMA PieceKeeps == ASSUME ChunkInv, Piece PROVE ChunkInv'
<1>1. Parsed /\ todo \subseteq Sections /\ ChunkShape /\ NoneBegun(start) /\ start \in 0 .. Len(text)
  BY DEF ChunkInv, NoneBegun
<1>2. PICK hi, end : hi = First[2] /\ end = CutAt(start, hi) OBVIOUS
<1>3. /\ todo # {} /\ start < hi /\ Put(start, end, Strip(start, end)[1])
      /\ IF end >= hi THEN Advance
         ELSE /\ start' = NextStart(start, end)
              /\ UNCHANGED <<text, strategy, size, overlap, todo>>
  BY <1>2 DEF Piece
<1>4. Len(text) \in Nat /\ start \in Nat /\ hi \in Nat /\ hi <= Len(text)
      /\ First[1] \in Nat /\ First[1] <= start
  <2>1. First[1] \in 0 .. Len(text) /\ First[2] \in First[1] .. Len(text)
    BY <1>1, <1>3, FirstFacts DEF FirstMeans
  <2>2. QED BY <1>1, <1>2, <1>3, <2>1 DEF Parsed, ChunkInv
<1>5. end \in start + 1 .. hi /\ end <= start + size /\ end \in Nat
  <2>1. CutAt(start, hi) \in start + 1 .. hi /\ CutAt(start, hi) <= start + size
    BY <1>1, <1>3, <1>4, CutIsAhead
  <2>2. end \in start + 1 .. hi /\ end <= start + size BY <1>2, <2>1
  <2>3. QED BY <1>4, <2>2
<1>6. UNCHANGED <<text, strategy, size, overlap>> BY <1>3 DEF Advance
<1>7. FitsSize(start, end)
  <2> SUFFICES ASSUME Ink(start, end) # {}
               PROVE  Strip(start, end)[2] - Strip(start, end)[1] <= size
    BY DEF FitsSize
  <2>1. PICK S : S = Ink(start, end) OBVIOUS
  <2>2. S \in SUBSET Nat /\ \A i \in S : start <= i /\ i < end BY <1>4, <1>5, <2>1 DEF Ink
  <2>3. Min(S) \in S BY <2>1, <2>2, MinIs
  <2>4. Max(S) \in S
    <3>1. \A i \in S : i <= end BY <1>5, <2>2
    <3>2. QED BY <1>5, <2>1, <2>2, <3>1, MaxIs
  <2>5. Strip(start, end)[1] = Min(S) /\ Strip(start, end)[2] = Max(S) + 1
    BY <2>1 DEF Strip
  <2>6. size \in Nat BY <1>1 DEF Parsed
  <2>7. PICK a, z \in Nat : a = Min(S) /\ z = Max(S) BY <2>2, <2>3, <2>4
  <2>8. start <= a /\ z < end BY <2>2, <2>3, <2>4, <2>7
  <2>9. z + 1 - a <= size BY <1>4, <1>5, <2>6, <2>8
  <2>10. QED BY <2>5, <2>7, <2>9
<1>p. Places(start, end, Strip(start, end)[1])
  <2> SUFFICES ASSUME Ink(start, end) # {}
               PROVE  /\ Strip(start, end)[1] \in Nat
                      /\ Located(Draft(start, end, Strip(start, end)[1]))
    BY DEF Places
  <2>1. Ink(start, end) \in SUBSET Nat BY <1>4, <1>5 DEF Ink
  <2>2. Min(Ink(start, end)) \in Nat BY <2>1, MinIs
  <2>3. QED BY <2>2 DEF Strip, Draft, Located
<1>8. /\ ChunkShape'
      /\ \A i \in Letters : Chunked(i) => Chunked(i)'
      /\ \A i \in Letters : start <= i /\ i < end => Chunked(i)'
      /\ \A m \in start .. Len(text) : NoneBegun(m)'
  <2>1. end \in start .. Len(text) BY <1>4, <1>5
  <2>2. UNCHANGED <<text, strategy, size, overlap>> BY <1>6
  <2>3. QED BY <1>1, <1>3, <1>7, <1>p, <2>1, <2>2, PutKeepsShape
<1>9. CASE end >= hi
  <2>1. end = hi BY <1>4, <1>5, <1>9
  <2>2. PutsRest BY <1>2, <1>8, <2>1 DEF PutsRest
  <2>3. QED BY <1>3, <1>9, <2>2, AdvanceKeeps
<1>10. CASE ~(end >= hi)
  <2>1. start' = NextStart(start, end) /\ todo' = todo BY <1>3, <1>10
  <2>2. start' \in start + 1 .. end BY <1>1, <1>4, <1>5, <2>1, NextStartIsAhead
  <2>3. start' \in start .. Len(text) /\ start' <= hi BY <1>4, <1>5, <2>2
  <2>4. Sections' = Sections /\ Letters' = Letters /\ Parsed' BY <1>1, <1>6, TextStays
  <2>5. First' = First BY <2>1 DEF First
  <2>6. \A i \in Letters : Done(i)' => Chunked(i)'
    BY <1>8, <2>1, <2>4 DEF ChunkInv, Done
  <2>7. \A i \in Letters : First[1] <= i /\ i < start' => Chunked(i)'
    <3> TAKE i \in Letters
    <3> HAVE First[1] <= i /\ i < start'
    <3>1. i \in Int BY <1>4 DEF Letters, Ink
    <3>2. CASE i < start BY <1>3, <1>8, <3>2 DEF ChunkInv
    <3>3. CASE ~(i < start)
      <4>1. start <= i /\ i < end BY <1>4, <1>5, <2>2, <3>1, <3>3
      <4>2. QED BY <1>8, <4>1
    <3>4. QED BY <3>2, <3>3
  <2>8. \A k \in DOMAIN chunks' : \A i \in Letters : start' <= i => chunks'[k].from <= i
    <3>1. PICK m \in start .. Len(text) : m = start' BY <2>3
    <3>2. NoneBegun(m)' BY <1>8
    <3>3. QED BY <2>4, <3>1, <3>2 DEF NoneBegun
  <2>9. First[1] <= start' /\ start' <= First[2] BY <1>2, <1>4, <2>2, <2>3
  <2>10. start' \in 0 .. Len(text)' BY <1>4, <1>6, <2>3
  <2>11. \A s \in Sections, t \in todo : t[1] <= s[1] => s \in todo BY DEF ChunkInv
  <2>12. QED
    BY <1>1, <1>8, <2>1, <2>4, <2>5, <2>6, <2>7, <2>8, <2>9, <2>10, <2>11 DEF ChunkInv
<1>11. QED BY <1>9, <1>10

LEMMA ThereAreSections == ASSUME Parsed PROVE Sections # {}
<1>1. CASE strategy = "fixed" BY <1>1 DEF Sections
<1>2. CASE strategy = "page"
  <2>1. PageSections # {} BY DEF PageSections
  <2>2. QED BY <1>2, <2>1 DEF Sections
<1>3. CASE strategy \notin {"fixed", "page"}
  <2>1. HeadingSections # {}
    <3>1. CASE Marks # {} BY <3>1 DEF HeadingSections
    <3>2. CASE Marks = {} BY <3>2 DEF HeadingSections
    <3>3. QED BY <3>1, <3>2
  <2>2. QED BY <1>3, <2>1 DEF Sections
<1>4. QED BY <1>1, <1>2, <1>3

LEMMA ChunkInitially == ChunkInit => ChunkInv
<1> SUFFICES ASSUME ChunkInit PROVE ChunkInv OBVIOUS
<1>1. Parsed /\ todo = Sections /\ chunks = <<>> /\ start = Min({s[1] : s \in todo})
  BY ChunkAssumption DEF ChunkInit, Parsed
<1>2. ChunkShape BY <1>1 DEF ChunkShape
<1>3. Sections # {} BY <1>1, ThereAreSections
<1>4. /\ First \in Sections /\ \A t \in Sections : First[1] <= t[1]
      /\ First[1] \in 0 .. Len(text) /\ First[2] \in First[1] .. Len(text)
  BY <1>1, <1>3, FirstFacts DEF FirstMeans
<1>5. Len(text) \in Nat BY <1>1 DEF Parsed
<1>6. start = First[1]
  <2>1. PICK S : S = {s[1] : s \in Sections} OBVIOUS
  <2>2. S \in SUBSET Nat
    <3>1. \A s \in Sections : s[1] \in 0 .. Len(text) BY <1>1, SectionIsInText
    <3>2. QED BY <1>5, <2>1, <3>1
  <2>3. First[1] \in S /\ \A n \in S : First[1] <= n BY <1>4, <2>1
  <2>4. S # {} BY <2>3
  <2>5. Min(S) \in S /\ \A n \in S : Min(S) <= n BY <2>2, <2>4, MinIs
  <2>6. Min(S) \in Nat /\ First[1] \in Nat BY <2>2, <2>3, <2>5
  <2>7. Min(S) <= First[1] /\ First[1] <= Min(S) BY <2>3, <2>5
  <2>8. start = Min(S) BY <1>1, <2>1
  <2>9. QED BY <2>6, <2>7, <2>8
<1>7. start \in 0 .. Len(text) /\ start <= First[2] BY <1>4, <1>5, <1>6
<1>8. \A i \in Letters : ~(First[1] <= i /\ i < start)
  BY <1>4, <1>5, <1>6 DEF Letters, Ink
<1>9. First[1] <= start BY <1>4, <1>5, <1>6
<1>10. QED
  BY <1>1, <1>2, <1>7, <1>8, <1>9 DEF ChunkInv, Done

LEMMA ChunkInductive == ChunkInv /\ [ChunkNext]_chunkVars => ChunkInv'
<1>1. ASSUME ChunkInv, ChunkNext PROVE ChunkInv'
  BY <1>1, WholeSectionKeeps, PieceKeeps, EmptySectionKeeps DEF ChunkNext
<1>2. ASSUME ChunkInv, UNCHANGED chunkVars PROVE ChunkInv'
  <2>1. UNCHANGED <<text, strategy, size, overlap, todo, start, chunks>> BY <1>2 DEF chunkVars
  <2>2. Sections' = Sections /\ Letters' = Letters /\ Parsed'
    BY <1>2, <2>1, TextStays DEF ChunkInv
  <2>3. ChunkShape' BY <1>2, <2>1, TextStays DEF ChunkInv, ChunkShape, Located
  <2>4. First' = First BY <2>1 DEF First
  <2>5. \A i : Chunked(i)' = Chunked(i) /\ Done(i)' = Done(i)
    BY <2>1, <2>2 DEF Chunked, Done, Holds
  <2>6. QED BY <1>2, <2>1, <2>2, <2>3, <2>4, <2>5 DEF ChunkInv
<1>3. QED BY <1>1, <1>2

(* Cut by whichever strategy, size and overlap, every character of a text  *)
(* that is not blank is in the content of a chunk, no content is longer    *)
(* than the size, chunks come in the order of the text, and each is        *)
(* recorded where its content lies, or where the short section begins that *)
(* it keeps whole: for texts of any length.                                *)
THEOREM ChunksAlwaysCover == ChunkSpec => []ChunksCover
<1>1. ChunkInv => ChunksCover
  <2> SUFFICES ASSUME ChunkInv PROVE ChunksCover OBVIOUS
  <2>1. \A k \in DOMAIN chunks : /\ chunks[k].to - chunks[k].from <= size
                               /\ Located(chunks[k])
    <3> TAKE k \in DOMAIN chunks
    <3>1. chunks[k] \in ChunkRecord BY DEF ChunkInv, ChunkShape
    <3>2. chunks[k].from \in Nat /\ chunks[k].to \in Nat BY <3>1 DEF ChunkRecord
    <3>3. QED BY <3>2 DEF ChunkInv, ChunkShape, Parsed
  <2>2. todo = {} => \A i \in Letters : Chunked(i)
    BY SectionsCover DEF ChunkInv, Letters, Done
  <2>3. QED BY <2>1, <2>2 DEF ChunkInv, ChunkShape, ChunksCover, Letters, Chunked, Holds, Located
<1>2. QED BY <1>1, ChunkInitially, ChunkInductive, PTL DEF ChunkSpec

-----------------------------------------------------------------------------
(* Thoughts in a stream *)

(* Texts symbol by symbol.                                                 *)
Str == Seq(Symbol)

LEMMA PartIs ==
  ASSUME NEW s \in Str, NEW m \in Nat \ {0}, NEW n \in Nat, n <= Len(s), m <= n + 1
  PROVE  /\ SubSeq(s, m, n) \in Str
         /\ Len(SubSeq(s, m, n)) = n - m + 1
         /\ \A i \in 1 .. n - m + 1 : SubSeq(s, m, n)[i] = s[m + i - 1]
<1>1. \A i \in m .. n : s[i] \in Symbol BY DEF Str
<1>2. m \in Int /\ n \in Int OBVIOUS
<1>3. /\ SubSeq(s, m, n) \in Seq(Symbol)
      /\ Len(SubSeq(s, m, n)) = IF m <= n THEN n - m + 1 ELSE 0
      /\ \A i \in 1 .. n - m + 1 : SubSeq(s, m, n)[i] = s[m + i - 1]
  BY <1>1, <1>2, SubSeqProperties
<1>4. Len(SubSeq(s, m, n)) = n - m + 1
  <2>1. CASE m <= n BY <1>3, <2>1
  <2>2. CASE ~(m <= n) 
    <3>1. m = n + 1 BY <2>2
    <3>2. QED BY <1>3, <2>2, <3>1
  <2>3. QED BY <2>1, <2>2
<1>5. QED BY <1>3, <1>4 DEF Str

LEMMA PrefixIs ==
  ASSUME NEW s \in Str, NEW t \in Str
  PROVE  IsPrefix(s, t) <=> Len(s) <= Len(t) /\ \A i \in 1 .. Len(s) : s[i] = t[i]
<1>1. Len(s) \in Nat /\ Len(t) \in Nat BY DEF Str
<1>2. CASE Len(s) <= Len(t)
  <2>1. /\ SubSeq(s, 1, Len(s)) \in Str /\ SubSeq(t, 1, Len(s)) \in Str
        /\ Len(SubSeq(s, 1, Len(s))) = Len(s) /\ Len(SubSeq(t, 1, Len(s))) = Len(s)
        /\ \A i \in 1 .. Len(s) : SubSeq(s, 1, Len(s))[i] = s[i]
        /\ \A i \in 1 .. Len(s) : SubSeq(t, 1, Len(s))[i] = t[i]
    <3>1. Len(s) - 1 + 1 = Len(s) /\ \A i \in 1 .. Len(s) : 1 + i - 1 = i BY <1>1
    <3>2. 1 \in Nat \ {0} /\ 1 <= Len(s) + 1 /\ Len(s) <= Len(s) BY <1>1
    <3>3. /\ SubSeq(s, 1, Len(s)) \in Str /\ Len(SubSeq(s, 1, Len(s))) = Len(s) - 1 + 1
          /\ \A i \in 1 .. Len(s) - 1 + 1 : SubSeq(s, 1, Len(s))[i] = s[1 + i - 1]
      BY <1>1, <3>2, PartIs
    <3>4. /\ SubSeq(t, 1, Len(s)) \in Str /\ Len(SubSeq(t, 1, Len(s))) = Len(s) - 1 + 1
          /\ \A i \in 1 .. Len(s) - 1 + 1 : SubSeq(t, 1, Len(s))[i] = t[1 + i - 1]
      BY <1>1, <1>2, <3>2, PartIs
    <3>5. QED BY <3>1, <3>3, <3>4
  <2>2. ASSUME \A i \in 1 .. Len(s) : s[i] = t[i]
        PROVE  SubSeq(s, 1, Len(s)) = SubSeq(t, 1, Len(s))
    <3>1. \A i \in 1 .. Len(SubSeq(s, 1, Len(s))) : SubSeq(s, 1, Len(s))[i] = SubSeq(t, 1, Len(s))[i]
      BY <2>1, <2>2
    <3>2. PICK a, b \in Seq(Symbol) : a = SubSeq(s, 1, Len(s)) /\ b = SubSeq(t, 1, Len(s))
      BY <2>1 DEF Str
    <3>3. Len(a) = Len(b) /\ \A i \in 1 .. Len(a) : a[i] = b[i] BY <2>1, <3>1, <3>2
    <3>4. a = b BY <3>3, SeqEqual
    <3>5. QED BY <3>2, <3>4
  <2>3. ASSUME SubSeq(s, 1, Len(s)) = SubSeq(t, 1, Len(s))
        PROVE  \A i \in 1 .. Len(s) : s[i] = t[i]
    BY <2>1, <2>3
  <2>4. QED BY <1>2, <2>2, <2>3 DEF IsPrefix
<1>3. CASE ~(Len(s) <= Len(t)) BY <1>3 DEF IsPrefix
<1>4. QED BY <1>2, <1>3

LEMMA ReverseIs ==
  ASSUME NEW s \in Str
  PROVE  /\ Reverse(s) \in Str /\ Len(Reverse(s)) = Len(s)
         /\ \A i \in 1 .. Len(s) : Reverse(s)[i] = s[Len(s) - i + 1]
<1>1. PICK n \in Nat : n = Len(s) BY DEF Str
<1>2. \A i \in 1 .. n : s[n - i + 1] \in Symbol
  <2> TAKE i \in 1 .. n
  <2>1. n - i + 1 \in 1 .. Len(s) BY <1>1
  <2>2. QED BY <2>1 DEF Str
<1>3. PICK r : r = [i \in 1 .. n |-> s[n - i + 1]] OBVIOUS
<1>4. r \in Seq(Symbol) /\ Len(r) = n BY <1>2, <1>3
<1>5. r = Reverse(s) BY <1>1, <1>3 DEF Reverse
<1>6. QED BY <1>1, <1>3, <1>4, <1>5 DEF Str

LEMMA SuffixIs ==
  ASSUME NEW s \in Str, NEW t \in Str, Len(s) <= Len(t),
         \A i \in 1 .. Len(s) : s[i] = t[Len(t) - Len(s) + i]
  PROVE  IsSuffix(s, t)
<1>1. PICK m, n \in Nat : m = Len(s) /\ n = Len(t) BY DEF Str
<1>2. PICK p, q \in Str : p = Reverse(s) /\ q = Reverse(t) BY ReverseIs
<1>3. /\ Len(p) = m /\ Len(q) = n /\ m <= n
      /\ \A i \in 1 .. m : p[i] = s[m - i + 1]
      /\ \A i \in 1 .. n : q[i] = t[n - i + 1]
  BY <1>1, <1>2, ReverseIs
<1>4. \A i \in 1 .. m : p[i] = q[i]
  <2> TAKE i \in 1 .. m
  <2>1. m - i + 1 \in 1 .. m /\ n - m + (m - i + 1) = n - i + 1 /\ i \in 1 .. n BY <1>1, <1>3
  <2>2. s[m - i + 1] = t[n - m + (m - i + 1)] BY <1>1, <2>1
  <2>3. QED BY <1>3, <2>1, <2>2
<1>5. IsPrefix(p, q) BY <1>3, <1>4, PrefixIs
<1>6. QED BY <1>2, <1>5 DEF IsSuffix

LEMMA SuffixMeans ==
  ASSUME NEW s \in Str, NEW t \in Str, IsSuffix(s, t)
  PROVE  Len(s) <= Len(t)
<1>1. PICK p, q \in Str : p = Reverse(s) /\ q = Reverse(t) BY ReverseIs
<1>2. IsPrefix(p, q) BY <1>1 DEF IsSuffix
<1>3. QED BY <1>1, <1>2, PrefixIs, ReverseIs

-----------------------------------------------------------------------------
(* Where the closing tag ends, and where it begins, or may yet begin.      *)
CloseEnds(s, i) == i >= 3 /\ s[i - 2] = "<" /\ s[i - 1] = "/" /\ s[i] = ">"
Starts(t, j) ==
  /\ t[j] = "<"
  /\ j + 1 <= Len(t) => t[j + 1] = "/"
  /\ j + 2 <= Len(t) => t[j + 2] = ">"

LEMMA CloseIs == /\ Close \in Str /\ Len(Close) = 3
                 /\ Close[1] = "<" /\ Close[2] = "/" /\ Close[3] = ">"
                 /\ Open \in Str /\ Len(Open) = 3
                 /\ Open[1] = "<" /\ Open[2] = "t" /\ Open[3] = ">"
BY DEF Close, Open, Str, Symbol

LEMMA EndsAre ==
  ASSUME NEW s \in Str
  PROVE  EndsAt(s) = {i \in 0 .. Len(s) : CloseEnds(s, i)}
<1> SUFFICES ASSUME NEW i \in 0 .. Len(s)
             PROVE  (\E j \in 1 .. i : SubSeq(s, j, i) = Close) <=> CloseEnds(s, i)
  BY DEF EndsAt
<1>1. Len(s) \in Nat /\ i \in Nat BY DEF Str
<1>2. ASSUME NEW j \in 1 .. i, SubSeq(s, j, i) = Close PROVE CloseEnds(s, i)
  <2>1. Len(SubSeq(s, j, i)) = i - j + 1 /\ \A k \in 1 .. i - j + 1 : SubSeq(s, j, i)[k] = s[j + k - 1]
    BY <1>1, PartIs
  <2>2. i - j + 1 = 3 BY <1>2, <2>1, CloseIs
  <2>3. j = i - 2 BY <1>1, <2>2
  <2>4. s[j + 1 - 1] = "<" /\ s[j + 2 - 1] = "/" /\ s[j + 3 - 1] = ">"
    BY <1>2, <2>1, <2>2, CloseIs
  <2>5. QED BY <1>1, <2>3, <2>4 DEF CloseEnds
<1>3. ASSUME CloseEnds(s, i) PROVE \E j \in 1 .. i : SubSeq(s, j, i) = Close
  <2>1. PICK j \in 1 .. i : j = i - 2 BY <1>1, <1>3 DEF CloseEnds
  <2>2. /\ SubSeq(s, j, i) \in Str /\ Len(SubSeq(s, j, i)) = i - j + 1
        /\ \A k \in 1 .. i - j + 1 : SubSeq(s, j, i)[k] = s[j + k - 1]
    BY <1>1, PartIs
  <2>3. PICK a \in Seq(Symbol) : a = SubSeq(s, j, i) BY <2>2 DEF Str
  <2>4. i - j + 1 = 3 BY <1>1, <2>1
  <2>5. a[1] = s[i - 2] /\ a[2] = s[i - 1] /\ a[3] = s[i]
    <3>1. a[1] = s[j + 1 - 1] /\ a[2] = s[j + 2 - 1] /\ a[3] = s[j + 3 - 1] BY <2>2, <2>3, <2>4
    <3>2. j + 1 - 1 = i - 2 /\ j + 2 - 1 = i - 1 /\ j + 3 - 1 = i BY <1>1, <2>1
    <3>3. QED BY <3>1, <3>2
  <2>6. Len(a) = 3 BY <2>2, <2>3, <2>4
  <2>7. \A k \in 1 .. 3 : a[k] = Close[k]
    <3> TAKE k \in 1 .. 3
    <3>1. k = 1 \/ k = 2 \/ k = 3 OBVIOUS
    <3>2. QED BY <1>3, <2>5, <3>1, CloseIs DEF CloseEnds
  <2>8. Close \in Seq(Symbol) BY CloseIs DEF Str
  <2>9. a = Close BY <2>6, <2>7, <2>8, CloseIs, SeqEqual
  <2>10. QED BY <2>3, <2>9
<1>4. QED BY <1>2, <1>3

LEMMA FirstEndIs ==
  ASSUME NEW s \in Str, EndsAt(s) # {}
  PROVE  FirstEnd(s) \in EndsAt(s) /\ \A j \in EndsAt(s) : FirstEnd(s) <= j
<1>1. EndsAt(s) \in SUBSET Nat BY DEF EndsAt, Str
<1>2. \E i \in EndsAt(s) : \A j \in EndsAt(s) : i <= j BY <1>1, LeastNumber
<1>3. QED BY <1>2 DEF FirstEnd

(* What is held back is the longest end of s that may begin the tag.       *)
LEMMA HeldIs ==
  ASSUME NEW s \in Str
  PROVE  /\ PrefixOverlap(s) \in 0 .. 2 /\ PrefixOverlap(s) <= Len(s)
         /\ Len(s) >= 1 /\ s[Len(s)] = "<" => PrefixOverlap(s) >= 1
         /\ Len(s) >= 2 /\ s[Len(s) - 1] = "<" /\ s[Len(s)] = "/" => PrefixOverlap(s) >= 2
<1>1. PICK ends : ends = {n \in 0 .. Len(Close) - 1 : IsSuffix(SubSeq(Close, 1, n), s)} OBVIOUS
<1>2. PrefixOverlap(s) = CHOOSE n \in ends : \A m \in ends : m <= n BY <1>1 DEF PrefixOverlap
<1>3. \A n \in 0 .. 2 : SubSeq(Close, 1, n) \in Str /\ Len(SubSeq(Close, 1, n)) = n
                        /\ \A i \in 1 .. n : SubSeq(Close, 1, n)[i] = Close[i]
  <2> TAKE n \in 0 .. 2
  <2>1. n \in Nat /\ n <= Len(Close) /\ 1 <= n + 1 /\ 1 \in Nat \ {0} BY CloseIs
  <2>2. /\ SubSeq(Close, 1, n) \in Str /\ Len(SubSeq(Close, 1, n)) = n - 1 + 1
        /\ \A i \in 1 .. n - 1 + 1 : SubSeq(Close, 1, n)[i] = Close[1 + i - 1]
    BY <2>1, CloseIs, PartIs
  <2>3. n - 1 + 1 = n /\ \A i \in 1 .. n : 1 + i - 1 = i BY <2>1
  <2>4. QED BY <2>2, <2>3
<1>4. ends = {n \in 0 .. 2 : IsSuffix(SubSeq(Close, 1, n), s)} BY <1>1, CloseIs
<1>5. Len(s) \in Nat BY DEF Str
<1>6. 0 \in ends
  <2>1. SubSeq(Close, 1, 0) \in Str /\ Len(SubSeq(Close, 1, 0)) = 0 BY <1>3
  <2>2. PICK e \in Str : e = SubSeq(Close, 1, 0) /\ Len(e) = 0 BY <2>1
  <2>3. 0 <= Len(s) /\ \A i \in 1 .. 0 : FALSE BY <1>5
  <2>4. IsSuffix(e, s) BY <2>2, <2>3, SuffixIs
  <2>5. QED BY <1>4, <2>2, <2>4
<1>7. \E n \in ends : \A m \in ends : m <= n BY <1>4, <1>6
<1>8. PrefixOverlap(s) \in ends /\ \A m \in ends : m <= PrefixOverlap(s) BY <1>2, <1>7
<1>9. PrefixOverlap(s) <= Len(s) BY <1>3, <1>4, <1>8, SuffixMeans
<1>10. ASSUME Len(s) >= 1, s[Len(s)] = "<" PROVE 1 \in ends
  <2>0. SubSeq(Close, 1, 1) \in Str /\ Len(SubSeq(Close, 1, 1)) = 1
        /\ SubSeq(Close, 1, 1)[1] = Close[1]
    BY <1>3
  <2>1. PICK e \in Str : e = SubSeq(Close, 1, 1) /\ Len(e) = 1 /\ e[1] = "<" BY <2>0, CloseIs
  <2>2. \A i \in 1 .. Len(e) : e[i] = s[Len(s) - Len(e) + i]
    <3> TAKE i \in 1 .. Len(e)
    <3>1. i = 1 /\ Len(s) - Len(e) + i = Len(s) BY <1>5, <2>1
    <3>2. QED BY <1>10, <2>1, <3>1
  <2>3. IsSuffix(e, s) BY <1>10, <2>1, <2>2, SuffixIs
  <2>4. QED BY <1>4, <2>1, <2>3
<1>11. ASSUME Len(s) >= 2, s[Len(s) - 1] = "<", s[Len(s)] = "/" PROVE 2 \in ends
  <2>0. SubSeq(Close, 1, 2) \in Str /\ Len(SubSeq(Close, 1, 2)) = 2
        /\ SubSeq(Close, 1, 2)[1] = Close[1] /\ SubSeq(Close, 1, 2)[2] = Close[2]
    BY <1>3
  <2>1. PICK e \in Str : e = SubSeq(Close, 1, 2) /\ Len(e) = 2 /\ e[1] = "<" /\ e[2] = "/"
    BY <2>0, CloseIs
  <2>2. \A i \in 1 .. Len(e) : e[i] = s[Len(s) - Len(e) + i]
    <3> TAKE i \in 1 .. Len(e)
    <3>1. \/ i = 1 /\ Len(s) - Len(e) + i = Len(s) - 1
          \/ i = 2 /\ Len(s) - Len(e) + i = Len(s)
      BY <1>5, <2>1
    <3>2. QED BY <1>11, <2>1, <3>1
  <2>3. IsSuffix(e, s) BY <1>11, <2>1, <2>2, SuffixIs
  <2>4. QED BY <1>4, <2>1, <2>3
<1>12. QED BY <1>4, <1>8, <1>9, <1>10, <1>11

LEMMA FromIs ==
  ASSUME NEW s \in Str, NEW i \in Nat \ {0}, i <= Len(s) + 1
  PROVE  /\ From(s, i) \in Str /\ Len(From(s, i)) = Len(s) - i + 1
         /\ \A k \in 1 .. Len(s) - i + 1 : From(s, i)[k] = s[i + k - 1]
<1>1. Len(s) \in Nat BY DEF Str
<1>2. QED BY <1>1, PartIs DEF From

LEMMA JoinIs ==
  ASSUME NEW s \in Str, NEW t \in Str
  PROVE  /\ s \o t \in Str /\ Len(s \o t) = Len(s) + Len(t)
         /\ Len(s) \in Nat /\ Len(t) \in Nat
         /\ \A i \in 1 .. Len(s) : (s \o t)[i] = s[i]
         /\ \A i \in 1 .. Len(t) : (s \o t)[Len(s) + i] = t[i]
<1>1. Len(s) \in Nat /\ Len(t) \in Nat BY DEF Str
<1>2. /\ s \o t \in Str /\ Len(s \o t) = Len(s) + Len(t)
      /\ \A i \in 1 .. Len(s) + Len(t) :
           (s \o t)[i] = IF i <= Len(s) THEN s[i] ELSE t[i - Len(s)]
  BY ConcatProperties DEF Str
<1>3. \A i \in 1 .. Len(s) : (s \o t)[i] = s[i] BY <1>1, <1>2
<1>4. \A i \in 1 .. Len(t) : (s \o t)[Len(s) + i] = t[i]
  <2> TAKE i \in 1 .. Len(t)
  <2>1. Len(s) + i \in 1 .. Len(s) + Len(t) /\ ~(Len(s) + i <= Len(s)) /\ Len(s) + i - Len(s) = i
    BY <1>1
  <2>2. QED BY <1>2, <2>1
<1>5. QED BY <1>1, <1>2, <1>3, <1>4

LEMMA SameText ==
  ASSUME NEW s \in Str, NEW t \in Str, Len(s) = Len(t), \A i \in 1 .. Len(s) : s[i] = t[i]
  PROVE  s = t
BY SeqEqual DEF Str

(* Texts cut in two.                                                       *)
LEMMA CutInTwo ==
  ASSUME NEW s \in Str, NEW n \in Nat, n <= Len(s)
  PROVE  SubSeq(s, 1, n) \o From(s, n + 1) = s
<1>1. Len(s) \in Nat BY DEF Str
<1>2. PICK a \in Str : /\ a = SubSeq(s, 1, n) /\ Len(a) = n
                       /\ \A i \in 1 .. n : a[i] = s[i]
  <2>1. /\ SubSeq(s, 1, n) \in Str /\ Len(SubSeq(s, 1, n)) = n - 1 + 1
        /\ \A i \in 1 .. n - 1 + 1 : SubSeq(s, 1, n)[i] = s[1 + i - 1]
    BY PartIs
  <2>2. n - 1 + 1 = n /\ \A i \in 1 .. n : 1 + i - 1 = i OBVIOUS
  <2>3. QED BY <2>1, <2>2
<1>3. PICK b \in Str : /\ b = From(s, n + 1) /\ Len(b) = Len(s) - n
                       /\ \A i \in 1 .. Len(s) - n : b[i] = s[n + i]
  <2>1. /\ From(s, n + 1) \in Str /\ Len(From(s, n + 1)) = Len(s) - (n + 1) + 1
        /\ \A i \in 1 .. Len(s) - (n + 1) + 1 : From(s, n + 1)[i] = s[n + 1 + i - 1]
    BY <1>1, FromIs
  <2>2. Len(s) - (n + 1) + 1 = Len(s) - n /\ \A i \in 1 .. Len(s) - n : n + 1 + i - 1 = n + i
    BY <1>1
  <2>3. QED BY <2>1, <2>2
<1>4. a \o b \in Str /\ Len(a \o b) = Len(s)
  <2>1. a \o b \in Str /\ Len(a \o b) = Len(a) + Len(b) BY JoinIs
  <2>2. Len(a) = n /\ Len(b) = Len(s) - n BY <1>2, <1>3
  <2>3. n + (Len(s) - n) = Len(s) BY <1>1
  <2>4. Len(a \o b) = n + (Len(s) - n) BY <2>1, <2>2
  <2>5. QED BY <2>1, <2>3, <2>4
<1>5. \A i \in 1 .. Len(s) : (a \o b)[i] = s[i]
  <2> TAKE i \in 1 .. Len(s)
  <2>1. CASE i <= n BY <1>1, <1>2, <2>1, JoinIs
  <2>2. CASE ~(i <= n)
    <3>1. PICK k \in 1 .. Len(b) : i = n + k BY <1>1, <1>3, <2>2
    <3>2. (a \o b)[Len(a) + k] = b[k] BY <3>1, JoinIs
    <3>3. b[k] = s[n + k] BY <1>3, <3>1
    <3>4. QED BY <1>2, <3>1, <3>2, <3>3
  <2>3. QED BY <2>1, <2>2
<1>6. a \o b = s BY <1>4, <1>5, SameText
<1>7. QED BY <1>2, <1>3, <1>6

(* What is read of a text that two were joined to.                         *)
LEMMA FromJoin ==
  ASSUME NEW s \in Str, NEW t \in Str, NEW n \in Nat, n <= Len(t)
  PROVE  From(s \o t, Len(s) + n + 1) = From(t, n + 1)
<1>1. PICK w \in Str : /\ w = s \o t /\ Len(w) = Len(s) + Len(t) /\ Len(s) \in Nat /\ Len(t) \in Nat
                       /\ \A i \in 1 .. Len(t) : w[Len(s) + i] = t[i]
  BY JoinIs
<1>2. PICK m \in Nat \ {0} : m = Len(s) + n + 1 BY <1>1
<1>3. /\ From(w, m) \in Str /\ Len(From(w, m)) = Len(w) - m + 1
      /\ \A k \in 1 .. Len(w) - m + 1 : From(w, m)[k] = w[m + k - 1]
  <2>1. m <= Len(w) + 1 BY <1>1, <1>2
  <2>2. QED BY <2>1, FromIs
<1>4. /\ From(t, n + 1) \in Str /\ Len(From(t, n + 1)) = Len(t) - (n + 1) + 1
      /\ \A k \in 1 .. Len(t) - (n + 1) + 1 : From(t, n + 1)[k] = t[(n + 1) + k - 1]
  BY <1>1, FromIs
<1>5. Len(w) - m + 1 = Len(t) - n /\ Len(t) - (n + 1) + 1 = Len(t) - n BY <1>1, <1>2
<1>6. \A k \in 1 .. Len(t) - n : From(w, m)[k] = From(t, n + 1)[k]
  <2> TAKE k \in 1 .. Len(t) - n
  <2>1. n + k \in 1 .. Len(t) /\ m + k - 1 = Len(s) + (n + k) /\ (n + 1) + k - 1 = n + k
    BY <1>1, <1>2
  <2>2. From(w, m)[k] = w[Len(s) + (n + k)] BY <1>3, <1>5, <2>1
  <2>3. From(t, n + 1)[k] = t[n + k] BY <1>4, <1>5, <2>1
  <2>4. QED BY <1>1, <2>1, <2>2, <2>3
<1>7. From(w, m) = From(t, n + 1) BY <1>3, <1>4, <1>5, <1>6, SameText
<1>8. QED BY <1>1, <1>2, <1>7

LEMMA FromHead ==
  ASSUME NEW s \in Str, NEW t \in Str, NEW n \in Nat, n <= Len(s)
  PROVE  From(s \o t, n + 1) = From(s, n + 1) \o t
<1>1. PICK w \in Str : /\ w = s \o t /\ Len(w) = Len(s) + Len(t) /\ Len(s) \in Nat /\ Len(t) \in Nat
                       /\ \A i \in 1 .. Len(s) : w[i] = s[i]
                       /\ \A i \in 1 .. Len(t) : w[Len(s) + i] = t[i]
  BY JoinIs
<1>2. PICK a \in Str : /\ a = From(s, n + 1) /\ Len(a) = Len(s) - n
                       /\ \A k \in 1 .. Len(s) - n : a[k] = s[n + k]
  <2>1. /\ From(s, n + 1) \in Str /\ Len(From(s, n + 1)) = Len(s) - (n + 1) + 1
        /\ \A i \in 1 .. Len(s) - (n + 1) + 1 : From(s, n + 1)[i] = s[n + 1 + i - 1]
    BY <1>1, FromIs
  <2>2. Len(s) - (n + 1) + 1 = Len(s) - n /\ \A i \in 1 .. Len(s) - n : n + 1 + i - 1 = n + i
    BY <1>1
  <2>3. QED BY <2>1, <2>2
<1>3. PICK b \in Str : /\ b = From(w, n + 1) /\ Len(b) = Len(w) - n
                       /\ \A k \in 1 .. Len(w) - n : b[k] = w[n + k]
  <2>1. /\ From(w, n + 1) \in Str /\ Len(From(w, n + 1)) = Len(w) - (n + 1) + 1
        /\ \A i \in 1 .. Len(w) - (n + 1) + 1 : From(w, n + 1)[i] = w[n + 1 + i - 1]
    <3>1. n + 1 \in Nat \ {0} /\ n + 1 <= Len(w) + 1 BY <1>1
    <3>2. QED BY <3>1, FromIs
  <2>2. Len(w) - (n + 1) + 1 = Len(w) - n /\ \A i \in 1 .. Len(w) - n : n + 1 + i - 1 = n + i
    BY <1>1
  <2>3. QED BY <2>1, <2>2
<1>9. PICK c : c = a \o t OBVIOUS
<1>4. /\ c \in Str /\ c = a \o t /\ Len(c) = Len(a) + Len(t)
      /\ \A i \in 1 .. Len(a) : c[i] = a[i]
      /\ \A i \in 1 .. Len(t) : c[Len(a) + i] = t[i]
  BY <1>9, JoinIs
<1>5. Len(b) = Len(c) BY <1>1, <1>2, <1>3, <1>4
<1>6. \A k \in 1 .. Len(b) : b[k] = c[k]
  <2> TAKE k \in 1 .. Len(b)
  <2>1. k \in 1 .. Len(w) - n BY <1>3
  <2>2. CASE k <= Len(a)
    <3>1. k \in 1 .. Len(s) - n /\ n + k \in 1 .. Len(s) /\ k \in 1 .. Len(a) BY <1>1, <1>2, <2>1, <2>2
    <3>2. b[k] = w[n + k] /\ w[n + k] = s[n + k] /\ a[k] = s[n + k] /\ c[k] = a[k]
      BY <1>1, <1>2, <1>3, <1>4, <2>1, <3>1
    <3>3. QED BY <3>2
  <2>3. CASE ~(k <= Len(a))
    <3>1. PICK i \in 1 .. Len(t) : k = Len(a) + i /\ n + k = Len(s) + i
      <4>1. PICK ls, lt, la \in Nat : ls = Len(s) /\ lt = Len(t) /\ la = Len(a) /\ la = ls - n
        <5>1. Len(a) \in Nat BY <1>1, <1>2
        <5>2. Len(a) = Len(s) - n BY <1>2
        <5>3. QED BY <1>1, <5>1, <5>2
      <4>2. Len(w) = ls + lt BY <1>1, <4>1
      <4>3. k \in 1 .. (ls + lt) - n /\ ~(k <= la) BY <2>1, <2>3, <4>1, <4>2
      <4>4. PICK i \in 1 .. lt : k = la + i /\ n + k = ls + i
        <5>1. k - la \in 1 .. lt BY <4>1, <4>3
        <5>2. k = la + (k - la) /\ n + k = ls + (k - la) BY <4>1, <4>3
        <5>3. QED BY <5>1, <5>2
      <4>5. QED BY <4>1, <4>4
    <3>2. b[k] = w[Len(s) + i] BY <1>3, <2>1, <3>1
    <3>3. w[Len(s) + i] = t[i] /\ c[Len(a) + i] = t[i] BY <1>1, <1>4, <3>1
    <3>4. QED BY <3>1, <3>2, <3>3
  <2>4. QED BY <2>2, <2>3
<1>7. b = c
  <2>1. b \in Str /\ c \in Str BY <1>3, <1>4
  <2>2. QED BY <1>5, <1>6, <2>1, SameText
<1>8. QED BY <1>1, <1>2, <1>3, <1>4, <1>7

LEMMA PartOfHead ==
  ASSUME NEW s \in Str, NEW t \in Str, NEW n \in Nat, n <= Len(s)
  PROVE  SubSeq(s \o t, 1, n) = SubSeq(s, 1, n)
<1>1. PICK w \in Str : /\ w = s \o t /\ Len(w) = Len(s) + Len(t) /\ Len(s) \in Nat /\ Len(t) \in Nat
                       /\ \A i \in 1 .. Len(s) : w[i] = s[i]
  BY JoinIs
<1>2. \A v \in Str : n <= Len(v) => /\ SubSeq(v, 1, n) \in Str /\ Len(SubSeq(v, 1, n)) = n
                                    /\ \A i \in 1 .. n : SubSeq(v, 1, n)[i] = v[i]
  <2> TAKE v \in Str
  <2> HAVE n <= Len(v)
  <2>1. /\ SubSeq(v, 1, n) \in Str /\ Len(SubSeq(v, 1, n)) = n - 1 + 1
        /\ \A i \in 1 .. n - 1 + 1 : SubSeq(v, 1, n)[i] = v[1 + i - 1]
    BY PartIs
  <2>2. n - 1 + 1 = n /\ \A i \in 1 .. n : 1 + i - 1 = i OBVIOUS
  <2>3. QED BY <2>1, <2>2
<1>3. n <= Len(w) BY <1>1
<1>4. PICK a, b \in Str : a = SubSeq(w, 1, n) /\ b = SubSeq(s, 1, n) BY <1>2, <1>3
<1>5. Len(a) = n /\ Len(b) = n /\ \A i \in 1 .. n : a[i] = w[i] /\ b[i] = s[i]
  BY <1>2, <1>3, <1>4
<1>6. \A i \in 1 .. n : a[i] = b[i]
  <2> TAKE i \in 1 .. n
  <2>1. i \in 1 .. Len(s) BY <1>1
  <2>2. QED BY <1>1, <1>5, <2>1
<1>7. a = b BY <1>5, <1>6, SameText
<1>8. QED BY <1>1, <1>4, <1>7

LEMMA PartOfJoin ==
  ASSUME NEW s \in Str, NEW t \in Str, NEW n \in Nat, n <= Len(t)
  PROVE  SubSeq(s \o t, 1, Len(s) + n) = s \o SubSeq(t, 1, n)
<1>1. PICK a, b \in Str : a = SubSeq(t, 1, n) /\ b = From(t, n + 1) /\ Len(a) = n /\ a \o b = t
  <2>1. Len(t) \in Nat BY DEF Str
  <2>2. SubSeq(t, 1, n) \in Str /\ Len(SubSeq(t, 1, n)) = n - 1 + 1 BY PartIs
  <2>3. From(t, n + 1) \in Str BY <2>1, FromIs
  <2>4. n - 1 + 1 = n OBVIOUS
  <2>5. QED BY <2>2, <2>3, <2>4, CutInTwo
<1>8. PICK v : v = s \o a OBVIOUS
<1>2. v \in Str /\ Len(v) = Len(s) + n /\ Len(s) \in Nat
  <2>1. v \in Str /\ Len(v) = Len(s) + Len(a) /\ Len(s) \in Nat BY <1>8, JoinIs
  <2>2. QED BY <1>1, <2>1
<1>3. v \o b = s \o t
  <2>1. (s \o a) \o b = s \o (a \o b) BY ConcatAssociative DEF Str
  <2>2. QED BY <1>1, <1>8, <2>1
<1>4. PICK m \in Nat : m = Len(v) BY <1>2
<1>5. SubSeq(v \o b, 1, m) = SubSeq(v, 1, m) BY <1>4, PartOfHead
<1>6. SubSeq(v, 1, m) = v
  <2>1. v \in Seq(Symbol) BY <1>2 DEF Str
  <2>2. SubSeq(v, 1, Len(v)) = v BY <2>1, SubSeqFull
  <2>3. QED BY <1>4, <2>2
<1>7. QED BY <1>1, <1>2, <1>3, <1>4, <1>5, <1>6, <1>8

-----------------------------------------------------------------------------
(* No closing tag begins in r, whatever follows t; r is the front of t.    *)
NoneIn(r, t) == \A j \in 1 .. Len(r) : ~Starts(t, j)

LEMMA StaysNone ==
  ASSUME NEW r \in Str, NEW t \in Str, NEW p \in Str, Len(r) <= Len(t), NoneIn(r, t)
  PROVE  NoneIn(r, t \o p)
<1>1. PICK w : w = t \o p OBVIOUS
<1>2. /\ Len(w) = Len(t) + Len(p) /\ Len(t) \in Nat /\ Len(p) \in Nat
      /\ \A i \in 1 .. Len(t) : w[i] = t[i]
  BY <1>1, JoinIs
<1>3. Len(r) \in Nat BY DEF Str
<1>4. ASSUME NEW j \in 1 .. Len(r), Starts(w, j) PROVE Starts(t, j)
  <2>1. j \in 1 .. Len(t) BY <1>2, <1>3
  <2>2. t[j] = "<" BY <1>2, <1>4, <2>1 DEF Starts
  <2>3. ASSUME j + 1 <= Len(t) PROVE t[j + 1] = "/"
    <3>1. j + 1 \in 1 .. Len(t) /\ j + 1 <= Len(w) BY <1>2, <2>1, <2>3
    <3>2. w[j + 1] = "/" BY <1>4, <3>1 DEF Starts
    <3>3. QED BY <1>2, <3>1, <3>2
  <2>4. ASSUME j + 2 <= Len(t) PROVE t[j + 2] = ">"
    <3>1. j + 2 \in 1 .. Len(t) /\ j + 2 <= Len(w) BY <1>2, <2>1, <2>4
    <3>2. w[j + 2] = ">" BY <1>4, <3>1 DEF Starts
    <3>3. QED BY <1>2, <3>1, <3>2
  <2>5. QED BY <2>2, <2>3, <2>4 DEF Starts
<1>5. QED BY <1>1, <1>4 DEF NoneIn

(* Ends of the closing tag in r \o s are those in s.                       *)
LEMMA EndsBehind ==
  ASSUME NEW r \in Str, NEW s \in Str, NoneIn(r, r \o s), NEW i \in 0 .. Len(r \o s)
  PROVE  i \in EndsAt(r \o s) <=> \E k \in EndsAt(s) : i = Len(r) + k
<1>1. PICK w : w = r \o s OBVIOUS
<1>2. /\ w \in Str /\ Len(w) = Len(r) + Len(s) /\ Len(r) \in Nat /\ Len(s) \in Nat
      /\ \A j \in 1 .. Len(s) : w[Len(r) + j] = s[j]
  BY <1>1, JoinIs
<1>3. EndsAt(w) = {j \in 0 .. Len(w) : CloseEnds(w, j)} BY <1>2, EndsAre
<1>4. EndsAt(s) = {j \in 0 .. Len(s) : CloseEnds(s, j)} BY EndsAre
<1>5. i \in 0 .. Len(w) BY <1>1
<1>6. ASSUME i \in EndsAt(w) PROVE \E k \in EndsAt(s) : i = Len(r) + k
  <2>1. i >= 3 /\ w[i - 2] = "<" /\ w[i - 1] = "/" /\ w[i] = ">" BY <1>3, <1>6 DEF CloseEnds
  <2>2. PICK j \in Nat : j = i - 2 /\ j >= 1 /\ i = j + 2 /\ i - 1 = j + 1 BY <1>2, <1>5, <2>1
  <2>3. Starts(w, j) BY <2>1, <2>2 DEF Starts
  <2>4. ~(j <= Len(r)) BY <1>1, <1>2, <2>2, <2>3 DEF NoneIn
  <2>5. PICK k \in Nat : i = Len(r) + k /\ k >= 3 /\ k <= Len(s)
    <3>1. PICK a, b, k \in Int : a = Len(r) /\ b = Len(s) /\ k = i - a BY <1>2, <1>5
    <3>2. i <= a + b BY <1>2, <1>5, <3>1
    <3>3. k \in Nat /\ k >= 3 /\ k <= b /\ i = a + k BY <1>5, <2>2, <2>4, <3>1, <3>2
    <3>4. QED BY <3>1, <3>3
  <2>6. s[k - 2] = "<" /\ s[k - 1] = "/" /\ s[k] = ">"
    <3>1. k - 2 \in 1 .. Len(s) /\ k - 1 \in 1 .. Len(s) /\ k \in 1 .. Len(s) BY <1>2, <2>5
    <3>2. Len(r) + (k - 2) = i - 2 /\ Len(r) + (k - 1) = i - 1 BY <1>2, <2>5
    <3>3. w[Len(r) + (k - 2)] = s[k - 2] /\ w[Len(r) + (k - 1)] = s[k - 1] /\ w[Len(r) + k] = s[k]
      BY <1>2, <3>1
    <3>4. QED BY <2>1, <2>5, <3>2, <3>3
  <2>7. k \in 0 .. Len(s) /\ CloseEnds(s, k) BY <1>2, <2>5, <2>6 DEF CloseEnds
  <2>8. QED BY <1>4, <2>5, <2>7
<1>7. ASSUME NEW k \in EndsAt(s), i = Len(r) + k PROVE i \in EndsAt(w)
  <2>1. k \in 0 .. Len(s) /\ k >= 3 /\ s[k - 2] = "<" /\ s[k - 1] = "/" /\ s[k] = ">"
    BY <1>4, <1>7 DEF CloseEnds
  <2>2. k - 2 \in 1 .. Len(s) /\ k - 1 \in 1 .. Len(s) /\ k \in 1 .. Len(s) BY <1>2, <2>1
  <2>3. Len(r) + (k - 2) = i - 2 /\ Len(r) + (k - 1) = i - 1 /\ i >= 3 BY <1>2, <1>7, <2>1
  <2>4. w[Len(r) + (k - 2)] = s[k - 2] /\ w[Len(r) + (k - 1)] = s[k - 1] /\ w[Len(r) + k] = s[k]
    BY <1>2, <2>2
  <2>5. CloseEnds(w, i) BY <1>7, <2>1, <2>3, <2>4 DEF CloseEnds
  <2>6. QED BY <1>3, <1>5, <2>5
<1>8. QED BY <1>1, <1>6, <1>7

(* The first end stays where it is when more arrives.                      *)
LEMMA FirstEndStays ==
  ASSUME NEW r \in Str, NEW p \in Str, EndsAt(r) # {}
  PROVE  /\ EndsAt(r \o p) # {} /\ FirstEnd(r \o p) = FirstEnd(r)
         /\ FirstEnd(r) \in 3 .. Len(r)
<1>1. PICK w : w = r \o p OBVIOUS
<1>2. /\ w \in Str /\ Len(w) = Len(r) + Len(p) /\ Len(r) \in Nat /\ Len(p) \in Nat
      /\ \A j \in 1 .. Len(r) : w[j] = r[j]
  BY <1>1, JoinIs
<1>3. EndsAt(w) = {j \in 0 .. Len(w) : CloseEnds(w, j)} BY <1>2, EndsAre
<1>4. EndsAt(r) = {j \in 0 .. Len(r) : CloseEnds(r, j)} BY EndsAre
<1>5. \A i \in 0 .. Len(r) : i \in EndsAt(r) <=> i \in EndsAt(w)
  <2> TAKE i \in 0 .. Len(r)
  <2>1. i \in 0 .. Len(w) BY <1>2
  <2>2. CASE i >= 3
    <3>1. i - 2 \in 1 .. Len(r) /\ i - 1 \in 1 .. Len(r) /\ i \in 1 .. Len(r) BY <1>2, <2>2
    <3>2. w[i - 2] = r[i - 2] /\ w[i - 1] = r[i - 1] /\ w[i] = r[i] BY <1>2, <3>1
    <3>3. CloseEnds(r, i) <=> CloseEnds(w, i) BY <3>2 DEF CloseEnds
    <3>4. QED BY <1>3, <1>4, <2>1, <3>3
  <2>3. CASE ~(i >= 3) BY <1>3, <1>4, <2>3 DEF CloseEnds
  <2>4. QED BY <2>2, <2>3
<1>6. PICK e : e = FirstEnd(r) OBVIOUS
<1>7. e \in EndsAt(r) /\ \A j \in EndsAt(r) : e <= j BY <1>6, FirstEndIs
<1>8. e \in 0 .. Len(r) /\ e >= 3 BY <1>4, <1>7 DEF CloseEnds
<1>9. e \in EndsAt(w) BY <1>5, <1>7, <1>8
<1>10. PICK f : f = FirstEnd(w) OBVIOUS
<1>11. f \in EndsAt(w) /\ \A j \in EndsAt(w) : f <= j BY <1>2, <1>9, <1>10, FirstEndIs
<1>12. f \in 0 .. Len(w) /\ f <= e BY <1>3, <1>9, <1>11
<1>13. f \in 0 .. Len(r) BY <1>2, <1>8, <1>12
<1>14. e <= f BY <1>5, <1>7, <1>11, <1>13
<1>15. e = f BY <1>2, <1>8, <1>12, <1>13, <1>14
<1>16. QED BY <1>1, <1>2, <1>6, <1>8, <1>9, <1>10, <1>15

LEMMA FirstEndBehind ==
  ASSUME NEW r \in Str, NEW s \in Str, NoneIn(r, r \o s)
  PROVE  /\ EndsAt(r \o s) # {} <=> EndsAt(s) # {}
         /\ EndsAt(s) # {} => /\ FirstEnd(r \o s) = Len(r) + FirstEnd(s)
                              /\ FirstEnd(s) \in 3 .. Len(s)
<1>1. PICK w : w = r \o s OBVIOUS
<1>2. w \in Str /\ Len(w) = Len(r) + Len(s) /\ Len(r) \in Nat /\ Len(s) \in Nat
  BY <1>1, JoinIs
<1>3. \A i \in 0 .. Len(w) : i \in EndsAt(w) <=> \E k \in EndsAt(s) : i = Len(r) + k
  BY <1>1, EndsBehind
<1>4. EndsAt(w) \subseteq 0 .. Len(w) BY DEF EndsAt
<1>5. EndsAt(s) = {j \in 0 .. Len(s) : CloseEnds(s, j)} BY EndsAre
<1>6. \A k \in EndsAt(s) : k \in 3 .. Len(s) /\ Len(r) + k \in EndsAt(w)
  <2> TAKE k \in EndsAt(s)
  <2>1. k \in 0 .. Len(s) /\ k >= 3 BY <1>5 DEF CloseEnds
  <2>2. k \in 3 .. Len(s) /\ Len(r) + k \in 0 .. Len(w) BY <1>2, <2>1
  <2>3. QED BY <1>3, <2>2
<1>7. EndsAt(w) # {} <=> EndsAt(s) # {} BY <1>3, <1>4, <1>6
<1>8. ASSUME EndsAt(s) # {}
      PROVE  FirstEnd(w) = Len(r) + FirstEnd(s) /\ FirstEnd(s) \in 3 .. Len(s)
  <2>1. PICK e : e = FirstEnd(s) OBVIOUS
  <2>2. e \in EndsAt(s) /\ \A j \in EndsAt(s) : e <= j BY <1>8, <2>1, FirstEndIs
  <2>3. PICK f : f = FirstEnd(w) OBVIOUS
  <2>4. f \in EndsAt(w) /\ \A j \in EndsAt(w) : f <= j BY <1>2, <1>7, <1>8, <2>3, FirstEndIs
  <2>5. PICK k \in EndsAt(s) : f = Len(r) + k BY <1>3, <1>4, <2>4
  <2>6. e \in 3 .. Len(s) /\ k \in 3 .. Len(s) /\ Len(r) + e \in EndsAt(w) BY <1>6, <2>2
  <2>7. e <= k /\ f <= Len(r) + e BY <2>2, <2>4, <2>6
  <2>8. e = k BY <1>2, <2>5, <2>6, <2>7
  <2>9. QED BY <2>1, <2>3, <2>5, <2>6, <2>8
<1>9. QED BY <1>1, <1>7, <1>8

-----------------------------------------------------------------------------
(* What Thinking does with s when r has gone out before it: it has found   *)
(* the first end there is, or holds back all that may become one.          *)
FindsEnd(r, s, f) ==
  /\ EndsAt(r \o s) # {}
  /\ f.mode = "speak" /\ f.buf = <<>>
  /\ f.say \in Str /\ f.say = From(r \o s, FirstEnd(r \o s) + 1)
  /\ f.think \in Str /\ r \o f.think = SubSeq(r \o s, 1, FirstEnd(r \o s) - Len(Close))
ThinksOn(r, s, f) ==
  /\ EndsAt(r \o s) = {}
  /\ f.mode = "think" /\ f.say = <<>>
  /\ f.think \in Str /\ f.buf \in Str /\ Len(f.buf) <= 2
  /\ (r \o f.think) \o f.buf = r \o s
  /\ NoneIn(r \o f.think, r \o s)

LEMMA ThinkingFinds ==
  ASSUME NEW r \in Str, NEW s \in Str, NoneIn(r, r \o s), EndsAt(s) # {}
  PROVE  FindsEnd(r, s, Thinking(s))
<1>1. PICK e : e = FirstEnd(s) OBVIOUS
<1>2. /\ EndsAt(r \o s) # {} /\ FirstEnd(r \o s) = Len(r) + e
      /\ e \in 3 .. Len(s) /\ Len(s) \in Nat /\ Len(r) \in Nat
  BY <1>1, FirstEndBehind, JoinIs
<1>3. PICK n \in Nat : n = e - 3 /\ n <= Len(s) /\ Len(r) + e - 3 = Len(r) + n BY <1>2
<1>4. e \in Nat /\ e <= Len(s) BY <1>2
<1>5. From(r \o s, Len(r) + e + 1) = From(s, e + 1) BY <1>4, FromJoin
<1>6. SubSeq(r \o s, 1, Len(r) + n) = r \o SubSeq(s, 1, n) BY <1>3, PartOfJoin
<1>7. From(s, e + 1) \in Str
  <2>1. e + 1 \in Nat \ {0} /\ e + 1 <= Len(s) + 1 BY <1>2, <1>4
  <2>2. QED BY <2>1, FromIs
<1>8. SubSeq(s, 1, n) \in Str
  <2>1. 1 \in Nat \ {0} /\ 1 <= n + 1 BY <1>3
  <2>2. QED BY <1>3, <2>1, PartIs
<1>9. PICK a, b : a = From(s, e + 1) /\ b = SubSeq(s, 1, n) OBVIOUS
<1>10. Len(Close) = 3 BY CloseIs
<1>11. Thinking(s) = [mode |-> "speak", buf |-> <<>>, say |-> a, think |-> b]
  BY <1>1, <1>3, <1>9, <1>10 DEF Thinking, Spoken
<1>12. /\ Thinking(s).mode = "speak" /\ Thinking(s).buf = <<>>
       /\ Thinking(s).say = a /\ Thinking(s).think = b
  BY <1>11
<1>13. FirstEnd(r \o s) + 1 = Len(r) + e + 1 /\ FirstEnd(r \o s) - Len(Close) = Len(r) + n
  BY <1>2, <1>3, <1>10
<1>14. QED
  BY <1>2, <1>5, <1>6, <1>7, <1>8, <1>9, <1>12, <1>13 DEF FindsEnd

(* Beyond what is held back nothing of s can become the tag.               *)
LEMMA HeldIsEnough ==
  ASSUME NEW s \in Str, EndsAt(s) = {}, NEW j \in 1 .. Len(s), Starts(s, j)
  PROVE  j > Len(s) - PrefixOverlap(s)
<1>1. PICK h : h = PrefixOverlap(s) OBVIOUS
<1>2. /\ h \in 0 .. 2 /\ h <= Len(s) /\ Len(s) \in Nat
      /\ Len(s) >= 1 /\ s[Len(s)] = "<" => h >= 1
      /\ Len(s) >= 2 /\ s[Len(s) - 1] = "<" /\ s[Len(s)] = "/" => h >= 2
  BY <1>1, HeldIs DEF Str
<1>3. CASE j = Len(s)
  <2>1. s[Len(s)] = "<" BY <1>3 DEF Starts
  <2>2. QED BY <1>1, <1>2, <1>3, <2>1
<1>4. CASE j = Len(s) - 1
  <2>1. j + 1 = Len(s) /\ Len(s) >= 2 BY <1>2, <1>4
  <2>2. s[Len(s) - 1] = "<" /\ s[Len(s)] = "/" BY <1>4, <2>1 DEF Starts
  <2>3. QED BY <1>1, <1>2, <1>4, <2>1, <2>2
<1>5. CASE j + 2 <= Len(s)
  <2>1. PICK i \in Nat : i = j + 2 /\ i - 2 = j /\ i - 1 = j + 1 /\ i >= 3 /\ i <= Len(s) /\ j + 1 <= Len(s)
    BY <1>2, <1>5
  <2>2. CloseEnds(s, i) BY <1>5, <2>1 DEF Starts, CloseEnds
  <2>3. i \in EndsAt(s) BY <1>2, <2>1, <2>2, EndsAre
  <2>4. QED BY <2>3
<1>6. QED BY <1>2, <1>3, <1>4, <1>5

LEMMA ThinkingHolds ==
  ASSUME NEW r \in Str, NEW s \in Str, NoneIn(r, r \o s), EndsAt(s) = {}
  PROVE  ThinksOn(r, s, Thinking(s))
<1>1. PICK h : h = PrefixOverlap(s) OBVIOUS
<1>2. h \in 0 .. 2 /\ h <= Len(s) /\ Len(s) \in Nat /\ Len(r) \in Nat BY <1>1, HeldIs DEF Str
<1>3. PICK n \in Nat : n = Len(s) - h /\ n <= Len(s) /\ Len(s) - n = h
  <2>1. PICK l \in Nat : l = Len(s) BY <1>2
  <2>2. l - h \in Nat /\ l - h <= l /\ l - (l - h) = h BY <1>2, <2>1
  <2>3. QED BY <2>1, <2>2
<1>4. PICK a, b : a = SubSeq(s, 1, n) /\ b = From(s, n + 1) OBVIOUS
<1>5. a \in Str /\ Len(a) = n
  <2>1. 1 \in Nat \ {0} /\ 1 <= n + 1 /\ n - 1 + 1 = n BY <1>3
  <2>2. SubSeq(s, 1, n) \in Str /\ Len(SubSeq(s, 1, n)) = n - 1 + 1 BY <1>3, <2>1, PartIs
  <2>3. QED BY <1>4, <2>1, <2>2
<1>6. b \in Str /\ Len(b) = h
  <2>1. n + 1 \in Nat \ {0} /\ n + 1 <= Len(s) + 1 /\ Len(s) - (n + 1) + 1 = h BY <1>2, <1>3
  <2>2. From(s, n + 1) \in Str /\ Len(From(s, n + 1)) = Len(s) - (n + 1) + 1 BY <2>1, FromIs
  <2>3. QED BY <1>4, <2>1, <2>2
<1>7. a \o b = s BY <1>3, <1>4, CutInTwo
<1>8. Thinking(s) = [mode |-> "think", buf |-> b, say |-> <<>>, think |-> a]
  BY <1>1, <1>3, <1>4 DEF Thinking
<1>9. /\ Thinking(s).mode = "think" /\ Thinking(s).buf = b
      /\ Thinking(s).say = <<>> /\ Thinking(s).think = a
  BY <1>8
<1>10. (r \o a) \o b = r \o s
  <2>1. (r \o a) \o b = r \o (a \o b) BY <1>5, <1>6, ConcatAssociative DEF Str
  <2>2. QED BY <1>7, <2>1
<1>11. EndsAt(r \o s) = {} BY FirstEndBehind
<1>12. NoneIn(r \o a, r \o s)
  <2>1. PICK w : w = r \o s OBVIOUS
  <2>2. /\ Len(w) = Len(r) + Len(s)
        /\ \A j \in 1 .. Len(s) : w[Len(r) + j] = s[j]
    BY <2>1, JoinIs
  <2>3. Len(r \o a) = Len(r) + n BY <1>5, JoinIs
  <2>4. SUFFICES ASSUME NEW j \in 1 .. Len(r) + n, Starts(w, j) PROVE FALSE
    BY <2>1, <2>3 DEF NoneIn
  <2>5. ~(j <= Len(r)) BY <1>2, <2>1, <2>4 DEF NoneIn
  <2>6. PICK k \in 1 .. n : j = Len(r) + k
    <3>1. PICK l \in Nat : l = Len(r) BY <1>2
    <3>2. j - l \in 1 .. n /\ j = l + (j - l) BY <1>3, <2>4, <2>5, <3>1
    <3>3. QED BY <3>1, <3>2
  <2>7. k \in 1 .. Len(s) BY <1>2, <1>3
  <2>8. Starts(s, k)
    <3>1. s[k] = "<" BY <2>2, <2>4, <2>6, <2>7 DEF Starts
    <3>2. ASSUME k + 1 <= Len(s) PROVE s[k + 1] = "/"
      <4>1. k + 1 \in 1 .. Len(s) /\ Len(r) + (k + 1) = j + 1 /\ j + 1 <= Len(w)
        BY <1>2, <2>2, <2>6, <2>7, <3>2
      <4>2. w[j + 1] = "/" BY <2>4, <4>1 DEF Starts
      <4>3. w[Len(r) + (k + 1)] = s[k + 1] BY <2>2, <4>1
      <4>4. QED BY <4>1, <4>2, <4>3
    <3>3. ASSUME k + 2 <= Len(s) PROVE s[k + 2] = ">"
      <4>1. k + 2 \in 1 .. Len(s) /\ Len(r) + (k + 2) = j + 2 /\ j + 2 <= Len(w)
        BY <1>2, <2>2, <2>6, <2>7, <3>3
      <4>2. w[j + 2] = ">" BY <2>4, <4>1 DEF Starts
      <4>3. w[Len(r) + (k + 2)] = s[k + 2] BY <2>2, <4>1
      <4>4. QED BY <4>1, <4>2, <4>3
    <3>4. QED BY <3>1, <3>2, <3>3 DEF Starts
  <2>9. k > Len(s) - h BY <1>1, <2>7, <2>8, HeldIsEnough
  <2>10. QED BY <1>2, <1>3, <2>9
<1>13. Len(b) <= 2 BY <1>2, <1>6
<1>14. QED BY <1>5, <1>6, <1>9, <1>10, <1>11, <1>12, <1>13 DEF ThinksOn

(* An answer whose split no longer depends on what follows, apart from     *)
(* what is said.                                                           *)
Decided(a) ==
  IF IsPrefix(Open, a) THEN EndsAt(From(a, Len(Open) + 1)) # {} ELSE ~IsPrefix(a, Open)

(* An answer begins with the opening tag or not, for good.                 *)
LEMMA OpensIs ==
  ASSUME NEW r \in Str
  PROVE  IsPrefix(Open, Open \o r) /\ From(Open \o r, Len(Open) + 1) = r
<1>1. PICK w : w = Open \o r OBVIOUS
<1>3. Open \in Str /\ Len(Open) = 3 BY CloseIs
<1>2. w \in Str /\ Len(w) = 3 + Len(r) /\ Len(r) \in Nat /\ \A i \in 1 .. 3 : w[i] = Open[i]
  <2>1. /\ w \in Str /\ Len(w) = Len(Open) + Len(r) /\ Len(r) \in Nat
        /\ \A i \in 1 .. Len(Open) : w[i] = Open[i]
    BY <1>1, <1>3, JoinIs
  <2>2. QED BY <1>3, <2>1
<1>4. Len(Open) <= Len(w) /\ \A i \in 1 .. Len(Open) : Open[i] = w[i] BY <1>2, <1>3
<1>5. IsPrefix(Open, w) BY <1>2, <1>3, <1>4, PrefixIs
<1>6. 0 \in Nat /\ 0 <= Len(r) BY <1>2
<1>7. From(Open \o r, Len(Open) + 0 + 1) = From(r, 0 + 1) BY <1>3, <1>6, FromJoin
<1>8. Len(Open) + 0 + 1 = Len(Open) + 1 /\ 0 + 1 = 1 BY <1>3
<1>9. From(r, 1) = r BY SubSeqFull DEF From, Str
<1>10. QED BY <1>1, <1>5, <1>7, <1>8, <1>9

LEMMA OpenedIs ==
  ASSUME NEW a \in Str, IsPrefix(Open, a)
  PROVE  From(a, Len(Open) + 1) \in Str /\ a = Open \o From(a, Len(Open) + 1)
<1>1. Open \in Str /\ Len(Open) = 3 /\ 3 \in Nat BY CloseIs
<1>2. Len(a) \in Nat /\ 3 <= Len(a)
  <2>1. Len(a) \in Nat BY DEF Str
  <2>2. Len(Open) <= Len(a) BY DEF IsPrefix
  <2>3. QED BY <1>1, <2>1, <2>2
<1>3. SubSeq(a, 1, 3) = SubSeq(Open, 1, 3) BY <1>1 DEF IsPrefix
<1>4. SubSeq(Open, 1, Len(Open)) = Open BY <1>1, SubSeqFull DEF Str
<1>5. SubSeq(a, 1, 3) \o From(a, 3 + 1) = a BY <1>1, <1>2, CutInTwo
<1>6. From(a, 3 + 1) \in Str
  <2>1. 3 + 1 \in Nat \ {0} /\ 3 + 1 <= Len(a) + 1 BY <1>2
  <2>2. QED BY <2>1, FromIs
<1>7. QED BY <1>1, <1>3, <1>4, <1>5, <1>6

LEMMA DecidedStays ==
  ASSUME NEW a \in Str, NEW p \in Str, Decided(a)
  PROVE  /\ Decided(a \o p) /\ Speech(a \o p) = Speech(a) \o p /\ Thought(a \o p) = Thought(a)
         /\ Speech(a) \in Str /\ Thought(a) \in Str
<1>1. CASE IsPrefix(Open, a)
  <2>1. PICK r : r = From(a, Len(Open) + 1) OBVIOUS
  <2>2. r \in Str /\ a = Open \o r /\ EndsAt(r) # {} BY <1>1, <2>1, OpenedIs DEF Decided
  <2>3. PICK q : q = r \o p OBVIOUS
  <2>4. q \in Str /\ a \o p = Open \o q
    <3>1. (Open \o r) \o p = Open \o (r \o p) BY <2>2, CloseIs, ConcatAssociative DEF Str
    <3>2. q \in Str BY <2>2, <2>3, JoinIs
    <3>3. QED BY <2>2, <2>3, <3>1, <3>2
  <2>5. IsPrefix(Open, a \o p) /\ From(a \o p, Len(Open) + 1) = q BY <2>4, OpensIs
  <2>6. PICK e : e = FirstEnd(r) OBVIOUS
  <2>7. EndsAt(q) # {} /\ FirstEnd(q) = e /\ e \in 3 .. Len(r) BY <2>2, <2>3, <2>6, FirstEndStays
  <2>8. Len(r) \in Nat /\ e \in Nat /\ e <= Len(r) BY <2>2, <2>7 DEF Str
  <2>9. From(q, e + 1) = From(r, e + 1) \o p BY <2>2, <2>3, <2>8, FromHead
  <2>10. PICK n \in Nat : n = e - Len(Close) /\ n <= Len(r) BY <2>7, <2>8, CloseIs
  <2>11. SubSeq(q, 1, n) = SubSeq(r, 1, n) BY <2>2, <2>3, <2>10, PartOfHead
  <2>12. Speech(a \o p) = From(q, e + 1) /\ Thought(a \o p) = SubSeq(q, 1, n)
    BY <2>5, <2>7, <2>10 DEF Speech, Thought
  <2>13. Speech(a) = From(r, e + 1) /\ Thought(a) = SubSeq(r, 1, n)
    BY <1>1, <2>1, <2>2, <2>6, <2>10 DEF Speech, Thought
  <2>14. From(r, e + 1) \in Str
    <3>1. e + 1 \in Nat \ {0} /\ e + 1 <= Len(r) + 1 BY <2>8
    <3>2. QED BY <2>2, <3>1, FromIs
  <2>15. SubSeq(r, 1, n) \in Str
    <3>1. 1 \in Nat \ {0} /\ 1 <= n + 1 BY <2>10
    <3>2. QED BY <2>2, <2>10, <3>1, PartIs
  <2>16. Decided(a \o p) BY <2>5, <2>7 DEF Decided
  <2>17. QED BY <2>9, <2>11, <2>12, <2>13, <2>14, <2>15, <2>16
<1>2. CASE ~IsPrefix(Open, a)
  <2>1. ~IsPrefix(a, Open) BY <1>2 DEF Decided
  <2>2. PICK w : w = a \o p OBVIOUS
  <2>3. /\ w \in Str /\ Len(w) = Len(a) + Len(p) /\ Len(a) \in Nat /\ Len(p) \in Nat
        /\ \A i \in 1 .. Len(a) : w[i] = a[i]
    BY <2>2, JoinIs
  <2>4. Open \in Str /\ Len(Open) = 3 BY CloseIs
  <2>5. ~(Len(a) <= 3 /\ \A i \in 1 .. Len(a) : a[i] = Open[i]) BY <2>1, <2>4, PrefixIs
  <2>6. ~(3 <= Len(a) /\ \A i \in 1 .. 3 : Open[i] = a[i]) BY <1>2, <2>4, PrefixIs
  <2>7. ~IsPrefix(Open, w)
    <3>1. SUFFICES ASSUME 3 <= Len(w), \A i \in 1 .. 3 : Open[i] = w[i] PROVE FALSE
      BY <2>3, <2>4, PrefixIs
    <3>2. CASE 3 <= Len(a)
      <4>1. \A i \in 1 .. 3 : i \in 1 .. Len(a) BY <2>3, <3>2
      <4>2. QED BY <2>3, <2>6, <3>1, <3>2, <4>1
    <3>3. CASE ~(3 <= Len(a))
      <4>1. Len(a) <= 3 /\ \A i \in 1 .. Len(a) : i \in 1 .. 3 BY <2>3, <3>3
      <4>2. QED BY <2>3, <2>5, <3>1, <4>1
    <3>4. QED BY <3>2, <3>3
  <2>8. ~IsPrefix(w, Open)
    <3>1. SUFFICES ASSUME Len(w) <= 3, \A i \in 1 .. Len(w) : w[i] = Open[i] PROVE FALSE
      BY <2>3, <2>4, PrefixIs
    <3>2. Len(a) <= 3 /\ \A i \in 1 .. Len(a) : i \in 1 .. Len(w) BY <2>3, <3>1
    <3>3. QED BY <2>3, <2>5, <3>1, <3>2
  <2>9. Speech(a) = a /\ Thought(a) = <<>> /\ Speech(w) = w /\ Thought(w) = <<>>
    BY <1>2, <2>7 DEF Speech, Thought
  <2>10. <<>> \in Str BY DEF Str
  <2>11. QED BY <2>2, <2>7, <2>8, <2>9, <2>10 DEF Decided
<1>3. QED BY <1>1, <1>2

-----------------------------------------------------------------------------
(* While the splitter waits for the opening tag it holds all there is; in  *)
(* the thought it holds what may become the closing tag; then nothing.     *)
ThinkInv ==
  /\ arrived \in Str /\ buf \in Str /\ speaking \in Str /\ reasoning \in Str
  /\ mode \in {"unknown", "think", "speak"}
  /\ mode = "unknown" =>
       arrived = buf /\ IsPrefix(buf, Open) /\ ~IsPrefix(Open, buf)
         /\ speaking = <<>> /\ reasoning = <<>>
  /\ mode = "think" =>
       /\ arrived = Open \o (reasoning \o buf) /\ speaking = <<>>
       /\ Len(buf) <= 2 /\ EndsAt(reasoning \o buf) = {} /\ NoneIn(reasoning, reasoning \o buf)
  /\ mode = "speak" =>
       buf = <<>> /\ Decided(arrived) /\ Speech(arrived) = speaking /\ Thought(arrived) = reasoning

LEMMA SplitsSo == ThinkInv => SplitAsWhole
<1> SUFFICES ASSUME ThinkInv PROVE SplitAsWhole OBVIOUS
<1>0. arrived \in Str /\ buf \in Str /\ speaking \in Str /\ reasoning \in Str BY DEF ThinkInv
<1>1. CASE mode = "unknown"
  <2>1. arrived = buf /\ ~IsPrefix(Open, arrived) /\ speaking = <<>> /\ reasoning = <<>>
    BY <1>1 DEF ThinkInv
  <2>2. Speech(arrived) = arrived /\ Thought(arrived) = <<>> BY <2>1 DEF Speech, Thought
  <2>3. speaking \o buf = arrived BY <1>0, <2>1, ConcatEmptySeq DEF Str
  <2>4. QED BY <1>1, <2>1, <2>2, <2>3 DEF SplitAsWhole, FlushedSpeech, FlushedThought
<1>2. CASE mode = "think"
  <2>1. PICK r : r = reasoning \o buf OBVIOUS
  <2>2. arrived = Open \o r /\ EndsAt(r) = {} /\ speaking = <<>> BY <1>2, <2>1 DEF ThinkInv
  <2>3. r \in Str BY <1>0, <2>1, JoinIs
  <2>4. IsPrefix(Open, arrived) /\ From(arrived, Len(Open) + 1) = r BY <2>2, <2>3, OpensIs
  <2>5. Speech(arrived) = <<>> /\ Thought(arrived) = r BY <2>2, <2>4 DEF Speech, Thought
  <2>6. QED BY <1>2, <2>1, <2>2, <2>5 DEF SplitAsWhole, FlushedSpeech, FlushedThought
<1>3. CASE mode = "speak"
  <2>1. buf = <<>> /\ Speech(arrived) = speaking /\ Thought(arrived) = reasoning
    BY <1>3 DEF ThinkInv
  <2>2. speaking \o buf = speaking BY <1>0, <2>1, ConcatEmptySeq DEF Str
  <2>3. QED BY <1>3, <2>1, <2>2 DEF SplitAsWhole, FlushedSpeech, FlushedThought
<1>4. QED BY <1>1, <1>2, <1>3 DEF ThinkInv

LEMMA PiecesAreText == ASSUME NEW p \in Pieces PROVE p \in Str
BY DEF Pieces, Str

LEMMA Associates == \A r, s, t \in Str : (r \o s) \o t = r \o (s \o t)
BY ConcatAssociative DEF Str

LEMMA EmptyIs == <<>> \in Str /\ \A s \in Str : s \o <<>> = s /\ <<>> \o s = s
<1>1. <<>> \in Str BY DEF Str
<1>2. \A s \in Str : s \o <<>> = s /\ <<>> \o s = s BY ConcatEmptySeq DEF Str
<1>3. QED BY <1>1, <1>2

(* What is fed in the thought, or right behind the opening tag.            *)
LEMMA FedThought ==
  ASSUME NEW r \in Str, NEW s \in Str, NEW f, f = Thinking(s), NoneIn(r, r \o s),
         arrived' = Open \o (r \o s), buf' = f.buf, mode' = f.mode,
         speaking' = f.say, reasoning' = r \o f.think
  PROVE  ThinkInv'
<1>0. PICK w : w = r \o s OBVIOUS
<1>1. w \in Str /\ arrived' = Open \o w BY <1>0, JoinIs
<1>2. arrived' \in Str /\ IsPrefix(Open, arrived') /\ From(arrived', Len(Open) + 1) = w
  BY <1>1, OpensIs, CloseIs, JoinIs
<1>3. CASE EndsAt(s) # {}
  <2>1. FindsEnd(r, s, f) BY <1>3, ThinkingFinds
  <2>2. /\ EndsAt(w) # {} /\ mode' = "speak" /\ buf' = <<>>
        /\ speaking' \in Str /\ speaking' = From(w, FirstEnd(w) + 1)
        /\ f.think \in Str /\ reasoning' = SubSeq(w, 1, FirstEnd(w) - Len(Close))
    BY <1>0, <2>1 DEF FindsEnd
  <2>3. reasoning' \in Str BY <2>2, JoinIs
  <2>4. PICK a : a = arrived' OBVIOUS
  <2>5. Decided(a) BY <1>2, <2>2, <2>4 DEF Decided
  <2>6. Speech(a) = speaking' /\ Thought(a) = reasoning' BY <1>2, <2>2, <2>4 DEF Speech, Thought
  <2>7. QED BY <1>2, <2>2, <2>3, <2>4, <2>5, <2>6, EmptyIs DEF ThinkInv
<1>4. CASE EndsAt(s) = {}
  <2>1. ThinksOn(r, s, f) BY <1>4, ThinkingHolds
  <2>2. /\ EndsAt(w) = {} /\ mode' = "think" /\ speaking' = <<>>
        /\ f.think \in Str /\ buf' \in Str /\ Len(buf') <= 2
        /\ reasoning' \o buf' = w /\ NoneIn(reasoning', w)
    BY <1>0, <2>1 DEF ThinksOn
  <2>3. reasoning' \in Str BY <2>2, JoinIs
  <2>4. QED BY <1>1, <1>2, <2>2, <2>3, EmptyIs DEF ThinkInv
<1>5. QED BY <1>3, <1>4

LEMMA FeedKeeps == ASSUME ThinkInv, NEW piece \in Pieces, Feed(piece) PROVE ThinkInv'
<1>0. /\ arrived \in Str /\ buf \in Str /\ speaking \in Str /\ reasoning \in Str
      /\ mode \in {"unknown", "think", "speak"} /\ piece \in Str
  BY PiecesAreText DEF ThinkInv
<1>1. PICK s : s = buf \o piece OBVIOUS
<1>2. s \in Str BY <1>0, <1>1, JoinIs
<1>3. PICK f : f = Fed(s, mode) OBVIOUS
<1>4. /\ arrived' = arrived \o piece /\ buf' = f.buf /\ mode' = f.mode
      /\ speaking' = speaking \o f.say /\ reasoning' = reasoning \o f.think
  BY <1>1, <1>3 DEF Feed
<1>5. CASE mode = "speak"
  <2>1. s = piece /\ Decided(arrived) /\ Speech(arrived) = speaking /\ Thought(arrived) = reasoning
    BY <1>0, <1>1, <1>5, EmptyIs DEF ThinkInv
  <2>2. f = [mode |-> "speak", buf |-> <<>>, say |-> s, think |-> <<>>]
    BY <1>3, <1>5 DEF Fed, Spoken
  <2>3. /\ mode' = "speak" /\ buf' = <<>> /\ speaking' = speaking \o piece
        /\ reasoning' = reasoning \o <<>>
    BY <1>4, <2>1, <2>2
  <2>4. reasoning' = reasoning BY <1>0, <2>3, EmptyIs
  <2>5. PICK a : a = arrived' OBVIOUS
  <2>6. /\ Decided(a) /\ Speech(a) = speaking' /\ Thought(a) = reasoning'
    BY <1>0, <1>4, <2>1, <2>3, <2>4, <2>5, DecidedStays
  <2>7. a \in Str /\ speaking' \in Str BY <1>0, <1>4, <2>3, <2>5, JoinIs
  <2>8. QED BY <1>0, <2>3, <2>4, <2>5, <2>6, <2>7, EmptyIs DEF ThinkInv
<1>6. CASE mode = "think"
  <2>1. /\ arrived = Open \o (reasoning \o buf) /\ speaking = <<>>
        /\ NoneIn(reasoning, reasoning \o buf)
    BY <1>6 DEF ThinkInv
  <2>2. f = Thinking(s) BY <1>3, <1>6 DEF Fed
  <2>3. PICK t : t = reasoning \o buf OBVIOUS
  <2>4. t \in Str /\ Len(reasoning) <= Len(t)
    <3>1. t \in Str /\ Len(t) = Len(reasoning) + Len(buf) /\ Len(reasoning) \in Nat /\ Len(buf) \in Nat
      BY <1>0, <2>3, JoinIs
    <3>2. QED BY <3>1
  <2>5. t \o piece = reasoning \o s
    <3>1. (reasoning \o buf) \o piece = reasoning \o (buf \o piece) BY <1>0, Associates
    <3>2. QED BY <1>1, <2>3, <3>1
  <2>6. NoneIn(reasoning, reasoning \o s)
    <3>1. NoneIn(reasoning, t) BY <2>1, <2>3
    <3>2. NoneIn(reasoning, t \o piece) BY <1>0, <2>4, <3>1, StaysNone
    <3>3. QED BY <2>5, <3>2
  <2>7. arrived' = Open \o (reasoning \o s)
    <3>1. (Open \o t) \o piece = Open \o (t \o piece)
      <4>1. Open \in Str /\ t \in Str /\ piece \in Str BY <1>0, <2>4, CloseIs
      <4>2. QED BY <4>1, Associates, Zenon
    <3>2. QED BY <1>4, <2>1, <2>3, <2>5, <3>1
  <2>8. speaking' = f.say
    <3>1. f.say \in Str
      <4>1. CASE EndsAt(s) # {}
        <5>1. FindsEnd(reasoning, s, f) BY <1>0, <1>2, <2>2, <2>6, <4>1, ThinkingFinds
        <5>2. QED BY <5>1 DEF FindsEnd
      <4>2. CASE EndsAt(s) = {}
        <5>1. ThinksOn(reasoning, s, f) BY <1>0, <1>2, <2>2, <2>6, <4>2, ThinkingHolds
        <5>2. QED BY <5>1, EmptyIs DEF ThinksOn
      <4>3. QED BY <4>1, <4>2
    <3>2. QED BY <1>4, <2>1, <3>1, EmptyIs
  <2>9. QED BY <1>0, <1>2, <1>4, <2>2, <2>6, <2>7, <2>8, FedThought
<1>7. CASE mode = "unknown"
  <2>1. arrived = buf /\ speaking = <<>> /\ reasoning = <<>> BY <1>7 DEF ThinkInv
  <2>2. arrived' = s BY <1>1, <1>4, <2>1
  <2>3. CASE IsPrefix(Open, s)
    <3>1. PICK r : r = From(s, Len(Open) + 1) OBVIOUS
    <3>2. r \in Str /\ s = Open \o r BY <1>2, <2>3, <3>1, OpenedIs
    <3>3. f = Thinking(r) BY <1>3, <1>7, <2>3, <3>1 DEF Fed
    <3>4. NoneIn(<<>>, <<>> \o r) BY DEF NoneIn
    <3>5. f.say \in Str /\ f.think \in Str
      <4>1. CASE EndsAt(r) # {}
        <5>1. FindsEnd(<<>>, r, f) BY <3>2, <3>3, <3>4, <4>1, EmptyIs, ThinkingFinds
        <5>2. QED BY <5>1 DEF FindsEnd
      <4>2. CASE EndsAt(r) = {}
        <5>1. ThinksOn(<<>>, r, f) BY <3>2, <3>3, <3>4, <4>2, EmptyIs, ThinkingHolds
        <5>2. QED BY <5>1, EmptyIs DEF ThinksOn
      <4>3. QED BY <4>1, <4>2
    <3>6. speaking' = f.say /\ reasoning' = <<>> \o f.think BY <1>4, <2>1, <3>5, EmptyIs
    <3>7. arrived' = Open \o (<<>> \o r) BY <2>2, <3>2, EmptyIs
    <3>8. QED BY <1>4, <3>2, <3>3, <3>4, <3>6, <3>7, EmptyIs, FedThought
  <2>4. CASE ~IsPrefix(Open, s) /\ IsPrefix(s, Open)
    <3>1. f = [mode |-> mode, buf |-> s, say |-> <<>>, think |-> <<>>]
      BY <1>3, <1>7, <2>4 DEF Fed
    <3>2. mode' = "unknown" /\ buf' = s /\ speaking' = <<>> \o <<>> /\ reasoning' = <<>> \o <<>>
      BY <1>4, <1>7, <2>1, <3>1
    <3>3. speaking' = <<>> /\ reasoning' = <<>> BY <3>2, EmptyIs
    <3>4. QED BY <1>2, <2>2, <2>4, <3>2, <3>3, EmptyIs DEF ThinkInv
  <2>5. CASE ~IsPrefix(Open, s) /\ ~IsPrefix(s, Open)
    <3>1. f = [mode |-> "speak", buf |-> <<>>, say |-> s, think |-> <<>>]
      BY <1>3, <1>7, <2>5 DEF Fed, Spoken
    <3>2. mode' = "speak" /\ buf' = <<>> /\ speaking' = <<>> \o s /\ reasoning' = <<>> \o <<>>
      BY <1>4, <2>1, <3>1
    <3>3. speaking' = s /\ reasoning' = <<>> BY <1>2, <3>2, EmptyIs
    <3>4. Decided(s) /\ Speech(s) = s /\ Thought(s) = <<>> BY <2>5 DEF Decided, Speech, Thought
    <3>5. QED BY <1>2, <2>2, <3>2, <3>3, <3>4, EmptyIs DEF ThinkInv
  <2>6. QED BY <2>3, <2>4, <2>5
<1>8. QED BY <1>0, <1>5, <1>6, <1>7

LEMMA ThinkInductive == ThinkInv /\ [ThinkNext]_thinkVars => ThinkInv'
<1>1. ASSUME ThinkInv, ThinkNext PROVE ThinkInv' BY <1>1, FeedKeeps DEF ThinkNext
<1>2. ASSUME ThinkInv, UNCHANGED thinkVars PROVE ThinkInv'
  <2>1. UNCHANGED <<arrived, buf, mode, speaking, reasoning>> BY <1>2 DEF thinkVars
  <2>2. QED BY <1>2, <2>1 DEF ThinkInv
<1>3. QED BY <1>1, <1>2

LEMMA ThinkInitially == ThinkInit => ThinkInv
<1> SUFFICES ASSUME ThinkInit PROVE ThinkInv OBVIOUS
<1>1. arrived = <<>> /\ buf = <<>> /\ mode = "unknown" /\ speaking = <<>> /\ reasoning = <<>>
  BY DEF ThinkInit
<1>2. <<>> \in Str /\ Len(<<>>) = 0 /\ Open \in Str /\ Len(Open) = 3 BY EmptyIs, CloseIs
<1>3. IsPrefix(<<>>, Open)
  <2>1. Len(<<>>) <= Len(Open) /\ \A i \in 1 .. Len(<<>>) : FALSE BY <1>2
  <2>2. QED BY <1>2, <2>1, PrefixIs
<1>4. ~IsPrefix(Open, <<>>)
  <2>1. ~(Len(Open) <= Len(<<>>)) BY <1>2
  <2>2. QED BY <1>2, <2>1, PrefixIs
<1>5. QED BY <1>1, <1>2, <1>3, <1>4 DEF ThinkInv

(* However an answer is cut into pieces, what is spoken and what is        *)
(* thought is what splitting the whole gives: for any length of pieces and *)
(* of answers.                                                             *)
THEOREM PiecesSplitAsWhole == ThinkSpec => []SplitAsWhole
BY SplitsSo, ThinkInitially, ThinkInductive, PTL DEF ThinkSpec

-----------------------------------------------------------------------------
(* Their types: what is missing in the invariants above is an invariant of *)
(* its own, or one relative to them.                                       *)

LEMMA BeatTypesHold == BeatSpec => []BeatTypeOK
<1>1. BeatInit => slow \subseteq BeatTask BY DEF BeatInit
<1>2. slow \subseteq BeatTask /\ [BeatNext]_beatVars => (slow \subseteq BeatTask)'
  BY DEF BeatNext, beatVars, Elapse, BeginTick, Decide, Fire, Abort, EndTick
<1>3. BeatInv /\ slow \subseteq BeatTask => BeatTypeOK
  BY DEF BeatInv, BeatTyped, BeatTypeOK, Frames
<1>4. QED BY <1>1, <1>2, <1>3, Initially, Inductive, PTL DEF BeatSpec

JobsTyped ==
  /\ document \in {"pending", "indexed", "failed"}
  /\ job \in [Job -> {"pending", "success", "failed"}]
  /\ locked \in Job \cup {NoJob} /\ early \subseteq Job

LEMMA IngestTypesHold == IngestSpec => []IngestTypeOK
<1>1. IngestInit => JobsTyped BY DEF IngestInit, JobsTyped
<1>2. JobsTyped /\ [IngestNext]_ingestVars => JobsTyped'
  <2> SUFFICES ASSUME JobsTyped, [IngestNext]_ingestVars PROVE JobsTyped' OBVIOUS
  <2>1. CASE UNCHANGED <<document, job, locked, early>> BY <2>1 DEF JobsTyped
  <2>2. ASSUME NEW j \in Job, Acquire(j) PROVE JobsTyped' BY <2>2 DEF Acquire, JobsTyped
  <2>3. ASSUME NEW j \in Job, Release(j) PROVE JobsTyped' BY <2>3 DEF Release, JobsTyped
  <2>4. ASSUME NEW j \in Job, Commit(j) PROVE JobsTyped'
    BY <2>4 DEF Commit, DocStatus, JobsTyped
  <2>5. CASE ExpireLock BY <2>5 DEF ExpireLock, JobsTyped
  <2>6. QED
    BY <2>1, <2>2, <2>3, <2>4, <2>5
    DEF IngestNext, ingestVars, DeleteIndex, Embed, FailEmbed, FailParse, Crash, Resubmit
<1>3. IngestInv /\ JobsTyped => IngestTypeOK
  BY DEF IngestInv, IngestTyped, JobsTyped, IngestTypeOK
<1>4. QED BY <1>1, <1>2, <1>3, IngestInitially, IngestInductive, PTL DEF IngestSpec

LEMMA TraceTypesHold == TraceSpec => []TraceTypeOK
<1>1. RunInit => raises \in 0 .. MaxRaises BY TraceAssumption DEF RunInit
<1>2. raises \in 0 .. MaxRaises /\ [TraceNext]_traceVars => (raises \in 0 .. MaxRaises)'
  BY TraceAssumption
  DEF TraceNext, traceVars, Dispatch, StartTrace, GraphRaises, EndTrace, FlushReads, FlushCommits,
      Finalize, FlushFails, EnterNode, LeaveNode, RecordCall, CheckText, Raised
<1>3. TraceInv /\ raises \in 0 .. MaxRaises => TraceTypeOK
  BY DEF TraceInv, TraceTyped, Observed, TraceTypeOK
<1>4. QED BY <1>1, <1>2, <1>3, TraceInitially, TraceInductive, PTL DEF TraceSpec

LEMMA ChunkTypesHold == ChunkSpec => []ChunkTypeOK
<1>1. ASSUME ChunkInv PROVE ChunkTypeOK
  <2>1. Parsed /\ ChunkShape /\ todo \subseteq Sections /\ start \in 0 .. Len(text)
    BY <1>1 DEF ChunkInv
  <2>2. Len(text) \in Nat BY <2>1 DEF Parsed
  <2>3. ASSUME NEW s \in todo PROVE s \in (0 .. Len(text)) \X (0 .. Len(text))
    BY <2>1, <2>2, <2>3, SectionIsInText
  <2>4. QED BY <2>1, <2>3 DEF ChunkShape, ChunkTypeOK
<1>2. QED BY <1>1, ChunkInitially, ChunkInductive, PTL DEF ChunkSpec

LEMMA ThinkTypesHold == ThinkSpec => []ThinkTypeOK
<1>1. ThinkInit => Len(arrived) <= MaxAnswer BY ThinkAssumption DEF ThinkInit
<1>2. ThinkInv /\ Len(arrived) <= MaxAnswer /\ [ThinkNext]_thinkVars => (Len(arrived) <= MaxAnswer)'
  <2> SUFFICES ASSUME ThinkInv, Len(arrived) <= MaxAnswer, [ThinkNext]_thinkVars
               PROVE  Len(arrived') <= MaxAnswer
    OBVIOUS
  <2>1. CASE UNCHANGED arrived BY <2>1
  <2>2. ASSUME NEW piece \in Pieces, Feed(piece) PROVE Len(arrived') <= MaxAnswer
    <3>1. arrived \in Str /\ piece \in Str BY PiecesAreText DEF ThinkInv
    <3>2. Len(arrived \o piece) = Len(arrived) + Len(piece) BY <3>1 DEF Str
    <3>3. arrived' = arrived \o piece /\ Len(arrived) + Len(piece) <= MaxAnswer
      BY <2>2 DEF Feed
    <3>4. QED BY <3>2, <3>3
  <2>3. QED BY <2>1, <2>2 DEF ThinkNext, thinkVars
<1>3. ASSUME ThinkInv, Len(arrived) <= MaxAnswer PROVE ThinkTypeOK
  <2>1. Len(Open) = 3 /\ Open \in Str BY DEF Open, Str, Symbol
  <2>2. mode \in {"unknown", "think", "speak"} /\ buf \in Str BY <1>3 DEF ThinkInv
  <2>3. CASE mode = "unknown"
    <3>1. IsPrefix(buf, Open) /\ ~IsPrefix(Open, buf) BY <1>3, <2>3 DEF ThinkInv
    <3>2. QED BY <1>3, <2>1, <2>2, <3>1, PrefixIs DEF ThinkTypeOK
  <2>4. CASE mode = "think" BY <1>3, <2>1, <2>2, <2>4 DEF ThinkInv, ThinkTypeOK, Str
  <2>5. CASE mode = "speak"
    <3>1. Len(buf) = 0 BY <1>3, <2>5 DEF ThinkInv
    <3>2. QED BY <1>3, <2>1, <2>2, <3>1 DEF ThinkTypeOK
  <2>6. QED BY <2>2, <2>3, <2>4, <2>5
<1>4. QED BY <1>1, <1>2, <1>3, ThinkInitially, ThinkInductive, PTL DEF ThinkSpec

-----------------------------------------------------------------------------
(* The parts together                                                      *)

(* The parts share no variable: what one of them does is its own step, and *)
(* for the others nothing.                                                 *)
LEMMA PartsBegin ==
  WorkersInit => /\ BeatInit /\ IngestInit /\ RoutingInit /\ PlannerInit /\ ThinkInit
                 /\ ChunkInit /\ RunInit /\ ExprInit /\ GuardInit
BY DEF WorkersInit

LEMMA PartsMoveAlone ==
  [WorkersNext]_<<part, beatVars, ingestVars, routingVars, plannerVars,
                  thinkVars, chunkVars, traceVars, exprVars, guardVars>> =>
    /\ [BeatNext]_beatVars /\ [IngestNext]_ingestVars /\ [RoutingNext]_routingVars
    /\ [PlannerNext]_plannerVars /\ [ThinkNext]_thinkVars /\ [ChunkNext]_chunkVars
    /\ [TraceNext]_traceVars /\ [ExprNext]_exprVars /\ [GuardNext]_guardVars
BY DEF WorkersNext

THEOREM PartsKeepTheirSpecs ==
  WorkersSpec => /\ BeatSpec /\ IngestSpec /\ RoutingSpec /\ PlannerSpec /\ ThinkSpec
                 /\ ChunkSpec /\ TraceSpec /\ ExprSpec /\ GuardSpec
BY PartsBegin, PartsMoveAlone, PTL
DEF WorkersSpec, BeatSpec, IngestSpec, RoutingSpec, PlannerSpec, ThinkSpec, ChunkSpec, TraceSpec,
    ExprSpec, GuardSpec

(* Every variable of the nine parts has its type, for any tasks, documents,*)
(* rules, vocabularies and bounds.                                         *)
THEOREM WorkersStayTyped == WorkersSpec => []WorkersTypeOK
BY PartsKeepTheirSpecs, BeatTypesHold, IngestTypesHold, RoutingTypesHold, PlannerTypesHold,
   ThinkTypesHold, ChunkTypesHold, TraceTypesHold, ExprTypesHold, GuardTypesHold, PTL
DEF WorkersTypeOK

(* What holds of each part alone holds of the workers.                     *)
THEOREM WorkersKeepEveryPart ==
  WorkersSpec =>
    /\ []OncePerOccurrence /\ []IndexMatchesStatus /\ []CasesWithinBudget
    /\ []ToolCallsAnswered /\ []SplitAsWhole /\ []ChunksCover /\ []ObservedOnce
    /\ []ExpressionsMean /\ []RulesLoad /\ []MaskedIsGone
BY PartsKeepTheirSpecs, StartedOnce, IndexIsWhole, BranchesStop, HistoryIsComplete,
   PiecesSplitAsWhole, ChunksAlwaysCover, ObservationsWrittenOnce, ConditionsMean, RulesAreThere,
   MasksHold, PTL
=============================================================================

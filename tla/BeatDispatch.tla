---------------------------- MODULE BeatDispatch ----------------------------
(***************************************************************************)
(* The beat tick: once per tick a worker starts the runs of the beat tasks *)
(* whose cron fell into the tick that has just passed.  What must not      *)
(* happen twice is guarded twice, by a Redis lock that expires and by the  *)
(* time of the last trigger, which is written by the tick's transaction,   *)
(* at its end, while every run is started by a transaction of its own.     *)
(* A time unit is the resolution of the model; ticks take Tick of them.    *)
(***************************************************************************)
EXTENDS Integers, FiniteSets

CONSTANTS BeatTask,    \* enabled beat tasks with a target
          Dispatcher,  \* tick messages executed at the same time
          Tick,        \* beat_tick_seconds
          Period,      \* [BeatTask -> time between two occurrences of its cron]
          LastTime     \* bound: the last instant of a behaviour

(* cron_interval_seconds: no cron is denser than a tick.                   *)
ASSUME BeatAssumption ==
  /\ Tick \in Nat \ {0} /\ LastTime \in Nat
  /\ Period \in [BeatTask -> {n \in Nat : n >= Tick}]

VARIABLES clock,
          last,      \* [BeatTask -> last_triggered_at as committed, Never]
          held,      \* [BeatTask -> when its lock expires, 0: free]
          ticks,     \* [Dispatcher -> frame of its tick]
          started,   \* [BeatTask -> [occurrence -> runs started for it]]
          slow       \* history: tasks that waited for a later instant within a tick

beatVars == <<clock, last, held, ticks, started, slow>>

Never == -1
Instant == 0 .. LastTime
Waiting == [at |-> "waiting"]
Ticking == [at : {"deciding"}, now : Instant, todo : SUBSET BeatTask,
            seen : [BeatTask -> Instant \cup {Never}], fired : SUBSET BeatTask]
Starting == [at : {"starting"}, now : Instant, todo : SUBSET BeatTask,
             seen : [BeatTask -> Instant \cup {Never}], fired : SUBSET BeatTask,
             task : BeatTask]

BeatInit ==
  /\ clock = 0
  /\ last = [t \in BeatTask |-> Never]
  /\ held = [t \in BeatTask |-> 0]
  /\ ticks = [d \in Dispatcher |-> Waiting]
  /\ started = [t \in BeatTask |-> [o \in Instant |-> 0]]
  /\ slow = {}

-----------------------------------------------------------------------------
(* The occurrence of the cron in the tick that ends now, if there is one.  *)
InWindow(t, now) == {o \in Instant : o % Period[t] = 0 /\ now < o + Tick /\ o <= now}

(* is_cron_due, with the last trigger as the session read it.              *)
Due(t, now, seen) == \E o \in InWindow(t, now) : seen = Never \/ seen < o

(* SET NX: acquire_beat_lock; IgnoresLock starts whatever the answer is.   *)
IgnoresLock(t) == TRUE
LockFree(t) == held[t] <= clock

(* dispatch_due_tasks: the time and the task rows are read once.           *)
BeginTick(d) ==
  /\ ticks[d] = Waiting
  /\ ticks' = [ticks EXCEPT ![d] = [at |-> "deciding", now |-> clock, todo |-> BeatTask,
                                    seen |-> last, fired |-> {}]]
  /\ UNCHANGED <<clock, last, held, started, slow>>

(* The next task of the loop: not due, locked, or to be started.           *)
Decide(d, t) ==
  LET f == ticks[d] g == [f EXCEPT !.todo = @ \ {t}] IN
  /\ f.at = "deciding" /\ t \in f.todo
  /\ IF Due(t, f.now, f.seen[t]) /\ LockFree(t)
     THEN /\ held' = [held EXCEPT ![t] = clock + Period[t]]
          /\ slow' = IF clock > f.now THEN slow \cup {t} ELSE slow
          /\ ticks' = [ticks EXCEPT ![d] =
               [at |-> "starting", now |-> f.now, todo |-> g.todo, seen |-> f.seen,
                fired |-> f.fired, task |-> t]]
     ELSE ticks' = [ticks EXCEPT ![d] = g] /\ UNCHANGED <<held, slow>>
  /\ UNCHANGED <<clock, last, started>>

(* start_run commits the run on its own; then the row is marked, unsaved.  *)
Fire(d) ==
  LET f == ticks[d] IN
  /\ f.at = "starting"
  /\ started' = [started EXCEPT ![f.task] =
       [o \in Instant |-> IF o \in InWindow(f.task, f.now) THEN @[o] + 1 ELSE @[o]]]
  /\ ticks' = [ticks EXCEPT ![d] = [at |-> "deciding", now |-> f.now, todo |-> f.todo,
                                    seen |-> f.seen, fired |-> f.fired \cup {f.task}]]
  /\ UNCHANGED <<clock, last, held, slow>>

(* A definition that does not validate, a refusing broker, a lost worker:  *)
(* the tick ends, what it marked is rolled back, its locks stay.           *)
Abort(d) ==
  /\ ticks[d] # Waiting
  /\ ticks' = [ticks EXCEPT ![d] = Waiting]
  /\ UNCHANGED <<clock, last, held, started, slow>>

(* The end of the tick's transaction.                                      *)
EndTick(d) ==
  LET f == ticks[d] IN
  /\ f.at = "deciding" /\ f.todo = {}
  /\ last' = [t \in BeatTask |-> IF t \in f.fired THEN f.now ELSE last[t]]
  /\ ticks' = [ticks EXCEPT ![d] = Waiting]
  /\ UNCHANGED <<clock, held, started, slow>>

Elapse == /\ clock < LastTime
          /\ clock' = clock + 1
          /\ UNCHANGED <<last, held, ticks, started, slow>>

BeatNext ==
  \/ Elapse
  \/ \E d \in Dispatcher :
       \/ BeginTick(d) \/ Fire(d) \/ Abort(d) \/ EndTick(d)
       \/ \E t \in BeatTask : Decide(d, t)

BeatSpec == BeatInit /\ [][BeatNext]_beatVars

-----------------------------------------------------------------------------
BeatTypeOK ==
  /\ clock \in Instant
  /\ last \in [BeatTask -> Instant \cup {Never}]
  /\ held \in [BeatTask -> Nat]
  /\ ticks \in [Dispatcher -> {Waiting} \cup Ticking \cup Starting]
  /\ started \in [BeatTask -> [Instant -> Nat]]
  /\ slow \subseteq BeatTask

(* An occurrence of a cron starts one run at most, whatever ticks overlap, *)
(* arrive late or are aborted after the start and before their commit.     *)
(* The exception is a tick that came to the task at a later instant than   *)
(* the one it judges the cron by: the lock may have expired in between.    *)
OncePerOccurrence ==
  \A t \in BeatTask \ slow : \A o \in Instant : started[t][o] <= 1
=============================================================================

----------------------------- MODULE SseStream -----------------------------
(***************************************************************************)
(* What a reader of a conversation is shown: runs publish their lifecycle  *)
(* and their progress on the bus, and every SSE connection passes what it  *)
(* takes from its queue through a protocol machine of its own, which drops *)
(* the frames it does not allow.  A run is executed in turns, one for each *)
(* envelope: it stops at a question or at a child run, and whichever       *)
(* process takes the envelope of the answer goes on with it.               *)
(***************************************************************************)
EXTENDS EventBus

CONSTANTS Run,        \* runs of the conversation
          Child,      \* those that are child runs: nobody submits them to the stream
          FromOf,     \* [Run -> Api]: the process whose request submits the run
          MaxDeltas,  \* bound: [Run -> frames of the run after which it makes no progress]
          MaxTurns    \* bound: [Run -> turns of the run]

ASSUME StreamAssumption == /\ Child \subseteq Run /\ FromOf \in [Run -> Api]
                           /\ MaxDeltas \in [Run -> Nat] /\ MaxTurns \in [Run -> Nat]

VARIABLES run,        \* [Run -> [state, n]]; n: frames the run has published
          turns,      \* [Run -> Seq([by, pc])]: the process that executes a turn, and
                      \* how far it is
          shown,      \* [Reader -> state of the protocol machine]
          midway,     \* history: readers that came while a run was active
          late        \* history: readers that came when none was, to frames of one that
                      \* the broker still had for their process

VARIABLES tangled,    \* history: a run began while another was active, or while
                      \* frames of another were still at the broker
          muted,      \* history: a run ended without a frame
          overtaken   \* history: runs a turn of which began when they had ended, when
                      \* another turn had still to publish, or in an API process with
                      \* their earlier frames still on the way to it

streamVars == <<busVars, run, turns, shown, midway, late, tangled, muted, overtaken>>

(* A run ends for its readers with its last frame, or when none will come. *)
RunStates == {"new", "submitting", "submitted", "active", "ended"}
(* A turn works; has committed its question, or its run's end, and has yet *)
(* to publish it; leaves, with nothing to publish unless its last writes   *)
(* fail; and is silent when it waits, is through, or lost its worker.      *)
TurnStates == {"working", "asking", "leaving", "closing", "parked", "done", "lost"}
Silent == {"parked", "done", "lost"}
MachineStates == {"idle", "subscribed", "run_active", "completed", "failed"}
(* Turn 0 is the submission.                                               *)
By(x, t) == IF t = 0 THEN FromOf[x] ELSE turns[x][t].by
Event(x, t, name) ==
  [origin |-> By(x, t), run |-> x, turn |-> t, name |-> name, n |-> run[x].n]

StreamInit ==
  /\ BusInit
  /\ run = [x \in Run |-> [state |-> "new", n |-> 0]]
  /\ turns = [x \in Run |-> <<>>]
  /\ shown = [r \in Reader |-> "idle"]
  /\ midway = {} /\ late = {} /\ tangled = FALSE /\ muted = FALSE /\ overtaken = {}

Active(x) == run[x].state \in {"submitting", "submitted", "active"}
At(x, t, pc) == t \in DOMAIN turns[x] /\ turns[x][t].pc = pc
Goes(x, t, pc) == turns' = [turns EXCEPT ![x][t].pc = pc]
Published(x, state) == run' = [run EXCEPT ![x].state = state, ![x].n = @ + 1]
Publishing(x) == \E t \in DOMAIN turns[x] : turns[x][t].pc \notin Silent
bus == <<link, builder, holders, bound, calls, place, early>>
watching == <<shown, midway, late, tangled, muted, overtaken>>

-----------------------------------------------------------------------------
(* Publishers.                                                             *)

(* start_run in an API process: run_submitted goes to its own readers ...  *)
SubmitRun(x) ==
  /\ x \notin Child /\ run[x].state = "new"
  /\ run' = [run EXCEPT ![x].state = "submitting"]
  /\ Fanout(FromOf[x], Event(x, 0, "run_submitted"))
  /\ tangled' = (tangled \/ (\E y \in Run : Active(y)) \/ \E q \in Api : wire[q] # <<>>)
  /\ UNCHANGED <<bus, wire, turns, shown, midway, late, muted, overtaken>>

(* ... which builds the connection when there is none and nobody does (as  *)
(* does any later publication of the process) ...                          *)
EnsureForPublish(p) ==
  /\ \E x \in Run : \/ run[x].state = "submitting" /\ FromOf[x] = p
                    \/ \E t \in DOMAIN turns[x] :
                         turns[x][t].by = p /\ turns[x][t].pc \notin Silent
  /\ link[p] = "none" /\ builder[p] = NoOne
  /\ builder' = [builder EXCEPT ![p] = Publisher]
  /\ UNCHANGED <<link, holders, bound, calls, wire, inbox, place, early, lossy, run, turns,
                 watching>>

(* ... and to the exchange, or nowhere; only then is the envelope sent.    *)
SendSubmitted(x) ==
  LET p == FromOf[x] e == Event(x, 0, "run_submitted") IN
  /\ run[x].state = "submitting"
  /\ \/ link[p] # "none" /\ builder[p] # Publisher /\ Route(e)
     \/ Lose(e)
  /\ Published(x, "submitted")
  /\ UNCHANGED <<bus, inbox, turns, watching>>

(* spawn_subgraph_child, in turn t of run y, which leaves: no frame.       *)
SpawnChild(x, y, t) ==
  /\ x \in Child /\ run[x].state = "new" /\ y \notin Child
  /\ At(y, t, "working") /\ Goes(y, t, "leaving")
  /\ run' = [run EXCEPT ![x].state = "submitted"]
  /\ tangled' = TRUE
  /\ UNCHANGED <<busVars, shown, midway, late, muted, overtaken>>

(* Process w takes an envelope of the run: the first, one with the answer  *)
(* to a question (or a second answer) or the result of a child, or one the *)
(* broker gives again for a lost worker.  A worker takes them all, or, in  *)
(* the eager mode, the process in which they are sent: that is where the   *)
(* run was submitted or its parent is executed, and with an answer any.    *)
SentIn(x, w) ==
  IF x \notin Child THEN w = FromOf[x]
  ELSE \E y \in Run \ Child : \E i \in DOMAIN turns[y] : turns[y][i].by = w
Envelope(x, w) ==
  IF turns[x] = <<>>
  THEN run[x].state \notin {"new", "submitting"} /\ (w \in Worker \/ SentIn(x, w))
  ELSE \E i \in DOMAIN turns[x] :
         turns[x][i].pc \in {"asking", "leaving", "parked"} \cup (IF w \in Worker THEN {"lost"} ELSE {})
OnTheWay(x, w) ==
  w \in Api /\ \E i \in DOMAIN wire[w] : wire[w][i].run = x /\ Foreign(w, wire[w][i])

(* execute_envelope sets running, whatever the status was.                 *)
Begin(x, w) ==
  /\ Envelope(x, w) /\ Len(turns[x]) < MaxTurns[x]
  /\ \A i \in DOMAIN turns[x] : (turns[x][i].by \in Worker) = (w \in Worker)
  /\ turns' = [turns EXCEPT ![x] = Append(@, [by |-> w, pc |-> "working"])]
  /\ run' = [run EXCEPT ![x].state = "active"]
  /\ overtaken' = IF run[x].state = "ended" \/ Publishing(x) \/ OnTheWay(x, w)
                  THEN overtaken \cup {x} ELSE overtaken
  /\ UNCHANGED <<busVars, shown, midway, late, tangled, muted>>

(* A publication of the executing process, which has had a connection for  *)
(* long when it is a worker: local readers, then the exchange or nowhere.  *)
(* Both happen before the turn does anything else.                         *)
Outcomes(p) == IF p \in Worker THEN BOOLEAN
               ELSE IF link[p] # "none" THEN BOOLEAN ELSE {FALSE}
PublishFrom(e) ==
  LET mine == IF e.origin \in Api THEN holders[e.origin] ELSE {} IN
  /\ inbox' = [r \in Reader |-> IF r \in mine /\ ~Full(r) THEN Append(inbox[r], e)
                                ELSE inbox[r]]
  /\ \E sent \in Outcomes(e.origin) :
       /\ wire' = [p \in Api |-> IF sent /\ bound[p] THEN Append(wire[p], e) ELSE wire[p]]
       /\ lossy' = lossy \cup {r \in mine : Full(r)}
            \cup {r \in Reader : /\ HomeOf[r] # e.origin /\ r \in holders[HomeOf[r]]
                                 /\ ~sent \/ ~bound[HomeOf[r]]}
  /\ UNCHANGED bus

(* speaking, reasoning, tool_calling, step_running.                        *)
Delta(x, t) ==
  /\ At(x, t, "working") /\ run[x].n <= MaxDeltas[x]
  /\ PublishFrom(Event(x, t, "speaking"))
  /\ Published(x, run[x].state)
  /\ UNCHANGED <<turns, watching>>

(* create_pending is committed: the question can be answered ...  (Bound:  *)
(* the last turn of a run asks nothing.)                                   *)
Ask(x, t) ==
  /\ Len(turns[x]) < MaxTurns[x]
  /\ At(x, t, "working") /\ Goes(x, t, "asking")
  /\ run' = [run EXCEPT ![x].state = "active"]
  /\ UNCHANGED <<busVars, watching>>

(* ... before run_interrupted is published, and then the trace is written. *)
Interrupted(x, t) ==
  /\ At(x, t, "asking") /\ Goes(x, t, "leaving")
  /\ PublishFrom(Event(x, t, "run_interrupted"))
  /\ Published(x, run[x].state)
  /\ UNCHANGED watching

Leave(x, t) ==
  /\ At(x, t, "leaving") /\ Goes(x, t, "parked")
  /\ UNCHANGED <<busVars, run, watching>>

(* The end of the run is committed, after the question when the last       *)
(* writes of the turn fail ...                                             *)
Settle(x, t) ==
  /\ At(x, t, "working") \/ At(x, t, "leaving")
  /\ Goes(x, t, "closing")
  /\ UNCHANGED <<busVars, run, watching>>

(* ... the parent and the message are told, and then the readers.          *)
Finish(x, t, name) ==
  /\ At(x, t, "closing") /\ Goes(x, t, "done")
  /\ PublishFrom(Event(x, t, name))
  /\ Published(x, "ended")
  /\ UNCHANGED watching

(* A worker is killed: its run waits for another, or for ever; the frame   *)
(* of a run that has ended does not come.  An API process may lose what it *)
(* executes in the eager mode, too: nobody goes on with that, unless it    *)
(* has asked already and is answered.                                      *)
Asked(x, t) == At(x, t, "asking") \/ At(x, t, "leaving")
Lost(x, t) ==
  /\ t \in DOMAIN turns[x] /\ turns[x][t].pc \notin Silent
  /\ Goes(x, t, IF turns[x][t].by \in Worker \/ ~Asked(x, t) THEN "lost" ELSE "parked")
  /\ IF At(x, t, "closing") THEN muted' = TRUE /\ run' = [run EXCEPT ![x].state = "ended"]
     ELSE UNCHANGED <<muted, run>>
  /\ UNCHANGED <<busVars, shown, midway, late, tangled, overtaken>>

(* cancel_run, a rejection, an expiry: no frame says so, and a turn that   *)
(* works goes on.                                                          *)
EndSilently(x) ==
  /\ run[x].state \in {"submitted", "active"}
  /\ run' = [run EXCEPT ![x].state = "ended"]
  /\ muted' = TRUE
  /\ UNCHANGED <<busVars, turns, shown, midway, late, tangled, overtaken>>

-----------------------------------------------------------------------------
(* Readers: StreamStateMachine.                                            *)

(* OnlyOnce forgets that a finished stream starts over with the next run.  *)
OnlyOnce(s, name) == s = "subscribed"
MayStart(s, name) == s \in {"subscribed", "completed", "failed"}

(* FailedIgnored forgets that a failure ends a run, too.                   *)
FailedIgnored(s, name) == s = "run_active" /\ name = "run_completed"
MayFinish(s, name) == s = "run_active"

(* apply_event: the state a legal frame leads to, or the same.             *)
Applied(s, name) ==
  CASE name = "run_submitted" -> IF MayStart(s, name) THEN "run_active" ELSE s
    [] name = "run_completed" -> IF MayFinish(s, name) THEN "completed" ELSE s
    [] name = "run_failed" -> IF MayFinish(s, name) THEN "failed" ELSE s
    [] OTHER -> IF s \in {"subscribed", "run_active"} THEN "run_active" ELSE s

(* conversation_sse_iter, one turn of its loop.                            *)
Take(r) ==
  /\ place[r] = "on" /\ inbox[r] # <<>> /\ shown[r] # "idle"
  /\ shown' = [shown EXCEPT ![r] = Applied(@, Head(inbox[r]).name)]
  /\ inbox' = [inbox EXCEPT ![r] = Tail(@)]
  /\ UNCHANGED <<bus, wire, lossy, run, turns, midway, late, tangled, muted, overtaken>>

(* Its first step, when the subscription is done.                          *)
Connected(r) ==
  /\ place[r] = "on" /\ shown[r] = "idle"
  /\ shown' = [shown EXCEPT ![r] = "subscribed"]
  /\ UNCHANGED <<busVars, run, turns, midway, late, tangled, muted, overtaken>>

SubscribeTo(r) ==
  /\ Subscribe(r)
  /\ midway' = IF \E x \in Run : Active(x) THEN midway \cup {r} ELSE midway
  /\ late' = IF wire[HomeOf[r]] # <<>> /\ ~\E x \in Run : Active(x) THEN late \cup {r} ELSE late
  /\ UNCHANGED <<run, turns, shown, tangled, muted, overtaken>>

UnsubscribeFrom(r) ==
  /\ Unsubscribe(r)
  /\ shown' = [shown EXCEPT ![r] = "idle"]
  /\ UNCHANGED <<run, turns, midway, late, tangled, muted, overtaken>>

Quietly == UNCHANGED <<run, turns, watching>>

StreamNext ==
  \/ \E x \in Run : SubmitRun(x) \/ SendSubmitted(x) \/ EndSilently(x)
  \/ \E x \in Run, w \in Process : Begin(x, w)
  \/ \E x \in Run : \E t \in DOMAIN turns[x] :
       \/ Delta(x, t) \/ Ask(x, t) \/ Interrupted(x, t) \/ Leave(x, t) \/ Settle(x, t)
       \/ Finish(x, t, "run_completed") \/ Finish(x, t, "run_failed") \/ Lost(x, t)
       \/ \E y \in Run : SpawnChild(y, x, t)
  \/ \E p \in Api : EnsureForPublish(p)
  \/ \E r \in Reader : Take(r) \/ Connected(r) \/ SubscribeTo(r) \/ UnsubscribeFrom(r)
  \/ \E r \in Reader : (Wake(r) \/ Cancel(r)) /\ Quietly
  \/ \E p \in Api : (Consume(p) \/ Build(p) \/ BuildFails(p) \/ BuildTimesOut(p) \/ Answer(p))
                       /\ Quietly

(* Fair: the event loops, the broker, and a process that has committed the *)
(* end of a run and goes on to publish it, unless it is killed.  Nothing   *)
(* else obliges a run to end: it may wait for a person for ever.           *)
StreamFairness ==
  /\ \A x \in Run : \A t \in 1 .. MaxTurns[x] :
       WF_streamVars(Finish(x, t, "run_completed") \/ Finish(x, t, "run_failed"))
  /\ \A r \in Reader : WF_streamVars(Take(r)) /\ WF_streamVars(Connected(r))
                         /\ WF_streamVars(Wake(r) /\ Quietly)
  /\ \A p \in Api : WF_streamVars((Consume(p) \/ Build(p) \/ Answer(p)) /\ Quietly)

StreamSpec == StreamInit /\ [][StreamNext]_streamVars /\ StreamFairness

-----------------------------------------------------------------------------
(* What a reader u has, followed by what comes to it from the frames v of  *)
(* its process p, has the frames of a run in their order; those of one     *)
(* turn at least, where a run was overtaken.                               *)
Akin(e, f) == e.run = f.run /\ (e.turn = f.turn \/ e.run \notin overtaken)
Before(e, f) == Akin(e, f) => e.n < f.n
Ordered(u, v, p) ==
  /\ \A i, j \in 1 .. Len(u) : i < j => Before(u[i], u[j])
  /\ \A i \in 1 .. Len(u), j \in 1 .. Len(v) : Foreign(p, v[j]) => Before(u[i], v[j])
  /\ \A i, j \in 1 .. Len(v) :
       i < j /\ Foreign(p, v[i]) /\ Foreign(p, v[j]) => Before(v[i], v[j])

(* A reader gets the frames of a run in their order and none of them twice,*)
(* although those of its own process come to it on two ways and the turns  *)
(* of a run are executed by several processes.  Frames of different turns  *)
(* may change places only when one turn began before the other had         *)
(* published all, or before it had arrived.                                *)
OnceInOrder == \A r \in Reader : Ordered(inbox[r], wire[HomeOf[r]], HomeOf[r])

(* A reader that has taken all that was published shows a run as going on  *)
(* exactly when one goes on: as long as no frame was lost, no run began    *)
(* before the frames of the last were delivered (a child run overlaps its  *)
(* parent; a submission overtakes what is still at the broker), no turn    *)
(* overtook another of its run, each run ended with a frame, and the       *)
(* reader did not come in between, to frames without their end.  Who came  *)
(* midway knows after the next frame.                                      *)
ShownAsIs ==
  \A r \in Reader :
    /\ place[r] = "on" /\ shown[r] # "idle"
    /\ inbox[r] = <<>> /\ wire[HomeOf[r]] = <<>>
    /\ r \notin lossy \cup late /\ ~tangled /\ ~muted /\ overtaken = {}
    /\ \A x \in Run : run[x].state # "submitting"
    => /\ shown[r] = "run_active" => \E x \in Run : Active(x)
       /\ r \notin midway /\ (\E x \in Run : Active(x)) => shown[r] = "run_active"

(* No reader waits for ever on a run that ended: when every run has        *)
(* committed its end, a stream that shows a run going on gets to its end,  *)
(* or a run begins again, or the reader goes away.  The exceptions are a   *)
(* lost frame, a reader that came late, overlapping runs, a run that ends  *)
(* without a frame or is overtaken, and a connection that an impatient     *)
(* publisher left half built.                                              *)
GoesOn == \E x \in Run : Active(x) /\ \A t \in DOMAIN turns[x] : turns[x][t].pc # "closing"
StreamsClose ==
  \A r \in Reader : shown[r] = "run_active" /\ ~GoesOn ~>
    \/ shown[r] # "run_active" \/ GoesOn
    \/ r \in lossy \cup late \/ tangled \/ muted \/ overtaken # {} \/ HalfBuilt(HomeOf[r])
=============================================================================

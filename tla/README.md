# FlowFactory: TLA+ models and proofs

FlowFactory is a FastAPI application that lets users draw agent flows, run them
(Celery workers executing LangGraph graphs), answer the questions a flow asks
(human in the loop, HITL), and watch the run over SSE. This directory models the
parts whose correctness depends on the order of concurrent steps, or on an
algorithm that is easy to get subtly wrong; it checks them with TLC and proves
what it can with TLAPS. The code is under `src/src/backend`; paths below are
relative to it, those that begin with `docs/` to `src/`.

| Where to look | Section |
| --- | --- |
| the system's parts, their state, what is hard | 1 |
| the modules, and how they correspond to the code | 2 to 7 |
| what each run checks, bounds, fairness, disagreements with the documents | 8 |
| what is proved, and how | 9 |
| what is left out, and why | 10 |

## 1. Inventory

### 1.1 Components, state, operations

| Component | State | Operations | What makes it correct | Module |
| --- | --- | --- | --- | --- |
| Run engine: `service/runtime/{scheduler,worker_loop,hitl,child_run}.py`, `service/orchestration/passthrough.py`, `service/celery_app/` | `wf_run_snapshot`, `wf_hitl_pending`, `wf_child_run_pending`, `wf_celery_task_record`; the Celery queue | `start_run`, `resume_run`, `cancel_run`, `execute_envelope`, `notify_parent_of_child`, expiry of HITL rows and child rows | a run that has not settled has something that will move it on, and never two workers; status columns tell the truth; each child is reported once | `WorkflowRuntime`, `RunContract` |
| Flow compilation, routing, expressions: `compile_v1.py`, `definition_v1.py`, `expr.py`, `state_path.py` | graph channels, visit counters | validate, compile, run a superstep, route a branch, evaluate, assign | a branch stops looping at `max_visits`; an expression means what its grammar says | `GraphRouting`, `Expressions` |
| Planner loop: `planner.py` | messages, pending calls, step counter | plan, call tools | every tool call is answered before the model is asked again | `PlannerLoop` |
| LLM client: `llm.py` | buffer of a stream | feed, flush | reasoning and speech are told apart however the stream is cut | `ThinkTags` |
| Observability and guardrail hits: `service/observability/` | buffered spans, calls, hits | record, flush, flush again on errors | what was observed is stored once | `RunTrace` |
| Content guardrail: `service/guardrail/` | `sec_guardrail_rule`, the rules an execution has loaded | load and insert rules, check and mask around nodes | every execution gets its rules; what a masking rule matches does not survive in the state | `Guardrails` |
| Beat dispatch: `beat.py` | `last_triggered_at`, a Redis lock | tick | an occurrence of a cron starts one run | `BeatDispatch` |
| Knowledge ingestion, chunking: `service/knowledge/` | jobs, chunks, per-document lock | run, skip, fail, cut | one index per document, matching its status; no text is lost | `KnowledgeIngestion`, `Chunker` |
| Stream event bus: `service/events/` | holders per conversation, AMQP bindings, bounded queues | subscribe, unsubscribe, publish, consume | a process with readers is bound; no event twice or out of order | `EventBus` |
| SSE protocol: `api/sse/` | one state machine per reader | frames in, events out | a reader shows a run as going on exactly when one is | `SseStream` |
| Conversation application: `api/apps/conversation/router.py` | `conv_conversation`, `conv_message` | send, resume, cancel, delete, list, subscribe | messages end with the outcome; a conversation's flow exists | `WorkflowRuntime`, `FlowCatalog`, `AgentCatalog`, `SseStream` |
| Studio: `api/apps/studio/router.py`, `persistence/agent.py` | flow versions: draft, published, archived, deleted | create, patch, publish, new draft, delete | one published version; no circle of subgraphs; references survive | `FlowCatalog` |
| Purge: `persistence/purge.py` | the same | nightly deletion | nothing that is referred to goes | `FlowCatalog` |
| Agent configuration, models: `api/apps/{agent_config,models}/router.py` | profiles, skills, tools, MCP servers, beat tasks, models; `sys_asset`, bindings | CRUD with in-use checks | references resolve; permission entries follow the rows; keys survive edits | `AgentCatalog` |
| Authentication: `service/auth/{service,tokens,jwt_codec}.py` | accounts, refresh rows and families, blacklist, revoke-before | register, login, refresh, logout, shut, open | a logout, a rotation and a shut account are final | `AuthSessions` |
| Permissions: `service/auth/{permission,access}.py`, `agent_config/access.py` | grants, roles, bindings, the cached grants | decide, list, replace bindings | list, detail and check agree; a withdrawn right ends after one cache lifetime | `AccessRules` |
| LDAP directory | directory mirror | synchronise, provision at login | - | login only: `AuthSessions` |
| LangGraph, Postgres checkpointer, RabbitMQ, Redis, Celery | - | external | modelled by how the code uses them | in the modules above |
| Redis hot state, Temporal orchestrator, retrieval, parsers, tools, storage, settings, frontend | - | - | - | section 10 |

### 1.2 How they interact

* An API handler commits records in one transaction, then sends an envelope to
  Celery (or, with `celery_eager`, schedules a coroutine on its own event loop).
* A worker executes an envelope in several transactions with the graph call
  between them; nothing is locked across them and no row has a version column.
* A subgraph node ends the parent's execution: the child is a run of its own,
  whose worker writes the result into the child row and enqueues the parent.
* Cancellation and the two expiry ticks write the same rows from other processes.
* Publishers put events into the queues of their own readers and send them to an
  exchange; API processes consume what is bound to them and pass it to SSE readers.
* Requests read, decide and commit under READ COMMITTED; what protects an
  invariant is a unique index, a foreign key, or nothing.

### 1.3 What is hard

Interleaving of handlers over unlocked rows; status columns overwritten from
stale reads; loss of a worker, of an API process or of the broker between two
transactions; redelivery; wakeups that exactly one party must send; locks that
expire or are released before the commit they protect; a connection that is built
while others use it; caches that nobody invalidates; a flush that fails after
everything was committed. `PROJECT.json` lists the hazards line by line, with the
properties that would catch each, or why none does.

### 1.4 Exceptions have names

Much of this code holds "unless two requests overlap". Such a property is not
dropped and not weakened to what is never false: the model keeps a history variable
that names the interference (`forked`, `mixed`, `blurred`, `early`, `slow`, `lossy`,
`tangled`, `muted`, `midway`, `late`, `shared`, `rolledBack`, `overtaken`, `hidden`, `unread`, `respelt`, `lowered`, and the kinds of
faults in `seen`), and the property says that nothing else breaks it. Each is set by
the step that causes the interference, never by the symptom.

## 2. The run engine: `WorkflowRuntime`, `RunContract`

### 2.1 State

| Variable | Code |
| --- | --- |
| `run` | `wf_run_snapshot.status`; `"absent"`: no such row |
| `parent`, `row`, `result` | `wf_child_run_pending`: `parent_run_id`, `status`, the status in `resume_payload` |
| `hitl` | `wf_hitl_pending` rows in order of creation, with the node's `on_reject` |
| `task`, `last` | `wf_celery_task_record.status` of the run's envelopes; the newest one |
| `msg` | `conv_message.status` of the assistant message |
| `cp` | the LangGraph checkpoint: at which stop of its script the graph is interrupted |
| `depth` | which flow the run executes; `Scripts[d]` lists the stops of a flow at nesting depth `d` |
| `broker` | the Celery queue (a set of envelopes: order is not relied upon), or the pending coroutines of the eager mode |
| `at` | one frame per process: program counter and locals |
| `roots`, `mode`, `left`, `seen` | bounds and bookkeeping: runs submitted, deployment, faults left, kinds of faults that happened |

`Worker` processes are Celery worker slots (or eager coroutines); `Client`
processes are concurrent control handlers: API requests and beat ticks.

### 2.2 Steps

One step is one database transaction or one external call; between two steps of
a handler everybody else may run. Transactions are one step when nothing they
write depends on a row another handler may change between the read and the
commit, or when all the interesting races are already possible around them. Three
handlers write what they concluded from an earlier read, without row locks, and are
split into a read and a write: `apply_resume_decision` (`DecideRead`,
`DecideWrite`), `notify_parent_of_child` (`TellRead`, `TellWrite`) and the mark
after a child was dispatched (`MarkRead`, `MarkWrite`).

| Code | Actions |
| --- | --- |
| `start_run` | `Submit` (to the commit), `DispatchStart` (envelope) |
| `resume_run`, `apply_resume_decision`, `enqueue_resume` | `DecideRead`, `DecideWrite`, `EnqueueAnswer` |
| `execute_envelope`: claim, graph, settle, fail, flush and message | `Claim`, `RunGraph`, `GraphRaises`, `SettleInterrupt`, `SettleCompleted`, `FailRun`, `Flush` |
| `spawn_subgraph_child` and what follows | `SpawnChild`, `SpawnRefused`, `InlineResume`, `DispatchChild`, `MarkRead`, `MarkWrite` |
| `notify_parent_of_child` | `TellRead`, `TellWrite`, `WakeParent` |
| `cancel_run`, with its cascade | `Cancel`, `Cascade`, `CascadeDone` |
| `expire_due_child_pending` | `ScanTimeouts`, `TimeOutChild`, `Cascade`, `CascadeDone` |
| `expire_due_pending` | `ExpireHitl` |
| failures, at any step of the process they hit | `CrashWorker`, `KillAtTimeLimit`, `CrashClient`, `CrashEager`, `SendFails`, `FlushFails` |

`CascadeDone` with outcome `"unbound"` is the local `parent_notify` of `cancel_run`
read without having been assigned: the handler raises after its transactions are
committed, and inside `expire_due_child_pending` that ends the loop.

`KillAtTimeLimit` is enabled wherever a worker has an envelope: Celery's hard limit
counts from its start and kills at any statement, also between the commit of the
outcome and the write of the message. The envelope is acknowledged all the same.

LangGraph is external and modelled by what `execute_envelope` uses of it: a fresh
input runs from START to the first stop, a resume command from the checkpoint to
the next stop or the end (a resume of a graph past its last stop changes nothing),
and a node may raise. Payloads, error texts, thread rows, Redis hot state, published
frames and traces are abstracted: no decision of these handlers reads them.

### 2.3 The contract

`RunContract` is what the engine promises, free of tables and queues: a run is
queued, executing, parked or settled; parked, it waits for a person or for its one
child; a parent goes on only after the child settled; a settled run stays settled;
the engine itself never stops. `WorkflowRuntime` maps to it by `Phase` and
`WaitsFor`, and `KeepsContract` is its specification, progress included, as a
property of the engine.

## 3. What a worker computes: the modules of `MCWorkers`

| Module | Code | State and actions |
| --- | --- | --- |
| `BeatDispatch` | `dispatch_due_tasks`, `is_cron_due`, `acquire_beat_lock` | A tick reads time and rows (`BeginTick`), decides each task under the Redis lock (`Decide`), starts the run in a transaction of its own (`Fire`) and commits `last_triggered_at` at its end (`EndTick`); a task that raises or a lost worker ends it anywhere (`Abort`); the clock moves between any two steps (`Elapse`) |
| `KnowledgeIngestion` | `IngestionService.run`, `_fail` | `Acquire`, `DeleteIndex`, `Embed`, `FailEmbed`, `FailParse`, `Release` of the lock, and only then `Commit`; `Crash` and redelivery, `ExpireLock`. Deleted rows block a second delete as row locks do |
| `GraphRouting` | `compile_v1_builder`, `_router`, `_bump_visits`, `FlowDefinitionV1` | One superstep per action: what each node type writes, last-value channels that two writers may not share, branch targets with their visit counters, interrupts and resumes, redelivery from the entry, LangGraph's recursion limit. The counters lie in the metadata: `d.given` is what the input brings (an input map may fill it), `d.writes` are the assign nodes and output maps whose target reaches them, and each superstep of one leaves any of `Counters` (`Bases`) before `_bump_visits` adds to it. `lowered` says that such a write, or the input, has set a counter back |
| `PlannerLoop` | `planner_node`, `tools_node`, `route` | `Plan`, `GiveUp` past `planner_max_steps`, `RunTool` for each pending call with every outcome, `ToolsDone`, `Fail`, `PlannerRedeliver` |
| `ThinkTags` | `ThinkTagSplitter` against `_split_think_content` | `Feed` of any piece. The tags are three symbols long instead of seven and eight: they still begin alike, differ in the second symbol, and can be cut everywhere |
| `Chunker` | `split_with_overlap`, `_last_separator`, `split_markdown_sections`, `split_page_sections` | A step makes one chunk (`Piece`, `WholeSection`, `EmptySection`). A chunk has the place of its content (`from`, `to`) and the `char_start` that `_draft` records, from which the code counts `char_end` by the length of the content. The two agree for pieces; a short section kept whole is recorded from where the section begins, although its content was stripped: it is the recorded place, and not the content, that is too early by the blanks |
| `RunTrace` | `TraceCollector`, `GuardrailEvaluator` buffers, the flushes of `execute_envelope` | Two executions, the second dispatched by the first (in the eager deployment it inherits the trace); a flush reads, then writes; it may fail before, between or after clearing its buffers |
| `Expressions` | `eval_expr`, `parse_path`, `get_path`, `set_path`, the assign node | Phrases are built by the grammar together with their meaning, and the recursive descent of the code is run on their words, written as one recursive function that gives the reading of every place of the text at each of its levels; assignments store what the descent has read in a heap of shared dictionaries |

| `Guardrails` | `load_rule_specs`, `match_rule`, `apply_masks`, `wrap_guardrail_node` | Executions load their rules in one transaction each (`ReadRules`, `AddBuiltins`, which waits for an uncommitted insert of the same code, `CommitRules`) while operators edit the table (`SetRule`); then one graph, the planner with its tools or LLM nodes in a row: `BlockInput`, `Respond` with what the check reads and the mask writes, `UseTools`. A text is the sequence of the things in it a rule may match; a message has its content and the arguments of its tool calls |

Three things `Guardrails` made plain, each the exception a history variable of it
names. A built-in rule that is switched off fails every run, since loading takes it
for a missing one and its insert meets the unique code (`hidden`). A keyword said in
two spellings loses the first one only (`respelt`). A planner turn that calls tools
after `last_output` was set is judged by that older text, so what it says itself is
neither checked nor masked (`unread`). Three more are part of the definitions: the
arguments of tool calls stay in the assistant message, where only the content is
looked at and masked, and go to the model again with it (`MaskedIsGone` speaks of
contents); what only the `extra_patterns` of a rule match is a hit that masks nothing, and keywords
masked at the input of a node stay in the messages (`_overlap_mask` gives them to
`redact_text`, which knows no keywords).

`MCWorkers` extends all nine; they share no state in the model, so a behaviour
moves the one its initial state names (`part`): TLC explores the sum of their state
spaces in one run, not the product.

## 4. Accounts and rights: `AuthSessions`, `AccessRules` (`MCAuth`)

`AuthSessions`: `account` is `sys_user`, `pairs` the token pairs ever issued (a
refresh row and an access JWT each), `black` and `before` the two Redis marks, `now`
the clock in seconds, `at` the requests in flight. A request is split where it reads
one thing and commits another: `Register`, `InsertOrg`, `CountUsers`, `IssuePair`;
`Login`, `IssuePair`; `Refresh`, `IssuePair`; `Logout`, `Blacklist`, `CommitLogout`;
`Shut`, `CommitShut`; `Reuse` ends by itself since the error rolls it back; and
`Rollback` loses any of them, Redis writes excepted. `InsertOrg` is the insert that
waits for an uncommitted one of the same unique code: this is what lets only one of
two first registrations see an empty user table.

`AccessRules`: bindings and grants with the pure decisions written as in the code
(`Check`, `AccessibleApps`, `CanUseApp`, `CanControlApp`, `VisibleResourceIds`,
`CanSeeAgentResource`, ...) over tables that requests and operators change
(`PutBindings` and `CommitBindings`, `ChangeGrants`, `ChangeRoles`) and a cache that
is filled in two steps (`ReadGrants`, then `SetRoleGrants`, or `FailToCache` when the
request ends in between) and expires (`TickAccess`). Time passes between the two
steps, too, and nothing bounds how much: a withdrawn right counts as carried
(`Carried`) while a request that read it has still to cache it, and
`StaleGrantsExpire` gives it one lifetime from when no such request is left.
A PUT deletes the rows its own statement sees and adds those of its body; the unique
index refuses a second row about a subject, be the other one committed meanwhile or
named by the same body (`Clash`).

## 5. Flows and resources: `FlowCatalog`, `AgentCatalog` (`MCCatalog`)

Both modules treat a request as `Enter`/`Begin` (all its reads and checks) and a
commit (all its writes); other requests commit in between. `fresh` says whether
anybody has; a commit on a reading that is not fresh puts the rows it wrote into
`mixed` or `blurred`. The ORM writes the columns a request changed whatever became
of the row, so the commits do that too.

`FlowCatalog`: flow versions with their subgraph references, beat tasks (foreign
key), conversations and run snapshots (plain columns). Operations: create, patch,
new draft, publish with `_assert_subgraph_refs_and_no_cycle` and the archiving of
siblings, delete with its in-use check, `create_beat`, both ways to a workflow
conversation, the start of a run in its own transaction, deletions, and the nightly
purge with what the foreign key does to it.

`AgentCatalog`: models, MCP servers, tools, skills, profiles with their references
(foreign keys, or identifiers in JSON columns), the `sys_asset` entries and bindings
kept in step by the handlers, the API key that a blank field keeps, beat tasks and
planner conversations on a profile. There is one action per endpoint and one commit
per kind of write.

## 6. The stream: `EventBus`, `SseStream` (`MCStream`)

`EventBus` models `AmqpStreamEventBus` in several API processes for one conversation:
`link` and `builder` are the progress of `_ensure` under its lock (`Build`,
`BuildFails`, and `BuildTimesOut` of an impatient publisher), `holders` is `_subs`,
`calls` the bind and unbind calls the channel serves in order (`Answer`), `wire` what
the broker has for a process, `inbox` a reader's bounded queue. `Subscribe`, `Wake`,
`Unsubscribe` and `Cancel` are split at every await; `Consume` drops what the process
published itself.

`SseStream` adds the runs that publish, and per reader the machine of
`api/sse/machine.py` (`Applied`) that `conversation_sse_iter` feeds (`Take`). A run is
executed in turns, one for each envelope, and `turns[x]` says which process executes
each and how far it is:

| Code | Actions |
| --- | --- |
| `start_run`: the frame in the process of the request, then the exchange, then the envelope | `SubmitRun`, `EnsureForPublish`, `SendSubmitted` |
| `execute_envelope`: claim, progress of the nodes | `Begin`, `Delta` |
| commit of a question, then `run_interrupted`, then the trace | `Ask`, `Interrupted`, `Leave` |
| `spawn_subgraph_child` | `SpawnChild` (the parent's turn leaves without a frame) |
| commit of an outcome (also after a question, when the flush fails), then the last frame | `Settle`, `Finish` |
| a killed worker or eager task; the ends no frame tells of | `Lost`, `EndSilently` |

`Begin` is open to whoever may take the envelope: any worker, or in the eager mode the
API process that sends it, which for an answer is any of them (`SentIn`, `Envelope`).
It needs no more than the question's commit, so that a quick or a second answer may
begin a turn while another has yet to publish, and a redelivered envelope one in a
run that has ended. Such a run is `overtaken`, and so is one whose next turn begins in
an API process that still has frames of it coming from the broker: the new frames are
put into the local queues before them. In every other case the frames of a run are in
order although several processes publish them, and `OnceInOrder` says so; of an
overtaken run it speaks turn by turn.

A reader may come to a process for which the broker still has frames: while a run
goes on it is `midway` (it has the run's end before it), after the last run it is
`late` - the end may be a frame that the full queue of its predecessor drops, or none
at all, and it then shows a run that is over. `Lost` is a
worker that is killed, whose envelope another worker may take, or an API process that
loses a run of the eager mode, with which nobody goes on unless it has asked already;
its readers are gone as by `Unsubscribe`.

`MCStream` starts a behaviour in one of seven scenes: three readers around a
connection under construction (`Crowd`), a run with a cold connection (`Cold`), a run
of two turns seen from the process that submits it (`Near`) and from the other
(`Far`), two runs one after the other or overlapping (`Again`), a run with a child
(`Family`), a process where a second reader comes or takes over (`Share`).

## 7. How the models are written

One module per component, one action per handler or transaction. Where a plausible
bug has a name (`NeverTaken`, `OnlyBeats`, `LateLimit`, ...) the module defines the
wrong operator beside the right one: nothing uses it, and replacing the right one
by it breaks the property that watches it. Every property was seen to fail that way.

## 8. Model checking

### 8.1 Runs

| Run | Instance | Distinct states | Properties |
| --- | --- | --- | --- |
| `healthy` | 3 nested runs, 2 workers, 2 clients, no faults, `FairSpec` | 92 665 | `NoLostWakeup`, `RunsSettle`, `KeepsContract` |
| `faults` | parent with a child, both asking a person, any one fault anywhere, both deployments | 1 140 629 | `TypeOK`, `RunningHasExecutor`, `InterruptedCanMove`, `SingleExecutor`, `RecordsClose`, `MessageShowsOutcome`, `RowResolvedOnce` |
| `auth` | 2 users, 2 requests, 3 token pairs, lifetimes of 2 s in 3 s; one role, one resource, 2 callers, a cache of 2 s | 604 545 | `AuthTypeOK`, `LoggedOutIsOut`, `ShutEndsSessions`, `OneLivePerFamily`, `OneFounder`, `DecisionsAgree`, `StaleGrantsExpire` |
| `catalog` | 2 codes of 2 versions, 2 requests at a time, 7 in all; one row of each agent resource, 2 requests at a time, 5 or 6 in all | 468 937 | `CatTypeOK`, `OnePublished`, `DeletedStaysDeleted`, `PublishedAcyclic`, `ReferencesSurvive`, `ReferencesResolve`, `EntriesMatchRows`, `KeyIsLastSupplied` |
| `stream` | 2 API processes, a worker, up to 3 readers, 2 runs and 2 turns, queues of 2, the seven scenes, `StreamFairness` | 507 899 | `BoundWhileRead`, `OnceInOrder`, `ShownAsIs`, `StreamsClose` |
| `workers` | nine parts, see 8.2 | 851 825 | `WorkersTypeOK`, `OncePerOccurrence`, `IndexMatchesStatus`, `CasesWithinBudget`, `ToolCallsAnswered`, `SplitAsWhole`, `ChunksCover`, `ObservedOnce`, `ExpressionsMean`, `RulesLoad`, `MaskedIsGone` |
| `cancel`, `reject`, `answers`, `mark`, `reuse`, `bind` | the smallest instances that show a disagreement with the documents | - | one property each, violated |

`faults`, `auth` and `catalog` count states up to symmetry: requests, handlers,
callers, workers and clients are interchangeable, and so are users and flow codes, of
which no definition picks one except to name a bound. `healthy` and `stream` check
liveness and use no symmetry.

### 8.2 Bounds, and why they are enough

* `WorkflowRuntime`: `MaxRoots`, `MaxTasks`, `MaxHitl`, `MaxFaults` appear only as
  guards of the action that creates the thing. One root run with children already
  contains every interaction between runs: runs of different trees share nothing
  but queue and workers. Two questions, three envelopes and three levels let an
  answer, a child's report and a redelivery of one run coexist. Two workers and two
  clients let two handlers of each kind meet; `mark` needs three workers.
* `AuthSessions`: three pairs are a login and two rotations, or two families that
  overlap; lifetimes of two seconds have a beginning, a middle and an end. One ending
  (`MaxEnds`) is enough: two of them are two runs of the same argument, and the proofs
  do not bound them.
* `FlowCatalog`: two versions of two codes are a circle, a new draft and an archived
  sibling; `VersionScope` explores the versions, `UseScope` one code with everything
  that refers to it. Seven requests are a create and publish of each side plus the
  two that overlap. `AgentCatalog`: `AllPlans` are overlapping slices along the chain
  of references (server, tool, skill; model, profile, task, conversation; skill,
  model, profile).
* `EventBus`: a third reader is needed for a leave between two arrivals; queues of
  two can overflow. `SseStream`: two turns are a question and its answer, or a lost
  worker and its successor, and every way one of them can overtake the other; one
  progress frame in each is enough to change places with.
* `MCWorkers`: a period of two ticks and nine instants show a lock that expires
  within a slow tick; two jobs; ten flow documents, each built for one hazard, among them a loop that assigns its own
  counters and one that begins with counters; two
  tool calls a turn and one turn beyond the limit; answers of seven symbols hold a
  whole element with text around it; every text of four characters and every
  fourteen-character text with two that are not letters, three sizes and overlaps
  (an overlap larger than the size included); two failures of a flush; six words;
  two executions that load while an operator edits the table once (one edit between
  any two of their steps is the whole interference), and three answers of a model,
  the least with which a turn can follow one that was masked.

`CHECK_DEADLOCK FALSE` is stated in every configuration: when all runs have
settled or wait for a person who does not come, when all requests of a behaviour
are served, when a text is cut, the system rests.

### 8.3 Fairness

`FairSpec` asks weak fairness of `WorkerStep(p)`, `ClientStep(p)` and `TellStep(p)`:
Celery workers consume while there are envelopes, and a handler that was called runs
to its end, since its next step is a database, broker or graph call that waits for
no other actor. Nothing obliges anybody to submit, answer or cancel, or any fault to
happen. `StreamFairness` asks weak fairness of the event loops (`Build`, `Wake`,
`Connected`, `Take`), of the broker (`Answer`, `Consume`), and of `Finish` of a turn
that has committed its outcome: what is left of it are a transaction, a message and a
publication with a time-out, unless the process is lost, which `Lost` may do at any
time. No run is obliged to end: it may wait for a person, for a child or for a worker
for ever, and `StreamsClose` promises something to its readers only once every run
that goes on has committed its end. Weak fairness suffices because each of these steps stays
enabled until it, or one that makes it needless, is taken.

### 8.4 Premises of the engine's properties

* `Duplicating`: a redelivered envelope, a second party reporting a child
  (its cancellation or time-out), a second answer to one question, a flush that fails
  the run after it was parked. Any of these can put a second envelope of one run into
  the world; `SingleExecutor`, `RecordsClose`, `MessageShowsOutcome` and
  `RowResolvedOnce` then do not hold, because nothing in the code would detect it.
* `EnvelopesSurvive`: Celery with `task_acks_late` keeps envelopes when a process
  dies; the eager deployment does not, and nothing finds such runs again.
* `timeLimit`, `brokerDown`, `apiCrash`: the hard time limit acknowledges the
  envelope, and an announced envelope may never be sent. No reconciliation exists.
  A kill after the outcome was committed leaves the message as it was, so
  `MessageShowsOutcome` names it, too.

A fault outside the premise of a property (the cancellation of a parent, an
expiry, a flush that fails after completion) is really survived.

### 8.5 Disagreements with the documents

| Run | What the code does | What is said |
| --- | --- | --- |
| `cancel` | `execute_envelope` sets a run running whatever its status, so a parent cancelled after its child reported is resumed and completes | a cancelled parent is "不再 resume" (`docs/design/service_layer.md:248`) |
| `reject` | a rejection that ends a child run reports to nobody; the parent waits for ever unless a time-out is set | the parent is resumed after any terminal status of the child (compile-v1 plan, line 97) |
| `answers` | two answers read before either commits are both accepted and the second overwrites the first | an answered row is refused with `hitl_not_resumable` (`docs/design/api_reference_server.md:86`) |
| `mark` | the worker writes `waiting_child` over whatever non-terminal status it finds, also when the fast child already let the parent go on to a question | a run with a HITL row is `interrupted` (`docs/design/service_layer.md:247`) |
| `reuse` | the revocation of a family whose refresh token was used twice is flushed, then the error that reports it rolls the request's transaction back: the family stays live | "已吊销的 refresh 再使用会吊销整族" (`docs/design/service_layer.md:408`) |
| `bind` | of two readers that arrive while the connection is built each finds two holders, and neither binds | subscribing binds (`docs/plan/2026-08-19-流式事件RabbitMQ总线-服务层-修改.md:109`) |

## 9. Proofs

Every theorem holds for any number of processes, rows and values: the bounds of
section 8 are parameters. An invariant is shown to hold initially, to be preserved by
every action (one lemma per action or group of actions) and to imply the property; the
temporal step is the last one.

| Module | Theorem | Inductive invariant and argument |
| --- | --- | --- |
| `WorkflowRuntime_proofs` | `TypeCorrect`: `Spec => []TypeOK` | `TypeOK` is not inductive: the resume of a parent needs `parent[c]` to be a run, an update of a record needs its number in range, a client in `"tell"` needs an outcome in `Told`. `TypeInv` adds `RowsOK` (a child row that is not `"none"` has a parent) and `FramesOK` (what a frame holds at each program counter) |
| `WorkflowRuntime_proofs` | `RunningRunsHaveExecutors`: `[]RunningHasExecutor` | `ExecutorInv`: a running run has an envelope or a worker *engaged* on it, at a program counter from which every way out writes another status |
| `WorkflowRuntime_proofs` | `InterruptedRunsCanMove`: `[]InterruptedCanMove` | `MoverInv` relates an interrupted run to a pending row, a handler between decision and envelope, or a queued envelope; expiry takes the row and the status together, a decision moves the obligation to the handler |
| `Thread_proofs` | `OneExecutor`: `[]SingleExecutor` | `ThreadInv`: a run moves on through what holds its thread - an envelope, a worker that drives it, a handler about to send, a question (also one a handler has read), or the child it waits for - and there is one holder at most (`Unique`). Each step removes a holder, or passes the thread from one to the next (`Passes`). The child's hold is the delicate one: it begins when its envelope is out, not when it is created, and ends when its row is resolved *and* the parent's envelope is out; `Waking`, `Spawning` and `Untouched` say what a worker in between and a run not yet created look like |
| `Thread_proofs` | `RowsResolveOnce`: `RowResolvedOnce` | `WriterInv`: unless somebody cancels, the row of a child about to be reported is still pending, as its only reporter is the worker that holds the child's thread |
| `Thread_proofs` | `MessagesShowOutcomes`: `[]MessageShowsOutcome` | `MessageInv`: a run with a message has settled only if the message agrees or a worker announces the outcome (`Announces`): it is in the except branch, or on its way to the flush with the outcome the run has. A kill at the time limit is the one way to lose such a worker. Who gives up while waking a parent has a child in hand, and children have no message (`ChildrenAreSilent`) |
| `Thread_proofs` | `NoRecordStaysOpen`: `[]RecordsClose` | `RecordInv`: an open record is the one a worker will close, or the newest one of a run whose envelope is queued or about to be. A newer record is made only by the holder of the thread, when no such envelope is there |
| `Contract_proofs` | `RuntimeKeepsContract`: `Contract!Init` and `[][seen' = {} => Contract!Next]_(Contract!vars)`; `HealthyRuntimeKeepsContract`: without faults every step is one of `RunContract` or a stutter, the safety part of `KeepsContract` | `HealthInv`: before the first fault a parent whose child is dispatched and not reported is vacant (`Waits`: no envelope, process or question has it), it waits for one child (`OnlyKid`), a cancelled run is vacant and waits for none (`Cut`), a handler between reading and writing an answer has read a question that is still open (`Agreed`). With the threads above, who holds a run determines its phase (`SeenOf`, `SeenOfParent`); each handler is reduced to one of ten effects (`Plain`, `Claims`, `Asks`, `Begins`, `Resolves`, ...) and each effect shown to be a step of the contract or none |
| `Contract_proofs` | `WakeUpsAreNotLost`: `[]NoLostWakeup` as long as no run waits for a child that a person rejected; `ForgivingFlowsLoseNoWakeUp`: without that premise for the `Scripts` in which no flow that runs as a child ends on a rejection | `TallyInv`: each run's phase, as the contract sees it, fits its newest task record, its questions and where the graph stands (`RunTally`), and what a worker holds fits the run it drives (`FrameTally`). A parent whose child is over without having reported has a worker about to report, or the child was rejected. `RoutesInv`: a run with a child row is below the first level, and requests there route, so that a rejection does not end the run |
| `Auth_proofs` | `LogoutIsFinal`, `ShutIsFinal`, `RotationLeavesOne`, `OneAdministrator` | A logged-out pair is blacklisted up to the end of its life; a shut account's mark is not before any pair it had, and their refresh rows are revoked; a live pair is the youngest of its family unless forked; a request that saw no users holds the organisation's unique code, or somebody does |
| `Auth_proofs` | `WithdrawnRightsEnd`: `[]StaleGrantsExpire`; `DecisionsAlwaysAgree`: `[]DecisionsAgree` | `CacheInv`: the age of what the cache holds plus its remaining life is one lifetime at most, and what a request is about to put there has the age 0, since it is in the request's hands. That the decisions agree follows from the functions alone, once the grants have their types |
| `Auth_proofs` | `TablesStayTyped`: `[]AuthTypeOK` | `HistoryInv`: the histories of the session properties name issued pairs and no mark is in the future; `BindingsInv`: a resource has one row per subject, and what a PUT has seen is of its resource, although it deletes only that (`OneRowEach`). The proof attempt corrected the model, which let a body name one subject twice |
| `Catalog_proofs` | `PublishedOnce`, `DeletionHolds`, `ReferencesHold` | `FlowsInv`: the three properties, types, and `Reads`: what a fresh request has read is still so. A commit on a fresh reading keeps the properties by its own checks; any other one pays with `mixed` |
| `Catalog_proofs` | `PublishedStayAcyclic`: `[]PublishedAcyclic` | `CircleInv`: in every set of codes without an overtaken version some code refers to none of the set (`NoCleanCircle`), and for a publication with a fresh reading the references it is about to add do not lead back (`Finds`). The walk of the code stops after as many rounds as there are codes: that it has then come to everything (`WalkIsClosed`) follows from cardinalities, by the least round that adds nothing; that it comes to nothing else (`WalkStays`), by the least counterexample |
| `Catalog_proofs` | `ConfigReferencesHold`, `EntriesFollow`, `KeyIsKept` | `AgentInv`: the three properties and `Fits`: what a request with no commit since its reading has read is still so (`StillSo`), so that its commit is as good as a serial one; a request that was overtaken blurs the rows it names |
| `Catalog_proofs` | `CatalogsStayTyped`: `[]CatTypeOK` | `FormInv`: every row refers to rows of the kinds it may refer to and a tool of a server names one; so does whatever a request is about to store (`Stores`, `WorkFormed`), overtaken or not, because a PATCH checks the kind and the server of a tool as they will be and takes no server away |
| `SseStream_proofs` | `ReadersKeepTheBinding`: `[]BoundWhileRead` | `BindInv`: outside `early`, a process with readers is either being connected by its only reader, or connected with a queue of calls that *ends* in a bind (or none and a binding). For this, calls of one reader are in order, a bind is the reader's only one, and a cancelled call is never that last bind |
| `SseStream_proofs` | `FramesComeOnceInOrder`: `[]OnceInOrder` | `FrameInv`: every frame that is queued anywhere was published (`Sent`: its number is below the run's counter), and the frames of one run, or of one turn of an overtaken run, are in order through a reader's queue followed by its process's broker queue. A process puts its own frames straight into its readers' queues, so the broker's copy of them must be one it drops (`Foreign`), and nothing they have to precede may still be on the way. That is `TurnInv`: a frame was made by the process of its turn; unless the run was overtaken only its last turn publishes, and no foreign frame of the run is on the way to the process of that turn |
| `SseStream_proofs` | `ReadersSeeTheRun`: `[]ShownAsIs` | `ViewInv`, over `BindInv`, `FrameInv` and `TurnInv`: for a reader no exception names, the runs go on one at a time (`OneByOne`), and what it shows is explained by what is still on its way: a run over that it shows as going on has its last frame coming (`SeesEnd`), a run going on that it does not show came midway or has a frame coming (`SeesRun`) |
| `Graph_proofs` | `HistoryIsComplete`: `[]ToolCallsAnswered` | `PlannerInv`: the history is closed between turns; while tools run, results and pending calls together are the calls of the last message |
| `Graph_proofs` | `BranchesStop`: `[]CasesWithinBudget` | `VisitsCover`: the counters in the state are numbers that cover the cases taken since the last start, as long as the document has set none back (`lowered`): a write that only raises them spends the budget sooner; a superstep that takes a case adds one to both, and two branches in one superstep conflict before either counts |
| `Graph_proofs` | `RulesAreThere`: `[]RulesLoad` | `LoadInv`: what each stage of loading knows of the table (`Knows`): rows are never removed, so that what was there stays; what was absent stays absent unless the execution is in `overtaken` |
| `Graph_proofs` | `MasksHold`: `[]MaskedIsGone` | `MaskInv` adds the shape of the history and that nothing is said before the rules are ready. The text of all messages together (`Upto`, a recursion over the history) contains each of them: by the least counterexample (`Least`, from the well-foundedness of the naturals), as induction itself is out of reach |
| `Graph_proofs` | `ConditionsMean`: `[]ExpressionsMean` | `ExprInv`: every phrase that was built is read as it means wherever it stands in a text (`ReadsStay`), whatever is behind it, at the level of its outermost operator; the reading depends only on whether an operator is behind it that this level takes up, and a chain of `and` or `or` that goes on behind a phrase is the chain that began in it. That the reading of every place exists and unfolds into the readings of places behind it or of tighter levels is the least counterexample on the weight of places. The proof attempt corrected the model: an assignment stored what the phrase means and not what the code has read, so that nothing a misread phrase assigns could be seen later; a vocabulary with quoted brackets now shows that case on the run |
| `Workers_proofs` | `StartedOnce`: `[]OncePerOccurrence` | `OnceClaimed`: an occurrence started, or on its way to be, is so once, and its lock lasts until the occurrence has left every window. The proof uses the lock alone: `last_triggered_at` is not needed for it |
| `Workers_proofs` | `IndexIsWhole`: `[]IndexMatchesStatus` | `IngestInv`: one job at work holds the lock, no released job beside it unless somebody began early, and what an open transaction is about to commit replaces exactly the index there is |
| `Workers_proofs` | `ObservationsWrittenOnce`: `[]ObservedOnce` | `TraceInv`: a recorded observation is in a buffer and nowhere else, or it has its one row under a span that is there, or a rolled back transaction lost it (`Kept`); what a flush has read of the trace table stays true until it writes, as trace rows are only added (`Traced`), and a trace id has one row |
| `Workers_proofs` | `ChunksAlwaysCover`: `[]ChunksCover` | `ChunkInv`: the sections are cut in the order of the text, the first of them from its beginning up to `start`; whatever is not blank lies in a section (`SectionsCover`), before `start` in a chunk, and behind it no chunk has begun. A cut is ahead of where the chunk begins and within the size (`CutIsAhead`), and the next chunk begins no later than the cut (`NextStartIsAhead`). The recorded place of a chunk is that of its content, or the section was kept whole (`KeptWhole`). The proof attempt corrected the model: a blank prefix before the first heading is no section, so that cutting begins at the first section and not at 0 |
| `Workers_proofs` | `PiecesSplitAsWhole`: `[]SplitAsWhole` | `ThinkInv`: before the opening tag is recognised the buffer is all there is; inside the thought no closing tag begins in what has gone out, whatever follows (`NoneIn`), and the buffer holds the longest end that may become one; once the thought is over (`Decided`) whatever arrives is speech. That the first closing tag of the buffer is the first of the whole answer is the arithmetic of positions in a concatenation (`FirstEndStays`, `FirstEndBehind`) |
| `Workers_proofs` | `WorkersStayTyped`: `[]WorkersTypeOK` | Each part has its types by its invariant above and what that leaves out: documents, jobs and locks (`JobsTyped`), steps and deliveries, where a turn past the last step is the closing one (`StepsTyped`), what the guard keeps (`CheckTyped`); and a running graph has a document the validator accepted, so that every node it comes to is one of its own. That last proof attempt corrected the model: its `Valid` let an edge begin at the end marker and a case lead to the absent default, which `_graph_invariants` refuses |
| `Workers_proofs` | `PartsKeepTheirSpecs`, `WorkersKeepEveryPart`: the ten properties of the run hold of `WorkersSpec` | The parts share no variable: a step of one is a stutter of every other, so that a behaviour of the composition is one of each part's specification |

Assumptions: those named in the modules, which TLC evaluates on each run. They say
that reserved values (`NoRun`, `NoJob`, `"nobody"`) are not members of the sets beside
them, that workers are not clients, that kinds of rows are disjoint, that bounds and
lifetimes are numbers, that the rules and documents of a model have the types of the
code's records, that the body of a PUT names subjects that exist (`assert_subject_exists`), and that no cron is denser than a tick (`cron_interval_seconds`), that the vocabularies of conditions hold words the grammar can write.

Every invariant and every action property that a run checks, and that holds, is the
statement of a theorem (`NoLostWakeup` under the premise above). Only model-checked, because they need fairness: `RunsSettle`,
`StreamsClose` and the progress that `KeepsContract` adds to the steps proved above.
Liveness under fairness and `ENABLED` are out of this prover's reach,
and so is induction over data, but where a least counterexample does as well.

## 10. Not modelled

* Temporal orchestrator (`service/orchestration/temporal*`): off by default, an outer
  wrapper around the same engine; its own guarantees are Temporal's.
* Retrieval, reranking, parsers, embeddings: numeric and text work over external
  services and libraries, per call.
* Tools, skills, MCP clients, LLM transport: stateless calls; the planner and the
  graph use them by their outcomes, which are modelled. A call that a model sends with
  an empty id is answered under another one (`planner.py:221`): the ids of
  `PlannerLoop` are never empty, and `ToolCallsAnswered` says nothing of such a call.
* Guardrail: which strings a regular expression matches, the remote policy detector,
  and the settings that switch the guardrail or its built-in rules off (nothing is
  then left to say).
* LDAP synchronisation: a one-way mirror that no decision here reads.
* Redis hot state: a cache of run statuses that no handler reads.
* The legacy v0 template graph (`flow.py`), which the v1 compiler replaced.
* Listing, rendering and pagination endpoints; settings, storage, database and cache
  plumbing, migrations; the frontend.

---------------------------- MODULE FlowCatalog ----------------------------
(***************************************************************************)
(* Workflow versions and what refers to them: subgraph nodes of other      *)
(* flows (by code), beat tasks (foreign key), conversations and runs       *)
(* (plain columns).  A request reads, decides and commits; between its     *)
(* reads and its commit other requests commit, and nothing is locked.  The *)
(* ORM writes the columns a request changed, whatever became of the row.   *)
(***************************************************************************)
EXTENDS Naturals, FiniteSets

CONSTANTS Code,        \* flow codes
          Beat,        \* beat tasks
          Conv,        \* workflow conversations
          Request,     \* request handlers and the purge job, running at once
          MaxVersion,  \* bound: versions of a code
          Scopes       \* bound: the operations, codes and number of requests
                       \* of a behaviour, [ops, codes, requests]

(* Tasks, conversations and versions are told apart; codes are strings of  *)
(* 64 characters at most.                                                  *)
ASSUME CatalogAssumption ==
  /\ IsFiniteSet(Code)
  /\ MaxVersion \in Nat \ {0} /\ \A s \in Scopes : s.codes \subseteq Code
  /\ Beat \cap Conv = {} /\ (Beat \cup Conv) \cap (Code \X (1 .. MaxVersion)) = {}

VARIABLES flow,     \* [Key -> FlowRow or NoRow], table agent_flow
          beat,     \* [Beat -> Key of its flow, or NoKey: no such task]
          conv,     \* [Conv -> [status, flow]], tables conv_*
          runs,     \* flow_id of the run snapshots
          at,       \* [Request -> what it read and is about to commit]
          scope,    \* the operations and codes of this behaviour
          served    \* requests so far

VARIABLES mixed,    \* history: keys a request changed after it read another state
          gone,     \* history: versions whose deletion was acknowledged
          relied    \* history: references made to a live version

catalogVars == <<flow, beat, conv, runs, at, scope, served, mixed, gone, relied>>

Key == Code \X (1 .. MaxVersion)
NoKey == <<>>
FlowStatus == {"draft", "published", "archived", "deleted"}
NoRow == [status |-> "absent"]

(* refs: the flow codes of the definition's subgraph nodes.  old: deleted  *)
(* for longer than soft_delete_retention_days.                             *)
FlowRow == [status : FlowStatus, refs : SUBSET Code, old : BOOLEAN]
Draft(refs) == [status |-> "draft", refs |-> refs, old |-> FALSE]

ConvRow == [status : {"absent", "active", "deleted", "old"}, flow : Key \cup {NoKey}]

Idle == [op |-> "idle", key |-> NoKey, fresh |-> TRUE]
Frame ==
       {Idle}
  \cup [op : {"create", "patch", "newDraft"}, key : Key, fresh : BOOLEAN, refs : SUBSET Code]
  \cup [op : {"publish"}, key : Key, fresh : BOOLEAN, siblings : SUBSET Key]
  \cup [op : {"delete"}, key : Key, fresh : BOOLEAN]
  \cup [op : {"beat"}, key : Key, fresh : BOOLEAN, beat : Beat]
  \cup [op : {"talk"}, key : Key \cup {NoKey}, fresh : BOOLEAN, conv : Conv]
  \cup [op : {"send", "start"}, key : Key, fresh : BOOLEAN, conv : Conv]
  \cup [op : {"purge"}, key : {NoKey}, fresh : BOOLEAN, convs : SUBSET Conv,
        flows : SUBSET Key]

CatalogInit ==
  /\ flow = [k \in Key |-> NoRow]
  /\ beat = [b \in Beat |-> NoKey]
  /\ conv = [c \in Conv |-> [status |-> "absent", flow |-> NoKey]]
  /\ runs = {}
  /\ at = [q \in Request |-> Idle]
  /\ scope \in Scopes /\ served = 0
  /\ mixed = {} /\ gone = {} /\ relied = {}

Stored(k) == flow[k] # NoRow
Live(k) == Stored(k) /\ flow[k].status # "deleted"
CodeOf(k) == k[1]
Next1(k) == <<k[1], k[2] + 1>>
Versions(c) == {k \in Key : CodeOf(k) = c /\ Stored(k)}
tables == <<flow, beat, conv, runs>>
history == <<mixed, gone, relied>>

(* A request has read what f says; others have not committed since: fresh. *)
Enter(q, f) ==
  /\ at[q] = Idle
  /\ f.op \in scope.ops
  /\ served < scope.requests
  /\ served' = served + 1
  /\ at' = [at EXCEPT ![q] = f]
  /\ UNCHANGED <<tables, scope, history>>

(* The end of a request's transaction.  What every other request in flight *)
(* has read is from then on the past.  keys: the rows it wrote.            *)
Leave(q, keys) ==
  /\ at' = [r \in Request |-> IF r = q THEN Idle
                              ELSE IF at[r] = Idle THEN Idle
                              ELSE [at[r] EXCEPT !.fresh = FALSE]]
  /\ mixed' = IF at[q].fresh THEN mixed ELSE mixed \cup keys
  /\ UNCHANGED <<scope, served>>

-----------------------------------------------------------------------------
(* Studio: the versions of a flow.                                         *)

(* create_flow: allocate_code draws a code nobody uses.                    *)
CreateFlow(q, c, refs) ==
  /\ Versions(c) = {}
  /\ Enter(q, [op |-> "create", key |-> <<c, 1>>, fresh |-> TRUE, refs |-> refs])

(* patch_flow and new_draft, after their status checks.                    *)
PatchFlow(q, k, refs) ==
  /\ Stored(k) /\ flow[k].status = "draft"
  /\ Enter(q, [op |-> "patch", key |-> k, fresh |-> TRUE, refs |-> refs])

NewDraft(q, k) ==
  /\ Stored(k) /\ flow[k].status = "published"
  /\ Next1(k) \in Key
  /\ Enter(q, [op |-> "newDraft", key |-> Next1(k), fresh |-> TRUE, refs |-> flow[k].refs])

(* add_flow: the unique index on code and version refuses a second row,    *)
(* also one that was softly deleted.                                       *)
CommitInsert(q) ==
  LET f == at[q] IN
  /\ f.op \in {"create", "newDraft"}
  /\ IF Stored(f.key)
     THEN UNCHANGED <<flow, gone>>
     ELSE flow' = [flow EXCEPT ![f.key] = Draft(f.refs)] /\ gone' = gone \ {f.key}
  /\ Leave(q, {})
  /\ UNCHANGED <<beat, conv, runs, relied>>

CommitPatch(q) ==
  LET f == at[q] IN
  /\ f.op = "patch"
  /\ flow' = IF Stored(f.key) THEN [flow EXCEPT ![f.key].refs = f.refs] ELSE flow
  /\ Leave(q, {f.key})
  /\ UNCHANGED <<beat, conv, runs, gone, relied>>

(* get_latest_published_flow, for one code.                                *)
Published(c) == {k \in Versions(c) : flow[k].status = "published"}
Newest(keys) == CHOOSE k \in keys : \A j \in keys : j[2] <= k[2]
Latest(c) == Newest(Published(c))
RefsOf(c) == IF Published(c) = {} THEN {} ELSE flow[Latest(c)].refs

(* The codes a walk that starts from refs comes to, where g[c] are those   *)
(* that c refers to: the published definitions say so.                     *)
Walk(g, refs) ==
  LET step[n \in 0 .. Cardinality(Code)] ==
        IF n = 0 THEN refs ELSE step[n - 1] \cup UNION {g[c] : c \in step[n - 1]}
  IN step[Cardinality(Code)]
References == [c \in Code |-> RefsOf(c)]
Reach(refs) == Walk(References, refs)

(* _assert_subgraph_refs_and_no_cycle: every code the walk comes to is     *)
(* published, and none is on the path to itself.  DirectRefs is a walk     *)
(* that looks at the flow's own subgraph nodes only.                       *)
DirectRefs(code, refs) == code \notin refs /\ \A c \in refs : Published(c) # {}
WalkRefs(code, refs) ==
  /\ code \notin Reach(refs)
  /\ \A c \in Reach(refs) : Published(c) # {} /\ c \notin Reach(RefsOf(c))
RefsAndNoCycle(code, refs) == WalkRefs(code, refs)

(* archive_published_siblings; OtherVersions forgets the condition on the  *)
(* status, KeepSiblings archives none.                                     *)
OtherVersions(k) == Versions(CodeOf(k)) \ {k}
KeepSiblings(k) == {}
PublishedSiblings(k) == Published(CodeOf(k)) \ {k}

PublishFlow(q, k) ==
  /\ Stored(k) /\ flow[k].status = "draft"
  /\ RefsAndNoCycle(CodeOf(k), flow[k].refs)
  /\ Enter(q, [op |-> "publish", key |-> k, fresh |-> TRUE, siblings |-> PublishedSiblings(k)])

CommitPublish(q) ==
  LET f == at[q] IN
  /\ f.op = "publish"
  /\ flow' = [k \in Key |->
       IF ~Stored(k) THEN NoRow
       ELSE IF k = f.key THEN [flow[k] EXCEPT !.status = "published", !.old = FALSE]
       ELSE IF k \in f.siblings THEN [flow[k] EXCEPT !.status = "archived", !.old = FALSE]
       ELSE flow[k]]
  /\ Leave(q, {f.key} \cup f.siblings)
  /\ UNCHANGED <<beat, conv, runs, gone, relied>>

(* delete_flow: not while a beat task or an undeleted conversation refers  *)
(* to it.  OnlyBeats forgets the conversations.                            *)
BeatsOn(k) == {b \in Beat : beat[b] = k}
ActiveOn(k) == {c \in Conv : conv[c].status = "active" /\ conv[c].flow = k}
OnlyBeats(k) == BeatsOn(k) # {}
FlowInUse(k) == BeatsOn(k) # {} \/ ActiveOn(k) # {}

DeleteFlow(q, k) ==
  /\ Live(k)
  /\ ~FlowInUse(k)
  /\ Enter(q, [op |-> "delete", key |-> k, fresh |-> TRUE])

CommitDelete(q) ==
  LET f == at[q] IN
  /\ f.op = "delete"
  /\ flow' = IF Stored(f.key)
             THEN [flow EXCEPT ![f.key].status = "deleted", ![f.key].old = FALSE] ELSE flow
  /\ gone' = gone \cup {f.key}
  /\ Leave(q, {f.key})
  /\ UNCHANGED <<beat, conv, runs, relied>>

-----------------------------------------------------------------------------
(* Beat tasks and conversations on a flow.                                 *)

(* create_beat: _require_flow asks for a row, deleted or not.              *)
CreateBeat(q, b, k) ==
  /\ beat[b] = NoKey
  /\ Stored(k)
  /\ Enter(q, [op |-> "beat", key |-> k, fresh |-> TRUE, beat |-> b])

(* The foreign key refuses a row that was purged meanwhile.                *)
CommitBeat(q) ==
  LET f == at[q] IN
  /\ f.op = "beat"
  /\ beat' = IF Stored(f.key) /\ beat[f.beat] = NoKey
             THEN [beat EXCEPT ![f.beat] = f.key] ELSE beat
  /\ relied' = IF beat' # beat /\ Live(f.key) THEN relied \cup {f.beat} ELSE relied
  /\ Leave(q, {f.key})
  /\ UNCHANGED <<flow, conv, runs, gone>>

DeleteBeat(b) ==
  /\ "beat" \in scope.ops
  /\ beat[b] # NoKey
  /\ beat' = [beat EXCEPT ![b] = NoKey]
  /\ relied' = relied \ {b}
  /\ UNCHANGED <<flow, conv, runs, at, scope, served, mixed, gone>>

(* create_workflow_conversation, with any flow or none.                    *)
CreateConversation(q, c, k) ==
  /\ conv[c].status = "absent"
  /\ k \in {NoKey} \cup {j \in Key : Stored(j)}
  /\ Enter(q, [op |-> "talk", key |-> k, fresh |-> TRUE, conv |-> c])
CommitConversation(q) ==
  LET f == at[q] IN
  /\ f.op = "talk"
  /\ conv' = [conv EXCEPT ![f.conv] = [status |-> "active", flow |-> f.key]]
  /\ relied' = (relied \ {f.conv}) \cup {c \in {f.conv} : f.key # NoKey /\ Live(f.key)}
  /\ Leave(q, {f.key} \ {NoKey})
  /\ UNCHANGED <<flow, beat, runs, gone>>

(* _send_workflow_message: a new conversation, or an owned one that is not *)
(* deleted; its flow may be changed, and is never looked up.  Clients name  *)
(* a flow they were shown, deleted perhaps, or none.                       *)
SendMessage(q, c, k) ==
  /\ conv[c].status \in {"absent", "active"}
  /\ Stored(k) \/ (k = conv[c].flow /\ k # NoKey)
  /\ Enter(q, [op |-> "send", key |-> k, fresh |-> TRUE, conv |-> c])

(* Its two messages are committed first ...                                *)
CommitSend(q) ==
  LET f == at[q] IN
  /\ f.op = "send"
  /\ conv' = [conv EXCEPT ![f.conv].flow = f.key,
                          ![f.conv].status = IF @ = "absent" THEN "active" ELSE @]
  /\ relied' = (relied \ {f.conv}) \cup {c \in {f.conv} : Live(f.key)}
  /\ at' = [r \in Request |-> IF r = q THEN [f EXCEPT !.op = "start"]
                              ELSE IF at[r] = Idle THEN Idle
                              ELSE [at[r] EXCEPT !.fresh = FALSE]]
  /\ mixed' = IF f.fresh THEN mixed ELSE mixed \cup {f.key}
  /\ UNCHANGED <<flow, beat, runs, scope, served, gone>>

(* ... then the run is started, in a transaction of its own: a snapshot    *)
(* with the flow's id and a copy of the definition.                        *)
StartRun(q) ==
  LET f == at[q] IN
  /\ f.op = "start"
  /\ runs' = runs \cup {f.key}
  /\ relied' = relied \cup {k \in {f.key} : Live(k)}
  /\ Leave(q, {f.key})
  /\ UNCHANGED <<flow, beat, conv, gone>>

DeleteConv(c) ==
  /\ "send" \in scope.ops
  /\ conv[c].status = "active"
  /\ conv' = [conv EXCEPT ![c].status = "deleted"]
  /\ UNCHANGED <<flow, beat, runs, at, scope, served, history>>

-----------------------------------------------------------------------------
(* The nightly purge of what was softly deleted long ago.                  *)

Retired(k) == Stored(k) /\ flow[k].status = "deleted"

(* The retention is a day at least; no request lives that long.            *)
GrowOld ==
  /\ "purge" \in scope.ops
  /\ \A q \in Request : at[q] = Idle
  /\ flow' = [k \in Key |-> IF Retired(k) THEN [flow[k] EXCEPT !.old = TRUE] ELSE flow[k]]
  /\ conv' = [c \in Conv |-> IF conv[c].status = "deleted"
                             THEN [conv[c] EXCEPT !.status = "old"] ELSE conv[c]]
  /\ UNCHANGED <<beat, runs, at, scope, served, history>>

(* A flow is kept while anything refers to it; the conversations deleted   *)
(* by this run no longer do.                                               *)
OldConvs == {c \in Conv : conv[c].status = "old"}
ConvsOn(k) == {c \in Conv : conv[c].status \in {"active", "deleted"} /\ conv[c].flow = k}
Unreferenced(k) == BeatsOn(k) = {} /\ ConvsOn(k) = {} /\ k \notin runs

Purge(q) ==
  Enter(q, [op |-> "purge", key |-> NoKey, fresh |-> TRUE, convs |-> OldConvs,
            flows |-> {k \in Key : Retired(k) /\ flow[k].old /\ Unreferenced(k)}])

(* A beat task created meanwhile makes the delete of its flow fail, and    *)
(* the whole purge with it.                                                *)
CommitPurge(q) ==
  LET f == at[q] IN
  /\ f.op = "purge"
  /\ IF \E k \in f.flows : BeatsOn(k) # {}
     THEN UNCHANGED <<flow, conv, relied>>
     ELSE /\ flow' = [k \in Key |-> IF k \in f.flows THEN NoRow ELSE flow[k]]
          /\ conv' = [c \in Conv |-> IF c \in f.convs
                                     THEN [status |-> "absent", flow |-> NoKey] ELSE conv[c]]
          /\ relied' = relied \ f.convs
  /\ Leave(q, f.flows)
  /\ UNCHANGED <<beat, runs, gone>>

CatalogNext ==
  \/ GrowOld
  \/ \E q \in Request :
       \/ CommitInsert(q) \/ CommitPatch(q) \/ CommitPublish(q) \/ CommitDelete(q)
       \/ CommitBeat(q) \/ CommitConversation(q) \/ CommitSend(q) \/ StartRun(q) \/ Purge(q) \/ CommitPurge(q)
       \/ \E c \in scope.codes, refs \in SUBSET scope.codes : CreateFlow(q, c, refs)
       \/ \E k \in Key :
            \/ NewDraft(q, k) \/ PublishFlow(q, k) \/ DeleteFlow(q, k)
            \/ \E refs \in SUBSET scope.codes : PatchFlow(q, k, refs)
            \/ \E b \in Beat : CreateBeat(q, b, k)
            \/ \E c \in Conv : SendMessage(q, c, k)
       \/ \E c \in Conv, k \in Key \cup {NoKey} : CreateConversation(q, c, k)
  \/ \E b \in Beat : DeleteBeat(b)
  \/ \E c \in Conv : DeleteConv(c)

FlowsSpec == CatalogInit /\ [][CatalogNext]_catalogVars

-----------------------------------------------------------------------------
(* Type invariant; drafts exist once per code and version by the index.    *)
CatalogTypeOK ==
  /\ flow \in [Key -> FlowRow \cup {NoRow}]
  /\ \A k \in Key : Stored(k) /\ flow[k].old => flow[k].status = "deleted"
  /\ beat \in [Beat -> Key \cup {NoKey}]
  /\ conv \in [Conv -> ConvRow]
  /\ runs \subseteq Key
  /\ at \in [Request -> Frame]
  /\ mixed \subseteq Key /\ gone \subseteq Key
  /\ relied \subseteq Beat \cup Conv \cup Key

(* A code has one published version at most, so a run by code and a list   *)
(* of published codes mean the same flow; a second one can only come from  *)
(* a publication that still saw as a draft what was archived meanwhile.    *)
OnePublished ==
  \A j, k \in Key : CodeOf(j) = CodeOf(k) /\ {j, k} \subseteq Published(CodeOf(j))
    => j = k \/ {j, k} \cap mixed # {}

(* A version whose deletion was acknowledged stays deleted until it is     *)
(* purged.  Only a publication that had read it alive brings it back, as   *)
(* published or as an archived sibling.                                    *)
DeletedStaysDeleted == \A k \in gone : Live(k) => k \in mixed

(* The published flows never call each other in a circle, so a run's chain *)
(* of child runs is finite: unless a version on the circle was patched or  *)
(* published on a reading that another commit had overtaken.               *)
PublishedAcyclic ==
  \A c \in Code : c \in Reach(RefsOf(c)) =>
    \E d \in Reach(RefsOf(c)) : c \in Reach(RefsOf(d)) /\ \E k \in mixed : CodeOf(k) = d

(* What refers to a version that was alive when the reference was made     *)
(* still finds it: not deleted under a beat task or an undeleted           *)
(* conversation, not purged under a run; beat tasks find a row always.     *)
ReferencesSurvive ==
  /\ \A b \in Beat : beat[b] # NoKey =>
       Stored(beat[b]) /\ (b \in relied => Live(beat[b]) \/ beat[b] \in mixed)
  /\ \A c \in Conv : conv[c].status = "active" /\ c \in relied =>
       Live(conv[c].flow) \/ conv[c].flow \in mixed
  /\ \A k \in Key \cap relied : Stored(k) \/ k \in mixed
=============================================================================

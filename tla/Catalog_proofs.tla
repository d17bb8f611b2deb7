--------------------------- MODULE Catalog_proofs ---------------------------
(***************************************************************************)
(* Published versions and what refers to them, and the configuration of    *)
(* agents, for any number of overlapping requests, rows and codes.         *)
(* As long as a request commits what it read, the checks it made hold;     *)
(* what it overwrote otherwise is in mixed, or blurred.                    *)
(***************************************************************************)
EXTENDS MCCatalog, FiniteSetTheorems, WellFoundedInduction, TLAPS

(* What a request has found, and still finds if nobody committed since.    *)
Reads(f) ==
  f.fresh =>
    /\ f.op = "publish" => /\ flow[f.key].status = "draft"
                           /\ f.siblings = PublishedSiblings(f.key)
    /\ f.op = "delete" => ~FlowInUse(f.key)
    /\ f.op = "purge" => \A k \in f.flows : flow[k].status = "deleted" /\ k \notin runs

(* The properties by the status of the rows, and where references point.   *)
Alive(status) == status \in {"draft", "published", "archived"}
UniquePublished == \A j, k \in Key :
  CodeOf(j) = CodeOf(k) /\ flow[j].status = "published" /\ flow[k].status = "published"
    => j = k \/ {j, k} \cap mixed # {}
DeletedKept == \A k \in gone : Alive(flow[k].status) => k \in mixed
BeatsKept == \A b \in Beat :
  /\ b \in relied => beat[b] # NoKey
  /\ beat[b] # NoKey => flow[beat[b]].status # "absent"
  /\ b \in relied => Alive(flow[beat[b]].status) \/ beat[b] \in mixed
ConvsKept == \A c \in Conv \cap relied :
  /\ conv[c].flow \in Key
  /\ conv[c].status = "active" => Alive(flow[conv[c].flow].status) \/ conv[c].flow \in mixed
RunsKept == \A k \in Key \cap relied :
  k \in runs /\ (flow[k].status # "absent" \/ k \in mixed)

FlowsInv ==
  /\ CatalogTypeOK /\ scope \in Scopes
  /\ \A q \in Request : Reads(at[q])
  /\ UniquePublished /\ DeletedKept
  /\ BeatsKept /\ ConvsKept /\ RunsKept

-----------------------------------------------------------------------------
(* Rows and frames.                                                        *)

LEMMA Rows ==
  ASSUME CatalogTypeOK, NEW k \in Key
  PROVE  /\ Stored(k) => flow[k] \in FlowRow
         /\ Stored(k) <=> flow[k].status # "absent"
         /\ Live(k) <=> flow[k].status \in {"draft", "published", "archived"}
BY DEF CatalogTypeOK, Stored, Live, FlowRow, NoRow, FlowStatus

LEMMA InvImplies ==
  FlowsInv => OnePublished /\ DeletedStaysDeleted /\ ReferencesSurvive
<1> SUFFICES ASSUME FlowsInv PROVE OnePublished /\ DeletedStaysDeleted /\ ReferencesSurvive
  OBVIOUS
<1>1. \A k \in Key : /\ Stored(k) <=> flow[k].status # "absent"
                     /\ Live(k) <=> Alive(flow[k].status)
  BY Rows DEF FlowsInv, Alive
<1>2. OnePublished
  BY DEF FlowsInv, OnePublished, UniquePublished, Published, Versions
<1>3. DeletedStaysDeleted
  BY <1>1 DEF FlowsInv, DeletedStaysDeleted, DeletedKept, CatalogTypeOK
<1>4. ReferencesSurvive
  <2>1. \A b \in Beat : beat[b] # NoKey => beat[b] \in Key BY DEF FlowsInv, CatalogTypeOK
  <2>2. QED
    BY <1>1, <2>1 DEF FlowsInv, ReferencesSurvive, BeatsKept, ConvsKept, RunsKept
<1>5. QED BY <1>2, <1>3, <1>4

LEMMA StaleIsFrame ==
  ASSUME NEW f \in Frame, f # Idle
  PROVE  [f EXCEPT !.fresh = FALSE] \in Frame
<1>1. CASE f \in [op : {"create", "patch", "newDraft"}, key : Key, fresh : BOOLEAN, refs : SUBSET Code]
  BY <1>1 DEF Frame
<1>2. CASE f \in [op : {"publish"}, key : Key, fresh : BOOLEAN, siblings : SUBSET Key]
  BY <1>2 DEF Frame
<1>3. CASE f \in [op : {"delete"}, key : Key, fresh : BOOLEAN]
  BY <1>3 DEF Frame
<1>4. CASE f \in [op : {"beat"}, key : Key, fresh : BOOLEAN, beat : Beat]
  BY <1>4 DEF Frame
<1>5. CASE f \in [op : {"talk"}, key : Key \cup {NoKey}, fresh : BOOLEAN, conv : Conv]
  BY <1>5 DEF Frame
<1>6. CASE f \in [op : {"send", "start"}, key : Key, fresh : BOOLEAN, conv : Conv]
  BY <1>6 DEF Frame
<1>7. CASE f \in [op : {"purge"}, key : {NoKey}, fresh : BOOLEAN,
                  convs : SUBSET Conv, flows : SUBSET Key]
  BY <1>7 DEF Frame
<1>8. QED BY <1>1, <1>2, <1>3, <1>4, <1>5, <1>6, <1>7 DEF Frame

LEMMA IdleReads == Idle \in Frame /\ Reads(Idle) /\ Idle.op = "idle"
BY DEF Frame, Idle, Reads

LEMMA StaleReads ==
  ASSUME NEW f, f.fresh = FALSE PROVE Reads(f)
BY DEF Reads

(* The frames after the commit of a request.                               *)
LEMMA LeaveFrames ==
  ASSUME CatalogTypeOK, NEW q \in Request, NEW keys \in SUBSET Key, Leave(q, keys)
  PROVE  /\ at' \in [Request -> Frame]
         /\ \A r \in Request : Reads(at[r])'
         /\ mixed \subseteq mixed' /\ mixed' \subseteq Key
         /\ ~at[q].fresh => keys \subseteq mixed'
         /\ scope' = scope
<1>1. ASSUME NEW r \in Request, r # q, at[r] # Idle
      PROVE  /\ [at[r] EXCEPT !.fresh = FALSE] \in Frame
             /\ [at[r] EXCEPT !.fresh = FALSE].fresh = FALSE
  <2>1. at[r] \in Frame BY DEF CatalogTypeOK
  <2>2. [at[r] EXCEPT !.fresh = FALSE].fresh = FALSE BY <1>1, <2>1 DEF Frame, Idle
  <2>3. QED BY <1>1, <2>1, <2>2, StaleIsFrame
<1>2. \A r \in Request : /\ at'[r] \in Frame
                         /\ at'[r] = Idle \/ at'[r].fresh = FALSE
  BY <1>1, IdleReads DEF Leave
<1>3. at' \in [Request -> Frame] BY <1>2 DEF Leave
<1>4. ASSUME NEW r \in Request PROVE Reads(at[r])'
  <2>1. CASE at'[r] = Idle BY <2>1 DEF Reads, Idle
  <2>2. CASE at'[r].fresh = FALSE BY <2>2 DEF Reads
  <2>3. QED BY <1>2, <2>1, <2>2
<1>5. QED BY <1>3, <1>4 DEF Leave, CatalogTypeOK

(* A predicate of the tables that did not change holds as it did.          *)
LEMMA SameReads ==
  ASSUME UNCHANGED <<flow, beat, conv, runs>>, NEW f, Reads(f)
  PROVE  /\ f.fresh =>
              /\ f.op = "publish" => /\ flow'[f.key].status = "draft"
                                     /\ f.siblings = PublishedSiblings(f.key)'
              /\ f.op = "delete" => ~FlowInUse(f.key)'
              /\ f.op = "purge" => \A k \in f.flows :
                                     flow'[k].status = "deleted" /\ k \notin runs'
<1>1. ASSUME NEW k PROVE PublishedSiblings(k)' = PublishedSiblings(k)
  BY DEF PublishedSiblings, Published, Versions, Stored
<1>2. ASSUME NEW k PROVE FlowInUse(k)' = FlowInUse(k)
  BY DEF FlowInUse, BeatsOn, ActiveOn
<1>3. QED BY <1>1, <1>2 DEF Reads

(* Nothing but frames changed.                                             *)
LEMMA FramesOnly ==
  ASSUME FlowsInv, UNCHANGED <<tables, scope, history>>, at' \in [Request -> Frame],
         \A q \in Request : Reads(at[q])'
  PROVE  FlowsInv'
<1>1. UNCHANGED <<flow, beat, conv, runs, mixed, gone, relied, scope>> BY DEF tables, history
<1>2. CatalogTypeOK' BY <1>1 DEF FlowsInv, CatalogTypeOK, Stored
<1>3. UniquePublished' BY <1>1 DEF FlowsInv, UniquePublished
<1>4. DeletedKept' /\ BeatsKept' /\ ConvsKept' /\ RunsKept'
  BY <1>1 DEF FlowsInv, DeletedKept, BeatsKept, ConvsKept, RunsKept
<1>5. QED BY <1>1, <1>2, <1>3, <1>4 DEF FlowsInv

LEMMA Entering ==
  ASSUME FlowsInv, NEW q \in Request, NEW f \in Frame, Enter(q, f), Reads(f)
  PROVE  FlowsInv'
<1>1. UNCHANGED <<tables, scope, history>> /\ at' = [at EXCEPT ![q] = f] BY DEF Enter
<1>2. UNCHANGED <<flow, beat, conv, runs>> BY <1>1 DEF tables
<1>3. at' \in [Request -> Frame] BY <1>1 DEF FlowsInv, CatalogTypeOK
<1>4. ASSUME NEW r \in Request PROVE Reads(at[r])'
  <2>1. Reads(at'[r]) BY <1>1 DEF FlowsInv, CatalogTypeOK
  <2>2. QED BY <1>2, <2>1, SameReads DEF Reads
<1>5. QED BY <1>1, <1>3, <1>4, FramesOnly

LEMMA ReadersKeep ==
  ASSUME FlowsInv, NEW q \in Request,
         \/ \E c \in scope.codes, subs \in SUBSET scope.codes : CreateFlow(q, c, subs)
         \/ \E k \in Key :
              \/ NewDraft(q, k) \/ PublishFlow(q, k) \/ DeleteFlow(q, k)
              \/ \E subs \in SUBSET scope.codes : PatchFlow(q, k, subs)
              \/ \E b \in Beat : CreateBeat(q, b, k)
              \/ \E c \in Conv : SendMessage(q, c, k)
         \/ \E c \in Conv, k \in Key \cup {NoKey} : CreateConversation(q, c, k)
         \/ Purge(q)
  PROVE  FlowsInv'
<1>0. scope.codes \subseteq Code /\ MaxVersion \in Nat \ {0}
  BY CatalogAssumption DEF FlowsInv
<1>1. ASSUME NEW c \in scope.codes, NEW subs \in SUBSET scope.codes, CreateFlow(q, c, subs)
      PROVE FlowsInv'
  <2> DEFINE f == [op |-> "create", key |-> <<c, 1>>, fresh |-> TRUE, refs |-> subs]
  <2>1. f \in Frame BY <1>0 DEF Frame, Key
  <2>2. Reads(f) /\ Enter(q, f) BY <1>1 DEF Reads, CreateFlow
  <2>3. QED BY <2>1, <2>2, Entering
<1>2. ASSUME NEW k \in Key, NewDraft(q, k) PROVE FlowsInv'
  <2> DEFINE f == [op |-> "newDraft", key |-> Next1(k), fresh |-> TRUE, refs |-> flow[k].refs]
  <2>1. flow[k].refs \in SUBSET Code /\ Next1(k) \in Key
    BY <1>2, Rows DEF NewDraft, FlowsInv, FlowRow
  <2>2. f \in Frame BY <2>1 DEF Frame
  <2>3. Reads(f) /\ Enter(q, f) BY <1>2 DEF Reads, NewDraft
  <2>4. QED BY <2>2, <2>3, Entering
<1>3. ASSUME NEW k \in Key, PublishFlow(q, k) PROVE FlowsInv'
  <2> DEFINE f == [op |-> "publish", key |-> k, fresh |-> TRUE, siblings |-> PublishedSiblings(k)]
  <2>1. PublishedSiblings(k) \in SUBSET Key BY DEF PublishedSiblings, Published, Versions
  <2>2. f \in Frame BY <2>1 DEF Frame
  <2>3. Reads(f) /\ Enter(q, f) BY <1>3 DEF Reads, PublishFlow
  <2>4. QED BY <2>2, <2>3, Entering
<1>4. ASSUME NEW k \in Key, DeleteFlow(q, k) PROVE FlowsInv'
  <2> DEFINE f == [op |-> "delete", key |-> k, fresh |-> TRUE]
  <2>1. f \in Frame BY DEF Frame
  <2>2. Reads(f) /\ Enter(q, f) BY <1>4 DEF Reads, DeleteFlow
  <2>3. QED BY <2>1, <2>2, Entering
<1>5. ASSUME NEW k \in Key, NEW subs \in SUBSET scope.codes, PatchFlow(q, k, subs)
      PROVE FlowsInv'
  <2> DEFINE f == [op |-> "patch", key |-> k, fresh |-> TRUE, refs |-> subs]
  <2>1. f \in Frame BY <1>0 DEF Frame
  <2>2. Reads(f) /\ Enter(q, f) BY <1>5 DEF Reads, PatchFlow
  <2>3. QED BY <2>1, <2>2, Entering
<1>6. ASSUME NEW k \in Key, NEW b \in Beat, CreateBeat(q, b, k) PROVE FlowsInv'
  <2> DEFINE f == [op |-> "beat", key |-> k, fresh |-> TRUE, beat |-> b]
  <2>1. f \in Frame BY DEF Frame
  <2>2. Reads(f) /\ Enter(q, f) BY <1>6 DEF Reads, CreateBeat
  <2>3. QED BY <2>1, <2>2, Entering
<1>7. ASSUME NEW k \in Key, NEW c \in Conv, SendMessage(q, c, k) PROVE FlowsInv'
  <2> DEFINE f == [op |-> "send", key |-> k, fresh |-> TRUE, conv |-> c]
  <2>1. f \in Frame BY DEF Frame
  <2>2. Reads(f) /\ Enter(q, f) BY <1>7 DEF Reads, SendMessage
  <2>3. QED BY <2>1, <2>2, Entering
<1>8. ASSUME NEW c \in Conv, NEW k \in Key \cup {NoKey}, CreateConversation(q, c, k)
      PROVE FlowsInv'
  <2> DEFINE f == [op |-> "talk", key |-> k, fresh |-> TRUE, conv |-> c]
  <2>1. f \in Frame BY DEF Frame
  <2>2. Reads(f) /\ Enter(q, f) BY <1>8 DEF Reads, CreateConversation
  <2>3. QED BY <2>1, <2>2, Entering
<1>9. ASSUME Purge(q) PROVE FlowsInv'
  <2> DEFINE due == {k \in Key : Retired(k) /\ flow[k].old /\ Unreferenced(k)}
             f == [op |-> "purge", key |-> NoKey, fresh |-> TRUE, convs |-> OldConvs,
                   flows |-> due]
  <2>1. \A k \in due : flow[k].status = "deleted" /\ k \notin runs
    BY DEF Retired, Unreferenced
  <2>2. OldConvs \in SUBSET Conv /\ due \in SUBSET Key BY DEF OldConvs
  <2>3. Enter(q, f) BY <1>9 DEF Purge
  <2> HIDE DEF due
  <2>4. f \in Frame BY <2>2 DEF Frame
  <2>5. Reads(f) BY <2>1 DEF Reads
  <2>6. QED BY <2>3, <2>4, <2>5, Entering
<1>10. QED BY <1>1, <1>2, <1>3, <1>4, <1>5, <1>6, <1>7, <1>8, <1>9

-----------------------------------------------------------------------------
(* Commits that change rows of the flow table only.  A version may die     *)
(* where nothing refers to it, or in mixed.                                *)
Unused(k) == BeatsOn(k) = {} /\ ActiveOn(k) = {}

LEMMA RowsChange ==
  ASSUME FlowsInv, CatalogTypeOK', UniquePublished', DeletedKept',
         UNCHANGED <<beat, conv, runs, relied, scope>>, mixed \subseteq mixed',
         \A q \in Request : Reads(at[q])',
         \A k \in Key :
           /\ flow[k].status # "absent" => flow'[k].status # "absent"
           /\ Alive(flow[k].status) => \/ Alive(flow'[k].status)
                                       \/ k \in mixed' \/ Unused(k)
  PROVE  FlowsInv'
<1>1. \A b \in Beat : beat[b] # NoKey => beat[b] \in Key /\ ~Unused(beat[b])
  BY DEF FlowsInv, CatalogTypeOK, Unused, BeatsOn
<1>2. \A c \in Conv : conv[c].status = "active" => ~Unused(conv[c].flow)
  BY DEF Unused, ActiveOn
<1>3. BeatsKept' BY <1>1 DEF FlowsInv, BeatsKept
<1>4. ConvsKept' BY <1>2 DEF FlowsInv, ConvsKept
<1>5. RunsKept' BY DEF FlowsInv, RunsKept
<1>6. QED BY <1>3, <1>4, <1>5 DEF FlowsInv

LEMMA InsertKeeps ==
  ASSUME FlowsInv, NEW q \in Request, CommitInsert(q) PROVE FlowsInv'
<1>1. CatalogTypeOK /\ at[q] \in Frame BY DEF FlowsInv, CatalogTypeOK
<1>2. at[q].key \in Key /\ at[q].refs \subseteq Code BY <1>1 DEF CommitInsert, Frame, Idle
<1>3. /\ at' \in [Request -> Frame] /\ \A r \in Request : Reads(at[r])'
      /\ mixed \subseteq mixed' /\ mixed' \subseteq Key /\ scope' = scope
  BY <1>1, LeaveFrames DEF CommitInsert
<1>4. UNCHANGED <<beat, conv, runs, relied>> BY DEF CommitInsert
<1>5. /\ gone' \subseteq gone
      /\ \/ flow' = flow
         \/ /\ flow[at[q].key] = NoRow /\ at[q].key \notin gone'
            /\ flow' = [flow EXCEPT ![at[q].key] = Draft(at[q].refs)]
  BY DEF CommitInsert, Stored
<1>6. \A k \in Key : \/ flow'[k] = flow[k]
                     \/ /\ flow[k] = NoRow /\ flow'[k] = Draft(at[q].refs) /\ k \notin gone'
  BY <1>1, <1>2, <1>5 DEF CatalogTypeOK
<1>7. Draft(at[q].refs) \in FlowRow /\ Draft(at[q].refs).status = "draft"
      /\ ~Draft(at[q].refs).old /\ NoRow.status = "absent"
  BY <1>2 DEF Draft, FlowRow, FlowStatus, NoRow
<1>8. flow' \in [Key -> FlowRow \cup {NoRow}] BY <1>1, <1>5, <1>7 DEF CatalogTypeOK
<1>9. CatalogTypeOK'
  <2>1. \A k \in Key : Stored(k)' /\ flow'[k].old => flow'[k].status = "deleted"
    BY <1>1, <1>6, <1>7 DEF CatalogTypeOK, Stored
  <2>2. QED BY <1>1, <1>3, <1>4, <1>5, <1>8, <2>1 DEF CatalogTypeOK
<1>10. UniquePublished' BY <1>3, <1>6, <1>7 DEF FlowsInv, UniquePublished
<1>11. DeletedKept'
  BY <1>1, <1>3, <1>5, <1>6 DEF FlowsInv, DeletedKept, CatalogTypeOK
<1>12. \A k \in Key : /\ flow[k].status # "absent" => flow'[k].status # "absent"
                      /\ Alive(flow[k].status) => Alive(flow'[k].status)
  BY <1>6, <1>7 DEF Alive
<1>13. QED BY <1>3, <1>4, <1>9, <1>10, <1>11, <1>12, RowsChange

LEMMA PatchKeeps ==
  ASSUME FlowsInv, NEW q \in Request, CommitPatch(q) PROVE FlowsInv'
<1>1. CatalogTypeOK /\ at[q] \in Frame BY DEF FlowsInv, CatalogTypeOK
<1>2. at[q].key \in Key /\ at[q].refs \subseteq Code BY <1>1 DEF CommitPatch, Frame, Idle
<1>3. /\ at' \in [Request -> Frame] /\ \A r \in Request : Reads(at[r])'
      /\ mixed \subseteq mixed' /\ mixed' \subseteq Key /\ scope' = scope
  BY <1>1, <1>2, LeaveFrames DEF CommitPatch
<1>4. UNCHANGED <<beat, conv, runs, relied, gone>> BY DEF CommitPatch
<1>5. flow' = flow \/ /\ Stored(at[q].key)
                      /\ flow' = [flow EXCEPT ![at[q].key].refs = at[q].refs]
  BY DEF CommitPatch
<1>6. \A k \in Key : \/ flow'[k] = flow[k]
                     \/ flow[k] \in FlowRow /\ flow'[k] = [flow[k] EXCEPT !.refs = at[q].refs]
  BY <1>1, <1>2, <1>5, Rows DEF CatalogTypeOK
<1>7. \A k \in Key : /\ flow'[k] \in FlowRow \cup {NoRow}
                     /\ flow'[k].status = flow[k].status
                     /\ flow'[k] = NoRow => flow[k] = NoRow
                     /\ flow[k] = NoRow \/ flow'[k].old = flow[k].old
  BY <1>1, <1>2, <1>6 DEF CatalogTypeOK, FlowRow, NoRow, FlowStatus
<1>8. CatalogTypeOK'
  <2>1. flow' \in [Key -> FlowRow \cup {NoRow}] BY <1>1, <1>5, <1>7 DEF CatalogTypeOK
  <2>2. \A k \in Key : Stored(k)' /\ flow'[k].old => flow'[k].status = "deleted"
    BY <1>1, <1>6, <1>7 DEF CatalogTypeOK, Stored, NoRow, FlowRow, FlowStatus
  <2>3. QED BY <1>1, <1>3, <1>4, <2>1, <2>2 DEF CatalogTypeOK
<1>9. UniquePublished' BY <1>3, <1>7 DEF FlowsInv, UniquePublished
<1>10. DeletedKept' BY <1>1, <1>3, <1>4, <1>7 DEF FlowsInv, DeletedKept, CatalogTypeOK
<1>11. QED BY <1>3, <1>4, <1>7, <1>8, <1>9, <1>10, RowsChange

LEMMA PublishKeeps ==
  ASSUME FlowsInv, NEW q \in Request, CommitPublish(q) PROVE FlowsInv'
<1>0. PICK f : f = at[q] OBVIOUS
<1>1. CatalogTypeOK /\ f \in Frame /\ f.op = "publish" /\ Reads(f)
  BY <1>0 DEF FlowsInv, CatalogTypeOK, CommitPublish
<1>2. f.key \in Key /\ f.siblings \subseteq Key /\ f.fresh \in BOOLEAN
  BY <1>1 DEF Frame, Idle
<1> DEFINE keys == {f.key} \cup f.siblings
<1>3. Leave(q, keys) /\ keys \subseteq Key BY <1>0, <1>2 DEF CommitPublish
<1>4. /\ at' \in [Request -> Frame] /\ \A r \in Request : Reads(at[r])'
      /\ mixed \subseteq mixed' /\ mixed' \subseteq Key /\ scope' = scope
      /\ ~f.fresh => keys \subseteq mixed'
  BY <1>0, <1>1, <1>3, LeaveFrames
<1>5. UNCHANGED <<beat, conv, runs, relied, gone>> BY DEF CommitPublish
<1>6. flow' = [k \in Key |->
        IF ~Stored(k) THEN NoRow
        ELSE IF k = f.key THEN [flow[k] EXCEPT !.status = "published", !.old = FALSE]
        ELSE IF k \in f.siblings THEN [flow[k] EXCEPT !.status = "archived", !.old = FALSE]
        ELSE flow[k]]
  BY <1>0 DEF CommitPublish
<1>7. \A k \in Key : /\ flow'[k] \in FlowRow \cup {NoRow}
                     /\ flow[k].status = "absent" <=> flow'[k].status = "absent"
                     /\ k \notin keys => flow'[k] = flow[k]
                     /\ k # f.key /\ flow'[k].status = "published" =>
                          flow[k].status = "published" /\ k \notin keys
                     /\ Alive(flow[k].status) => Alive(flow'[k].status)
                     /\ k \in keys /\ flow'[k] # NoRow => ~flow'[k].old
  <2> SUFFICES ASSUME NEW k \in Key
               PROVE  /\ flow'[k] \in FlowRow \cup {NoRow}
                      /\ flow[k].status = "absent" <=> flow'[k].status = "absent"
                      /\ k \notin keys => flow'[k] = flow[k]
                      /\ k # f.key /\ flow'[k].status = "published" =>
                           flow[k].status = "published" /\ k \notin keys
                      /\ Alive(flow[k].status) => Alive(flow'[k].status)
                      /\ k \in keys /\ flow'[k] # NoRow => ~flow'[k].old
    OBVIOUS
  <2>1. CASE ~Stored(k) BY <1>6, <2>1 DEF Stored, NoRow, Alive
  <2>2. CASE Stored(k) /\ k = f.key
    <3>1. flow[k] \in FlowRow BY <1>1, <2>2, Rows
    <3>2. flow'[k] = [flow[k] EXCEPT !.status = "published", !.old = FALSE] BY <1>6, <2>2
    <3>3. QED BY <2>2, <3>1, <3>2 DEF FlowRow, FlowStatus, Alive, NoRow
  <2>3. CASE Stored(k) /\ k # f.key /\ k \in f.siblings
    <3>1. flow[k] \in FlowRow BY <1>1, <2>3, Rows
    <3>2. flow'[k] = [flow[k] EXCEPT !.status = "archived", !.old = FALSE] BY <1>6, <2>3
    <3>3. QED BY <2>3, <3>1, <3>2 DEF FlowRow, FlowStatus, Alive, NoRow
  <2>4. CASE Stored(k) /\ k \notin keys
    <3>1. flow'[k] = flow[k] BY <1>6, <2>4
    <3>2. QED BY <1>1, <2>4, <3>1, Rows
  <2>5. QED BY <2>1, <2>2, <2>3, <2>4
<1> HIDE DEF keys
<1>8. CatalogTypeOK'
  <2>1. flow' \in [Key -> FlowRow \cup {NoRow}] BY <1>6, <1>7
  <2>2. \A k \in Key : Stored(k)' /\ flow'[k].old => flow'[k].status = "deleted"
    BY <1>1, <1>7 DEF CatalogTypeOK, Stored
  <2>3. QED BY <1>1, <1>4, <1>5, <2>1, <2>2 DEF CatalogTypeOK
<1>9. f.key \in keys /\ f.siblings \subseteq keys BY DEF keys
<1>10. f.fresh => /\ flow[f.key].status = "draft"
                  /\ \A k \in Key : k \in f.siblings <=>
                       /\ k # f.key /\ CodeOf(k) = CodeOf(f.key)
                       /\ flow[k].status = "published"
  <2>1. \A k \in Key : k \in PublishedSiblings(f.key) <=>
          k # f.key /\ CodeOf(k) = CodeOf(f.key) /\ flow[k].status = "published"
    BY <1>1, Rows DEF PublishedSiblings, Published, Versions
  <2>2. QED BY <1>1, <2>1 DEF Reads
<1>11. UniquePublished'
  <2> SUFFICES ASSUME NEW j \in Key, NEW k \in Key, CodeOf(j) = CodeOf(k), j # k,
                      flow'[j].status = "published", flow'[k].status = "published"
               PROVE  j \in mixed' \/ k \in mixed'
    BY DEF UniquePublished
  <2>1. CASE ~f.fresh /\ (j = f.key \/ k = f.key) BY <1>4, <1>9, <2>1
  <2>2. CASE f.fresh /\ (j = f.key \/ k = f.key) BY <1>7, <1>9, <1>10, <2>2
  <2>3. CASE j # f.key /\ k # f.key BY <1>4, <1>7, <2>3 DEF FlowsInv, UniquePublished
  <2>4. QED BY <1>2, <2>1, <2>2, <2>3
<1>12. DeletedKept'
  <2> SUFFICES ASSUME NEW k \in gone, Alive(flow'[k].status) PROVE k \in mixed'
    BY <1>5 DEF DeletedKept
  <2>1. k \in Key BY <1>1 DEF CatalogTypeOK
  <2>2. CASE k \notin keys BY <1>4, <1>7, <2>1, <2>2 DEF FlowsInv, DeletedKept
  <2>3. CASE k \in keys /\ ~f.fresh BY <1>4, <2>3
  <2>4. CASE k \in keys /\ f.fresh
    <3>1. Alive(flow[k].status) BY <1>10, <2>1, <2>4 DEF Alive, keys
    <3>2. QED BY <1>4, <3>1 DEF FlowsInv, DeletedKept
  <2>5. QED BY <1>2, <2>2, <2>3, <2>4
<1>13. QED BY <1>4, <1>5, <1>7, <1>8, <1>11, <1>12, RowsChange

LEMMA DeleteKeeps ==
  ASSUME FlowsInv, NEW q \in Request, CommitDelete(q) PROVE FlowsInv'
<1>0. PICK f : f = at[q] OBVIOUS
<1>1. CatalogTypeOK /\ f \in Frame /\ f.op = "delete" /\ Reads(f)
  BY <1>0 DEF FlowsInv, CatalogTypeOK, CommitDelete
<1>2. f.key \in Key /\ f.fresh \in BOOLEAN BY <1>1 DEF Frame, Idle
<1>3. /\ at' \in [Request -> Frame] /\ \A r \in Request : Reads(at[r])'
      /\ mixed \subseteq mixed' /\ mixed' \subseteq Key /\ scope' = scope
      /\ ~f.fresh => f.key \in mixed'
  BY <1>0, <1>1, <1>2, LeaveFrames DEF CommitDelete
<1>4. UNCHANGED <<beat, conv, runs, relied>> /\ gone' = gone \cup {f.key}
  BY <1>0 DEF CommitDelete
<1>5. \/ ~Stored(f.key) /\ flow' = flow
      \/ /\ Stored(f.key)
         /\ flow' = [flow EXCEPT ![f.key].status = "deleted", ![f.key].old = FALSE]
  BY <1>0 DEF CommitDelete
<1>6. \A k \in Key :
        \/ flow'[k] = flow[k] /\ (k = f.key => flow[k] = NoRow)
        \/ /\ k = f.key /\ flow[k] \in FlowRow
           /\ flow'[k] = [flow[k] EXCEPT !.status = "deleted", !.old = FALSE]
  BY <1>1, <1>2, <1>5, Rows DEF CatalogTypeOK, Stored
<1>7. \A k \in Key : /\ flow'[k] \in FlowRow \cup {NoRow}
                     /\ flow[k].status = "absent" <=> flow'[k].status = "absent"
                     /\ k # f.key => flow'[k] = flow[k]
                     /\ k = f.key => flow'[k].status \in {"absent", "deleted"}
                     /\ k = f.key /\ flow'[k] # NoRow => flow'[k].status = "deleted"
  <2> SUFFICES ASSUME NEW k \in Key
               PROVE  /\ flow'[k] \in FlowRow \cup {NoRow}
                      /\ flow[k].status = "absent" <=> flow'[k].status = "absent"
                      /\ k # f.key => flow'[k] = flow[k]
                      /\ k = f.key => flow'[k].status \in {"absent", "deleted"}
                      /\ k = f.key /\ flow'[k] # NoRow => flow'[k].status = "deleted"
    OBVIOUS
  <2>1. CASE flow'[k] = flow[k] /\ (k = f.key => flow[k] = NoRow)
    BY <1>1, <2>1 DEF CatalogTypeOK, NoRow
  <2>2. CASE /\ k = f.key /\ flow[k] \in FlowRow
             /\ flow'[k] = [flow[k] EXCEPT !.status = "deleted", !.old = FALSE]
    BY <2>2 DEF FlowRow, FlowStatus
  <2>3. QED BY <1>6, <2>1, <2>2
<1>8. CatalogTypeOK'
  <2>1. flow' \in [Key -> FlowRow \cup {NoRow}] BY <1>1, <1>5, <1>7 DEF CatalogTypeOK
  <2>2. \A k \in Key : Stored(k)' /\ flow'[k].old => flow'[k].status = "deleted"
    BY <1>1, <1>7 DEF CatalogTypeOK, Stored
  <2>3. QED BY <1>1, <1>2, <1>3, <1>4, <2>1, <2>2 DEF CatalogTypeOK
<1>9. UniquePublished'
  <2>1. \A k \in Key : flow'[k].status = "published" => flow[k].status = "published"
    BY <1>7
  <2> SUFFICES ASSUME NEW j \in Key, NEW k \in Key, CodeOf(j) = CodeOf(k), j # k,
                      flow'[j].status = "published", flow'[k].status = "published"
               PROVE  j \in mixed' \/ k \in mixed'
    BY DEF UniquePublished
  <2>2. j \in mixed \/ k \in mixed BY <2>1 DEF FlowsInv, UniquePublished
  <2>3. QED BY <1>3, <2>2
<1>10. DeletedKept'
  <2> SUFFICES ASSUME NEW k \in gone', Alive(flow'[k].status) PROVE k \in mixed'
    BY DEF DeletedKept
  <2>1. k \in Key BY <1>1, <1>2, <1>4 DEF CatalogTypeOK
  <2>2. k # f.key BY <1>7, <2>1 DEF Alive
  <2>3. k \in gone /\ flow'[k] = flow[k] BY <1>4, <1>7, <2>1, <2>2
  <2>4. QED BY <1>3, <2>3 DEF FlowsInv, DeletedKept
<1>11. f.fresh => Unused(f.key) BY <1>1 DEF Reads, FlowInUse, Unused
<1>12. \A k \in Key : Alive(flow[k].status) =>
         Alive(flow'[k].status) \/ k \in mixed' \/ Unused(k)
  BY <1>2, <1>3, <1>7, <1>11
<1>13. QED BY <1>3, <1>4, <1>7, <1>8, <1>9, <1>10, <1>12, RowsChange

-----------------------------------------------------------------------------
(* Commits that make references.                                           *)

(* The flow table is as it was.                                            *)
LEMMA ReferencesChange ==
  ASSUME FlowsInv, UNCHANGED <<flow, gone, scope>>, mixed \subseteq mixed',
         mixed' \subseteq Key, at' \in [Request -> Frame],
         \A q \in Request : Reads(at[q])',
         beat' \in [Beat -> Key \cup {NoKey}], conv' \in [Conv -> ConvRow],
         runs' \subseteq Key, relied' \subseteq Beat \cup Conv \cup Key,
         BeatsKept', ConvsKept', RunsKept'
  PROVE  FlowsInv'
<1>1. CatalogTypeOK' BY DEF FlowsInv, CatalogTypeOK, Stored
<1>2. UniquePublished' /\ DeletedKept' BY DEF FlowsInv, UniquePublished, DeletedKept
<1>3. QED BY <1>1, <1>2 DEF FlowsInv

LEMMA NoKeyIsNone == NoKey \notin Key
BY DEF Key, NoKey

LEMMA Apart ==
  /\ \A b \in Beat : b \notin Conv /\ b \notin Key
  /\ \A c \in Conv : c \notin Key
BY CatalogAssumption DEF Key

LEMMA BeatCommitKeeps ==
  ASSUME FlowsInv, NEW q \in Request, CommitBeat(q) PROVE FlowsInv'
<1>0. PICK f : f = at[q] OBVIOUS
<1>1. CatalogTypeOK /\ f \in Frame /\ f.op = "beat"
  BY <1>0 DEF FlowsInv, CatalogTypeOK, CommitBeat
<1>2. f.key \in Key /\ f.beat \in Beat BY <1>1 DEF Frame, Idle
<1>3. /\ at' \in [Request -> Frame] /\ \A r \in Request : Reads(at[r])'
      /\ mixed \subseteq mixed' /\ mixed' \subseteq Key /\ scope' = scope
  BY <1>0, <1>1, <1>2, LeaveFrames DEF CommitBeat
<1>4. UNCHANGED <<flow, conv, runs, gone>> BY DEF CommitBeat
<1>5. /\ beat' = IF Stored(f.key) /\ beat[f.beat] = NoKey
                 THEN [beat EXCEPT ![f.beat] = f.key] ELSE beat
      /\ relied' = IF beat' # beat /\ Live(f.key) THEN relied \cup {f.beat} ELSE relied
  BY <1>0 DEF CommitBeat
<1>6. beat' \in [Beat -> Key \cup {NoKey}] BY <1>1, <1>2, <1>5 DEF CatalogTypeOK
<1>7. relied' \subseteq relied \cup {f.beat} BY <1>5
<1>8. BeatsKept'
  <2> SUFFICES ASSUME NEW b \in Beat
               PROVE  /\ b \in relied' => beat'[b] # NoKey
                      /\ beat'[b] # NoKey => flow[beat'[b]].status # "absent"
                      /\ b \in relied' => \/ Alive(flow[beat'[b]].status)
                                          \/ beat'[b] \in mixed'
    BY <1>4 DEF BeatsKept
  <2>1. CASE beat'[b] = beat[b] /\ b # f.beat
    BY <1>3, <1>7, <2>1 DEF FlowsInv, BeatsKept
  <2>2. CASE beat' = beat BY <1>3, <1>5, <2>2 DEF FlowsInv, BeatsKept
  <2>3. CASE b = f.beat /\ beat' # beat
    <3>1. /\ Stored(f.key) /\ beat'[b] = f.key /\ beat[b] = NoKey /\ f.key # NoKey
      BY <1>1, <1>2, <1>5, <2>3, NoKeyIsNone DEF CatalogTypeOK
    <3>2. flow[f.key].status # "absent" BY <1>1, <1>2, <3>1, Rows
    <3>3. CASE Live(f.key) BY <1>1, <1>2, <3>1, <3>2, <3>3, Rows DEF Alive
    <3>4. CASE ~Live(f.key)
      <4>1. relied' = relied BY <1>5, <3>4
      <4>2. b \notin relied BY <3>1 DEF FlowsInv, BeatsKept
      <4>3. QED BY <3>1, <3>2, <4>1, <4>2
    <3>5. QED BY <3>3, <3>4
  <2>4. QED BY <1>1, <1>5, <2>1, <2>2, <2>3 DEF CatalogTypeOK
<1>9. ConvsKept'
  <2>1. Conv \cap relied' \subseteq relied BY <1>2, <1>7, Apart
  <2>2. QED BY <1>3, <1>4, <2>1 DEF FlowsInv, ConvsKept
<1>10. RunsKept'
  <2>1. Key \cap relied' \subseteq relied BY <1>2, <1>7, Apart
  <2>2. QED BY <1>3, <1>4, <2>1 DEF FlowsInv, RunsKept
<1>11. QED
  BY <1>1, <1>2, <1>3, <1>4, <1>6, <1>7, <1>8, <1>9, <1>10, ReferencesChange DEF CatalogTypeOK

(* What becomes of the conversations' references when one is made.         *)
LEMMA OneConversation ==
  ASSUME FlowsInv, NEW c \in Conv, NEW k \in Key \cup {NoKey}, NEW status \in {"active"},
         UNCHANGED <<flow, beat, runs, gone, scope>>, mixed \subseteq mixed',
         mixed' \subseteq Key, at' \in [Request -> Frame],
         \A q \in Request : Reads(at[q])',
         conv' \in [Conv -> ConvRow], conv'[c].flow = k,
         \A d \in Conv \ {c} : conv'[d] = conv[d],
         relied' = (relied \ {c}) \cup {d \in {c} : k # NoKey /\ Live(k)}
  PROVE  FlowsInv'
<1>1. relied' \subseteq relied \cup {c} /\ (c \in relied' => k \in Key /\ Live(k)) OBVIOUS
<1>2. CatalogTypeOK /\ relied' \subseteq Beat \cup Conv \cup Key
  BY <1>1 DEF FlowsInv, CatalogTypeOK
<1>3. ConvsKept'
  <2> SUFFICES ASSUME NEW d \in Conv, d \in relied'
               PROVE  /\ conv'[d].flow \in Key
                      /\ conv'[d].status = "active" =>
                           Alive(flow[conv'[d].flow].status) \/ conv'[d].flow \in mixed'
    BY DEF ConvsKept
  <2>1. CASE d = c BY <1>1, <1>2, <2>1, Rows DEF Alive
  <2>2. CASE d # c BY <1>1, <2>2 DEF FlowsInv, ConvsKept
  <2>3. QED BY <2>1, <2>2
<1>4. BeatsKept'
  <2>1. \A b \in Beat : b \in relied' <=> b \in relied BY Apart
  <2>2. QED BY <2>1 DEF FlowsInv, BeatsKept
<1>5. RunsKept'
  <2>1. \A j \in Key : j \in relied' <=> j \in relied BY Apart
  <2>2. QED BY <2>1 DEF FlowsInv, RunsKept
<1>6. beat' \in [Beat -> Key \cup {NoKey}] /\ runs' \subseteq Key
  BY <1>2 DEF CatalogTypeOK
<1>7. QED BY <1>2, <1>3, <1>4, <1>5, <1>6, ReferencesChange

LEMMA ConversationKeeps ==
  ASSUME FlowsInv, NEW q \in Request, CommitConversation(q) PROVE FlowsInv'
<1>0. PICK f : f = at[q] OBVIOUS
<1>1. CatalogTypeOK /\ f \in Frame /\ f.op = "talk"
  BY <1>0 DEF FlowsInv, CatalogTypeOK, CommitConversation
<1>2. f.key \in Key \cup {NoKey} /\ f.conv \in Conv BY <1>1 DEF Frame, Idle
<1> DEFINE keys == {f.key} \ {NoKey}
<1>3. keys \subseteq Key /\ Leave(q, keys) BY <1>0, <1>2 DEF CommitConversation
<1>4. /\ at' \in [Request -> Frame] /\ \A r \in Request : Reads(at[r])'
      /\ mixed \subseteq mixed' /\ mixed' \subseteq Key /\ scope' = scope
  BY <1>1, <1>3, LeaveFrames
<1>5. UNCHANGED <<flow, beat, runs, gone>> BY DEF CommitConversation
<1>6. /\ conv' = [conv EXCEPT ![f.conv] = [status |-> "active", flow |-> f.key]]
      /\ relied' = (relied \ {f.conv}) \cup {c \in {f.conv} : f.key # NoKey /\ Live(f.key)}
  BY <1>0 DEF CommitConversation
<1>7. conv' \in [Conv -> ConvRow] BY <1>1, <1>2, <1>6 DEF CatalogTypeOK, ConvRow
<1>8. conv'[f.conv].flow = f.key /\ \A d \in Conv \ {f.conv} : conv'[d] = conv[d]
  BY <1>1, <1>2, <1>6 DEF CatalogTypeOK
<1>9. QED BY <1>2, <1>4, <1>5, <1>6, <1>7, <1>8, OneConversation

LEMMA SendKeeps ==
  ASSUME FlowsInv, NEW q \in Request, CommitSend(q) PROVE FlowsInv'
<1>0. PICK f : f = at[q] OBVIOUS
<1>1. CatalogTypeOK /\ f \in Frame /\ f.op = "send"
  BY <1>0 DEF FlowsInv, CatalogTypeOK, CommitSend
<1>2. /\ f.key \in Key /\ f.conv \in Conv /\ f.fresh \in BOOLEAN
      /\ [f EXCEPT !.op = "start"] \in Frame /\ [f EXCEPT !.op = "start"].op = "start"
  BY <1>1 DEF Frame, Idle
<1>3. ASSUME NEW r \in Request PROVE at'[r] \in Frame /\ Reads(at[r])'
  <2>1. CASE r = q
    <3>1. at'[r] = [f EXCEPT !.op = "start"] BY <1>0, <2>1 DEF CommitSend
    <3>2. QED BY <1>2, <3>1 DEF Reads
  <2>2. CASE r # q /\ at[r] = Idle
    <3>1. at'[r] = Idle BY <2>2 DEF CommitSend
    <3>2. QED BY <3>1 DEF Reads, Idle, Frame
  <2>3. CASE r # q /\ at[r] # Idle
    <3>1. at'[r] = [at[r] EXCEPT !.fresh = FALSE] BY <2>3 DEF CommitSend
    <3>2. at[r] \in Frame BY <1>1 DEF CatalogTypeOK
    <3>3. at'[r] \in Frame BY <2>3, <3>1, <3>2, StaleIsFrame
    <3>4. at'[r].fresh = FALSE BY <2>3, <3>1, <3>2 DEF Frame, Idle
    <3>5. QED BY <3>3, <3>4 DEF Reads
  <2>4. QED BY <2>1, <2>2, <2>3
<1>4. at' \in [Request -> Frame] BY <1>3 DEF CommitSend
<1>5. UNCHANGED <<flow, beat, runs, gone, scope>> BY DEF CommitSend
<1>6. mixed \subseteq mixed' /\ mixed' \subseteq Key
  BY <1>0, <1>1, <1>2 DEF CommitSend, CatalogTypeOK
<1>7. /\ conv' = [conv EXCEPT ![f.conv].flow = f.key,
                              ![f.conv].status = IF @ = "absent" THEN "active" ELSE @]
      /\ relied' = (relied \ {f.conv}) \cup {c \in {f.conv} : Live(f.key)}
  BY <1>0 DEF CommitSend
<1>8. conv[f.conv] \in ConvRow BY <1>1, <1>2 DEF CatalogTypeOK
<1>9. conv' \in [Conv -> ConvRow] BY <1>1, <1>2, <1>7, <1>8 DEF CatalogTypeOK, ConvRow
<1>10. conv'[f.conv].flow = f.key /\ \A d \in Conv \ {f.conv} : conv'[d] = conv[d]
  BY <1>1, <1>2, <1>7, <1>8 DEF CatalogTypeOK, ConvRow
<1>11. relied' = (relied \ {f.conv}) \cup {c \in {f.conv} : f.key # NoKey /\ Live(f.key)}
  BY <1>2, <1>7, NoKeyIsNone
<1>12. QED BY <1>2, <1>3, <1>4, <1>5, <1>6, <1>9, <1>10, <1>11, OneConversation

LEMMA RunKeeps ==
  ASSUME FlowsInv, NEW q \in Request, StartRun(q) PROVE FlowsInv'
<1>0. PICK f : f = at[q] OBVIOUS
<1>1. CatalogTypeOK /\ f \in Frame /\ f.op = "start"
  BY <1>0 DEF FlowsInv, CatalogTypeOK, StartRun
<1>2. f.key \in Key BY <1>1 DEF Frame, Idle
<1>3. /\ at' \in [Request -> Frame] /\ \A r \in Request : Reads(at[r])'
      /\ mixed \subseteq mixed' /\ mixed' \subseteq Key /\ scope' = scope
  BY <1>0, <1>1, <1>2, LeaveFrames DEF StartRun
<1>4. UNCHANGED <<flow, beat, conv, gone>> BY DEF StartRun
<1>5. /\ runs' = runs \cup {f.key} /\ runs' \subseteq Key
      /\ relied' = relied \cup {k \in {f.key} : Live(k)}
      /\ relied' \subseteq Beat \cup Conv \cup Key
  BY <1>0, <1>1, <1>2 DEF StartRun, CatalogTypeOK
<1>6. BeatsKept'
  <2>1. \A b \in Beat : b \in relied' <=> b \in relied BY <1>2, <1>5, Apart
  <2>2. QED BY <1>3, <1>4, <2>1 DEF FlowsInv, BeatsKept
<1>7. ConvsKept'
  <2>1. \A c \in Conv : c \in relied' <=> c \in relied BY <1>2, <1>5, Apart
  <2>2. QED BY <1>3, <1>4, <2>1 DEF FlowsInv, ConvsKept
<1>8. RunsKept'
  <2>1. Live(f.key) => flow[f.key].status # "absent" BY <1>1, <1>2, Rows
  <2>2. QED BY <1>3, <1>4, <1>5, <2>1 DEF FlowsInv, RunsKept
<1>9. QED
  BY <1>1, <1>3, <1>4, <1>5, <1>6, <1>7, <1>8, ReferencesChange DEF CatalogTypeOK

-----------------------------------------------------------------------------
(* Deletions, age and the purge.                                           *)

LEMMA DeleteBeatKeeps ==
  ASSUME FlowsInv, NEW b \in Beat, DeleteBeat(b) PROVE FlowsInv'
<1>1. CatalogTypeOK BY DEF FlowsInv
<1>2. /\ UNCHANGED <<flow, conv, runs, at, scope, mixed, gone>>
      /\ beat' = [beat EXCEPT ![b] = NoKey] /\ relied' = relied \ {b}
  BY DEF DeleteBeat
<1>3. ASSUME NEW r \in Request PROVE Reads(at[r])'
  <2>1. at[r] \in Frame BY <1>1 DEF CatalogTypeOK
  <2>2. at[r].op = "delete" => at[r].key \in Key BY <2>1 DEF Frame, Idle
  <2>3. ASSUME NEW k \in Key, ~FlowInUse(k) PROVE ~FlowInUse(k)'
    BY <1>1, <1>2, <2>3, NoKeyIsNone DEF FlowInUse, BeatsOn, ActiveOn, CatalogTypeOK
  <2>4. ASSUME NEW k PROVE PublishedSiblings(k)' = PublishedSiblings(k)
    BY <1>2 DEF PublishedSiblings, Published, Versions, Stored
  <2>5. Reads(at[r]) BY DEF FlowsInv
  <2>6. QED BY <1>2, <2>2, <2>3, <2>4, <2>5 DEF Reads
<1>4. BeatsKept' BY <1>1, <1>2 DEF FlowsInv, BeatsKept, CatalogTypeOK
<1>5. ConvsKept' BY <1>2, Apart DEF FlowsInv, ConvsKept
<1>6. RunsKept' BY <1>2, Apart DEF FlowsInv, RunsKept
<1>7. beat' \in [Beat -> Key \cup {NoKey}] BY <1>1, <1>2 DEF CatalogTypeOK
<1>8. QED
  BY <1>1, <1>2, <1>3, <1>4, <1>5, <1>6, <1>7, ReferencesChange DEF CatalogTypeOK

LEMMA DeleteConvKeeps ==
  ASSUME FlowsInv, NEW c \in Conv, DeleteConv(c) PROVE FlowsInv'
<1>1. CatalogTypeOK /\ conv[c] \in ConvRow BY DEF FlowsInv, CatalogTypeOK
<1>2. /\ UNCHANGED <<flow, beat, runs, at, scope, mixed, gone, relied>>
      /\ conv' = [conv EXCEPT ![c].status = "deleted"]
  BY DEF DeleteConv, history
<1>3. \A d \in Conv : /\ conv'[d].flow = conv[d].flow
                      /\ conv'[d].status = "active" => conv[d].status = "active"
  BY <1>1, <1>2 DEF CatalogTypeOK, ConvRow
<1>4. ASSUME NEW r \in Request PROVE Reads(at[r])'
  <2>1. ASSUME NEW k, ~FlowInUse(k) PROVE ~FlowInUse(k)'
    BY <1>2, <1>3, <2>1 DEF FlowInUse, BeatsOn, ActiveOn
  <2>2. ASSUME NEW k PROVE PublishedSiblings(k)' = PublishedSiblings(k)
    BY <1>2 DEF PublishedSiblings, Published, Versions, Stored
  <2>3. Reads(at[r]) BY DEF FlowsInv
  <2>4. QED BY <1>2, <2>1, <2>2, <2>3 DEF Reads
<1>5. conv' \in [Conv -> ConvRow] BY <1>1, <1>2 DEF CatalogTypeOK, ConvRow
<1>6. BeatsKept' /\ RunsKept' BY <1>2 DEF FlowsInv, BeatsKept, RunsKept
<1>7. ConvsKept' BY <1>2, <1>3 DEF FlowsInv, ConvsKept
<1>8. QED
  BY <1>1, <1>2, <1>4, <1>5, <1>6, <1>7, ReferencesChange DEF CatalogTypeOK

LEMMA GrowOldKeeps == ASSUME FlowsInv, GrowOld PROVE FlowsInv'
<1>1. CatalogTypeOK BY DEF FlowsInv
<1>2. /\ UNCHANGED <<beat, runs, at, scope, mixed, gone, relied>>
      /\ flow' = [k \in Key |-> IF Retired(k) THEN [flow[k] EXCEPT !.old = TRUE] ELSE flow[k]]
      /\ conv' = [c \in Conv |-> IF conv[c].status = "deleted"
                                 THEN [conv[c] EXCEPT !.status = "old"] ELSE conv[c]]
  BY DEF GrowOld, history
<1>3. ASSUME NEW k \in Key
      PROVE  /\ flow'[k] \in FlowRow \cup {NoRow} /\ flow'[k].status = flow[k].status
             /\ flow'[k] # NoRow /\ flow'[k].old => flow'[k].status = "deleted"
  <2>1. CASE Retired(k)
    <3>1. flow'[k] = [flow[k] EXCEPT !.old = TRUE] BY <1>2, <2>1
    <3>2. flow[k] \in FlowRow /\ flow[k].status = "deleted"
      BY <1>1, <2>1, Rows DEF Retired
    <3>3. QED BY <3>1, <3>2 DEF FlowRow
  <2>2. CASE ~Retired(k)
    <3>1. flow'[k] = flow[k] BY <1>2, <2>2
    <3>2. QED BY <1>1, <3>1 DEF CatalogTypeOK, Stored
  <2>3. QED BY <2>1, <2>2
<1>4. ASSUME NEW c \in Conv
      PROVE  /\ conv'[c] \in ConvRow /\ conv'[c].flow = conv[c].flow
             /\ conv'[c].status = "active" => conv[c].status = "active"
  <2>1. conv[c] \in ConvRow BY <1>1 DEF CatalogTypeOK
  <2>2. QED BY <1>2, <2>1 DEF ConvRow
<1>5. \A r \in Request : Reads(at[r])'
  <2>1. \A r \in Request : at'[r] = Idle BY <1>2 DEF GrowOld
  <2>2. QED BY <2>1 DEF Reads, Idle
<1>6. CatalogTypeOK'
  <2>1. flow' \in [Key -> FlowRow \cup {NoRow}] BY <1>2, <1>3
  <2>2. \A k \in Key : Stored(k)' /\ flow'[k].old => flow'[k].status = "deleted"
    BY <1>3 DEF Stored
  <2>3. conv' \in [Conv -> ConvRow] BY <1>2, <1>4
  <2>4. QED BY <1>1, <1>2, <2>1, <2>2, <2>3 DEF CatalogTypeOK
<1>7. UniquePublished' /\ DeletedKept'
  <2>1. UniquePublished' BY <1>2, <1>3 DEF FlowsInv, UniquePublished
  <2>2. DeletedKept' BY <1>1, <1>2, <1>3 DEF FlowsInv, DeletedKept, CatalogTypeOK
  <2>3. QED BY <2>1, <2>2
<1>8. BeatsKept' /\ ConvsKept' /\ RunsKept'
  <2>1. BeatsKept'
    <3>1. \A b \in Beat : beat[b] # NoKey => beat[b] \in Key BY <1>1 DEF CatalogTypeOK
    <3>2. QED BY <1>2, <1>3, <3>1 DEF FlowsInv, BeatsKept
  <2>2. ConvsKept' BY <1>2, <1>3, <1>4 DEF FlowsInv, ConvsKept
  <2>3. RunsKept' BY <1>2, <1>3 DEF FlowsInv, RunsKept
  <2>4. QED BY <2>1, <2>2, <2>3
<1>9. QED BY <1>2, <1>5, <1>6, <1>7, <1>8 DEF FlowsInv

LEMMA PurgeKeeps ==
  ASSUME FlowsInv, NEW q \in Request, CommitPurge(q) PROVE FlowsInv'
<1>0. PICK f : f = at[q] OBVIOUS
<1>1. CatalogTypeOK /\ f \in Frame /\ f.op = "purge" /\ Reads(f)
  BY <1>0 DEF FlowsInv, CatalogTypeOK, CommitPurge
<1>2. f.flows \subseteq Key /\ f.convs \subseteq Conv /\ f.fresh \in BOOLEAN
  BY <1>1 DEF Frame, Idle
<1>3. /\ at' \in [Request -> Frame] /\ \A r \in Request : Reads(at[r])'
      /\ mixed \subseteq mixed' /\ mixed' \subseteq Key /\ scope' = scope
      /\ ~f.fresh => f.flows \subseteq mixed'
  BY <1>0, <1>1, <1>2, LeaveFrames DEF CommitPurge
<1>4. UNCHANGED <<beat, runs, gone>> BY DEF CommitPurge
<1>5. CASE UNCHANGED <<flow, conv, relied>>
  <2>1. BeatsKept' /\ RunsKept' BY <1>3, <1>4, <1>5 DEF FlowsInv, BeatsKept, RunsKept
  <2>2. ConvsKept' BY <1>3, <1>5 DEF FlowsInv, ConvsKept
  <2>3. QED
    BY <1>1, <1>3, <1>4, <1>5, <2>1, <2>2, ReferencesChange DEF CatalogTypeOK
<1>6. CASE /\ \A k \in f.flows : BeatsOn(k) = {}
           /\ flow' = [k \in Key |-> IF k \in f.flows THEN NoRow ELSE flow[k]]
           /\ conv' = [c \in Conv |-> IF c \in f.convs
                                      THEN [status |-> "absent", flow |-> NoKey] ELSE conv[c]]
           /\ relied' = relied \ f.convs
  <2>1. \A k \in Key : /\ k \in f.flows => flow'[k] = NoRow /\ flow'[k].status = "absent"
                       /\ k \notin f.flows => flow'[k] = flow[k]
    BY <1>6 DEF NoRow
  <2>2. \A k \in f.flows : k \in mixed' \/ (~Alive(flow[k].status) /\ k \notin runs)
    BY <1>1, <1>2, <1>3 DEF Reads, Alive
  <2>3. CatalogTypeOK'
    <3>1. flow' \in [Key -> FlowRow \cup {NoRow}] BY <1>1, <1>6 DEF CatalogTypeOK
    <3>2. \A k \in Key : Stored(k)' /\ flow'[k].old => flow'[k].status = "deleted"
      BY <1>1, <2>1 DEF CatalogTypeOK, Stored
    <3>3. conv' \in [Conv -> ConvRow] BY <1>1, <1>6 DEF CatalogTypeOK, ConvRow
    <3>4. QED BY <1>1, <1>3, <1>4, <1>6, <3>1, <3>2, <3>3 DEF CatalogTypeOK
  <2>4. UniquePublished'
    <3>1. \A k \in Key : flow'[k].status = "published" => flow[k].status = "published"
      BY <2>1
    <3> SUFFICES ASSUME NEW j \in Key, NEW k \in Key, CodeOf(j) = CodeOf(k), j # k,
                        flow'[j].status = "published", flow'[k].status = "published"
                 PROVE  j \in mixed' \/ k \in mixed'
      BY DEF UniquePublished
    <3>2. j \in mixed \/ k \in mixed BY <3>1 DEF FlowsInv, UniquePublished
    <3>3. QED BY <1>3, <3>2
  <2>5. DeletedKept'
    <3> SUFFICES ASSUME NEW k \in gone, Alive(flow'[k].status) PROVE k \in mixed'
      BY <1>4 DEF DeletedKept
    <3>1. k \in Key BY <1>1 DEF CatalogTypeOK
    <3>2. flow'[k] = flow[k] BY <2>1, <3>1 DEF Alive
    <3>3. QED BY <1>3, <3>2 DEF FlowsInv, DeletedKept
  <2>6. BeatsKept'
    <3> SUFFICES ASSUME NEW b \in Beat
                 PROVE  /\ b \in relied' => beat[b] # NoKey
                        /\ beat[b] # NoKey => flow'[beat[b]].status # "absent"
                        /\ b \in relied' => Alive(flow'[beat[b]].status) \/ beat[b] \in mixed'
      BY <1>4 DEF BeatsKept
    <3>1. b \in relied' => b \in relied BY <1>6
    <3>2. beat[b] # NoKey => beat[b] \in Key /\ beat[b] \notin f.flows
      BY <1>1, <1>6 DEF CatalogTypeOK, BeatsOn
    <3>3. QED BY <1>3, <2>1, <3>1, <3>2 DEF FlowsInv, BeatsKept
  <2>7. ConvsKept'
    <3> SUFFICES ASSUME NEW c \in Conv, c \in relied'
                 PROVE  /\ conv'[c].flow \in Key
                        /\ conv'[c].status = "active" =>
                             \/ Alive(flow'[conv'[c].flow].status)
                             \/ conv'[c].flow \in mixed'
      BY DEF ConvsKept
    <3>1. c \in relied /\ conv'[c] = conv[c] BY <1>6
    <3>2. conv[c].flow \in Key BY <3>1 DEF FlowsInv, ConvsKept
    <3>3. QED BY <1>3, <2>1, <2>2, <3>1, <3>2 DEF FlowsInv, ConvsKept
  <2>8. RunsKept'
    <3> SUFFICES ASSUME NEW k \in Key, k \in relied'
                 PROVE  k \in runs /\ (flow'[k].status # "absent" \/ k \in mixed')
      BY <1>4 DEF RunsKept
    <3>1. k \in runs /\ (flow[k].status # "absent" \/ k \in mixed)
      BY <1>6 DEF FlowsInv, RunsKept
    <3>2. QED BY <1>3, <2>1, <2>2, <3>1
  <2>9. QED BY <1>3, <2>3, <2>4, <2>5, <2>6, <2>7, <2>8 DEF FlowsInv
<1>7. QED BY <1>0, <1>5, <1>6 DEF CommitPurge

-----------------------------------------------------------------------------
LEMMA CatalogInitially == CatalogInit => FlowsInv
<1> SUFFICES ASSUME CatalogInit PROVE FlowsInv OBVIOUS
<1>1. \A k \in Key : flow[k] = NoRow /\ flow[k].status = "absent"
  BY DEF CatalogInit, NoRow
<1>2. CatalogTypeOK
  BY <1>1, IdleReads DEF CatalogInit, CatalogTypeOK, ConvRow, Stored
<1>3. \A q \in Request : Reads(at[q]) BY IdleReads DEF CatalogInit
<1>4. UniquePublished /\ DeletedKept /\ BeatsKept /\ ConvsKept /\ RunsKept
  BY <1>1 DEF CatalogInit, UniquePublished, DeletedKept, BeatsKept, ConvsKept, RunsKept
<1>5. QED BY <1>2, <1>3, <1>4 DEF FlowsInv, CatalogInit

LEMMA FlowsInductive == FlowsInv /\ [CatalogNext]_catalogVars => FlowsInv'
<1> SUFFICES ASSUME FlowsInv, [CatalogNext]_catalogVars PROVE FlowsInv' OBVIOUS
<1>1. CASE UNCHANGED catalogVars
  <2>1. UNCHANGED <<tables, scope, history, at>> BY <1>1 DEF catalogVars, tables, history
  <2>2. \A q \in Request : Reads(at[q])'
    <3>1. UNCHANGED <<flow, beat, conv, runs>> BY <2>1 DEF tables
    <3>2. \A q \in Request : at'[q] = at[q] /\ Reads(at[q]) BY <2>1 DEF FlowsInv
    <3>3. QED BY <3>1, <3>2, SameReads DEF Reads
  <2>3. at' \in [Request -> Frame] BY <2>1 DEF FlowsInv, CatalogTypeOK
  <2>4. QED BY <2>1, <2>2, <2>3, FramesOnly
<1>2. CASE GrowOld BY <1>2, GrowOldKeeps
<1>3. ASSUME NEW q \in Request,
             \/ CommitInsert(q) \/ CommitPatch(q) \/ CommitPublish(q) \/ CommitDelete(q)
             \/ CommitBeat(q) \/ CommitConversation(q) \/ CommitSend(q) \/ StartRun(q)
             \/ CommitPurge(q)
      PROVE FlowsInv'
  BY <1>3, InsertKeeps, PatchKeeps, PublishKeeps, DeleteKeeps, BeatCommitKeeps,
     ConversationKeeps, SendKeeps, RunKeeps, PurgeKeeps
<1>4. CASE \E b \in Beat : DeleteBeat(b) BY <1>4, DeleteBeatKeeps
<1>5. CASE \E c \in Conv : DeleteConv(c) BY <1>5, DeleteConvKeeps
<1>6. ASSUME NEW q \in Request,
             \/ Purge(q)
             \/ \E c \in scope.codes, subs \in SUBSET scope.codes : CreateFlow(q, c, subs)
             \/ \E k \in Key :
                  \/ NewDraft(q, k) \/ PublishFlow(q, k) \/ DeleteFlow(q, k)
                  \/ \E subs \in SUBSET scope.codes : PatchFlow(q, k, subs)
                  \/ \E b \in Beat : CreateBeat(q, b, k)
                  \/ \E c \in Conv : SendMessage(q, c, k)
             \/ \E c \in Conv, k \in Key \cup {NoKey} : CreateConversation(q, c, k)
      PROVE FlowsInv'
  BY <1>6, ReadersKeep
<1>7. QED BY <1>1, <1>2, <1>3, <1>4, <1>5, <1>6 DEF CatalogNext

LEMMA FlowsInvariant == FlowsSpec => []FlowsInv
BY CatalogInitially, FlowsInductive, PTL DEF FlowsSpec

(* Two published versions of a code come only from a publication that was  *)
(* decided on rows another commit had changed since.                       *)
THEOREM PublishedOnce == FlowsSpec => []OnePublished
BY FlowsInvariant, InvImplies, PTL

(* An acknowledged deletion is undone only by such a publication.          *)
THEOREM DeletionHolds == FlowsSpec => []DeletedStaysDeleted
BY FlowsInvariant, InvImplies, PTL

(* Beat tasks, conversations and runs find the version they refer to, for  *)
(* any number of requests and however the purge falls between them, unless *)
(* that version was changed on a reading another commit had overtaken.     *)
THEOREM ReferencesHold == FlowsSpec => []ReferencesSurvive
BY FlowsInvariant, InvImplies, PTL

-----------------------------------------------------------------------------
(* Walks.  Walk(g, from) is the least set that contains from and, with a   *)
(* code, those it refers to: by the number of codes, no step is left to    *)
(* take at the end.                                                        *)

LEMMA LeastOf == ASSUME NEW S \in SUBSET Nat, S # {} PROVE \E x \in S : \A y \in S : x <= y
<1>1. \E R : R = {ss \in Nat \X Nat : ss[1] < ss[2]} /\ IsWellFoundedOn(R, Nat)
  BY NatLessThanWellFounded, Zenon DEF OpToRel
<1>2. PICK R : R = {ss \in Nat \X Nat : ss[1] < ss[2]} /\ IsWellFoundedOn(R, Nat) BY <1>1
<1>3. PICK x \in S : \A y \in S : ~(<<y, x>> \in R) BY <1>2, WFMin
<1>4. \A y \in S : ~(y < x) BY <1>2, <1>3
<1>5. QED BY <1>4

Graph == [Code -> SUBSET Code]
Onward(g, S) == S \cup UNION {g[c] : c \in S}
WalkIs(s, g, from, n) == s = [k \in 0 .. n |-> IF k = 0 THEN from ELSE Onward(g, s[k - 1])]
Closed(g, S) == \A c \in S : g[c] \subseteq S

LEMMA WalkDefined == ASSUME NEW g, NEW from, NEW n \in Nat PROVE \E s : WalkIs(s, g, from, n)
<1>1. PICK S : S = {k \in Nat : ~\E s : WalkIs(s, g, from, k)} OBVIOUS
<1>2. SUFFICES ASSUME S # {} PROVE FALSE BY <1>1
<1>3. PICK m \in S : \A k \in S : m <= k BY <1>1, <1>2, LeastOf
<1>4. m \in Nat /\ ~\E s : WalkIs(s, g, from, m) BY <1>1, <1>3
<1>5. CASE m = 0
  <2>1. WalkIs([k \in 0 .. 0 |-> from], g, from, 0) BY DEF WalkIs
  <2>2. QED BY <1>4, <1>5, <2>1
<1>6. CASE m # 0
  <2>1. m - 1 \in Nat /\ ~(m <= m - 1) BY <1>4, <1>6
  <2>2. PICK s : WalkIs(s, g, from, m - 1) BY <1>1, <1>3, <2>1
  <2>3. PICK t : t = [k \in 0 .. m |-> IF k = m THEN Onward(g, s[m - 1]) ELSE s[k]] OBVIOUS
  <2>4. ASSUME NEW k \in 0 .. m PROVE t[k] = IF k = 0 THEN from ELSE Onward(g, t[k - 1])
    <3>1. CASE k = m BY <1>4, <1>6, <2>1, <2>3, <3>1
    <3>2. CASE k # m
      <4>1. k \in 0 .. m - 1 /\ k \in 0 .. m BY <1>4, <3>2
      <4>2. t[k] = s[k] BY <2>3, <3>2
      <4>3. s[k] = IF k = 0 THEN from ELSE Onward(g, s[k - 1]) BY <2>2, <4>1 DEF WalkIs
      <4>4. k # 0 => k - 1 \in 0 .. m /\ k - 1 # m BY <1>4, <4>1
      <4>5. k # 0 => t[k - 1] = s[k - 1] BY <2>3, <4>4
      <4>6. QED BY <4>2, <4>3, <4>5
    <3>3. QED BY <3>1, <3>2
  <2>5. t = [k \in 0 .. m |-> t[k]] BY <2>3
  <2>6. WalkIs(t, g, from, m) BY <2>4, <2>5 DEF WalkIs
  <2>7. QED BY <1>4, <2>6
<1>7. QED BY <1>5, <1>6

LEMMA CodesAreFinite == IsFiniteSet(Code) /\ Cardinality(Code) \in Nat
BY CatalogAssumption, FS_CardinalityType

LEMMA WalkUnfolds ==
  ASSUME NEW g, NEW from
  PROVE  \E s : WalkIs(s, g, from, Cardinality(Code)) /\ Walk(g, from) = s[Cardinality(Code)]
<1>1. \E s : WalkIs(s, g, from, Cardinality(Code)) BY WalkDefined, CodesAreFinite
<1>2. QED BY <1>1, Zenon DEF WalkIs, Walk, Onward

LEMMA WalkSteps ==
  ASSUME NEW s, NEW g, NEW from, NEW n \in Nat, WalkIs(s, g, from, n)
  PROVE  s[0] = from /\ \A k \in 1 .. n : s[k] = Onward(g, s[k - 1])
<1>1. \A k \in 0 .. n : s[k] = IF k = 0 THEN from ELSE Onward(g, s[k - 1]) BY DEF WalkIs
<1>2. QED BY <1>1

(* A closed set that contains the beginning contains every step.           *)
LEMMA StepsStay ==
  ASSUME NEW s, NEW g, NEW from, NEW n \in Nat, WalkIs(s, g, from, n),
         NEW T, from \subseteq T, Closed(g, T)
  PROVE  \A k \in 0 .. n : s[k] \subseteq T
<1>1. PICK S : S = {k \in 0 .. n : ~(s[k] \subseteq T)} OBVIOUS
<1>2. SUFFICES ASSUME S # {} PROVE FALSE BY <1>1
<1>3. PICK m \in S : \A k \in S : m <= k BY <1>1, <1>2, LeastOf
<1>4. m \in 0 .. n /\ ~(s[m] \subseteq T) BY <1>1, <1>3
<1>5. m # 0 BY <1>4, WalkSteps
<1>6. m - 1 \in 0 .. n /\ ~(m <= m - 1) /\ m \in 1 .. n BY <1>4, <1>5
<1>7. s[m - 1] \subseteq T BY <1>1, <1>3, <1>6
<1>8. s[m] = Onward(g, s[m - 1]) BY <1>6, WalkSteps
<1>9. QED BY <1>4, <1>7, <1>8 DEF Onward, Closed

LEMMA StepsGrow ==
  ASSUME NEW s, NEW g, NEW from, NEW n \in Nat, WalkIs(s, g, from, n), NEW i \in 0 .. n
  PROVE  \A j \in i .. n : s[i] \subseteq s[j]
<1>1. PICK S : S = {k \in i .. n : ~(s[i] \subseteq s[k])} OBVIOUS
<1>2. SUFFICES ASSUME S # {} PROVE FALSE BY <1>1
<1>3. PICK m \in S : \A k \in S : m <= k BY <1>1, <1>2, LeastOf
<1>4. m \in i .. n /\ ~(s[i] \subseteq s[m]) BY <1>1, <1>3
<1>5. m # i BY <1>4
<1>6. m - 1 \in i .. n /\ ~(m <= m - 1) /\ m \in 1 .. n BY <1>4, <1>5
<1>7. s[i] \subseteq s[m - 1] BY <1>1, <1>3, <1>6
<1>8. s[m] = Onward(g, s[m - 1]) BY <1>6, WalkSteps
<1>9. QED BY <1>4, <1>7, <1>8 DEF Onward

LEMMA WalkStays ==
  ASSUME NEW g, NEW from, NEW T, from \subseteq T, Closed(g, T)
  PROVE  Walk(g, from) \subseteq T
<1>1. PICK n : n = Cardinality(Code) /\ n \in Nat BY CodesAreFinite
<1>2. PICK s : WalkIs(s, g, from, n) /\ Walk(g, from) = s[n] BY <1>1, WalkUnfolds
<1>3. QED BY <1>1, <1>2, StepsStay

LEMMA WalkIsClosed ==
  ASSUME NEW g \in Graph, NEW from \in SUBSET Code
  PROVE  from \subseteq Walk(g, from) /\ Walk(g, from) \subseteq Code /\ Closed(g, Walk(g, from))
<1>1. PICK n : n = Cardinality(Code) /\ n \in Nat BY CodesAreFinite
<1>2. PICK s : WalkIs(s, g, from, n) /\ Walk(g, from) = s[n] BY <1>1, WalkUnfolds
<1>3. \A k \in 0 .. n : s[k] \subseteq Code
  <2>1. Closed(g, Code) BY DEF Closed, Graph
  <2>2. QED BY <1>1, <1>2, <2>1, StepsStay
<1>4. \A k \in 0 .. n : IsFiniteSet(s[k]) /\ Cardinality(s[k]) \in Nat
  BY <1>3, CodesAreFinite, FS_Subset, FS_CardinalityType
<1>5. from \subseteq s[n]
  <2>1. 0 \in 0 .. n BY <1>1
  <2>2. \A j \in 0 .. n : s[0] \subseteq s[j] BY <1>1, <1>2, <2>1, StepsGrow
  <2>3. QED BY <1>1, <1>2, <2>2, WalkSteps
<1>6. PICK S : S = {k \in 0 .. n : Cardinality(s[k]) < k} OBVIOUS
<1>7. CASE S = {}
  <2>1. n \in 0 .. n BY <1>1
  <2>2. Cardinality(s[n]) >= n BY <1>4, <1>6, <1>7, <2>1
  <2>3. s[n] = Code
    <3>1. SUFFICES ASSUME s[n] # Code PROVE FALSE OBVIOUS
    <3>2. s[n] \in SUBSET Code /\ Cardinality(s[n]) \in Nat BY <1>3, <1>4, <2>1
    <3>3. Cardinality(s[n]) <= Cardinality(Code) /\ Cardinality(s[n]) # Cardinality(Code)
      BY <3>1, <3>2, CodesAreFinite, FS_Subset
    <3>4. QED BY <1>1, <2>2, <3>2, <3>3
  <2>4. QED BY <1>2, <1>5, <2>3 DEF Closed, Graph
<1>8. CASE S # {}
  <2>1. PICK m \in S : \A k \in S : m <= k BY <1>1, <1>6, <1>8, LeastOf
  <2>2. m \in 0 .. n /\ Cardinality(s[m]) < m BY <1>6, <2>1
  <2>3. m \in Nat /\ m <= n /\ m # 0 BY <1>1, <1>4, <2>2
  <2>4. m - 1 \in 0 .. n /\ ~(m <= m - 1) /\ m \in 1 .. n BY <1>1, <2>3
  <2>5. Cardinality(s[m - 1]) >= m - 1 BY <1>4, <1>6, <2>1, <2>4
  <2>6. s[m] = Onward(g, s[m - 1]) BY <1>1, <1>2, <2>4, WalkSteps
  <2>7. s[m - 1] = s[m]
    <3>1. SUFFICES ASSUME s[m - 1] # s[m] PROVE FALSE OBVIOUS
    <3>2. s[m - 1] \subseteq s[m] BY <2>6 DEF Onward
    <3>3. IsFiniteSet(s[m]) /\ s[m - 1] \in SUBSET s[m] BY <1>4, <2>2, <3>2
    <3>4. Cardinality(s[m - 1]) <= Cardinality(s[m]) /\ Cardinality(s[m - 1]) # Cardinality(s[m])
      BY <3>1, <3>3, FS_Subset
    <3>5. Cardinality(s[m - 1]) \in Nat /\ Cardinality(s[m]) \in Nat BY <1>4, <2>2, <2>4
    <3>6. QED BY <2>2, <2>4, <2>5, <3>4, <3>5
  <2>8. Closed(g, s[m]) BY <2>6, <2>7 DEF Onward, Closed
  <2>9. s[n] = s[m]
    <3>1. \A i \in 0 .. n : \A j \in i .. n : s[i] \subseteq s[j] BY <1>1, <1>2, StepsGrow
    <3>2. from \subseteq s[m] /\ s[m] \subseteq s[n]
      <4>1. s[0] = from BY <1>1, <1>2, WalkSteps
      <4>2. 0 \in 0 .. n /\ m \in 0 .. n /\ n \in m .. n BY <1>1, <2>2
      <4>3. QED BY <3>1, <4>1, <4>2
    <3>3. s[n] \subseteq s[m]
      <4>1. n \in 0 .. n BY <1>1
      <4>2. QED BY <1>1, <1>2, <2>8, <3>2, <4>1, StepsStay
    <3>4. QED BY <3>2, <3>3
  <2>10. QED BY <1>2, <1>3, <1>5, <2>2, <2>8, <2>9
<1>9. QED BY <1>7, <1>8

-----------------------------------------------------------------------------
(* Circles.  Among the codes none of whose versions is in mixed, each set  *)
(* has one that refers to no other of the set: there is no circle.  A      *)
(* request that has checked the references of a version still finds them   *)
(* so if nobody committed since.                                           *)
Clean(c) == \A k \in mixed : CodeOf(k) # c
NoCleanCircle ==
  \A C \in SUBSET Code :
    C # {} /\ (\A c \in C : Clean(c)) => \E c \in C : RefsOf(c) \cap C = {}
Finds(f) ==
  f.fresh =>
    /\ f.op = "publish" => CodeOf(f.key) \notin Reach(flow[f.key].refs)
    /\ f.op = "patch" => flow[f.key].status = "draft"
CircleInv == NoCleanCircle /\ \A q \in Request : Finds(at[q])

PublishedMean ==
  \A k \in Key, c \in Code :
    k \in Published(c) <=> CodeOf(k) = c /\ flow[k].status = "published"
LEMMA PublishedRows == CatalogTypeOK => PublishedMean
BY DEF CatalogTypeOK, Published, Versions, Stored, NoRow, PublishedMean

LEMMA CodesOfKeys == \A k \in Key : CodeOf(k) \in Code
BY DEF Key, CodeOf

(* The newest of some versions is one of them.                             *)
LEMMA NewestIsOne ==
  ASSUME NEW keys \in SUBSET Key, keys # {}
  PROVE  Newest(keys) \in keys
<1>1. MaxVersion \in Nat BY CatalogAssumption
<1>2. PICK S : S = {MaxVersion - k[2] : k \in keys} OBVIOUS
<1>3. \A k \in keys : k[2] \in 1 .. MaxVersion BY DEF Key
<1>4. S \in SUBSET Nat /\ S # {} BY <1>1, <1>2, <1>3
<1>5. PICK x \in S : \A y \in S : x <= y BY <1>4, LeastOf
<1>6. PICK k \in keys : x = MaxVersion - k[2] BY <1>2
<1>7. ASSUME NEW j \in keys PROVE j[2] <= k[2]
  <2>1. MaxVersion - k[2] <= MaxVersion - j[2] BY <1>2, <1>5, <1>6
  <2>2. QED BY <1>1, <1>3, <2>1
<1>8. QED BY <1>7 DEF Newest

LEMMA RefsAreCodes ==
  ASSUME CatalogTypeOK, NEW c \in Code
  PROVE  RefsOf(c) \in SUBSET Code
<1>1. CASE Published(c) = {} BY <1>1 DEF RefsOf
<1>2. CASE Published(c) # {}
  <2>1. Published(c) \in SUBSET Key BY DEF Published, Versions
  <2>2. PICK k \in Key : k = Latest(c) /\ k \in Published(c)
    BY <1>2, <2>1, NewestIsOne DEF Latest
  <2>3. flow[k] \in FlowRow BY <2>2, Rows DEF Published, Versions
  <2>4. QED BY <1>2, <2>2, <2>3 DEF RefsOf, FlowRow
<1>3. QED BY <1>1, <1>2

LEMMA ReferencesAreGraph == ASSUME CatalogTypeOK PROVE References \in Graph
BY RefsAreCodes DEF References, Graph

(* The codes that walk back to c.                                          *)
LEMMA CircleShows ==
  ASSUME CatalogTypeOK, NEW c \in Code, c \in Reach(RefsOf(c)),
         \A d \in Reach(RefsOf(c)) : c \in Reach(RefsOf(d)) => Clean(d)
  PROVE  ~NoCleanCircle
<1>1. PICK g \in Graph : g = References BY ReferencesAreGraph
<1>2. \A d \in Code : g[d] = RefsOf(d) /\ g[d] \in SUBSET Code BY <1>1 DEF References, Graph
<1>3. PICK W : W = Walk(g, g[c]) BY Zenon
<1>4. W = Reach(RefsOf(c)) BY <1>1, <1>2, <1>3 DEF Reach
<1>5. W \in SUBSET Code /\ Closed(g, W) /\ c \in W BY <1>2, <1>3, <1>4, WalkIsClosed
<1>6. PICK C : C = {d \in W : c \in Walk(g, g[d])} BY Zenon
<1>7. c \in C BY <1>3, <1>4, <1>5, <1>6
<1>8. ASSUME NEW d \in C, g[d] \cap C = {} PROVE FALSE
  <2>1. d \in Code /\ d \in W /\ c \in Walk(g, g[d]) BY <1>5, <1>6
  <2>2. g[d] \subseteq W BY <1>5, <2>1 DEF Closed
  <2>3. PICK T : T = {e \in Code : e \in g[d] \/ \E b \in g[d] : e \in Walk(g, g[b])} BY Zenon
  <2>4. g[d] \subseteq T BY <1>2, <2>1, <2>3
  <2>5. ASSUME NEW e \in T PROVE g[e] \subseteq T
    <3>1. CASE e \in g[d]
      <4>1. e \in Code /\ g[e] \subseteq Walk(g, g[e]) /\ g[e] \subseteq Code
        BY <1>2, <2>3, WalkIsClosed
      <4>2. QED BY <2>3, <3>1, <4>1
    <3>2. ASSUME NEW b \in g[d], e \in Walk(g, g[b]) PROVE g[e] \subseteq T
      <4>1. b \in Code /\ e \in Code BY <1>2, <2>1, <2>3
      <4>2. g[e] \subseteq Walk(g, g[b]) BY <1>2, <3>2, <4>1, WalkIsClosed DEF Closed
      <4>3. g[e] \subseteq Code BY <1>2, <4>1
      <4>4. QED BY <2>3, <3>2, <4>2, <4>3
    <3>3. QED BY <2>3, <3>1, <3>2
  <2>6. Walk(g, g[d]) \subseteq T BY <2>4, <2>5, WalkStays DEF Closed
  <2>7. c \notin g[d] BY <1>7, <1>8
  <2>8. PICK b \in g[d] : c \in Walk(g, g[b]) BY <2>1, <2>3, <2>6, <2>7
  <2>9. b \in C BY <1>6, <2>2, <2>8
  <2>10. QED BY <1>8, <2>9
<1>9. C \in SUBSET Code /\ (\A d \in C : Clean(d)) BY <1>1, <1>2, <1>4, <1>5, <1>6 DEF Reach
<1>10. \A d \in C : RefsOf(d) \cap C # {} BY <1>2, <1>8, <1>9
<1>11. QED BY <1>7, <1>9, <1>10 DEF NoCleanCircle

LEMMA CirclesAreExcused == CatalogTypeOK /\ NoCleanCircle => PublishedAcyclic
<1> SUFFICES ASSUME CatalogTypeOK, NoCleanCircle, NEW c \in Code, c \in Reach(RefsOf(c))
             PROVE  \E d \in Reach(RefsOf(c)) :
                      c \in Reach(RefsOf(d)) /\ \E k \in mixed : CodeOf(k) = d
  BY DEF PublishedAcyclic
<1>1. PICK d \in Reach(RefsOf(c)) : c \in Reach(RefsOf(d)) /\ ~Clean(d) BY CircleShows
<1>2. QED BY <1>1 DEF Clean

-----------------------------------------------------------------------------
(* Steps.                                                                  *)

(* No version is published, and none that is changes, but those in mixed.  *)
NothingPublished ==
  \A k \in Key : flow'[k].status = "published" /\ k \notin mixed' =>
    flow[k].status = "published" /\ flow'[k].refs = flow[k].refs

LEMMA CleanWas ==
  ASSUME mixed \subseteq mixed', NEW c, Clean(c)' PROVE Clean(c)
BY DEF Clean

(* Then what a clean code refers to only shrinks: it had one such version. *)
LEMMA FewerReferences ==
  ASSUME FlowsInv, FlowsInv', mixed \subseteq mixed', NEW c \in Code, Clean(c)',
         \A k \in Key : CodeOf(k) = c /\ flow'[k].status = "published" =>
           flow[k].status = "published" /\ flow'[k].refs = flow[k].refs
  PROVE  RefsOf(c)' \subseteq RefsOf(c)
<1>0. CatalogTypeOK /\ CatalogTypeOK' /\ UniquePublished BY DEF FlowsInv
<1>1. PublishedMean /\ PublishedMean' BY <1>0, PublishedRows, PTL
<1>2. CASE Published(c)' = {} BY <1>2 DEF RefsOf
<1>3. CASE Published(c)' # {}
  <2>1. PICK k \in Key : k \in Published(c)' BY <1>3 DEF Published, Versions
  <2>2. CodeOf(k) = c /\ flow'[k].status = "published" BY <1>1, <2>1 DEF PublishedMean
  <2>3. flow[k].status = "published" /\ flow'[k].refs = flow[k].refs BY <2>2
  <2>4. k \in Published(c) BY <1>1, <2>2, <2>3 DEF PublishedMean
  <2>5. \A j \in Key : j \in Published(c) => j = k
    <3>1. SUFFICES ASSUME NEW j \in Key, j \in Published(c) PROVE j = k OBVIOUS
    <3>2. CodeOf(j) = c /\ flow[j].status = "published" BY <1>1, <3>1 DEF PublishedMean
    <3>3. j \notin mixed /\ k \notin mixed BY <2>2, <3>2, CleanWas DEF Clean
    <3>4. QED BY <1>0, <2>2, <2>3, <3>2, <3>3 DEF UniquePublished
  <2>6. \A j \in Key : j \in Published(c)' => j \in Published(c)
    BY <1>1 DEF PublishedMean
  <2>7. Published(c) = {k} /\ Published(c)' = {k}
    BY <2>1, <2>4, <2>5, <2>6 DEF Published, Versions
  <2>8. Latest(c)' = Latest(c) BY <2>7 DEF Latest
  <2>9. Latest(c) = k BY <2>7, NewestIsOne DEF Latest
  <2>10. QED BY <1>3, <2>3, <2>7, <2>8, <2>9 DEF RefsOf
<1>4. QED BY <1>2, <1>3

LEMMA NothingNew ==
  ASSUME FlowsInv, FlowsInv', NoCleanCircle, mixed \subseteq mixed', NothingPublished
  PROVE  NoCleanCircle'
<1>1. SUFFICES ASSUME NEW C \in SUBSET Code, C # {}, \A c \in C : Clean(c)'
               PROVE  \E c \in C : RefsOf(c)' \cap C = {}
  BY DEF NoCleanCircle
<1>2. \A c \in C : Clean(c) BY <1>1, CleanWas
<1>3. PICK c \in C : RefsOf(c) \cap C = {} BY <1>1, <1>2 DEF NoCleanCircle
<1>4. \A k \in Key : CodeOf(k) = c => k \notin mixed' BY <1>1 DEF Clean
<1>5. RefsOf(c)' \subseteq RefsOf(c) BY <1>1, <1>4, FewerReferences DEF NothingPublished
<1>6. QED BY <1>3, <1>5

(* A commit leaves no fresh reading.                                       *)
LEMMA LeaveFinds ==
  ASSUME FlowsInv, NEW q \in Request, NEW keys \in SUBSET Key, Leave(q, keys)
  PROVE  /\ \A r \in Request : Finds(at[r])'
         /\ mixed \subseteq mixed'
         /\ ~at[q].fresh => keys \subseteq mixed'
<1>1. CatalogTypeOK BY DEF FlowsInv
<1>2. ASSUME NEW r \in Request PROVE Finds(at[r])'
  <2>1. CASE r = q \/ at[r] = Idle
    <3>1. at'[r] = Idle BY <2>1 DEF Leave
    <3>2. QED BY <3>1 DEF Finds, Idle
  <2>2. CASE r # q /\ at[r] # Idle
    <3>1. at[r] \in Frame BY <1>1 DEF CatalogTypeOK
    <3>2. at'[r] = [at[r] EXCEPT !.fresh = FALSE] BY <2>2 DEF Leave
    <3>3. at'[r].fresh = FALSE BY <2>2, <3>1, <3>2 DEF Frame, Idle
    <3>4. QED BY <3>3 DEF Finds
  <2>3. QED BY <2>1, <2>2
<1>3. QED BY <1>1, <1>2, LeaveFrames

LEMMA SameFlowPublishesNothing == UNCHANGED flow => NothingPublished
BY DEF NothingPublished

LEMMA InsertFinds ==
  ASSUME FlowsInv, NEW q \in Request, CommitInsert(q)
  PROVE  /\ NothingPublished /\ mixed \subseteq mixed'
         /\ \A r \in Request : Finds(at[r])'
<1>1. Leave(q, {}) /\ {} \in SUBSET Key BY DEF CommitInsert
<1>2. NothingPublished
  <2>1. CASE UNCHANGED flow BY <2>1, SameFlowPublishesNothing
  <2>2. CASE flow' = [flow EXCEPT ![at[q].key] = Draft(at[q].refs)]
    <3>1. flow \in [Key -> FlowRow \cup {NoRow}] BY DEF FlowsInv, CatalogTypeOK
    <3>2. \A k \in Key : flow'[k] = Draft(at[q].refs) \/ flow'[k] = flow[k] BY <2>2, <3>1
    <3>3. Draft(at[q].refs).status # "published" BY DEF Draft
    <3>4. QED BY <3>2, <3>3 DEF NothingPublished
  <2>3. QED BY <2>1, <2>2 DEF CommitInsert
<1>3. QED BY <1>1, <1>2, LeaveFinds

LEMMA PatchFinds ==
  ASSUME FlowsInv, NEW q \in Request, Finds(at[q]), CommitPatch(q)
  PROVE  /\ NothingPublished /\ mixed \subseteq mixed'
         /\ \A r \in Request : Finds(at[r])'
<1>1. CatalogTypeOK /\ at[q] \in Frame /\ at[q].op = "patch"
  BY DEF FlowsInv, CatalogTypeOK, CommitPatch
<1>2. PICK x \in Key : x = at[q].key BY <1>1 DEF Frame, Idle
<1>3. Leave(q, {x}) /\ {x} \in SUBSET Key BY <1>2 DEF CommitPatch
<1>4. /\ \A r \in Request : Finds(at[r])'
      /\ mixed \subseteq mixed' /\ (~at[q].fresh => x \in mixed')
  BY <1>3, LeaveFinds
<1>5. NothingPublished
  <2>1. CASE UNCHANGED flow BY <2>1, SameFlowPublishesNothing
  <2>2. CASE Stored(x) /\ flow' = [flow EXCEPT ![x].refs = at[q].refs]
    <3>1. flow \in [Key -> FlowRow \cup {NoRow}] BY <1>1 DEF CatalogTypeOK
    <3>2. flow[x] \in FlowRow BY <1>1, <2>2, Rows
    <3>3. \A k \in Key : k # x => flow'[k] = flow[k] BY <2>2, <3>1
    <3>4. flow'[x].status = flow[x].status BY <2>2, <3>1, <3>2 DEF FlowRow
    <3>5. at[q].fresh => flow[x].status = "draft" BY <1>1, <1>2 DEF Finds
    <3>6. QED BY <1>4, <3>3, <3>4, <3>5 DEF NothingPublished
  <2>3. QED BY <1>2, <2>1, <2>2 DEF CommitPatch
<1>6. QED BY <1>4, <1>5

LEMMA DeleteFinds ==
  ASSUME FlowsInv, NEW q \in Request, CommitDelete(q)
  PROVE  /\ NothingPublished /\ mixed \subseteq mixed'
         /\ \A r \in Request : Finds(at[r])'
<1>1. CatalogTypeOK /\ at[q] \in Frame /\ at[q].op = "delete"
  BY DEF FlowsInv, CatalogTypeOK, CommitDelete
<1>2. PICK x \in Key : x = at[q].key BY <1>1 DEF Frame, Idle
<1>3. Leave(q, {x}) /\ {x} \in SUBSET Key BY <1>2 DEF CommitDelete
<1>4. NothingPublished
  <2>1. CASE UNCHANGED flow BY <2>1, SameFlowPublishesNothing
  <2>2. CASE Stored(x) /\ flow' = [flow EXCEPT ![x].status = "deleted", ![x].old = FALSE]
    <3>1. flow \in [Key -> FlowRow \cup {NoRow}] BY <1>1 DEF CatalogTypeOK
    <3>2. flow[x] \in FlowRow BY <1>1, <2>2, Rows
    <3>3. \A k \in Key : k # x => flow'[k] = flow[k] BY <2>2, <3>1
    <3>4. flow'[x].status = "deleted" BY <2>2, <3>1, <3>2 DEF FlowRow
    <3>5. QED BY <3>3, <3>4 DEF NothingPublished
  <2>3. QED BY <1>2, <2>1, <2>2 DEF CommitDelete
<1>5. QED BY <1>3, <1>4, LeaveFinds

LEMMA PurgeFinds ==
  ASSUME FlowsInv, NEW q \in Request, CommitPurge(q)
  PROVE  /\ NothingPublished /\ mixed \subseteq mixed'
         /\ \A r \in Request : Finds(at[r])'
<1>1. at[q] \in Frame /\ at[q].op = "purge" BY DEF FlowsInv, CatalogTypeOK, CommitPurge
<1>2. PICK xs \in SUBSET Key : xs = at[q].flows BY <1>1 DEF Frame, Idle
<1>3. Leave(q, xs) BY <1>2 DEF CommitPurge
<1>4. NothingPublished
  <2>1. CASE UNCHANGED flow BY <2>1, SameFlowPublishesNothing
  <2>2. CASE flow' = [k \in Key |-> IF k \in xs THEN NoRow ELSE flow[k]]
    BY <2>2 DEF NothingPublished, NoRow
  <2>3. QED BY <1>2, <2>1, <2>2 DEF CommitPurge
<1>5. QED BY <1>3, <1>4, LeaveFinds

LEMMA OthersFind ==
  ASSUME FlowsInv, NEW q \in Request,
         CommitBeat(q) \/ CommitConversation(q) \/ StartRun(q)
  PROVE  /\ NothingPublished /\ mixed \subseteq mixed'
         /\ \A r \in Request : Finds(at[r])'
<1>1. at[q] \in Frame /\ at[q].op \in {"beat", "talk", "start"} /\ UNCHANGED flow
  BY DEF FlowsInv, CatalogTypeOK, CommitBeat, CommitConversation, StartRun
<1>2. at[q].key \in Key \cup {NoKey} /\ (at[q].op # "talk" => at[q].key \in Key)
  BY <1>1 DEF Frame, Idle
<1>3. PICK xs \in SUBSET Key : Leave(q, xs)
  BY <1>1, <1>2 DEF CommitBeat, CommitConversation, StartRun
<1>4. QED BY <1>1, <1>3, LeaveFinds, SameFlowPublishesNothing

LEMMA SendFinds ==
  ASSUME FlowsInv, NEW q \in Request, CommitSend(q)
  PROVE  /\ NothingPublished /\ mixed \subseteq mixed'
         /\ \A r \in Request : Finds(at[r])'
<1>1. CatalogTypeOK /\ at[q] \in Frame /\ at[q].op = "send"
  BY DEF FlowsInv, CatalogTypeOK, CommitSend
<1>2. ASSUME NEW r \in Request PROVE Finds(at[r])'
  <2>1. CASE r = q
    <3>1. at'[r] = [at[q] EXCEPT !.op = "start"] BY <2>1 DEF CommitSend
    <3>2. at'[r].op = "start" BY <1>1, <3>1 DEF Frame, Idle
    <3>3. QED BY <3>2 DEF Finds
  <2>2. CASE r # q /\ at[r] = Idle
    <3>1. at'[r] = Idle BY <2>2 DEF CommitSend
    <3>2. QED BY <3>1 DEF Finds, Idle
  <2>3. CASE r # q /\ at[r] # Idle
    <3>1. at[r] \in Frame BY <1>1 DEF CatalogTypeOK
    <3>2. at'[r] = [at[r] EXCEPT !.fresh = FALSE] BY <2>3 DEF CommitSend
    <3>3. at'[r].fresh = FALSE BY <2>3, <3>1, <3>2 DEF Frame, Idle
    <3>4. QED BY <3>3 DEF Finds
  <2>4. QED BY <2>1, <2>2, <2>3
<1>3. mixed \subseteq mixed' /\ UNCHANGED flow BY DEF CommitSend
<1>4. QED BY <1>2, <1>3, SameFlowPublishesNothing

(* What a publication writes.                                              *)
Publishes(q, x, xs) ==
  /\ x = at[q].key /\ xs = at[q].siblings /\ at[q].op = "publish"
  /\ Leave(q, {x} \cup xs)
  /\ \A k \in Key : k # x => flow'[k] = flow[k] \/ flow'[k].status = "archived"
  /\ \A k \in Key : k # x /\ k \notin xs => flow'[k] = flow[k]
  /\ \A k \in Key : k # x /\ k \in xs => flow'[k].status # "published"
  /\ flow'[x].status = "published" => flow'[x].refs = flow[x].refs

LEMMA PublishWrites ==
  ASSUME FlowsInv, NEW q \in Request, CommitPublish(q)
  PROVE  \E x \in Key, xs \in SUBSET Key : Publishes(q, x, xs)
<1>1. CatalogTypeOK /\ at[q] \in Frame /\ at[q].op = "publish"
  BY DEF FlowsInv, CatalogTypeOK, CommitPublish
<1>2. PICK x \in Key, xs \in SUBSET Key : x = at[q].key /\ xs = at[q].siblings
  BY <1>1 DEF Frame, Idle
<1>3. flow' = [k \in Key |->
        IF ~Stored(k) THEN NoRow
        ELSE IF k = x THEN [flow[k] EXCEPT !.status = "published", !.old = FALSE]
        ELSE IF k \in xs THEN [flow[k] EXCEPT !.status = "archived", !.old = FALSE]
        ELSE flow[k]]
  BY <1>2 DEF CommitPublish
<1>4. ASSUME NEW k \in Key
      PROVE  /\ k # x => flow'[k] = flow[k] \/ flow'[k].status = "archived"
             /\ k # x /\ k \notin xs => flow'[k] = flow[k]
             /\ k # x /\ k \in xs => flow'[k].status # "published"
             /\ k = x /\ flow'[x].status = "published" => flow'[x].refs = flow[x].refs
  <2>1. CASE ~Stored(k)
    <3>1. flow'[k] = NoRow /\ flow[k] = NoRow BY <1>3, <2>1 DEF Stored
    <3>2. QED BY <3>1 DEF NoRow
  <2>2. CASE Stored(k)
    <3>1. flow[k] \in FlowRow BY <1>1, <2>2, Rows
    <3>2. flow'[k] = IF k = x THEN [flow[k] EXCEPT !.status = "published", !.old = FALSE]
                     ELSE IF k \in xs THEN [flow[k] EXCEPT !.status = "archived", !.old = FALSE]
                     ELSE flow[k]
      BY <1>3, <2>2
    <3>3. [flow[k] EXCEPT !.status = "archived", !.old = FALSE].status = "archived"
      BY <3>1 DEF FlowRow
    <3>4. [flow[k] EXCEPT !.status = "published", !.old = FALSE].refs = flow[k].refs
      BY <3>1 DEF FlowRow
    <3>5. QED BY <3>2, <3>3, <3>4
  <2>3. QED BY <2>1, <2>2
<1>5. Leave(q, {x} \cup xs) BY <1>2 DEF CommitPublish
<1>6. Publishes(q, x, xs) BY <1>1, <1>2, <1>4, <1>5 DEF Publishes
<1>7. QED BY <1>6

(* A publication that was overtaken pays with mixed.                       *)
LEMMA StalePublishFinds ==
  ASSUME FlowsInv, NEW q \in Request, CommitPublish(q), ~at[q].fresh
  PROVE  NothingPublished
<1>0. PICK x \in Key, xs \in SUBSET Key : Publishes(q, x, xs) BY PublishWrites
<1>1. /\ Leave(q, {x} \cup xs)
      /\ \A k \in Key : k # x /\ k \notin xs => flow'[k] = flow[k]
  BY <1>0 DEF Publishes
<1>2. {x} \cup xs \subseteq mixed' BY <1>1, LeaveFinds
<1>3. QED BY <1>1, <1>2 DEF NothingPublished

(* A fresh one closes no circle: the new references do not lead back.      *)
LEMMA FreshPublishFinds ==
  ASSUME FlowsInv, FlowsInv', NoCleanCircle, NEW q \in Request, Finds(at[q]),
         CommitPublish(q), at[q].fresh
  PROVE  NoCleanCircle'
<1>0. PICK x \in Key, xs \in SUBSET Key : Publishes(q, x, xs) BY PublishWrites
<1>1. /\ x = at[q].key /\ xs = at[q].siblings /\ at[q].op = "publish"
      /\ Leave(q, {x} \cup xs)
      /\ \A k \in Key : k # x => flow'[k] = flow[k] \/ flow'[k].status = "archived"
      /\ \A k \in xs : k # x => flow'[k].status # "published"
      /\ flow'[x].status = "published" => flow'[x].refs = flow[x].refs
  BY <1>0 DEF Publishes
<1>2. CatalogTypeOK /\ CatalogTypeOK' /\ mixed \subseteq mixed' /\ PublishedMean /\ PublishedMean'
  <2>1. mixed \subseteq mixed' BY <1>1, LeaveFinds
  <2>2. CatalogTypeOK /\ CatalogTypeOK' BY DEF FlowsInv
  <2>3. PublishedMean /\ PublishedMean' BY <2>2, PublishedRows, PTL
  <2>4. QED BY <2>1, <2>2, <2>3
<1>3. PICK code \in Code : code = CodeOf(x) BY CodesOfKeys
<1>4. flow[x].status = "draft" /\ xs = PublishedSiblings(x) /\ code \notin Reach(flow[x].refs)
  BY <1>1, <1>3 DEF FlowsInv, Reads, Finds
<1>5. flow[x] \in FlowRow BY <1>2, <1>4, Rows
<1>6. PICK R \in SUBSET Code : R = flow[x].refs BY <1>5 DEF FlowRow
<1>7. RefsOf(code)' \subseteq R
  <2>1. CASE Published(code)' = {} BY <2>1 DEF RefsOf
  <2>2. CASE Published(code)' # {}
    <3>1. ASSUME NEW k \in Key, k \in Published(code)', k # x PROVE FALSE
      <4>1. CodeOf(k) = code /\ flow'[k].status = "published" BY <1>2, <3>1 DEF PublishedMean
      <4>2. flow[k].status = "published" BY <1>1, <3>1, <4>1
      <4>3. k \in xs BY <1>2, <1>3, <1>4, <3>1, <4>1, <4>2 DEF PublishedMean, PublishedSiblings
      <4>4. QED BY <1>1, <3>1, <4>1, <4>3
    <3>2. Published(code)' = {x} BY <2>2, <3>1 DEF Published, Versions
    <3>3. x \in Published(code)' BY <3>2
    <3>4. flow'[x].status = "published" BY <1>2, <3>3 DEF PublishedMean
    <3>5. Latest(code)' = x BY <3>2, NewestIsOne DEF Latest
    <3>6. QED BY <1>1, <1>6, <2>2, <3>4, <3>5 DEF RefsOf
  <2>3. QED BY <2>1, <2>2
<1>8. ASSUME NEW c \in Code, c # code, Clean(c)' PROVE RefsOf(c)' \subseteq RefsOf(c)
  <2>1. \A k \in Key : CodeOf(k) = c /\ flow'[k].status = "published" =>
          flow[k].status = "published" /\ flow'[k].refs = flow[k].refs
    BY <1>1, <1>3, <1>8
  <2>2. QED BY <1>2, <1>8, <2>1, FewerReferences
<1>9. PICK g \in Graph : g = References BY <1>2, ReferencesAreGraph
<1>10. PICK W : W = Walk(g, R) BY Zenon
<1>11. W \subseteq Code /\ R \subseteq W /\ Closed(g, W) /\ code \notin W
  BY <1>4, <1>6, <1>9, <1>10, WalkIsClosed DEF Reach
<1>12. SUFFICES ASSUME NEW C \in SUBSET Code, C # {}, \A c \in C : Clean(c)',
                       \A c \in C : RefsOf(c)' \cap C # {}
                PROVE  FALSE
  BY DEF NoCleanCircle
<1>13. \A c \in C : Clean(c) BY <1>2, <1>12, CleanWas
<1>14. CASE code \notin C
  <2>1. PICK c \in C : RefsOf(c) \cap C = {} BY <1>12, <1>13 DEF NoCleanCircle
  <2>2. RefsOf(c)' \subseteq RefsOf(c) BY <1>8, <1>12, <1>14
  <2>3. QED BY <1>12, <2>1, <2>2
<1>15. CASE code \in C
  <2>1. C \cap W # {} BY <1>7, <1>11, <1>12, <1>15
  <2>2. PICK c \in C \cap W : RefsOf(c) \cap (C \cap W) = {}
    BY <1>13, <2>1 DEF NoCleanCircle
  <2>3. c \in Code /\ c # code BY <1>11, <2>2
  <2>4. RefsOf(c)' \subseteq RefsOf(c) BY <1>8, <1>12, <2>3
  <2>5. PICK d \in C : d \in RefsOf(c)' BY <1>12
  <2>6. g[c] = RefsOf(c) BY <1>9, <2>3 DEF References
  <2>7. d \in W BY <1>11, <2>2, <2>4, <2>5, <2>6 DEF Closed
  <2>8. QED BY <2>2, <2>4, <2>5, <2>7
<1>16. QED BY <1>14, <1>15

LEMMA PublishFinds ==
  ASSUME FlowsInv, FlowsInv', NoCleanCircle, NEW q \in Request, Finds(at[q]), CommitPublish(q)
  PROVE  NoCleanCircle' /\ \A r \in Request : Finds(at[r])'
<1>1. PICK keys \in SUBSET Key : Leave(q, keys)
  <2>1. PICK x \in Key, xs \in SUBSET Key : Publishes(q, x, xs) BY PublishWrites
  <2>2. {x} \cup xs \in SUBSET Key /\ Leave(q, {x} \cup xs) BY <2>1 DEF Publishes
  <2>3. QED BY <2>2
<1>2. mixed \subseteq mixed' /\ \A r \in Request : Finds(at[r])' BY <1>1, LeaveFinds
<1>3. QED BY <1>2, StalePublishFinds, FreshPublishFinds, NothingNew

LEMMA SameReach ==
  ASSUME UNCHANGED flow, NEW S PROVE Reach(S)' = Reach(S)
<1>1. \A c \in Code : Published(c)' = Published(c) BY DEF Published, Versions, Stored
<1>2. \A c \in Code : RefsOf(c)' = RefsOf(c) BY <1>1 DEF RefsOf, Latest
<1>3. References' = References BY <1>2 DEF References
<1>4. QED BY <1>3 DEF Reach

LEMMA SameFlowFinds ==
  ASSUME UNCHANGED flow, NEW f, Finds(f)
  PROVE  Finds(f)'
<1>1. PICK S : S = flow[f.key].refs OBVIOUS
<1>2. Reach(S)' = Reach(S) BY SameReach
<1>3. flow'[f.key].refs = S BY <1>1
<1>4. QED BY <1>1, <1>2, <1>3 DEF Finds

LEMMA EnterFinds ==
  ASSUME FlowsInv, CircleInv, NEW q \in Request, NEW f, Enter(q, f), Finds(f)
  PROVE  /\ NothingPublished /\ mixed \subseteq mixed'
         /\ \A r \in Request : Finds(at[r])'
<1>1. UNCHANGED <<flow, mixed>> /\ at' = [at EXCEPT ![q] = f] BY DEF Enter, tables, history
<1>2. ASSUME NEW r \in Request PROVE Finds(at[r])'
  <2>1. Finds(at'[r]) BY <1>1 DEF FlowsInv, CatalogTypeOK, CircleInv
  <2>2. PICK g : g = at'[r] OBVIOUS
  <2>3. Finds(g)' BY <1>1, <2>1, <2>2, SameFlowFinds
  <2>4. QED BY <2>2, <2>3 DEF Finds
<1>3. QED BY <1>1, <1>2, SameFlowPublishesNothing

(* What a request finds when it reads.                                     *)
LEMMA ReadersFind ==
  ASSUME FlowsInv, CircleInv, NEW q \in Request,
         \/ \E c \in scope.codes, subs \in SUBSET scope.codes : CreateFlow(q, c, subs)
         \/ \E k \in Key :
              \/ NewDraft(q, k) \/ PublishFlow(q, k) \/ DeleteFlow(q, k)
              \/ \E subs \in SUBSET scope.codes : PatchFlow(q, k, subs)
              \/ \E b \in Beat : CreateBeat(q, b, k)
              \/ \E c \in Conv : SendMessage(q, c, k)
         \/ \E c \in Conv, k \in Key \cup {NoKey} : CreateConversation(q, c, k)
         \/ Purge(q)
  PROVE  /\ NothingPublished /\ mixed \subseteq mixed'
         /\ \A r \in Request : Finds(at[r])'
<1>1. ASSUME NEW c, NEW subs, CreateFlow(q, c, subs) PROVE \E f : Enter(q, f) /\ Finds(f)
  BY <1>1 DEF CreateFlow, Finds
<1>2. ASSUME NEW k \in Key, NewDraft(q, k) PROVE \E f : Enter(q, f) /\ Finds(f)
  BY <1>2 DEF NewDraft, Finds
<1>3. ASSUME NEW k \in Key, PublishFlow(q, k) PROVE \E f : Enter(q, f) /\ Finds(f)
  BY <1>3 DEF PublishFlow, Finds, RefsAndNoCycle, WalkRefs
<1>4. ASSUME NEW k \in Key, DeleteFlow(q, k) PROVE \E f : Enter(q, f) /\ Finds(f)
  BY <1>4 DEF DeleteFlow, Finds
<1>5. ASSUME NEW k \in Key, NEW subs, PatchFlow(q, k, subs) PROVE \E f : Enter(q, f) /\ Finds(f)
  BY <1>5 DEF PatchFlow, Finds
<1>6. ASSUME NEW k \in Key, NEW b, CreateBeat(q, b, k) PROVE \E f : Enter(q, f) /\ Finds(f)
  BY <1>6 DEF CreateBeat, Finds
<1>7. ASSUME NEW k \in Key, NEW c, SendMessage(q, c, k) PROVE \E f : Enter(q, f) /\ Finds(f)
  BY <1>7 DEF SendMessage, Finds
<1>8. ASSUME NEW c, NEW k, CreateConversation(q, c, k) PROVE \E f : Enter(q, f) /\ Finds(f)
  BY <1>8 DEF CreateConversation, Finds
<1>9. ASSUME Purge(q) PROVE \E f : Enter(q, f) /\ Finds(f)
  BY <1>9 DEF Purge, Finds
<1>10. PICK f : Enter(q, f) /\ Finds(f)
  BY <1>1, <1>2, <1>3, <1>4, <1>5, <1>6, <1>7, <1>8, <1>9
<1>11. QED BY <1>10, EnterFinds

LEMMA GrowOldFinds ==
  ASSUME FlowsInv, CircleInv, GrowOld
  PROVE  /\ NothingPublished /\ mixed \subseteq mixed'
         /\ \A r \in Request : Finds(at[r])'
<1>1. UNCHANGED <<at, mixed>> BY DEF GrowOld, history
<1>2. \A r \in Request : Finds(at[r])' BY <1>1 DEF GrowOld, Finds, Idle
<1>3. ASSUME NEW k \in Key, flow'[k].status = "published"
      PROVE  flow[k].status = "published" /\ flow'[k].refs = flow[k].refs
  <2>1. flow'[k] = IF Retired(k) THEN [flow[k] EXCEPT !.old = TRUE] ELSE flow[k] BY DEF GrowOld
  <2>2. CASE Retired(k)
    <3>1. flow[k] \in FlowRow /\ flow[k].status = "deleted"
      BY <2>2, Rows DEF Retired, FlowsInv
    <3>2. flow'[k].status = "deleted" BY <2>1, <2>2, <3>1 DEF FlowRow
    <3>3. QED BY <1>3, <3>2
  <2>3. CASE ~Retired(k) BY <1>3, <2>1, <2>3
  <2>4. QED BY <2>2, <2>3
<1>4. QED BY <1>1, <1>2, <1>3 DEF NothingPublished

LEMMA CirclesInductive ==
  FlowsInv /\ FlowsInv' /\ CircleInv /\ [CatalogNext]_catalogVars => CircleInv'
<1> SUFFICES ASSUME FlowsInv, FlowsInv', CircleInv, [CatalogNext]_catalogVars
             PROVE  NoCleanCircle' /\ \A r \in Request : Finds(at[r])'
  BY DEF CircleInv
<1>1. NoCleanCircle /\ \A r \in Request : Finds(at[r]) BY DEF CircleInv
<1>2. SUFFICES \/ /\ NothingPublished /\ mixed \subseteq mixed'
                  /\ \A r \in Request : Finds(at[r])'
               \/ NoCleanCircle' /\ \A r \in Request : Finds(at[r])'
  BY <1>1, NothingNew
<1>3. CASE UNCHANGED <<flow, at, mixed>>
  <2>1. ASSUME NEW r \in Request PROVE Finds(at[r])'
    <3>1. PICK f : f = at[r] OBVIOUS
    <3>2. Finds(f)' BY <1>1, <1>3, <3>1, SameFlowFinds
    <3>3. QED BY <1>3, <3>1, <3>2 DEF Finds
  <2>2. QED BY <1>3, <2>1, SameFlowPublishesNothing
<1>4. CASE GrowOld BY <1>4, GrowOldFinds
<1>5. ASSUME NEW q \in Request, CommitPublish(q)
      PROVE  NoCleanCircle' /\ \A r \in Request : Finds(at[r])'
  BY <1>1, <1>5, PublishFinds
<1>6. ASSUME NEW q \in Request,
             \/ CommitInsert(q) \/ CommitPatch(q) \/ CommitDelete(q) \/ CommitBeat(q)
             \/ CommitConversation(q) \/ CommitSend(q) \/ StartRun(q) \/ CommitPurge(q)
      PROVE  /\ NothingPublished /\ mixed \subseteq mixed'
             /\ \A r \in Request : Finds(at[r])'
  BY <1>1, <1>6, InsertFinds, PatchFinds, DeleteFinds, OthersFind, SendFinds, PurgeFinds
<1>7. ASSUME NEW q \in Request,
             \/ \E c \in scope.codes, subs \in SUBSET scope.codes : CreateFlow(q, c, subs)
             \/ \E k \in Key :
                  \/ NewDraft(q, k) \/ PublishFlow(q, k) \/ DeleteFlow(q, k)
                  \/ \E subs \in SUBSET scope.codes : PatchFlow(q, k, subs)
                  \/ \E b \in Beat : CreateBeat(q, b, k)
                  \/ \E c \in Conv : SendMessage(q, c, k)
             \/ \E c \in Conv, k \in Key \cup {NoKey} : CreateConversation(q, c, k)
             \/ Purge(q)
      PROVE  /\ NothingPublished /\ mixed \subseteq mixed'
             /\ \A r \in Request : Finds(at[r])'
  BY <1>7, ReadersFind
<1>8. ASSUME NEW b \in Beat, DeleteBeat(b) PROVE UNCHANGED <<flow, at, mixed>>
  BY <1>8 DEF DeleteBeat
<1>9. ASSUME NEW c \in Conv, DeleteConv(c) PROVE UNCHANGED <<flow, at, mixed>>
  BY <1>9 DEF DeleteConv, history
<1>10. QED
  BY <1>3, <1>4, <1>5, <1>6, <1>7, <1>8, <1>9 DEF CatalogNext, catalogVars

LEMMA CirclesInitially == CatalogInit => CircleInv
<1> SUFFICES ASSUME CatalogInit PROVE CircleInv OBVIOUS
<1>1. \A c \in Code : RefsOf(c) = {} BY DEF CatalogInit, RefsOf, Published, Versions, Stored
<1>2. \A q \in Request : Finds(at[q]) BY DEF CatalogInit, Finds, Idle
<1>3. QED BY <1>1, <1>2 DEF CircleInv, NoCleanCircle

(* The published flows never call each other in a circle, unless a version *)
(* on it was patched or published on a reading that was overtaken: for any *)
(* number of codes, versions and requests.                                 *)
THEOREM PublishedStayAcyclic == FlowsSpec => []PublishedAcyclic
<1>1. FlowsInv /\ CircleInv => PublishedAcyclic
  BY CirclesAreExcused DEF FlowsInv, CircleInv
<1>2. QED
  BY <1>1, FlowsInvariant, CirclesInitially, CirclesInductive, PTL DEF FlowsSpec

-----------------------------------------------------------------------------
(* What a request has read, as long as nobody else has committed.          *)
StillSo(w) ==
  /\ w.op = "create" => w.row \notin rows /\ w.refs \subseteq rows
  /\ w.op = "patch" => w.row \in rows /\ w.refs \subseteq rows \cup blurred
  /\ w.op = "patchLlm" => /\ w.row \in rows
                          /\ ~w.given \/ "config" \notin w.columns => w.key = model[w.row].key
  /\ w.op = "delete" => ~InUse(w.row)
  /\ w.op \in {"bind", "task", "talk"} => w.row \in rows
Fits(w) ==
  /\ w.op \in {"patch", "bind"} => w.row \in Resource
  /\ w.fresh => StillSo(w)

AgentTyped ==
  /\ rows \subseteq ConfigRow /\ assets \subseteq ConfigRow
  /\ refs \in [ConfigRow -> SUBSET ConfigRow]
  /\ model \in [Llm -> [active : BOOLEAN, key : ApiKey]]
  /\ task \in [Task -> Profile \cup {NoProfile}]
  /\ talk \in [Talk -> [status : {"absent", "active", "deleted"},
                        profile : Profile \cup {NoProfile}]]
  /\ supplied \in [Llm -> ApiKey]
  /\ doing \in [Handler -> Work]

AgentInv ==
  /\ AgentTyped
  /\ \A h \in Handler : Fits(doing[h])
  /\ ReferencesResolve /\ EntriesMatchRows /\ KeyIsLastSupplied

LEMMA AtRestFits == AtRest \in Work /\ AtRest.op = "rest" /\ Fits(AtRest)
BY DEF AtRest, Work, Fits, StillSo

LEMMA AgentsInitially == AgentInit => AgentInv
<1> SUFFICES ASSUME AgentInit PROVE AgentInv OBVIOUS
<1>1. AgentTyped BY AtRestFits DEF AgentInit, AgentTyped, ApiKey
<1>2. \A h \in Handler : Fits(doing[h]) BY AtRestFits DEF AgentInit
<1>3. ReferencesResolve BY DEF AgentInit, ReferencesResolve
<1>4. EntriesMatchRows BY DEF AgentInit, EntriesMatchRows
<1>5. KeyIsLastSupplied BY DEF AgentInit, KeyIsLastSupplied
<1>6. QED BY <1>1, <1>2, <1>3, <1>4, <1>5 DEF AgentInv

(* A request begins with what it has just read.                            *)
LEMMA BeginKeeps ==
  ASSUME AgentInv, NEW h \in Handler, NEW w \in Work, Begin(h, w), Fits(w)
  PROVE  AgentInv'
<1>1. /\ doing' = [doing EXCEPT ![h] = w]
      /\ rows' = rows /\ refs' = refs /\ assets' = assets /\ bound' = bound /\ kind' = kind
      /\ model' = model /\ task' = task /\ talk' = talk
      /\ blurred' = blurred /\ supplied' = supplied
  BY DEF Begin, agentTables
<1>2. AgentTyped' BY <1>1 DEF AgentInv, AgentTyped
<1>3. \A v : Fits(v)' = Fits(v)
  BY <1>1 DEF Fits, StillSo, InUse, ReferringRows, ActiveTalks
<1>4. \A g \in Handler : Fits(doing'[g])
  <2>1. \A g \in Handler : doing'[g] = IF g = h THEN w ELSE doing[g]
    BY <1>1 DEF AgentInv, AgentTyped
  <2>2. QED BY <2>1 DEF AgentInv
<1>5. \A g \in Handler : Fits(doing[g])' BY <1>3, <1>4
<1>6. ReferencesResolve' /\ EntriesMatchRows' /\ KeyIsLastSupplied'
  BY <1>1 DEF AgentInv, ReferencesResolve, EntriesMatchRows, KeyIsLastSupplied
<1>7. QED BY <1>2, <1>5, <1>6 DEF AgentInv

LEMMA CreateRowKeeps ==
  ASSUME AgentInv, NEW h \in Handler, NEW x \in ConfigRow, NEW ys \in SUBSET ConfigRow,
         NEW k \in ToolKind, Create(h, x, ys, k)
  PROVE  AgentInv'
<1>1. PICK w : w = [op |-> "create", row |-> x, fresh |-> TRUE, refs |-> ys, kind |-> k] OBVIOUS
<1>2. w \in Work BY <1>1 DEF Work
<1>3. Fits(w) BY <1>1 DEF Fits, StillSo, Create, Known
<1>4. Begin(h, w) BY <1>1 DEF Create
<1>5. QED BY <1>2, <1>3, <1>4, BeginKeeps

LEMMA PatchRowKeeps ==
  ASSUME AgentInv, NEW h \in Handler, NEW x \in Resource, NEW ys, NEW merged \in SUBSET ConfigRow,
         NEW k \in ToolKind, Patch(h, x, ys, merged, k), merged \subseteq ys \cup refs[x]
  PROVE  AgentInv'
<1>1. PICK w : w = [op |-> "patch", row |-> x, fresh |-> TRUE, refs |-> merged, kind |-> k]
  OBVIOUS
<1>2. w \in Work BY <1>1 DEF Work, ConfigRow
<1>3. x \in rows /\ ys \subseteq rows /\ Begin(h, w) BY <1>1 DEF Patch, Known
<1>4. refs[x] \subseteq rows \cup blurred BY <1>3 DEF AgentInv, ReferencesResolve
<1>5. Fits(w) BY <1>1, <1>3, <1>4 DEF Fits, StillSo
<1>6. QED BY <1>2, <1>3, <1>5, BeginKeeps

LEMMA RefsAreRows == ASSUME NEW x, NEW ys \in RefsFor(x) PROVE ys \in SUBSET ConfigRow
BY DEF RefsFor, ConfigRow, Resource

LEMMA EditKeeps ==
  ASSUME AgentInv, NEW h \in Handler, NEW m \in Llm, NEW active \in BOOLEAN,
         NEW key \in ApiKey, NEW config \in SUBSET {"config"},
         KeptKey(m, key) # model[m].key => config # {}, EditLlm(h, m, active, config, key)
  PROVE  AgentInv'
<1>1. PICK columns, kept, given :
        /\ columns = config \cup {c \in {"active"} : active # model[m].active}
        /\ kept = KeptKey(m, key) /\ given = (key # "")
  OBVIOUS
<1>2. PICK w : w = [op |-> "patchLlm", row |-> m, fresh |-> TRUE, columns |-> columns,
                    active |-> active, key |-> kept, given |-> given]
  OBVIOUS
<1>3. model[m].key \in ApiKey BY DEF AgentInv, AgentTyped
<1>4. /\ columns \in SUBSET {"active", "config"} /\ kept \in ApiKey /\ given \in BOOLEAN
      /\ "config" \in columns <=> config # {}
  BY <1>1, <1>3 DEF KeptKey
<1>5. w \in Work BY <1>2, <1>4 DEF Work
<1>6. Begin(h, w) /\ m \in rows BY <1>1, <1>2 DEF EditLlm
<1>7. ~given \/ "config" \notin columns => kept = model[m].key BY <1>1, <1>4 DEF KeptKey
<1>8. Fits(w) BY <1>2, <1>6, <1>7 DEF Fits, StillSo
<1>9. QED BY <1>5, <1>6, <1>8, BeginKeeps

LEMMA DeleteRowKeeps ==
  ASSUME AgentInv, NEW h \in Handler, NEW x \in ConfigRow, Delete(h, x)
  PROVE  AgentInv'
<1>1. PICK w : w = [op |-> "delete", row |-> x, fresh |-> TRUE] OBVIOUS
<1>2. w \in Work BY <1>1 DEF Work
<1>3. Fits(w) BY <1>1 DEF Fits, StillSo, Delete
<1>4. Begin(h, w) BY <1>1 DEF Delete
<1>5. QED BY <1>2, <1>3, <1>4, BeginKeeps

LEMMA BindKeeps ==
  ASSUME AgentInv, NEW h \in Handler, NEW x \in Resource, Bind(h, x)
  PROVE  AgentInv'
<1>1. PICK w : w = [op |-> "bind", row |-> x, fresh |-> TRUE] OBVIOUS
<1>2. w \in Work BY <1>1 DEF Work, ConfigRow
<1>3. Fits(w) BY <1>1 DEF Fits, StillSo, Bind
<1>4. Begin(h, w) BY <1>1 DEF Bind
<1>5. QED BY <1>2, <1>3, <1>4, BeginKeeps

LEMMA CreateTaskKeeps ==
  ASSUME AgentInv, NEW h \in Handler, NEW b \in Task, NEW p \in Profile, CreateTask(h, b, p)
  PROVE  AgentInv'
<1>1. PICK w : w = [op |-> "task", row |-> p, fresh |-> TRUE, task |-> b] OBVIOUS
<1>2. w \in Work BY <1>1 DEF Work
<1>3. Fits(w) BY <1>1 DEF Fits, StillSo, CreateTask
<1>4. Begin(h, w) BY <1>1 DEF CreateTask
<1>5. QED BY <1>2, <1>3, <1>4, BeginKeeps

LEMMA SayKeepsAgents ==
  ASSUME AgentInv, NEW h \in Handler, NEW c \in Talk, NEW p \in Profile, Say(h, c, p)
  PROVE  AgentInv'
<1>1. PICK w : w = [op |-> "talk", row |-> p, fresh |-> TRUE, talk |-> c] OBVIOUS
<1>2. w \in Work BY <1>1 DEF Work
<1>3. Fits(w) BY <1>1 DEF Fits, StillSo, Say, ProfileUsable
<1>4. Begin(h, w) BY <1>1 DEF Say
<1>5. QED BY <1>2, <1>3, <1>4, BeginKeeps

-----------------------------------------------------------------------------
(* What a request about to commit holds.                                   *)
LEMMA WorkFields ==
  ASSUME NEW w \in Work
  PROVE  /\ w.op \in {"create", "patch"} =>
              w.row \in ConfigRow /\ w.refs \in SUBSET ConfigRow /\ w.kind \in ToolKind
         /\ w.op = "patchLlm" =>
              /\ w.row \in Llm /\ w.columns \in SUBSET {"active", "config"}
              /\ w.active \in BOOLEAN /\ w.key \in ApiKey /\ w.given \in BOOLEAN
         /\ w.op \in {"delete", "bind"} => w.row \in ConfigRow
         /\ w.op = "task" => w.row \in Profile /\ w.task \in Task
         /\ w.op = "talk" => w.row \in Profile /\ w.talk \in Talk
<1>1. CASE w.op \in {"create", "patch"}
  <2>1. w \in [op : {"create", "patch"}, row : ConfigRow, fresh : BOOLEAN,
               refs : SUBSET ConfigRow, kind : ToolKind]
    BY <1>1, AtRestFits DEF Work
  <2>2. QED BY <1>1, <2>1
<1>2. CASE w.op = "patchLlm"
  <2>1. w \in [op : {"patchLlm"}, row : Llm, fresh : BOOLEAN, columns : SUBSET {"active", "config"},
               active : BOOLEAN, key : ApiKey, given : BOOLEAN]
    BY <1>2, AtRestFits DEF Work
  <2>2. QED BY <1>2, <2>1
<1>3. CASE w.op \in {"delete", "bind"}
  <2>1. w \in [op : {"delete", "bind"}, row : ConfigRow, fresh : BOOLEAN]
    BY <1>3, AtRestFits DEF Work
  <2>2. QED BY <1>3, <2>1
<1>4. CASE w.op = "task"
  <2>1. w \in [op : {"task"}, row : Profile, fresh : BOOLEAN, task : Task]
    BY <1>4, AtRestFits DEF Work
  <2>2. QED BY <1>4, <2>1
<1>5. CASE w.op = "talk"
  <2>1. w \in [op : {"talk"}, row : Profile, fresh : BOOLEAN, talk : Talk]
    BY <1>5, AtRestFits DEF Work
  <2>2. QED BY <1>5, <2>1
<1>6. QED BY <1>1, <1>2, <1>3, <1>4, <1>5

(* A request that has been overtaken.                                      *)
LEMMA Overtaken ==
  ASSUME NEW w \in Work, w # AtRest
  PROVE  \E v \in Work : v = [w EXCEPT !.fresh = FALSE] /\ v.op = w.op /\ v.row = w.row /\ ~v.fresh
<1>1. PICK v : v = [w EXCEPT !.fresh = FALSE] OBVIOUS
<1>2. CASE w.op \in {"create", "patch"}
  <2>1. w \in [op : {"create", "patch"}, row : ConfigRow, fresh : BOOLEAN,
               refs : SUBSET ConfigRow, kind : ToolKind]
    BY <1>2 DEF Work, AtRest
  <2>2. v \in [op : {"create", "patch"}, row : ConfigRow, fresh : BOOLEAN,
               refs : SUBSET ConfigRow, kind : ToolKind]
    BY <1>1, <2>1
  <2>3. v \in Work BY <2>2 DEF Work
  <2>4. v.op = w.op /\ v.row = w.row /\ ~v.fresh BY <1>1, <2>1
  <2>5. QED BY <1>1, <2>3, <2>4
<1>3. CASE w.op = "patchLlm"
  <2>1. w \in [op : {"patchLlm"}, row : Llm, fresh : BOOLEAN, columns : SUBSET {"active", "config"},
               active : BOOLEAN, key : ApiKey, given : BOOLEAN]
    BY <1>3 DEF Work, AtRest
  <2>2. v \in [op : {"patchLlm"}, row : Llm, fresh : BOOLEAN, columns : SUBSET {"active", "config"},
               active : BOOLEAN, key : ApiKey, given : BOOLEAN]
    BY <1>1, <2>1
  <2>3. v \in Work BY <2>2 DEF Work
  <2>4. v.op = w.op /\ v.row = w.row /\ ~v.fresh BY <1>1, <2>1
  <2>5. QED BY <1>1, <2>3, <2>4
<1>4. CASE w.op \in {"delete", "bind"}
  <2>1. w \in [op : {"delete", "bind"}, row : ConfigRow, fresh : BOOLEAN]
    BY <1>4 DEF Work, AtRest
  <2>2. v \in [op : {"delete", "bind"}, row : ConfigRow, fresh : BOOLEAN] BY <1>1, <2>1
  <2>3. v \in Work BY <2>2 DEF Work
  <2>4. v.op = w.op /\ v.row = w.row /\ ~v.fresh BY <1>1, <2>1
  <2>5. QED BY <1>1, <2>3, <2>4
<1>5. CASE w.op = "task"
  <2>1. w \in [op : {"task"}, row : Profile, fresh : BOOLEAN, task : Task]
    BY <1>5 DEF Work, AtRest
  <2>2. v \in [op : {"task"}, row : Profile, fresh : BOOLEAN, task : Task] BY <1>1, <2>1
  <2>3. v \in Work BY <2>2 DEF Work
  <2>4. v.op = w.op /\ v.row = w.row /\ ~v.fresh BY <1>1, <2>1
  <2>5. QED BY <1>1, <2>3, <2>4
<1>6. CASE w.op = "talk"
  <2>1. w \in [op : {"talk"}, row : Profile, fresh : BOOLEAN, talk : Talk]
    BY <1>6 DEF Work, AtRest
  <2>2. v \in [op : {"talk"}, row : Profile, fresh : BOOLEAN, talk : Talk] BY <1>1, <2>1
  <2>3. v \in Work BY <2>2 DEF Work
  <2>4. v.op = w.op /\ v.row = w.row /\ ~v.fresh BY <1>1, <2>1
  <2>5. QED BY <1>1, <2>3, <2>4
<1>7. QED BY <1>2, <1>3, <1>4, <1>5, <1>6 DEF Work

(* Whoever commits, the readings of the others are of the past.            *)
LEMMA EndKeeps ==
  ASSUME AgentInv, NEW h \in Handler, NEW xs, End(h, xs)
  PROVE  /\ doing' \in [Handler -> Work] /\ \A g \in Handler : Fits(doing[g])'
         /\ blurred \subseteq blurred'
         /\ doing[h].fresh \/ xs \subseteq blurred'
<1>1. /\ doing' = [g \in Handler |-> IF g = h THEN AtRest
                                     ELSE IF doing[g] = AtRest THEN AtRest
                                     ELSE [doing[g] EXCEPT !.fresh = FALSE]]
      /\ blurred' = IF doing[h].fresh THEN blurred ELSE blurred \cup xs
  BY DEF End
<1>2. ASSUME NEW g \in Handler PROVE doing'[g] \in Work /\ Fits(doing[g])'
  <2>1. CASE g = h \/ doing[g] = AtRest
    <3>1. doing'[g] = AtRest BY <1>1, <2>1
    <3>2. doing'[g] \in Work /\ doing'[g].op = "rest" BY <3>1, AtRestFits
    <3>3. QED BY <3>2 DEF Fits, StillSo
  <2>2. CASE g # h /\ doing[g] # AtRest
    <3>1. doing[g] \in Work /\ Fits(doing[g]) BY DEF AgentInv, AgentTyped
    <3>2. PICK v \in Work : v = [doing[g] EXCEPT !.fresh = FALSE] /\ v.op = doing[g].op
                             /\ v.row = doing[g].row /\ ~v.fresh
      BY <2>2, <3>1, Overtaken
    <3>3. doing'[g] = v BY <1>1, <2>2, <3>2
    <3>4. QED BY <3>1, <3>2, <3>3 DEF Fits
  <2>3. QED BY <2>1, <2>2
<1>3. doing' \in [Handler -> Work] BY <1>1, <1>2
<1>4. QED BY <1>1, <1>2, <1>3

(* The request that commits, and what it holds.                            *)
LEMMA Committing ==
  ASSUME AgentInv, NEW h \in Handler
  PROVE  doing[h] \in Work /\ Fits(doing[h]) /\ (doing[h].fresh => StillSo(doing[h]))
BY DEF AgentInv, AgentTyped, Fits

-----------------------------------------------------------------------------
(* The commits.                                                            *)
(* A commit that changes none of the tables.                               *)
LEMMA RefusedKeeps ==
  ASSUME AgentInv, doing' \in [Handler -> Work], \A g \in Handler : Fits(doing[g])',
         blurred \subseteq blurred', UNCHANGED agentTables, UNCHANGED supplied
  PROVE  AgentInv'
<1>1. /\ rows' = rows /\ refs' = refs /\ assets' = assets /\ bound' = bound
      /\ model' = model /\ task' = task /\ talk' = talk
  BY DEF agentTables
<1>2. AgentTyped' BY <1>1 DEF AgentInv, AgentTyped
<1>3. ReferencesResolve' BY <1>1 DEF AgentInv, ReferencesResolve
<1>4. EntriesMatchRows' BY <1>1 DEF AgentInv, EntriesMatchRows
<1>5. KeyIsLastSupplied' BY <1>1 DEF AgentInv, KeyIsLastSupplied
<1>6. QED BY <1>2, <1>3, <1>4, <1>5 DEF AgentInv

LEMMA CommitCreateKeeps == ASSUME AgentInv, NEW h \in Handler, CommitCreate(h) PROVE AgentInv'
<1>0. PICK w : w = doing[h] OBVIOUS
<1>1. /\ w \in Work /\ w.op = "create" /\ (w.fresh => w.refs \subseteq rows)
      /\ End(h, {w.row} \cup w.refs)
  BY <1>0, Committing DEF CommitCreate, StillSo
<1>2. w.row \in ConfigRow /\ w.refs \in SUBSET ConfigRow BY <1>1, WorkFields
<1>3. /\ doing' \in [Handler -> Work] /\ \A g \in Handler : Fits(doing[g])'
      /\ blurred \subseteq blurred'
      /\ w.fresh \/ {w.row} \cup w.refs \subseteq blurred'
  BY <1>0, <1>1, EndKeeps
<1>4. CASE w.row \in rows \/ ~KeysHold(w.refs)
  <2>1. UNCHANGED agentTables BY <1>0, <1>4 DEF CommitCreate
  <2>2. UNCHANGED supplied BY <1>0, <2>1 DEF CommitCreate, agentTables
  <2>3. QED BY <1>3, <2>1, <2>2, RefusedKeeps
<1>5. CASE ~(w.row \in rows \/ ~KeysHold(w.refs))
  <2>1. /\ rows' = rows \cup {w.row} /\ refs' = [refs EXCEPT ![w.row] = w.refs]
        /\ assets' = assets \cup ({w.row} \ Llm)
        /\ model' = IF w.row \in Llm
                    THEN [model EXCEPT ![w.row] = [active |-> TRUE, key |-> ""]] ELSE model
        /\ bound' = bound /\ task' = task /\ talk' = talk
    BY <1>0, <1>5 DEF CommitCreate
  <2>2. w.row \notin rows /\ w.refs \cap ForeignKeys \subseteq rows BY <1>5 DEF KeysHold
  <2>3. supplied' = IF w.row \in Llm THEN [supplied EXCEPT ![w.row] = ""] ELSE supplied
    BY <1>0, <2>1, <2>2 DEF CommitCreate
  <2>4. /\ refs' \in [ConfigRow -> SUBSET ConfigRow] /\ refs'[w.row] = w.refs
        /\ \A x \in ConfigRow \ {w.row} : refs'[x] = refs[x]
    BY <1>2, <2>1 DEF AgentInv, AgentTyped
  <2>5. /\ model' \in [Llm -> [active : BOOLEAN, key : ApiKey]] /\ supplied' \in [Llm -> ApiKey]
        /\ \A m \in Llm \ {w.row} : model'[m] = model[m] /\ supplied'[m] = supplied[m]
        /\ w.row \in Llm => model'[w.row].key = supplied'[w.row]
    BY <2>1, <2>3 DEF AgentInv, AgentTyped, ApiKey
  <2>6. AgentTyped'
    BY <1>2, <1>3, <2>1, <2>4, <2>5 DEF AgentInv, AgentTyped
  <2>7. ReferencesResolve'
    <3>1. w.refs \subseteq rows' \cup blurred' BY <1>1, <1>3, <2>1
    <3>2. \A x \in rows : x \in ConfigRow \ {w.row} BY <2>2 DEF AgentInv, AgentTyped
    <3>3. QED BY <1>3, <2>1, <2>2, <2>4, <3>1, <3>2 DEF AgentInv, ReferencesResolve
  <2>8. EntriesMatchRows'
    <3>1. w.row \in Resource <=> w.row \notin Llm BY <1>2, AgentAssumption DEF ConfigRow
    <3>2. QED BY <1>3, <2>1, <3>1 DEF AgentInv, EntriesMatchRows
  <2>9. KeyIsLastSupplied'
    BY <1>3, <2>1, <2>5 DEF AgentInv, KeyIsLastSupplied
  <2>10. QED BY <1>3, <2>6, <2>7, <2>8, <2>9 DEF AgentInv
<1>6. QED BY <1>4, <1>5

LEMMA CommitPatchKeeps ==
  ASSUME AgentInv, NEW h \in Handler, NEW changed \in BOOLEAN, CommitPatchRow(h, changed)
  PROVE  AgentInv'
<1>0. PICK w : w = doing[h] OBVIOUS
<1>1. /\ w \in Work /\ w.op = "patch"
      /\ w.fresh => w.row \in rows /\ w.refs \subseteq rows \cup blurred
      /\ w.row \in Resource
      /\ End(h, {w.row} \cup w.refs) /\ supplied' = supplied
  BY <1>0, Committing DEF CommitPatchRow, StillSo, Fits
<1>2. w.row \in ConfigRow /\ w.refs \in SUBSET ConfigRow BY <1>1, WorkFields
<1>3. /\ doing' \in [Handler -> Work] /\ \A g \in Handler : Fits(doing[g])'
      /\ blurred \subseteq blurred'
      /\ w.fresh \/ {w.row} \cup w.refs \subseteq blurred'
  BY <1>0, <1>1, EndKeeps
<1>4. CASE changed /\ (w.row \notin rows \/ ~KeysHold(w.refs))
  <2>1. UNCHANGED agentTables BY <1>0, <1>4 DEF CommitPatchRow
  <2>2. QED BY <1>1, <1>3, <2>1, RefusedKeeps
<1>5. CASE ~(changed /\ (w.row \notin rows \/ ~KeysHold(w.refs)))
  <2>1. /\ refs' = [refs EXCEPT ![w.row] = IF changed THEN w.refs ELSE @]
        /\ assets' = assets \cup {w.row} /\ rows' = rows
        /\ bound' = bound /\ task' = task /\ talk' = talk /\ model' = model
    BY <1>0, <1>5 DEF CommitPatchRow
  <2>2. changed => w.refs \cap ForeignKeys \subseteq rows BY <1>5 DEF KeysHold
  <2>3. /\ refs' \in [ConfigRow -> SUBSET ConfigRow]
        /\ refs'[w.row] = IF changed THEN w.refs ELSE refs[w.row]
        /\ \A x \in ConfigRow \ {w.row} : refs'[x] = refs[x]
    BY <1>2, <2>1 DEF AgentInv, AgentTyped
  <2>4. AgentTyped' BY <1>1, <1>2, <1>3, <2>1, <2>3 DEF AgentInv, AgentTyped
  <2>5. ReferencesResolve'
    <3>1. w.refs \subseteq rows' \cup blurred' BY <1>1, <1>3, <2>1
    <3>2. rows \subseteq ConfigRow BY DEF AgentInv, AgentTyped
    <3>3. QED BY <1>3, <2>1, <2>2, <2>3, <3>1, <3>2 DEF AgentInv, ReferencesResolve
  <2>6. EntriesMatchRows' BY <1>1, <1>3, <2>1 DEF AgentInv, EntriesMatchRows
  <2>7. KeyIsLastSupplied' BY <1>1, <1>3, <2>1 DEF AgentInv, KeyIsLastSupplied
  <2>8. QED BY <1>3, <2>4, <2>5, <2>6, <2>7 DEF AgentInv
<1>6. QED BY <1>4, <1>5

LEMMA CommitLlmKeeps == ASSUME AgentInv, NEW h \in Handler, CommitLlm(h) PROVE AgentInv'
<1>0. PICK w : w = doing[h] OBVIOUS
<1>1. /\ w \in Work /\ w.op = "patchLlm" /\ 
         (w.fresh => /\ w.row \in rows
                     /\ ~w.given \/ "config" \notin w.columns => w.key = model[w.row].key)
      /\ End(h, {w.row})
  BY <1>0, Committing DEF CommitLlm, StillSo, Fits
<1>2. /\ w.row \in Llm /\ w.columns \in SUBSET {"active", "config"}
      /\ w.active \in BOOLEAN /\ w.key \in ApiKey /\ w.given \in BOOLEAN
  BY <1>1, WorkFields
<1>3. /\ doing' \in [Handler -> Work] /\ \A g \in Handler : Fits(doing[g])'
      /\ blurred \subseteq blurred'
      /\ w.fresh \/ w.row \in blurred'
  BY <1>0, <1>1, EndKeeps
<1>4. CASE w.row \notin rows
  <2>1. UNCHANGED agentTables /\ UNCHANGED supplied
    BY <1>0, <1>4 DEF CommitLlm, agentTables
  <2>2. QED BY <1>3, <2>1, RefusedKeeps
<1>5. CASE w.row \in rows
  <2>1. /\ model' = [model EXCEPT
              ![w.row].active = IF "active" \in w.columns THEN w.active ELSE @,
              ![w.row].key = IF "config" \in w.columns THEN w.key ELSE @]
        /\ supplied' = IF w.given THEN [supplied EXCEPT ![w.row] = w.key] ELSE supplied
        /\ rows' = rows /\ refs' = refs /\ assets' = assets /\ bound' = bound
        /\ task' = task /\ talk' = talk
    BY <1>0, <1>5 DEF CommitLlm
  <2>2. model \in [Llm -> [active : BOOLEAN, key : ApiKey]] /\ supplied \in [Llm -> ApiKey]
    BY DEF AgentInv, AgentTyped
  <2>3. model' \in [Llm -> [active : BOOLEAN, key : ApiKey]] BY <1>2, <2>1, <2>2
  <2>4. supplied' \in [Llm -> ApiKey] BY <1>2, <2>1, <2>2
  <2>5. /\ model'[w.row].key = IF "config" \in w.columns THEN w.key ELSE model[w.row].key
        /\ \A m \in Llm \ {w.row} : model'[m] = model[m]
    BY <1>2, <2>1, <2>2
  <2>6. /\ supplied'[w.row] = IF w.given THEN w.key ELSE supplied[w.row]
        /\ \A m \in Llm \ {w.row} : supplied'[m] = supplied[m]
    BY <1>2, <2>1, <2>2
  <2>7. AgentTyped' BY <1>3, <2>1, <2>3, <2>4 DEF AgentInv, AgentTyped
  <2>8. ReferencesResolve' BY <1>3, <2>1 DEF AgentInv, ReferencesResolve
  <2>9. EntriesMatchRows' BY <1>3, <2>1 DEF AgentInv, EntriesMatchRows
  <2>10. KeyIsLastSupplied'
    <3> SUFFICES ASSUME NEW m \in Llm \cap rows
                 PROVE  model'[m].key = supplied'[m] \/ m \in blurred'
      BY <2>1 DEF KeyIsLastSupplied
    <3>1. model[m].key = supplied[m] \/ m \in blurred BY DEF AgentInv, KeyIsLastSupplied
    <3>2. CASE m = w.row BY <1>1, <1>3, <2>5, <2>6, <3>1, <3>2
    <3>3. CASE m # w.row BY <1>3, <2>5, <2>6, <3>1, <3>3
    <3>4. QED BY <3>2, <3>3
  <2>11. QED BY <1>3, <2>7, <2>8, <2>9, <2>10 DEF AgentInv
<1>6. QED BY <1>4, <1>5

LEMMA CommitDeleteKeeps == ASSUME AgentInv, NEW h \in Handler, CommitDeleteRow(h) PROVE AgentInv'
<1>0. PICK w : w = doing[h] OBVIOUS
<1>1. /\ w \in Work /\ w.op = "delete" /\ (w.fresh => ~InUse(w.row))
      /\ End(h, {w.row}) /\ supplied' = supplied
  BY <1>0, Committing DEF CommitDeleteRow, StillSo, Fits
<1>2. w.row \in ConfigRow BY <1>1, WorkFields
<1>3. /\ doing' \in [Handler -> Work] /\ \A g \in Handler : Fits(doing[g])'
      /\ blurred \subseteq blurred'
      /\ w.fresh \/ w.row \in blurred'
  BY <1>0, <1>1, EndKeeps
<1>4. CASE Holders(w.row) # {}
  <2>1. UNCHANGED agentTables BY <1>0, <1>4 DEF CommitDeleteRow, agentTables
  <2>2. QED BY <1>1, <1>3, <2>1, RefusedKeeps
<1>5. CASE Holders(w.row) = {}
  <2>1. /\ rows' = rows \ {w.row} /\ assets' = assets \ {w.row} /\ bound' = bound \ {w.row}
        /\ refs' = refs /\ model' = model /\ task' = task /\ talk' = talk
    BY <1>0, <1>5 DEF CommitDeleteRow, Dropped
  <2>2. AgentTyped' BY <1>1, <1>3, <2>1 DEF AgentInv, AgentTyped
  <2>3. ReferencesResolve'
    <3>1. \A x \in rows : w.row \notin refs[x] \cap ForeignKeys BY <1>5 DEF Holders
    <3>2. \A b \in Task : task[b] # w.row BY <1>5 DEF Holders
    <3>3. w.row \in blurred' \/ \A x \in rows : w.row \notin refs[x]
      BY <1>1, <1>3 DEF InUse, ReferringRows
    <3>4. ASSUME NEW c \in Talk, talk[c].status = "active"
          PROVE  talk[c].profile \in rows' \cup blurred'
      <4>1. talk[c].profile \in rows \cup blurred
        BY <3>4 DEF AgentInv, ReferencesResolve
      <4>2. CASE talk[c].profile = w.row
        <5>1. talk[c].profile \in Profile \cup {NoProfile} BY DEF AgentInv, AgentTyped
        <5>2. w.row \in Profile BY <1>2, <4>2, <5>1, AgentAssumption
        <5>3. w.fresh => ActiveTalks(w.row) = {} BY <1>1, <5>2 DEF InUse
        <5>4. ~w.fresh BY <3>4, <4>2, <5>3 DEF ActiveTalks
        <5>5. QED BY <1>3, <4>2, <5>4
      <4>3. CASE talk[c].profile # w.row BY <1>3, <2>1, <4>1, <4>3
      <4>4. QED BY <4>2, <4>3
    <3>5. QED BY <1>3, <2>1, <3>1, <3>2, <3>3, <3>4 DEF AgentInv, ReferencesResolve
  <2>4. EntriesMatchRows' BY <1>3, <2>1 DEF AgentInv, EntriesMatchRows
  <2>5. KeyIsLastSupplied' BY <1>1, <1>3, <2>1 DEF AgentInv, KeyIsLastSupplied
  <2>6. QED BY <1>3, <2>2, <2>3, <2>4, <2>5 DEF AgentInv
<1>6. QED BY <1>4, <1>5

LEMMA CommitBindKeeps == ASSUME AgentInv, NEW h \in Handler, CommitBind(h) PROVE AgentInv'
<1>0. PICK w : w = doing[h] OBVIOUS
<1>1. /\ w \in Work /\ w.op = "bind" /\ (w.fresh => w.row \in rows)
      /\ End(h, {w.row}) /\ supplied' = supplied
  BY <1>0, Committing DEF CommitBind, StillSo, Fits
<1>2. w.row \in ConfigRow BY <1>1, WorkFields
<1>3. /\ doing' \in [Handler -> Work] /\ \A g \in Handler : Fits(doing[g])'
      /\ blurred \subseteq blurred'
      /\ w.fresh \/ w.row \in blurred'
  BY <1>0, <1>1, EndKeeps
<1>4. /\ bound' = bound \cup {w.row} /\ rows' = rows /\ assets' = assets
      /\ refs' = refs /\ model' = model /\ task' = task /\ talk' = talk
  BY <1>0 DEF CommitBind
<1>5. AgentTyped' BY <1>1, <1>3, <1>4 DEF AgentInv, AgentTyped
<1>6. ReferencesResolve' BY <1>3, <1>4 DEF AgentInv, ReferencesResolve
<1>7. EntriesMatchRows' BY <1>1, <1>3, <1>4 DEF AgentInv, EntriesMatchRows
<1>8. KeyIsLastSupplied' BY <1>1, <1>3, <1>4 DEF AgentInv, KeyIsLastSupplied
<1>9. QED BY <1>3, <1>5, <1>6, <1>7, <1>8 DEF AgentInv

LEMMA CommitTaskKeeps == ASSUME AgentInv, NEW h \in Handler, CommitTask(h) PROVE AgentInv'
<1>0. PICK w : w = doing[h] OBVIOUS
<1>1. /\ w \in Work /\ w.op = "task" /\ (w.fresh => w.row \in rows)
      /\ End(h, {w.row}) /\ supplied' = supplied
  BY <1>0, Committing DEF CommitTask, StillSo, Fits
<1>2. w.row \in Profile /\ w.task \in Task BY <1>1, WorkFields
<1>3. /\ doing' \in [Handler -> Work] /\ \A g \in Handler : Fits(doing[g])'
      /\ blurred \subseteq blurred'
      /\ w.fresh \/ w.row \in blurred'
  BY <1>0, <1>1, EndKeeps
<1>4. /\ task' = IF w.row \in rows /\ task[w.task] = NoProfile
                 THEN [task EXCEPT ![w.task] = w.row] ELSE task
      /\ rows' = rows /\ assets' = assets /\ bound' = bound
      /\ refs' = refs /\ model' = model /\ talk' = talk
  BY <1>0 DEF CommitTask
<1>5. /\ task' \in [Task -> Profile \cup {NoProfile}]
      /\ \A b \in Task : task'[b] = task[b] \/ task'[b] \in rows
  BY <1>2, <1>4 DEF AgentInv, AgentTyped
<1>6. AgentTyped' BY <1>1, <1>3, <1>4, <1>5 DEF AgentInv, AgentTyped
<1>7. ReferencesResolve' BY <1>3, <1>4, <1>5 DEF AgentInv, ReferencesResolve
<1>8. EntriesMatchRows' BY <1>3, <1>4 DEF AgentInv, EntriesMatchRows
<1>9. KeyIsLastSupplied' BY <1>1, <1>3, <1>4 DEF AgentInv, KeyIsLastSupplied
<1>10. QED BY <1>3, <1>6, <1>7, <1>8, <1>9 DEF AgentInv

LEMMA CommitSayKeeps == ASSUME AgentInv, NEW h \in Handler, CommitSay(h) PROVE AgentInv'
<1>0. PICK w : w = doing[h] OBVIOUS
<1>1. /\ w \in Work /\ w.op = "talk" /\ (w.fresh => w.row \in rows)
      /\ End(h, {w.row}) /\ supplied' = supplied
  BY <1>0, Committing DEF CommitSay, StillSo, Fits
<1>2. w.row \in Profile /\ w.talk \in Talk BY <1>1, WorkFields
<1>3. /\ doing' \in [Handler -> Work] /\ \A g \in Handler : Fits(doing[g])'
      /\ blurred \subseteq blurred'
      /\ w.fresh \/ w.row \in blurred'
  BY <1>0, <1>1, EndKeeps
<1>4. /\ talk' = [talk EXCEPT ![w.talk].profile = w.row,
                              ![w.talk].status = IF @ = "absent" THEN "active" ELSE @]
      /\ rows' = rows /\ assets' = assets /\ bound' = bound
      /\ refs' = refs /\ model' = model /\ task' = task
  BY <1>0 DEF CommitSay
<1>5. talk \in [Talk -> [status : {"absent", "active", "deleted"},
                         profile : Profile \cup {NoProfile}]]
  BY DEF AgentInv, AgentTyped
<1>6. /\ talk' \in [Talk -> [status : {"absent", "active", "deleted"},
                             profile : Profile \cup {NoProfile}]]
      /\ talk'[w.talk].profile = w.row
      /\ \A c \in Talk \ {w.talk} : talk'[c] = talk[c]
  BY <1>2, <1>4, <1>5
<1>7. AgentTyped' BY <1>1, <1>3, <1>4, <1>6 DEF AgentInv, AgentTyped
<1>8. ReferencesResolve'
  <2>1. w.row \in rows \cup blurred' BY <1>1, <1>3
  <2>2. QED BY <1>2, <1>3, <1>4, <1>6, <2>1 DEF AgentInv, ReferencesResolve
<1>9. EntriesMatchRows' BY <1>3, <1>4 DEF AgentInv, EntriesMatchRows
<1>10. KeyIsLastSupplied' BY <1>1, <1>3, <1>4 DEF AgentInv, KeyIsLastSupplied
<1>11. QED BY <1>3, <1>7, <1>8, <1>9, <1>10 DEF AgentInv

(* Deletions of what refers to a profile leave every reading as it was.    *)
LEMMA DeleteTaskKeeps == ASSUME AgentInv, NEW b \in Task, DeleteTask(b) PROVE AgentInv'
<1>1. /\ task' = [task EXCEPT ![b] = NoProfile] /\ rows' = rows /\ assets' = assets
      /\ bound' = bound /\ refs' = refs /\ model' = model /\ talk' = talk
      /\ doing' = doing /\ blurred' = blurred /\ supplied' = supplied
  BY DEF DeleteTask
<1>2. /\ task' \in [Task -> Profile \cup {NoProfile}]
      /\ \A c \in Task : task'[c] = task[c] \/ task'[c] = NoProfile
  BY <1>1 DEF AgentInv, AgentTyped
<1>3. \A h \in Handler : Fits(doing[h])'
  <2> SUFFICES ASSUME NEW h \in Handler PROVE Fits(doing[h])' OBVIOUS
  <2>1. PICK w : w = doing[h] OBVIOUS
  <2>2. w \in Work /\ Fits(w) BY <2>1 DEF AgentInv, AgentTyped
  <2>3. w.op = "delete" => w.row # NoProfile BY <2>2, WorkFields, AgentAssumption
  <2>4. w.op = "delete" /\ ~InUse(w.row) => ~InUse(w.row)'
    BY <1>1, <1>2, <2>3 DEF InUse, ReferringRows, ActiveTalks
  <2>5. Fits(w)' BY <1>1, <2>2, <2>4 DEF Fits, StillSo
  <2>6. doing'[h] = w BY <1>1, <2>1
  <2>7. QED BY <2>5, <2>6 DEF Fits, StillSo, InUse, ReferringRows, ActiveTalks
<1>4. AgentTyped' BY <1>1, <1>2 DEF AgentInv, AgentTyped
<1>5. ReferencesResolve' BY <1>1, <1>2 DEF AgentInv, ReferencesResolve
<1>6. EntriesMatchRows' BY <1>1 DEF AgentInv, EntriesMatchRows
<1>7. KeyIsLastSupplied' BY <1>1 DEF AgentInv, KeyIsLastSupplied
<1>8. QED BY <1>3, <1>4, <1>5, <1>6, <1>7 DEF AgentInv

LEMMA DeleteTalkKeeps == ASSUME AgentInv, NEW c \in Talk, DeleteTalk(c) PROVE AgentInv'
<1>1. /\ talk' = [talk EXCEPT ![c].status = "deleted"] /\ rows' = rows /\ assets' = assets
      /\ bound' = bound /\ refs' = refs /\ model' = model /\ task' = task
      /\ doing' = doing /\ blurred' = blurred /\ supplied' = supplied
  BY DEF DeleteTalk
<1>2. talk \in [Talk -> [status : {"absent", "active", "deleted"},
                         profile : Profile \cup {NoProfile}]]
  BY DEF AgentInv, AgentTyped
<1>3. /\ talk' \in [Talk -> [status : {"absent", "active", "deleted"},
                             profile : Profile \cup {NoProfile}]]
      /\ \A d \in Talk : /\ talk'[d].profile = talk[d].profile
                         /\ talk'[d].status = "active" => talk[d].status = "active"
  BY <1>1, <1>2
<1>4. \A h \in Handler : Fits(doing[h])'
  <2> SUFFICES ASSUME NEW h \in Handler PROVE Fits(doing[h])' OBVIOUS
  <2>1. PICK w : w = doing[h] OBVIOUS
  <2>2. w \in Work /\ Fits(w) BY <2>1 DEF AgentInv, AgentTyped
  <2>3. ~InUse(w.row) => ~InUse(w.row)'
    BY <1>1, <1>3 DEF InUse, ReferringRows, ActiveTalks
  <2>4. Fits(w)' BY <1>1, <2>2, <2>3 DEF Fits, StillSo
  <2>5. doing'[h] = w BY <1>1, <2>1
  <2>6. QED BY <2>4, <2>5 DEF Fits, StillSo, InUse, ReferringRows, ActiveTalks
<1>5. AgentTyped' BY <1>1, <1>3 DEF AgentInv, AgentTyped
<1>6. ReferencesResolve' BY <1>1, <1>3 DEF AgentInv, ReferencesResolve
<1>7. EntriesMatchRows' BY <1>1 DEF AgentInv, EntriesMatchRows
<1>8. KeyIsLastSupplied' BY <1>1 DEF AgentInv, KeyIsLastSupplied
<1>9. QED BY <1>4, <1>5, <1>6, <1>7, <1>8 DEF AgentInv

-----------------------------------------------------------------------------
LEMMA KindsAreRows ==
  Llm \subseteq ConfigRow /\ Mcp \subseteq Resource /\ Tool \subseteq Resource
  /\ Skill \subseteq Resource /\ Profile \subseteq Resource /\ Resource \subseteq ConfigRow
BY DEF ConfigRow, Resource

LEMMA CreatesKeep ==
  ASSUME AgentInv, NEW h \in Handler,
         \/ CreateLlm(h) \/ CreateMcp(h) \/ CreateTool(h) \/ CreateSkill(h) \/ CreateProfile(h)
  PROVE  AgentInv'
<1>0. {} \in SUBSET ConfigRow /\ "other" \in ToolKind BY DEF ToolKind
<1>1. CASE CreateLlm(h) BY <1>0, <1>1, CreateRowKeeps, KindsAreRows DEF CreateLlm
<1>2. CASE CreateMcp(h) BY <1>0, <1>2, CreateRowKeeps, KindsAreRows DEF CreateMcp
<1>3. CASE CreateTool(h)
  <2>1. PICK x \in Tool, k \in ToolKind : \E ys \in RefsFor(x) : Create(h, x, ys, k)
    BY <1>3 DEF CreateTool
  <2>2. PICK ys \in RefsFor(x) : Create(h, x, ys, k) BY <2>1
  <2>3. ys \in SUBSET ConfigRow /\ x \in ConfigRow BY RefsAreRows, KindsAreRows
  <2>4. QED BY <2>2, <2>3, CreateRowKeeps
<1>4. CASE CreateSkill(h)
  <2>1. PICK x \in Skill : \E ys \in RefsFor(x) : Create(h, x, ys, "other")
    BY <1>4 DEF CreateSkill
  <2>2. PICK ys \in RefsFor(x) : Create(h, x, ys, "other") BY <2>1
  <2>3. ys \in SUBSET ConfigRow /\ x \in ConfigRow BY RefsAreRows, KindsAreRows
  <2>4. QED BY <1>0, <2>2, <2>3, CreateRowKeeps
<1>5. CASE CreateProfile(h)
  <2>1. PICK x \in Profile : \E ys \in RefsFor(x) : Create(h, x, ys, "other")
    BY <1>5 DEF CreateProfile
  <2>2. PICK ys \in RefsFor(x) : Create(h, x, ys, "other") BY <2>1
  <2>3. ys \in SUBSET ConfigRow /\ x \in ConfigRow BY RefsAreRows, KindsAreRows
  <2>4. QED BY <1>0, <2>2, <2>3, CreateRowKeeps
<1>6. QED BY <1>1, <1>2, <1>3, <1>4, <1>5

LEMMA PatchesKeep ==
  ASSUME AgentInv, NEW h \in Handler,
         PatchMcp(h) \/ PatchTool(h) \/ PatchSkill(h) \/ PatchProfile(h)
  PROVE  AgentInv'
<1>0. /\ {} \in SUBSET ConfigRow /\ "other" \in ToolKind
      /\ \A x \in Resource : refs[x] \in SUBSET ConfigRow
  BY KindsAreRows DEF ToolKind, AgentInv, AgentTyped
<1>1. CASE PatchMcp(h)
  <2>1. PICK x \in Mcp : Patch(h, x, {}, {}, "other") BY <1>1 DEF PatchMcp
  <2>2. x \in Resource BY KindsAreRows
  <2>3. QED BY <1>0, <2>1, <2>2, PatchRowKeeps
<1>2. CASE PatchTool(h)
  <2>1. PICK x \in Tool, k \in ToolKind : \E ys \in RefsFor(x) :
          Patch(h, x, ys, IF ys = {} THEN refs[x] ELSE ys, k)
    BY <1>2 DEF PatchTool
  <2>2. PICK ys \in RefsFor(x) : Patch(h, x, ys, IF ys = {} THEN refs[x] ELSE ys, k) BY <2>1
  <2>3. PICK merged : merged = IF ys = {} THEN refs[x] ELSE ys OBVIOUS
  <2>4. x \in Resource /\ ys \in SUBSET ConfigRow BY RefsAreRows, KindsAreRows
  <2>5. merged \in SUBSET ConfigRow /\ merged \subseteq ys \cup refs[x]
    BY <1>0, <2>3, <2>4
  <2>6. QED BY <2>2, <2>3, <2>4, <2>5, PatchRowKeeps
<1>3. CASE PatchSkill(h)
  <2>1. PICK x \in Skill : \E ys \in RefsFor(x) : Patch(h, x, ys, ys, "other")
    BY <1>3 DEF PatchSkill
  <2>2. PICK ys \in RefsFor(x) : Patch(h, x, ys, ys, "other") BY <2>1
  <2>3. x \in Resource /\ ys \in SUBSET ConfigRow BY RefsAreRows, KindsAreRows
  <2>4. QED BY <1>0, <2>2, <2>3, PatchRowKeeps
<1>4. CASE PatchProfile(h)
  <2>1. PICK x \in Profile : \E ys \in RefsFor(x) :
          Patch(h, x, ys, ys \cup (IF ys \cap Llm = {} THEN refs[x] \cap Llm ELSE {}), "other")
    BY <1>4 DEF PatchProfile
  <2>2. PICK ys \in RefsFor(x) :
          Patch(h, x, ys, ys \cup (IF ys \cap Llm = {} THEN refs[x] \cap Llm ELSE {}), "other")
    BY <2>1
  <2>3. PICK merged : merged = ys \cup (IF ys \cap Llm = {} THEN refs[x] \cap Llm ELSE {}) OBVIOUS
  <2>4. x \in Resource /\ ys \in SUBSET ConfigRow BY RefsAreRows, KindsAreRows
  <2>5. merged \in SUBSET ConfigRow /\ merged \subseteq ys \cup refs[x]
    BY <1>0, <2>3, <2>4
  <2>6. QED BY <1>0, <2>2, <2>3, <2>4, <2>5, PatchRowKeeps
<1>5. QED BY <1>1, <1>2, <1>3, <1>4

LEMMA EditsKeep ==
  ASSUME AgentInv, NEW h \in Handler, PatchLlm(h) \/ DeactivateLlm(h) PROVE AgentInv'
<1>1. CASE PatchLlm(h)
  <2>1. PICK m \in Llm, active \in BOOLEAN, key \in ApiKey, config \in SUBSET {"config"} :
          /\ KeptKey(m, key) # model[m].key => config # {}
          /\ EditLlm(h, m, active, config, key)
    BY <1>1 DEF PatchLlm
  <2>2. QED BY <2>1, EditKeeps
<1>2. CASE DeactivateLlm(h)
  <2>1. PICK m \in Llm : EditLlm(h, m, FALSE, {}, "") BY <1>2 DEF DeactivateLlm
  <2>2. "" \in ApiKey /\ KeptKey(m, "") = model[m].key BY DEF ApiKey, KeptKey
  <2>3. {} \in SUBSET {"config"} /\ FALSE \in BOOLEAN OBVIOUS
  <2>4. QED BY <2>1, <2>2, <2>3, EditKeeps
<1>3. QED BY <1>1, <1>2

LEMMA DeletesKeep ==
  ASSUME AgentInv, NEW h \in Handler,
         \/ DeleteLlm(h) \/ DeleteMcp(h) \/ DeleteTool(h) \/ DeleteSkill(h) \/ DeleteProfile(h)
  PROVE  AgentInv'
<1>1. PICK x \in ConfigRow : Delete(h, x)
  BY KindsAreRows DEF DeleteLlm, DeleteMcp, DeleteTool, DeleteSkill, DeleteProfile
<1>2. QED BY <1>1, DeleteRowKeeps

LEMMA BindsKeep ==
  ASSUME AgentInv, NEW h \in Handler,
         \/ PutMcpBindings(h) \/ PutToolBindings(h) \/ PutSkillBindings(h)
         \/ PutProfileBindings(h)
  PROVE  AgentInv'
<1>1. PICK x \in Resource : Bind(h, x)
  BY KindsAreRows DEF PutMcpBindings, PutToolBindings, PutSkillBindings, PutProfileBindings
<1>2. QED BY <1>1, BindKeeps

LEMMA AgentsInductive == AgentInv /\ [AgentNext]_agentVars => AgentInv'
<1> SUFFICES ASSUME AgentInv, [AgentNext]_agentVars PROVE AgentInv' OBVIOUS
<1>1. ASSUME NEW h \in Handler,
             \/ CommitCreate(h) \/ CommitLlm(h) \/ CommitDeleteRow(h) \/ CommitBind(h)
             \/ CommitTask(h) \/ CommitSay(h) \/ \E changed \in BOOLEAN : CommitPatchRow(h, changed)
      PROVE  AgentInv'
  BY <1>1, CommitCreateKeeps, CommitPatchKeeps, CommitLlmKeeps, CommitDeleteKeeps,
     CommitBindKeeps, CommitTaskKeeps, CommitSayKeeps
<1>2. ASSUME NEW h \in Handler,
             \/ CreateLlm(h) \/ PatchLlm(h) \/ DeactivateLlm(h) \/ DeleteLlm(h)
             \/ CreateMcp(h) \/ PatchMcp(h) \/ DeleteMcp(h) \/ PutMcpBindings(h)
             \/ CreateTool(h) \/ PatchTool(h) \/ DeleteTool(h) \/ PutToolBindings(h)
             \/ CreateSkill(h) \/ PatchSkill(h) \/ DeleteSkill(h) \/ PutSkillBindings(h)
             \/ CreateProfile(h) \/ PatchProfile(h) \/ DeleteProfile(h) \/ PutProfileBindings(h)
      PROVE  AgentInv'
  BY <1>2, CreatesKeep, PatchesKeep, EditsKeep, DeletesKeep, BindsKeep
<1>3. ASSUME NEW h \in Handler, CreatePlannerConversation(h) \/ SendPlannerMessage(h)
      PROVE  AgentInv'
  <2>1. PICK c \in Talk, p \in Profile : Say(h, c, p)
    BY <1>3 DEF CreatePlannerConversation, SendPlannerMessage
  <2>2. QED BY <2>1, SayKeepsAgents
<1>4. ASSUME NEW h \in Handler, NEW p \in Profile, NEW b \in Task, CreateTask(h, b, p)
      PROVE  AgentInv'
  BY <1>4, CreateTaskKeeps
<1>5. ASSUME NEW b \in Task, DeleteTask(b) PROVE AgentInv' BY <1>5, DeleteTaskKeeps
<1>6. ASSUME NEW c \in Talk, DeleteTalk(c) PROVE AgentInv' BY <1>6, DeleteTalkKeeps
<1>7. CASE UNCHANGED agentVars
  <2>1. UNCHANGED agentTables /\ doing' = doing /\ blurred' = blurred /\ supplied' = supplied
    BY <1>7 DEF agentVars, agentTables
  <2>2. \A h \in Handler : Fits(doing[h])'
    BY <2>1 DEF agentTables, AgentInv, Fits, StillSo, InUse, ReferringRows, ActiveTalks
  <2>3. doing' \in [Handler -> Work] BY <2>1 DEF AgentInv, AgentTyped
  <2>4. QED BY <2>1, <2>2, <2>3, RefusedKeeps
<1>8. QED BY <1>1, <1>2, <1>3, <1>4, <1>5, <1>6, <1>7 DEF AgentNext

LEMMA AgentInvHolds == AgentSpec => []AgentInv
BY AgentsInitially, AgentsInductive, PTL DEF AgentSpec

(* References between profiles, models, skills, tools and servers, and     *)
(* those of beat tasks and conversations, resolve, however many requests   *)
(* overlap: what a count or a look-up missed was overtaken.                *)
THEOREM ConfigReferencesHold == AgentSpec => []ReferencesResolve
<1>1. AgentInv => ReferencesResolve BY DEF AgentInv
<1>2. QED BY <1>1, AgentInvHolds, PTL

(* The entries and bindings of the permission tables stay those of the     *)
(* resources there are, for any number of overlapping requests.            *)
THEOREM EntriesFollow == AgentSpec => []EntriesMatchRows
<1>1. AgentInv => EntriesMatchRows BY DEF AgentInv
<1>2. QED BY <1>1, AgentInvHolds, PTL

(* A blank api_key keeps the one there is, unless edits of one model       *)
(* overlap.                                                                *)
THEOREM KeyIsKept == AgentSpec => []KeyIsLastSupplied
<1>1. AgentInv => KeyIsLastSupplied BY DEF AgentInv
<1>2. QED BY <1>1, AgentInvHolds, PTL
-----------------------------------------------------------------------------
(* Rows as the handlers form them: each refers to rows of the kinds it may *)
(* refer to, a tool of a server names one, and so does whoever is about to *)
(* store it, overtaken or not.                                             *)
Formed(x, ys, k) == ys \in RefsFor(x) /\ (x \in Tool => ServerGiven(k, ys))
Stores(w) == w.op \in {"create", "patch"}
WorkFormed(w) == Stores(w) => Formed(w.row, w.refs, w.kind)
FormInv ==
  /\ assets \subseteq Resource /\ bound \subseteq Resource /\ blurred \subseteq ConfigRow
  /\ kind \in [Tool -> ToolKind]
  /\ \A x \in ConfigRow : refs[x] \in RefsFor(x)
  /\ \A t \in Tool : ServerGiven(kind[t], refs[t])
  /\ \A h \in Handler : WorkFormed(doing[h])

LEMMA NothingIsFormed == \A x : {} \in RefsFor(x) /\ Formed(x, {}, "other")
<1> SUFFICES ASSUME NEW x PROVE {} \in RefsFor(x) /\ Formed(x, {}, "other") OBVIOUS
<1>1. {} \in {{}} \cup {{m} : m \in Mcp} /\ {} \in SUBSET Tool /\ {} \in {{}} OBVIOUS
<1>2. CASE x \in Profile /\ x \notin Tool /\ x \notin Skill
  <2> DEFINE none == {{}}
             models == none \cup {{m} : m \in Llm}
  <2>1. RefsFor(x) = {l \cup s : l \in models, s \in SUBSET Skill} BY <1>2 DEF RefsFor
  <2>2. {} \in models /\ {} \in SUBSET Skill OBVIOUS
  <2> HIDE DEF models
  <2>3. ASSUME NEW k \in models, NEW t \in SUBSET Skill PROVE k \cup t \in RefsFor(x)
    BY <2>1
  <2>4. {} \cup {} \in RefsFor(x) BY <2>2, <2>3, Zenon
  <2>5. {} \in RefsFor(x) BY <2>4
  <2>6. QED BY <2>5 DEF Formed, ServerGiven
<1>3. CASE ~(x \in Profile /\ x \notin Tool /\ x \notin Skill)
  BY <1>1, <1>3 DEF RefsFor, Formed, ServerGiven
<1>4. QED BY <1>2, <1>3

LEMMA FormsInitially == AgentInit => FormInv
<1> SUFFICES ASSUME AgentInit PROVE FormInv OBVIOUS
<1>1. /\ rows = {} /\ assets = {} /\ bound = {} /\ blurred = {}
      /\ refs = [x \in ConfigRow |-> {}] /\ kind = [t \in Tool |-> "other"]
      /\ doing = [h \in Handler |-> AtRest]
  BY Zenon DEF AgentInit
<1>2. \A x \in ConfigRow : refs[x] \in RefsFor(x) BY <1>1, NothingIsFormed
<1>3. kind \in [Tool -> ToolKind] /\ \A t \in Tool : ServerGiven(kind[t], refs[t])
  BY <1>1 DEF ToolKind, ServerGiven
<1>4. \A h \in Handler : WorkFormed(doing[h]) BY <1>1, AtRestFits DEF WorkFormed, Stores
<1>5. QED BY <1>1, <1>2, <1>3, <1>4 DEF FormInv

LEMMA BeginForms ==
  ASSUME AgentInv, FormInv, NEW h \in Handler, NEW w, Begin(h, w), WorkFormed(w)
  PROVE  FormInv'
<1>1. /\ doing' = [doing EXCEPT ![h] = w] /\ rows' = rows /\ refs' = refs
      /\ assets' = assets /\ bound' = bound /\ kind' = kind /\ blurred' = blurred
  BY DEF Begin, agentTables
<1>2. \A g \in Handler : doing'[g] = IF g = h THEN w ELSE doing[g]
  BY <1>1 DEF AgentInv, AgentTyped
<1>3. \A g \in Handler : WorkFormed(doing'[g]) BY <1>2 DEF FormInv
<1>4. QED BY <1>1, <1>3 DEF FormInv, WorkFormed, Stores

LEMMA CreateForms ==
  ASSUME AgentInv, FormInv, NEW h \in Handler, NEW x, NEW ys, NEW k, Create(h, x, ys, k),
         Formed(x, ys, k)
  PROVE  FormInv'
<1>1. PICK w : w = [op |-> "create", row |-> x, fresh |-> TRUE, refs |-> ys, kind |-> k] OBVIOUS
<1>2. WorkFormed(w) BY <1>1 DEF WorkFormed
<1>3. Begin(h, w) BY <1>1 DEF Create
<1>4. QED BY <1>2, <1>3, BeginForms

LEMMA PatchForms ==
  ASSUME AgentInv, FormInv, NEW h \in Handler, NEW x, NEW ys, NEW merged, NEW k,
         Patch(h, x, ys, merged, k), Formed(x, merged, k)
  PROVE  FormInv'
<1>1. PICK w : w = [op |-> "patch", row |-> x, fresh |-> TRUE, refs |-> merged, kind |-> k]
  OBVIOUS
<1>2. WorkFormed(w) BY <1>1 DEF WorkFormed
<1>3. Begin(h, w) BY <1>1 DEF Patch
<1>4. QED BY <1>2, <1>3, BeginForms

LEMMA CreatesForm ==
  ASSUME AgentInv, FormInv, NEW h \in Handler,
         \/ CreateLlm(h) \/ CreateMcp(h) \/ CreateTool(h) \/ CreateSkill(h) \/ CreateProfile(h)
  PROVE  FormInv'
<1>1. CASE CreateLlm(h) \/ CreateMcp(h)
  BY <1>1, CreateForms, NothingIsFormed DEF CreateLlm, CreateMcp
<1>2. CASE CreateTool(h) BY <1>2, CreateForms DEF CreateTool, Formed
<1>3. CASE CreateSkill(h) \/ CreateProfile(h)
  BY <1>3, CreateForms DEF CreateSkill, CreateProfile, Formed, ServerGiven
<1>4. QED BY <1>1, <1>2, <1>3

(* A PATCH of a profile that names no model keeps the one there is.        *)
LEMMA KeptModel ==
  ASSUME NEW x \in Profile, NEW ys \in RefsFor(x), NEW zs \in RefsFor(x), ys \cap Llm = {}
  PROVE  ys \cup (zs \cap Llm) \in RefsFor(x)
<1>0. Llm \cap Skill = {} /\ Llm \cap Tool = {} /\ Llm \cap Mcp = {}
  BY AgentAssumption DEF Resource
<1>1. CASE x \in Tool \/ x \in Skill
  <2>1. zs \cap Llm = {} BY <1>0, <1>1 DEF RefsFor
  <2>2. QED BY <2>1
<1>2. CASE ~(x \in Tool \/ x \in Skill)
  <2>1. RefsFor(x) = {l \cup s : l \in {{}} \cup {{m} : m \in Llm}, s \in SUBSET Skill}
    BY <1>2 DEF RefsFor
  <2>2. PICK l \in {{}} \cup {{m} : m \in Llm}, s \in SUBSET Skill : ys = l \cup s BY <2>1
  <2>3. PICK k \in {{}} \cup {{m} : m \in Llm}, r \in SUBSET Skill : zs = k \cup r BY <2>1
  <2>4. zs \cap Llm = k BY <1>0, <2>3
  <2>5. l = {} BY <2>2
  <2>6. ys \cup (zs \cap Llm) = k \cup s BY <2>2, <2>4, <2>5
  <2>7. QED BY <2>1, <2>2, <2>3, <2>6
<1>3. QED BY <1>1, <1>2

LEMMA PatchesForm ==
  ASSUME AgentInv, FormInv, NEW h \in Handler,
         PatchMcp(h) \/ PatchTool(h) \/ PatchSkill(h) \/ PatchProfile(h)
  PROVE  FormInv'
<1>0. \A x \in Resource : refs[x] \in RefsFor(x) BY KindsAreRows DEF FormInv
<1>1. CASE PatchMcp(h) BY <1>1, PatchForms, NothingIsFormed DEF PatchMcp
<1>2. CASE PatchTool(h)
  <2>1. PICK x \in Tool, k \in ToolKind : \E ys \in RefsFor(x) :
          LET merged == IF ys = {} THEN refs[x] ELSE ys
          IN ToolAllowed(k, merged) /\ Patch(h, x, ys, merged, k)
    BY <1>2 DEF PatchTool
  <2>2. PICK ys \in RefsFor(x) : \E merged :
          /\ merged = IF ys = {} THEN refs[x] ELSE ys
          /\ ToolAllowed(k, merged) /\ Patch(h, x, ys, merged, k)
    BY <2>1
  <2>0. PICK merged : /\ merged = IF ys = {} THEN refs[x] ELSE ys
                      /\ ToolAllowed(k, merged) /\ Patch(h, x, ys, merged, k)
    BY <2>2
  <2>3. x \in Resource /\ merged \in RefsFor(x) BY <1>0, <2>0, KindsAreRows
  <2>4. Formed(x, merged, k) BY <2>0, <2>3 DEF Formed, ToolAllowed
  <2>5. QED BY <2>0, <2>4, PatchForms
<1>3. CASE PatchSkill(h) BY <1>3, PatchForms DEF PatchSkill, Formed, ServerGiven
<1>4. CASE PatchProfile(h)
  <2>1. PICK x \in Profile : \E ys \in RefsFor(x) :
          Patch(h, x, ys, ys \cup (IF ys \cap Llm = {} THEN refs[x] \cap Llm ELSE {}), "other")
    BY <1>4 DEF PatchProfile
  <2>2. PICK ys \in RefsFor(x) :
          Patch(h, x, ys, ys \cup (IF ys \cap Llm = {} THEN refs[x] \cap Llm ELSE {}), "other")
    BY <2>1
  <2>3. PICK merged : merged = ys \cup (IF ys \cap Llm = {} THEN refs[x] \cap Llm ELSE {}) OBVIOUS
  <2>4. refs[x] \in RefsFor(x) BY <1>0, KindsAreRows
  <2>5. merged \in RefsFor(x)
    <3>1. CASE ys \cap Llm = {}
      <4>1. ys \cup (refs[x] \cap Llm) \in RefsFor(x) BY <2>4, <3>1, KeptModel
      <4>2. QED BY <2>3, <3>1, <4>1
    <3>2. CASE ys \cap Llm # {}
      <4>1. merged = ys BY <2>3, <3>2
      <4>2. QED BY <4>1
    <3>3. QED BY <3>1, <3>2
  <2>6. Formed(x, merged, "other") BY <2>5 DEF Formed, ServerGiven
  <2>7. QED BY <2>2, <2>3, <2>6, PatchForms
<1>5. QED BY <1>1, <1>2, <1>3, <1>4

(* The requests that store no row.                                         *)
LEMMA OthersForm ==
  ASSUME AgentInv, FormInv, NEW h \in Handler,
         \/ \E m \in Llm : \E active, config, key : EditLlm(h, m, active, config, key)
         \/ \E x : Delete(h, x) \/ Bind(h, x)
         \/ \E b, p : CreateTask(h, b, p) \/ Say(h, b, p)
  PROVE  FormInv'
<1>0. ASSUME NEW w, w.op \in {"patchLlm", "delete", "bind", "task", "talk"}, Begin(h, w)
      PROVE  FormInv'
  BY <1>0, BeginForms DEF WorkFormed, Stores
<1>1. ASSUME NEW m \in Llm, NEW active, NEW config, NEW key, EditLlm(h, m, active, config, key)
      PROVE  FormInv'
  <2>1. PICK columns, kept, given : Begin(h, [op |-> "patchLlm", row |-> m, fresh |-> TRUE,
          columns |-> columns, active |-> active, key |-> kept, given |-> given])
    BY <1>1, Zenon DEF EditLlm
  <2>2. PICK w : w = [op |-> "patchLlm", row |-> m, fresh |-> TRUE, columns |-> columns,
                      active |-> active, key |-> kept, given |-> given]
    OBVIOUS
  <2>3. w.op = "patchLlm" /\ Begin(h, w) BY <2>1, <2>2
  <2>4. QED BY <1>0, <2>3
<1>2. ASSUME NEW x, Delete(h, x) \/ Bind(h, x) PROVE FormInv' BY <1>0, <1>2 DEF Delete, Bind
<1>3. ASSUME NEW b, NEW p, CreateTask(h, b, p) \/ Say(h, b, p) PROVE FormInv'
  BY <1>0, <1>3 DEF CreateTask, Say
<1>4. QED BY <1>1, <1>2, <1>3

LEMMA OvertakenForms ==
  ASSUME NEW w \in Work, w # AtRest, WorkFormed(w)
  PROVE  WorkFormed([w EXCEPT !.fresh = FALSE])
<1>1. PICK v : v = [w EXCEPT !.fresh = FALSE] OBVIOUS
<1>2. v.op = w.op BY <1>1, Overtaken
<1>3. CASE Stores(w)
  <2>1. w \in [op : {"create", "patch"}, row : ConfigRow, fresh : BOOLEAN,
               refs : SUBSET ConfigRow, kind : ToolKind]
    <3>1. w.op \in {"create", "patch"} BY <1>3 DEF Stores
    <3>2. QED BY <3>1 DEF Work, AtRest
  <2>2. v.row = w.row /\ v.refs = w.refs /\ v.kind = w.kind BY <1>1, <2>1
  <2>3. QED BY <1>1, <2>2, <1>3 DEF WorkFormed
<1>4. CASE ~Stores(w) BY <1>1, <1>2, <1>4 DEF WorkFormed, Stores
<1>5. QED BY <1>3, <1>4

LEMMA EndForms ==
  ASSUME AgentInv, FormInv, NEW h \in Handler, NEW xs \in SUBSET ConfigRow, End(h, xs)
  PROVE  blurred' \subseteq ConfigRow /\ \A g \in Handler : WorkFormed(doing[g])'
<1>1. blurred' \subseteq ConfigRow BY DEF End, FormInv
<1>2. ASSUME NEW g \in Handler PROVE WorkFormed(doing'[g])
  <2>1. CASE g = h \/ doing[g] = AtRest
    <3>1. doing'[g] = AtRest BY <2>1 DEF End
    <3>2. QED BY <3>1, AtRestFits DEF WorkFormed, Stores
  <2>2. CASE g # h /\ doing[g] # AtRest
    <3>1. doing'[g] = [doing[g] EXCEPT !.fresh = FALSE] BY <2>2 DEF End
    <3>2. doing[g] \in Work /\ WorkFormed(doing[g]) BY DEF AgentInv, AgentTyped, FormInv
    <3>3. QED BY <2>2, <3>1, <3>2, OvertakenForms
  <2>3. QED BY <2>1, <2>2
<1>3. QED BY <1>1, <1>2 DEF WorkFormed, Stores

(* A row is stored as it was formed.                                       *)
LEMMA StoringForms ==
  ASSUME AgentInv, FormInv, NEW x \in ConfigRow, NEW ys, NEW k \in ToolKind, Formed(x, ys, k),
         refs' = [refs EXCEPT ![x] = ys],
         kind' = IF x \in Tool THEN [kind EXCEPT ![x] = k] ELSE kind
  PROVE  /\ kind' \in [Tool -> ToolKind]
         /\ \A y \in ConfigRow : refs'[y] \in RefsFor(y)
         /\ \A t \in Tool : ServerGiven(kind'[t], refs'[t])
<1>1. refs'[x] = ys /\ \A y \in ConfigRow \ {x} : refs'[y] = refs[y] BY DEF AgentInv, AgentTyped
<1>2. kind' \in [Tool -> ToolKind] BY DEF FormInv
<1>3. \A t \in Tool : kind'[t] = IF t = x THEN k ELSE kind[t] BY DEF FormInv
<1>4. \A t \in Tool : t \in ConfigRow BY KindsAreRows
<1>5. QED BY <1>1, <1>2, <1>3, <1>4 DEF FormInv, Formed

LEMMA CommitsForm ==
  ASSUME AgentInv, FormInv, NEW h \in Handler,
         CommitCreate(h) \/ \E changed \in BOOLEAN : CommitPatchRow(h, changed)
  PROVE  FormInv'
<1>0. PICK w : w = doing[h] OBVIOUS
<1>1. /\ w \in Work /\ Stores(w) /\ WorkFormed(w) /\ Fits(w) /\ End(h, {w.row} \cup w.refs)
      /\ CommitCreate(h) \/ w.op = "patch"
  <2>1. w \in Work /\ WorkFormed(w) /\ Fits(w) BY <1>0, Committing DEF FormInv
  <2>2. CASE CommitCreate(h)
    <3>1. w.op = "create" /\ End(h, {w.row} \cup w.refs) BY <1>0, <2>2, Zenon DEF CommitCreate
    <3>2. QED BY <2>1, <2>2, <3>1 DEF Stores
  <2>3. ASSUME NEW changed \in BOOLEAN, CommitPatchRow(h, changed)
        PROVE  w.op = "patch" /\ End(h, {w.row} \cup w.refs)
    BY <1>0, <2>3, Zenon DEF CommitPatchRow
  <2>4. QED BY <2>1, <2>2, <2>3 DEF Stores
<1>2. w.row \in ConfigRow /\ w.refs \in SUBSET ConfigRow /\ w.kind \in ToolKind
  BY <1>1, WorkFields DEF Stores
<1>3. blurred' \subseteq ConfigRow /\ \A g \in Handler : WorkFormed(doing[g])'
  <2>1. {w.row} \cup w.refs \in SUBSET ConfigRow BY <1>2
  <2>2. QED BY <1>1, <2>1, EndForms
<1>4. Formed(w.row, w.refs, w.kind) BY <1>1 DEF WorkFormed
<1>5. CASE UNCHANGED <<refs, assets, bound, kind>> BY <1>3, <1>5 DEF FormInv
<1>6. CASE /\ refs' = [refs EXCEPT ![w.row] = w.refs] /\ bound' = bound
           /\ kind' = IF w.row \in Tool THEN [kind EXCEPT ![w.row] = w.kind] ELSE kind
           /\ assets' \subseteq assets \cup ({w.row} \cap Resource)
  <2>1. /\ kind' \in [Tool -> ToolKind]
        /\ \A y \in ConfigRow : refs'[y] \in RefsFor(y)
        /\ \A t \in Tool : ServerGiven(kind'[t], refs'[t])
    BY <1>2, <1>4, <1>6, StoringForms
  <2>2. assets' \subseteq Resource /\ bound' \subseteq Resource BY <1>6 DEF FormInv
  <2>3. QED BY <1>3, <2>1, <2>2 DEF FormInv
<1>7. CASE CommitCreate(h)
  <2>1. CASE UNCHANGED agentTables BY <1>5, <2>1 DEF agentTables
  <2>2. CASE ~UNCHANGED agentTables
    <3>1. {w.row} \ Llm = {w.row} \cap Resource BY <1>2, AgentAssumption DEF ConfigRow
    <3>2. /\ refs' = [refs EXCEPT ![w.row] = w.refs] /\ bound' = bound
          /\ kind' = IF w.row \in Tool THEN [kind EXCEPT ![w.row] = w.kind] ELSE kind
          /\ assets' = assets \cup ({w.row} \ Llm)
      BY <1>0, <1>7, <2>2 DEF CommitCreate
    <3>3. QED BY <1>6, <3>1, <3>2
  <2>3. QED BY <2>1, <2>2
<1>8. ASSUME NEW changed \in BOOLEAN, CommitPatchRow(h, changed) PROVE FormInv'
  <2>1. w.row \in Resource BY <1>0, <1>1, <1>8 DEF Fits, CommitPatchRow
  <2>2. CASE UNCHANGED agentTables BY <1>5, <2>2 DEF agentTables
  <2>3. CASE ~UNCHANGED agentTables
    <3>1. /\ refs' = [refs EXCEPT ![w.row] = IF changed THEN w.refs ELSE @]
          /\ kind' = IF w.row \in Tool /\ changed THEN [kind EXCEPT ![w.row] = w.kind] ELSE kind
          /\ assets' = assets \cup {w.row} /\ bound' = bound
      BY <1>0, <1>8, <2>3 DEF CommitPatchRow
    <3>2. CASE changed BY <1>6, <2>1, <3>1, <3>2
    <3>3. CASE ~changed
      <4>1. refs' = refs /\ kind' = kind BY <3>1, <3>3 DEF AgentInv, AgentTyped
      <4>2. assets' \subseteq Resource BY <2>1, <3>1 DEF FormInv
      <4>3. QED BY <1>3, <3>1, <4>1, <4>2 DEF FormInv
    <3>4. QED BY <3>2, <3>3
  <2>4. QED BY <2>2, <2>3
<1>9. QED BY <1>7, <1>8

LEMMA OtherCommitsForm ==
  ASSUME AgentInv, FormInv, NEW h \in Handler,
         CommitLlm(h) \/ CommitDeleteRow(h) \/ CommitBind(h) \/ CommitTask(h) \/ CommitSay(h)
  PROVE  FormInv'
<1>0. PICK w : w = doing[h] OBVIOUS
<1>1. /\ w \in Work /\ Fits(w) /\ End(h, {w.row}) /\ refs' = refs /\ kind' = kind
      /\ w.op \in {"patchLlm", "delete", "bind", "task", "talk"}
      /\ assets' \subseteq assets
      /\ bound' \subseteq bound \/ (w.op = "bind" /\ bound' = bound \cup {w.row})
  BY <1>0, Committing
  DEF CommitLlm, CommitDeleteRow, CommitBind, CommitTask, CommitSay, Dropped
<1>2. w.row \in ConfigRow BY <1>1, WorkFields, KindsAreRows
<1>3. blurred' \subseteq ConfigRow /\ \A g \in Handler : WorkFormed(doing[g])'
  <2>1. {w.row} \in SUBSET ConfigRow BY <1>2
  <2>2. QED BY <1>1, <2>1, EndForms
<1>4. assets' \subseteq Resource /\ bound' \subseteq Resource BY <1>1 DEF FormInv, Fits
<1>5. QED BY <1>1, <1>3, <1>4 DEF FormInv

LEMMA FormsInductive == AgentInv /\ FormInv /\ [AgentNext]_agentVars => FormInv'
<1> SUFFICES ASSUME AgentInv, FormInv, [AgentNext]_agentVars PROVE FormInv' OBVIOUS
<1>1. CASE UNCHANGED <<refs, assets, bound, kind, doing, blurred>>
  BY <1>1 DEF FormInv, WorkFormed, Stores
<1>2. CASE UNCHANGED agentVars BY <1>1, <1>2 DEF agentVars
<1>3. CASE (\E b \in Task : DeleteTask(b)) \/ \E c \in Talk : DeleteTalk(c)
  BY <1>1, <1>3 DEF DeleteTask, DeleteTalk
<1>4. ASSUME NEW h \in Handler,
             \/ CommitLlm(h) \/ CommitDeleteRow(h) \/ CommitBind(h) \/ CommitTask(h)
             \/ CommitSay(h) \/ CommitCreate(h)
             \/ \E changed \in BOOLEAN : CommitPatchRow(h, changed)
      PROVE  FormInv'
  BY <1>4, CommitsForm, OtherCommitsForm
<1>5. ASSUME NEW h \in Handler,
             \/ CreateLlm(h) \/ CreateMcp(h) \/ CreateTool(h) \/ CreateSkill(h)
             \/ CreateProfile(h) \/ PatchMcp(h) \/ PatchTool(h) \/ PatchSkill(h)
             \/ PatchProfile(h)
      PROVE  FormInv'
  BY <1>5, CreatesForm, PatchesForm
<1>6. ASSUME NEW h \in Handler,
             \/ PatchLlm(h) \/ DeactivateLlm(h)
             \/ CreatePlannerConversation(h) \/ SendPlannerMessage(h)
             \/ \E p \in Profile, b \in Task : CreateTask(h, b, p)
      PROVE  FormInv'
  <2>1. CASE PatchLlm(h) BY <2>1, OthersForm DEF PatchLlm
  <2>2. CASE DeactivateLlm(h)
    <3>1. PICK m \in Llm : EditLlm(h, m, FALSE, {}, NoProfile) BY <2>2 DEF DeactivateLlm, NoProfile
    <3>2. QED BY <3>1, OthersForm
  <2>3. CASE ~(PatchLlm(h) \/ DeactivateLlm(h))
    BY <1>6, <2>3, OthersForm DEF CreatePlannerConversation, SendPlannerMessage
  <2>4. QED BY <2>1, <2>2, <2>3
<1>7. ASSUME NEW h \in Handler,
             \/ DeleteLlm(h) \/ DeleteMcp(h) \/ DeleteTool(h) \/ DeleteSkill(h)
             \/ DeleteProfile(h) \/ PutMcpBindings(h) \/ PutToolBindings(h)
             \/ PutSkillBindings(h) \/ PutProfileBindings(h)
      PROVE  FormInv'
  BY <1>7, OthersForm
  DEF DeleteLlm, DeleteMcp, DeleteTool, DeleteSkill, DeleteProfile, PutMcpBindings,
      PutToolBindings, PutSkillBindings, PutProfileBindings
<1>8. QED BY <1>2, <1>3, <1>4, <1>5, <1>6, <1>7 DEF AgentNext

-----------------------------------------------------------------------------
(* The two catalogs side by side.                                          *)
LEMMA CatalogSteps == CatalogSpec => FlowsSpec /\ AgentSpec
<1>1. CatInit => CatalogInit /\ AgentInit BY DEF CatInit
<1>2. [CatNext]_<<part, catalogVars, agentVars>>
        => [CatalogNext]_catalogVars /\ [AgentNext]_agentVars
  BY DEF CatNext
<1>3. QED BY <1>1, <1>2, PTL DEF CatalogSpec, FlowsSpec, AgentSpec

(* The tables of both catalogs stay well formed, however many requests     *)
(* overlap: a row refers to rows of the kinds it may refer to, a tool of a *)
(* server names one, only deleted versions are past their retention.       *)
THEOREM CatalogsStayTyped == CatalogSpec => []CatTypeOK
<1>1. FlowsInv => CatalogTypeOK BY DEF FlowsInv
<1>2. AgentInv /\ FormInv => AgentTypeOK
  <2> SUFFICES ASSUME AgentInv, FormInv PROVE AgentTypeOK OBVIOUS
  <2>1. rows \subseteq ConfigRow BY DEF AgentInv, AgentTyped
  <2>2. QED BY <2>1 DEF AgentInv, AgentTyped, FormInv, AgentTypeOK
<1>3. AgentSpec => []FormInv
  BY FormsInitially, FormsInductive, AgentInvHolds, PTL DEF AgentSpec
<1>4. CatTypeOK <=> CatalogTypeOK /\ AgentTypeOK BY DEF CatTypeOK
<1>5. QED BY <1>1, <1>2, <1>3, <1>4, CatalogSteps, FlowsInvariant, AgentInvHolds, PTL
   DEF CatalogSpec, FlowsSpec
=============================================================================

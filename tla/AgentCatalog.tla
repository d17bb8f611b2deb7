---------------------------- MODULE AgentCatalog ---------------------------
(***************************************************************************)
(* Agent configuration and models: profiles name a model and skills,       *)
(* skills name tools, tools name an MCP server; beat tasks and planner     *)
(* conversations name a profile.  Some references are foreign keys, the    *)
(* others identifiers in a JSON column that only the handlers look after.  *)
(* Every resource but a model has a row in sys_asset and may have bindings *)
(* beside its own, kept in step by the handlers alone.                     *)
(***************************************************************************)
EXTENDS Naturals, FiniteSets

CONSTANTS Llm, Mcp, Tool, Skill, Profile,  \* rows that may exist
          Task,      \* beat tasks
          Talk,      \* planner conversations
          Handler,   \* request handlers running at once
          Plans      \* bound: the operations, rows and number of requests of a
                     \* behaviour, [ops, rows, requests]

VARIABLES rows,      \* the rows stored
          refs,      \* [Row -> what the row refers to]
          assets,    \* rows with a sys_asset entry
          bound,     \* rows with bindings
          kind,      \* [Tool -> "mcp" or "other"]
          model,     \* [Llm -> [active, key]]; key: "" or the api_key of its config
          task,      \* [Task -> Profile or NoProfile: no such task]
          talk,      \* [Talk -> [status, profile]]
          doing,     \* [Handler -> what it read and is about to commit]
          plan, asked

VARIABLES blurred,   \* history: rows changed or named by a request that had read
                     \* another state than the one it committed to
          supplied   \* history: [Llm -> the last api_key a request set]

agentVars == <<rows, refs, assets, bound, kind, model, task, talk, doing, plan, asked,
               blurred, supplied>>
agentTables == <<rows, refs, assets, bound, kind, model, task, talk>>

Resource == Mcp \cup Tool \cup Skill \cup Profile
ConfigRow == Llm \cup Resource
NoProfile == ""
ASSUME AgentAssumption == Llm \cap Resource = {} /\ NoProfile \notin ConfigRow
ApiKey == {"", "k"}
ToolKind == {"mcp", "other"}

(* What a row of each kind may refer to.                                   *)
RefsFor(x) ==
  IF x \in Tool THEN {{}} \cup {{m} : m \in Mcp}
  ELSE IF x \in Skill THEN SUBSET Tool
  ELSE IF x \in Profile THEN {l \cup s : l \in {{}} \cup {{m} : m \in Llm}, s \in SUBSET Skill}
  ELSE {{}}
ForeignKeys == Llm \cup Mcp

AtRest == [op |-> "rest", row |-> "", fresh |-> TRUE]
Work ==
       {AtRest}
  \cup [op : {"create", "patch"}, row : ConfigRow, fresh : BOOLEAN,
        refs : SUBSET ConfigRow, kind : ToolKind]
  \cup [op : {"patchLlm"}, row : Llm, fresh : BOOLEAN, columns : SUBSET {"active", "config"},
        active : BOOLEAN, key : ApiKey, given : BOOLEAN]
  \cup [op : {"delete", "bind"}, row : ConfigRow, fresh : BOOLEAN]
  \cup [op : {"task"}, row : Profile, fresh : BOOLEAN, task : Task]
  \cup [op : {"talk"}, row : Profile, fresh : BOOLEAN, talk : Talk]

AgentInit ==
  /\ rows = {} /\ assets = {} /\ bound = {}
  /\ refs = [x \in ConfigRow |-> {}]
  /\ kind = [t \in Tool |-> "other"]
  /\ model = [m \in Llm |-> [active |-> TRUE, key |-> ""]]
  /\ task = [b \in Task |-> NoProfile]
  /\ talk = [c \in Talk |-> [status |-> "absent", profile |-> NoProfile]]
  /\ doing = [h \in Handler |-> AtRest]
  /\ plan \in Plans /\ asked = 0
  /\ blurred = {} /\ supplied = [m \in Llm |-> ""]

Begin(h, w) ==
  /\ doing[h] = AtRest
  /\ w.op \in plan.ops /\ w.row \in plan.rows
  /\ asked < plan.requests
  /\ asked' = asked + 1
  /\ doing' = [doing EXCEPT ![h] = w]
  /\ UNCHANGED <<agentTables, plan, blurred, supplied>>

(* The end of a transaction that wrote or named the rows xs; what others   *)
(* in flight have read is from then on the past.                           *)
End(h, xs) ==
  /\ doing' = [g \in Handler |-> IF g = h THEN AtRest
                                 ELSE IF doing[g] = AtRest THEN AtRest
                                 ELSE [doing[g] EXCEPT !.fresh = FALSE]]
  /\ blurred' = IF doing[h].fresh THEN blurred ELSE blurred \cup xs
  /\ UNCHANGED <<plan, asked>>

-----------------------------------------------------------------------------
(* Create and patch: what is referred to is looked up by the handler       *)
(* (_require_llm, _require_skills, _require_tools, _require_mcp), a        *)
(* foreign key once more by the database at the flush.                     *)

Known(ys) == ys \subseteq rows
ServerGiven(k, ys) == k = "mcp" => ys # {}
Create(h, x, ys, k) ==
  /\ x \notin rows
  /\ Known(ys)
  /\ Begin(h, [op |-> "create", row |-> x, fresh |-> TRUE, refs |-> ys, kind |-> k])
CreateLlm(h) == \E x \in Llm : Create(h, x, {}, "other")
CreateMcp(h) == \E x \in Mcp : Create(h, x, {}, "other")
CreateTool(h) == \E x \in Tool, k \in ToolKind : \E ys \in RefsFor(x) :
  ServerGiven(k, ys) /\ Create(h, x, ys, k)
CreateSkill(h) == \E x \in Skill : \E ys \in RefsFor(x) : Create(h, x, ys, "other")
CreateProfile(h) == \E x \in Profile : \E ys \in RefsFor(x) : Create(h, x, ys, "other")

(* A PATCH leaves out what it does not change: no reference is ever        *)
(* removed from a tool, nor the model from a profile, by one.  The kind    *)
(* and server of a tool are checked as they will be.                       *)
Patch(h, x, ys, merged, k) ==
  /\ x \in rows
  /\ Known(ys)
  /\ Begin(h, [op |-> "patch", row |-> x, fresh |-> TRUE, refs |-> merged, kind |-> k])
PatchMcp(h) == \E x \in Mcp : Patch(h, x, {}, {}, "other")
KindUnchecked(k, ys) == TRUE
ToolAllowed(k, ys) == ServerGiven(k, ys)
PatchTool(h) == \E x \in Tool, k \in ToolKind : \E ys \in RefsFor(x) :
  LET merged == IF ys = {} THEN refs[x] ELSE ys
  IN ToolAllowed(k, merged) /\ Patch(h, x, ys, merged, k)
PatchSkill(h) == \E x \in Skill : \E ys \in RefsFor(x) : Patch(h, x, ys, ys, "other")
PatchProfile(h) == \E x \in Profile : \E ys \in RefsFor(x) :
  LET kept == IF ys \cap Llm = {} THEN refs[x] \cap Llm ELSE {}
  IN Patch(h, x, ys, ys \cup kept, "other")

KeysHold(ys) == ys \cap ForeignKeys \subseteq rows

CommitCreate(h) ==
  LET w == doing[h] IN
  /\ w.op = "create"
  /\ IF w.row \in rows \/ ~KeysHold(w.refs)
     THEN UNCHANGED agentTables
     ELSE /\ rows' = rows \cup {w.row}
          /\ refs' = [refs EXCEPT ![w.row] = w.refs]
          /\ kind' = IF w.row \in Tool THEN [kind EXCEPT ![w.row] = w.kind] ELSE kind
          /\ assets' = assets \cup ({w.row} \ Llm)
          /\ model' = IF w.row \in Llm
                      THEN [model EXCEPT ![w.row] = [active |-> TRUE, key |-> ""]] ELSE model
          /\ UNCHANGED <<bound, task, talk>>
  /\ supplied' = IF w.row \in Llm /\ rows' # rows THEN [supplied EXCEPT ![w.row] = ""]
                 ELSE supplied
  /\ End(h, {w.row} \cup w.refs)

(* upsert_config_asset looks for the entry and adds it when there is none. *)
(* A row deleted meanwhile makes the update fail; a PATCH that changed no  *)
(* column of it has no update, only the entry.                             *)
CommitPatchRow(h, changed) ==
  LET w == doing[h] IN
  /\ w.op = "patch"
  /\ changed \/ w.refs = refs[w.row]
  /\ IF changed /\ (w.row \notin rows \/ ~KeysHold(w.refs))
     THEN UNCHANGED agentTables
     ELSE /\ refs' = [refs EXCEPT ![w.row] = IF changed THEN w.refs ELSE @]
          /\ kind' = IF w.row \in Tool /\ changed THEN [kind EXCEPT ![w.row] = w.kind] ELSE kind
          /\ assets' = assets \cup {w.row}
          /\ UNCHANGED <<rows, bound, model, task, talk>>
  /\ End(h, {w.row} \cup w.refs)
  /\ UNCHANGED supplied

(* The ORM writes the columns that differ from what was read.  A blank     *)
(* api_key means the one the row had when it was read; NewKeyOnly takes a  *)
(* blank at its word.                                                      *)
NewKeyOnly(m, key) == key
KeptKey(m, key) == IF key = "" THEN model[m].key ELSE key
EditLlm(h, m, active, config, key) ==
  /\ m \in rows
  /\ Begin(h, [op |-> "patchLlm", row |-> m, fresh |-> TRUE,
               columns |-> config \cup {c \in {"active"} : active # model[m].active},
               active |-> active, key |-> KeptKey(m, key), given |-> key # ""])
PatchLlm(h) ==
  \E m \in Llm, active \in BOOLEAN, key \in ApiKey, config \in SUBSET {"config"} :
    /\ KeptKey(m, key) # model[m].key => config # {}
    /\ EditLlm(h, m, active, config, key)
DeactivateLlm(h) == \E m \in Llm : EditLlm(h, m, FALSE, {}, "")

CommitLlm(h) ==
  LET w == doing[h] IN
  /\ w.op = "patchLlm"
  /\ IF w.row \notin rows THEN UNCHANGED <<model, supplied>>
     ELSE /\ model' = [model EXCEPT
               ![w.row].active = IF "active" \in w.columns THEN w.active ELSE @,
               ![w.row].key = IF "config" \in w.columns THEN w.key ELSE @]
          /\ supplied' = IF w.given THEN [supplied EXCEPT ![w.row] = w.key] ELSE supplied
  /\ End(h, {w.row})
  /\ UNCHANGED <<rows, refs, assets, bound, kind, task, talk>>

-----------------------------------------------------------------------------
(* Delete, with the count the handler takes first.  OnlyForeignKeys        *)
(* forgets what is named in JSON columns.                                  *)

ReferringRows(x) == {y \in rows : x \in refs[y]}
ActiveTalks(p) == {c \in Talk : talk[c].status = "active" /\ talk[c].profile = p}
OnlyForeignKeys(x) == \/ x \in ForeignKeys /\ ReferringRows(x) # {}
                      \/ x \in Profile /\ \E b \in Task : task[b] = x
InUse(x) == \/ ReferringRows(x) # {}
            \/ x \in Profile /\ (ActiveTalks(x) # {} \/ \E b \in Task : task[b] = x)

Delete(h, x) ==
  /\ x \in rows
  /\ ~InUse(x)
  /\ Begin(h, [op |-> "delete", row |-> x, fresh |-> TRUE])
DeleteLlm(h) == \E x \in Llm : Delete(h, x)
DeleteMcp(h) == \E x \in Mcp : Delete(h, x)
DeleteTool(h) == \E x \in Tool : Delete(h, x)
DeleteSkill(h) == \E x \in Skill : Delete(h, x)
DeleteProfile(h) == \E x \in Profile : Delete(h, x)

(* drop_config_resource removes bindings and entry with the row, unless a  *)
(* foreign key still holds it.  KeepEntry forgets the entry.               *)
Holders(x) == {y \in rows : x \in refs[y] \cap ForeignKeys}
                 \cup {b \in Task : task[b] = x}
KeepEntry(x) == assets
Dropped(x) == assets \ {x}
CommitDeleteRow(h) ==
  LET w == doing[h] IN
  /\ w.op = "delete"
  /\ IF Holders(w.row) # {}
     THEN UNCHANGED <<rows, assets, bound>>
     ELSE /\ rows' = rows \ {w.row}
          /\ assets' = Dropped(w.row)
          /\ bound' = bound \ {w.row}
  /\ End(h, {w.row})
  /\ UNCHANGED <<refs, kind, model, task, talk, supplied>>

(* _put_bindings of a row that exists, with a list that is not empty.      *)
Bind(h, x) == x \in rows /\ Begin(h, [op |-> "bind", row |-> x, fresh |-> TRUE])
PutMcpBindings(h) == \E x \in Mcp : Bind(h, x)
PutToolBindings(h) == \E x \in Tool : Bind(h, x)
PutSkillBindings(h) == \E x \in Skill : Bind(h, x)
PutProfileBindings(h) == \E x \in Profile : Bind(h, x)
CommitBind(h) ==
  LET w == doing[h] IN
  /\ w.op = "bind"
  /\ bound' = bound \cup {w.row}
  /\ End(h, {w.row})
  /\ UNCHANGED <<rows, refs, assets, kind, model, task, talk, supplied>>

-----------------------------------------------------------------------------
(* Beat tasks and planner conversations on a profile.                      *)

CreateTask(h, b, p) ==
  /\ task[b] = NoProfile
  /\ p \in rows
  /\ Begin(h, [op |-> "task", row |-> p, fresh |-> TRUE, task |-> b])
CommitTask(h) ==
  LET w == doing[h] IN
  /\ w.op = "task"
  /\ task' = IF w.row \in rows /\ task[w.task] = NoProfile
             THEN [task EXCEPT ![w.task] = w.row] ELSE task
  /\ End(h, {w.row})
  /\ UNCHANGED <<rows, refs, assets, bound, kind, model, talk, supplied>>
DeleteTask(b) ==
  /\ "task" \in plan.ops /\ task[b] # NoProfile
  /\ task' = [task EXCEPT ![b] = NoProfile]
  /\ UNCHANGED <<rows, refs, assets, bound, kind, model, talk, doing, plan, asked,
                 blurred, supplied>>

(* _ensure_profile_usable, of the profile in the body or of the one the    *)
(* conversation carries; then the profile is stored with the conversation. *)
ProfileUsable(p) == p \in rows /\ \A m \in refs[p] \cap Llm : m \in rows /\ model[m].active
Say(h, c, p) ==
  /\ ProfileUsable(p)
  /\ Begin(h, [op |-> "talk", row |-> p, fresh |-> TRUE, talk |-> c])
CreatePlannerConversation(h) == \E c \in Talk, p \in Profile :
  talk[c].status = "absent" /\ Say(h, c, p)
SendPlannerMessage(h) == \E c \in Talk, p \in Profile :
  talk[c].status \in {"absent", "active"} /\ Say(h, c, p)
CommitSay(h) ==
  LET w == doing[h] IN
  /\ w.op = "talk"
  /\ talk' = [talk EXCEPT ![w.talk].profile = w.row,
                          ![w.talk].status = IF @ = "absent" THEN "active" ELSE @]
  /\ End(h, {w.row})
  /\ UNCHANGED <<rows, refs, assets, bound, kind, model, task, supplied>>
DeleteTalk(c) ==
  /\ "talk" \in plan.ops /\ talk[c].status = "active"
  /\ talk' = [talk EXCEPT ![c].status = "deleted"]
  /\ UNCHANGED <<rows, refs, assets, bound, kind, model, task, doing, plan, asked,
                 blurred, supplied>>

AgentNext ==
  \/ \E h \in Handler :
       \/ CommitCreate(h) \/ CommitLlm(h) \/ CommitDeleteRow(h) \/ CommitBind(h)
       \/ CommitTask(h) \/ CommitSay(h)
       \/ \E changed \in BOOLEAN : CommitPatchRow(h, changed)
       \/ CreateLlm(h) \/ PatchLlm(h) \/ DeactivateLlm(h) \/ DeleteLlm(h)
       \/ CreateMcp(h) \/ PatchMcp(h) \/ DeleteMcp(h) \/ PutMcpBindings(h)
       \/ CreateTool(h) \/ PatchTool(h) \/ DeleteTool(h) \/ PutToolBindings(h)
       \/ CreateSkill(h) \/ PatchSkill(h) \/ DeleteSkill(h) \/ PutSkillBindings(h)
       \/ CreateProfile(h) \/ PatchProfile(h) \/ DeleteProfile(h) \/ PutProfileBindings(h)
       \/ CreatePlannerConversation(h) \/ SendPlannerMessage(h)
       \/ \E p \in Profile, b \in Task : CreateTask(h, b, p)
  \/ \E b \in Task : DeleteTask(b)
  \/ \E c \in Talk : DeleteTalk(c)

AgentSpec == AgentInit /\ [][AgentNext]_agentVars

-----------------------------------------------------------------------------
(* Type invariant.                                                         *)
AgentTypeOK ==
  /\ rows \subseteq ConfigRow /\ assets \subseteq Resource /\ bound \subseteq Resource
  /\ \A x \in ConfigRow : refs[x] \in RefsFor(x)
  /\ kind \in [Tool -> ToolKind]
  /\ \A t \in Tool \cap rows : ServerGiven(kind[t], refs[t])
  /\ model \in [Llm -> [active : BOOLEAN, key : ApiKey]]
  /\ task \in [Task -> Profile \cup {NoProfile}]
  /\ talk \in [Talk -> [status : {"absent", "active", "deleted"},
                        profile : Profile \cup {NoProfile}]]
  /\ doing \in [Handler -> Work]
  /\ blurred \subseteq ConfigRow /\ supplied \in [Llm -> ApiKey]

(* What a row, a beat task or a planner conversation refers to exists:     *)
(* through the database for models, servers and beat tasks, through the    *)
(* counts of the delete handlers for the rest, unless the row was deleted  *)
(* or named by a request that another one overtook.                        *)
ReferencesResolve ==
  /\ \A x \in rows : /\ refs[x] \cap ForeignKeys \subseteq rows
                     /\ refs[x] \subseteq rows \cup blurred
  /\ \A b \in Task : task[b] \in rows \cup {NoProfile}
  /\ \A c \in Talk : talk[c].status = "active" => talk[c].profile \in rows \cup blurred

(* The permission tables follow the resources: every resource has its      *)
(* sys_asset entry, and entries and bindings of deleted ones are gone, so  *)
(* that no right outlives the resource; overtaken requests aside.          *)
EntriesMatchRows ==
  /\ assets \ blurred = (rows \cap Resource) \ blurred
  /\ bound \subseteq rows \cup blurred

(* The api_key of a model is the last one somebody typed: edits that leave *)
(* it blank keep it, unless two edits of the model overlap, when the later *)
(* commit puts back the key it had read.                                   *)
KeyIsLastSupplied ==
  \A m \in Llm \cap rows : model[m].key = supplied[m] \/ m \in blurred
=============================================================================

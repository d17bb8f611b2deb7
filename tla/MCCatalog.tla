----------------------------- MODULE MCCatalog -----------------------------
(* The catalog modules side by side; see MCAuth for the sum.               *)
EXTENDS FlowCatalog, AgentCatalog, TLC

CONSTANTS Parts

VARIABLE part

VersionOps == {"create", "patch", "newDraft", "publish", "delete"}
UseOps == {"create", "delete", "beat", "talk", "send", "purge"}
VersionScope == {[ops |-> VersionOps, codes |-> Code, requests |-> 7]}
UseScope == {[ops |-> UseOps, codes |-> {CHOOSE c \in Code : TRUE}, requests |-> 7]}
BothScopes == VersionScope \cup UseScope

ResourceOps == {"create", "patch", "delete", "bind"}
ProfileOps == {"create", "patchLlm", "delete", "task", "talk"}
AllPlans == {[ops |-> ResourceOps, rows |-> Mcp \cup Tool \cup Skill, requests |-> 6],
             [ops |-> ProfileOps, rows |-> Llm \cup Profile, requests |-> 6],
             [ops |-> ResourceOps, rows |-> Skill \cup Llm \cup Profile, requests |-> 5]}
BothParts == {"flows", "agents"}
FlowsOnly == {"flows"}
AgentsOnly == {"agents"}

CatInit == part \in Parts /\ CatalogInit /\ AgentInit
             /\ (part = "flows" => plan = CHOOSE p \in Plans : TRUE)
             /\ (part = "agents" => scope = CHOOSE s \in Scopes : TRUE)
CatNext ==
  \/ part = "flows" /\ CatalogNext /\ UNCHANGED <<part, agentVars>>
  \/ part = "agents" /\ AgentNext /\ UNCHANGED <<part, catalogVars>>
CatalogSpec == CatInit /\ [][CatNext]_<<part, catalogVars, agentVars>>

(* Every variable of the two modules has its type.                         *)
CatTypeOK == CatalogTypeOK /\ AgentTypeOK

CatalogSymmetry == Permutations(Request) \cup Permutations(Code) \cup Permutations(Handler)
=============================================================================

------------------------------ MODULE MCAuth ------------------------------
(***************************************************************************)
(* Sessions and access rules share no table: a request is accepted by the  *)
(* first and then judged by the second.  One behaviour moves one of them,  *)
(* the one Init chose, so that TLC explores the sum of their states and    *)
(* not the product.                                                        *)
(***************************************************************************)
EXTENDS AuthSessions, AccessRules, TLC

CONSTANTS Parts   \* which of the two this configuration explores

VARIABLE part

AuthInit == part \in Parts /\ SessionsInit /\ AccessInit
AuthNext ==
  \/ part = "sessions" /\ SessionsNext /\ UNCHANGED <<part, accessVars>>
  \/ part = "access" /\ AccessNext /\ UNCHANGED <<part, sessionVars>>
AuthSpec == AuthInit /\ [][AuthNext]_<<part, sessionVars, accessVars>>

(* Every variable of the two modules has its type.                         *)
AuthTypeOK == SessionsTypeOK /\ AccessTypeOK

BothParts == {"sessions", "access"}
SessionsOnly == {"sessions"}
AccessOnly == {"access"}

OneOrg == [u \in Person |-> "acme"]
NoDepartments == [u \in Person |-> NoDept]
Item(kind, who, actions) == [subject |-> <<kind, who>>, actions |-> actions]
SmallBodies == LET u == CHOOSE u \in Person : TRUE
                   r == CHOOSE r \in Role : TRUE
               IN { {}, {Item("organization", OrgOf[u], {"write"}), Item("role", r, {})},
                    {Item("role", r, {"export"})},
                    {Item("role", r, {"export"}), Item("role", r, {"read"})} }
GrantLists == {{}, {"admin"}}
AuthSymmetry == Permutations(Request) \cup Permutations(User) \cup Permutations(Caller)
=============================================================================

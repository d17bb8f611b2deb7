---------------------------- MODULE AuthSessions ----------------------------
(***************************************************************************)
(* Accounts and login sessions.  A session is a family of token pairs: an  *)
(* access token that is checked against Redis and the account row, and a   *)
(* refresh token, a database row, that is exchanged once for the next      *)
(* pair.  A request is a database transaction of several statements with   *)
(* Redis writes between them; requests overlap, and the isolation level is *)
(* the database's default, READ COMMITTED: every statement sees what is    *)
(* committed when it runs.                                                 *)
(***************************************************************************)
EXTENDS Naturals, Sequences, FiniteSets

CONSTANTS User,           \* user names
          DirectoryUser,  \* those the LDAP directory authenticates
          Request,        \* request handlers running at the same time
          AccessTtl,      \* jwt_access_ttl_seconds
          RefreshTtl,     \* jwt_refresh_ttl_seconds
          KeepReused,     \* whether the history reused is kept
          MaxEnds,        \* bound: logouts and shut accounts
          MaxPairs,       \* bound: token pairs ever issued
          MaxTime         \* bound: the last second of a behaviour

ASSUME TtlAssumption == AccessTtl \in Nat \ {0} /\ RefreshTtl \in Nat \ {0}
ASSUME BoundsAssumption == MaxPairs \in Nat /\ MaxTime \in Nat \ {0} /\ MaxEnds \in Nat

VARIABLES account,   \* [User -> Account], table sys_user
          org,       \* the default organisation row is committed
          pairs,     \* the pairs issued, oldest first: refresh rows and JWTs
          black,     \* [1..MaxPairs -> time the blacklist key of the jti expires]
          before,    \* [User -> revoke_before, or 0: no such key]
          now,       \* the clock, in seconds
          at         \* [Request -> where the request is]

VARIABLES ends,      \* how many of them began
          out,       \* history: pairs whose logout was acknowledged
          ended,     \* history: pairs that existed when their account was shut
          reused,    \* history: families whose reuse was answered "revoked"
          forked     \* history: families of a token refreshed by two requests

sessionVars == <<account, org, pairs, black, before, now, at,
                 ends, out, ended, reused, forked>>

Status == {"none", "active", "disabled"}
Pair == 1 .. Len(pairs)
Account == [status : Status, super : BOOLEAN, local : BOOLEAN]
TokenPair == [user : User, family : 1 .. MaxPairs, iat : 1 .. MaxTime, revoked : BOOLEAN]

Idle == [op |-> "idle"]
Frame ==
       {Idle}
  \cup [op : {"orgInsert", "orgHeld", "orgRead"}, user : User]
  \cup [op : {"issue"}, user : User, create : BOOLEAN, local : BOOLEAN, super : BOOLEAN,
        orgNew : BOOLEAN, from : 0 .. MaxPairs, iat : 1 .. MaxTime]
  \cup [op : {"logout"}, pair : 1 .. MaxPairs, refresh : 0 .. MaxPairs]
  \cup [op : {"loggedOut"}, pair : 1 .. MaxPairs, refresh : 0 .. MaxPairs]
  \cup [op : {"shut"}, user : User, seen : SUBSET (1 .. MaxPairs)]

SessionsInit ==
  /\ account = [u \in User |-> [status |-> "none", super |-> FALSE, local |-> FALSE]]
  /\ org = FALSE
  /\ pairs = <<>>
  /\ black = [p \in 1 .. MaxPairs |-> 0]
  /\ before = [u \in User |-> 0]
  /\ now = 1
  /\ at = [q \in Request |-> Idle]
  /\ ends = 0 /\ out = {} /\ ended = {} /\ reused = {} /\ forked = {}

Goto(q, f) == at' = [at EXCEPT ![q] = f]
Exists(u) == account[u].status # "none"
Active(u) == account[u].status = "active"
History == <<ends, out, ended, reused, forked>>

-----------------------------------------------------------------------------
(* What a token is worth.                                                  *)

(* decode: the signature is ours, so expiry decides (exp <= now is late).  *)
Unexpired(p) == now < pairs[p].iat + AccessTtl

Blacklisted(p) == now < black[p]

(* IssuedTooEarly is RevokedAsAWhole with < in the place of <=.            *)
IssuedTooEarly(p) == pairs[p].iat < before[pairs[p].user]
RevokedAsAWhole(p) == before[pairs[p].user] # 0 /\ pairs[p].iat <= before[pairs[p].user]

(* verify_access_token, as get_current_user applies it to every request.   *)
Accepted(p) == /\ Unexpired(p)
               /\ ~Blacklisted(p)
               /\ ~RevokedAsAWhole(p)
               /\ Active(pairs[p].user)

RefreshExpired(p) == pairs[p].iat + RefreshTtl <= now

-----------------------------------------------------------------------------
(* Requests that end with a new pair: register, login, refresh.            *)

IssueFrame(u, create, from) ==
  [op |-> "issue", user |-> u, create |-> create, local |-> FALSE, super |-> FALSE,
   orgNew |-> FALSE, from |-> from, iat |-> now]

(* register: the name is free; then the default organisation is read.      *)
Register(q, u) ==
  /\ at[q] = Idle
  /\ ~Exists(u)
  /\ Goto(q, [op |-> IF org THEN "orgRead" ELSE "orgInsert", user |-> u])
  /\ UNCHANGED <<account, org, pairs, black, before, now, History>>

(* The insert of an organisation read as absent waits for an uncommitted   *)
(* insert of the same code, and is refused (500, rollback) once committed. *)
(* NobodyWaitedFor is the insert without the unique code.                  *)
NobodyWaitedFor == {}
OrgHolders == {r \in Request : \/ at[r].op = "orgHeld"
                               \/ at[r].op = "issue" /\ at[r].orgNew}
InsertOrg(q) ==
  /\ at[q].op = "orgInsert"
  /\ OrgHolders = {}
  /\ Goto(q, IF org THEN Idle ELSE [op |-> "orgHeld", user |-> at[q].user])
  /\ UNCHANGED <<account, org, pairs, black, before, now, History>>

(* count_active_users counts rows not deleted, whatever their status.      *)
NoUsers == \A u \in User : ~Exists(u)
CountUsers(q) ==
  /\ at[q].op \in {"orgRead", "orgHeld"}
  /\ Goto(q, [op |-> "issue", user |-> at[q].user, create |-> TRUE, local |-> TRUE,
              super |-> NoUsers, orgNew |-> at[q].op = "orgHeld", from |-> 0, iat |-> now])
  /\ UNCHANGED <<account, org, pairs, black, before, now, History>>

(* login: a local account by password; any other name through the          *)
(* directory, which provisions the account of a name it sees first.        *)
ByDirectory(u) == /\ ~account[u].local
                  /\ u \in DirectoryUser
                  /\ ~Exists(u) => org
Login(q, u) ==
  /\ at[q] = Idle
  /\ account[u].local \/ ByDirectory(u)
  /\ Active(u) \/ ~Exists(u)
  /\ Goto(q, IssueFrame(u, ~Exists(u), 0))
  /\ UNCHANGED <<account, org, pairs, black, before, now, History>>

(* refresh of a live token: the row is read, nothing is locked.            *)
Refresh(q, p) ==
  /\ at[q] = Idle
  /\ ~pairs[p].revoked
  /\ ~RefreshExpired(p)
  /\ Active(pairs[p].user)
  /\ Goto(q, IssueFrame(pairs[p].user, FALSE, p))
  /\ UNCHANGED <<account, org, pairs, black, before, now, History>>

(* refresh of a revoked token: the family is revoked in the request's      *)
(* transaction, and the error that reports it rolls that back.             *)
Reuse(q, p) ==
  /\ at[q] = Idle
  /\ pairs[p].revoked
  /\ reused' = IF KeepReused THEN reused \cup {pairs[p].family} ELSE reused
  /\ UNCHANGED <<account, org, pairs, black, before, now, at, ends, out, ended, forked>>

(* _issue_pair, then the commit.  A created account whose name was taken   *)
(* meanwhile is refused by the unique index, with everything else.         *)
(* NotRotated is the exchange that forgets to revoke the token it took.    *)
NotRotated(f) == pairs
Spent(f) == IF f.from = 0 THEN pairs
              ELSE [pairs EXCEPT ![f.from].revoked = TRUE]
IssuePair(q) ==
  LET f == at[q]
      family == IF f.from = 0 THEN Len(pairs) + 1 ELSE pairs[f.from].family
  IN /\ f.op = "issue"
     /\ Len(pairs) < MaxPairs
     /\ Goto(q, Idle)
     /\ IF f.create /\ Exists(f.user)
        THEN UNCHANGED <<account, org, pairs, forked>>
        ELSE /\ account' = IF f.create
                           THEN [account EXCEPT ![f.user] =
                                  [status |-> "active", super |-> f.super,
                                   local |-> f.local]]
                           ELSE account
             /\ org' = (org \/ f.orgNew)
             /\ pairs' = Append(Spent(f), [user |-> f.user, family |-> family,
                                           iat |-> f.iat, revoked |-> FALSE])
             /\ forked' = IF f.from # 0 /\ pairs[f.from].revoked
                          THEN forked \cup {family} ELSE forked
     /\ UNCHANGED <<black, before, now, ends, out, ended, reused>>

-----------------------------------------------------------------------------
(* Requests that end a session.                                            *)

Ending == ends < MaxEnds /\ ends' = ends + 1

(* logout: get_current_user accepts the access token first.  The refresh   *)
(* token in the body, if any, need not be of the same pair; the clients    *)
(* here send one of their session.                                         *)
FamilyOf(p) == {r \in Pair : pairs[r].family = pairs[p].family}
Logout(q, p, r) ==
  /\ at[q] = Idle
  /\ Accepted(p)
  /\ Ending
  /\ Goto(q, [op |-> "logout", pair |-> p, refresh |-> r])
  /\ UNCHANGED <<account, org, pairs, black, before, now, out, ended, reused, forked>>

(* What is left of the token's life, at least one second; RemainingLess is *)
(* off by one.                                                             *)
RemainingLess(p) == IF pairs[p].iat + AccessTtl > now + 1
                    THEN pairs[p].iat + AccessTtl - now - 1 ELSE 1
BlacklistTtl(p) == IF pairs[p].iat + AccessTtl > now
                   THEN pairs[p].iat + AccessTtl - now ELSE 1

(* The blacklist entry is written before the refresh row is read: a row    *)
(* already revoked is left alone.                                          *)
Blacklist(q) ==
  LET f == at[q] IN
  /\ f.op = "logout"
  /\ black' = [black EXCEPT ![f.pair] = now + BlacklistTtl(f.pair)]
  /\ Goto(q, [op |-> "loggedOut", pair |-> f.pair,
              refresh |-> IF f.refresh # 0 /\ ~pairs[f.refresh].revoked
                          THEN f.refresh ELSE 0])
  /\ UNCHANGED <<account, org, pairs, before, now, History>>

CommitLogout(q) ==
  LET f == at[q] IN
  /\ f.op = "loggedOut"
  /\ pairs' = IF f.refresh = 0 THEN pairs ELSE [pairs EXCEPT ![f.refresh].revoked = TRUE]
  /\ out' = out \cup {f.pair}
  /\ Goto(q, Idle)
  /\ UNCHANGED <<account, org, black, before, now, ends, ended, reused, forked>>

(* patch_user_status: not oneself, and a platform administrator only by    *)
(* another one.                                                            *)
MayPatch(a, u) == /\ Active(a) /\ a # u
                  /\ account[u].super => account[a].super

(* Shutting an account: revoke_before is set in Redis first ...  A mark    *)
(* rounded up would lie in the future and refuse tokens issued after it.   *)
RevokeMarkAhead == now + 1
RevokeMark == now
Shut(q, a, u) ==
  /\ at[q] = Idle
  /\ Exists(u) /\ MayPatch(a, u)
  /\ before' = [before EXCEPT ![u] = RevokeMark]
  /\ Goto(q, [op |-> "shut", user |-> u, seen |-> {p \in Pair : pairs[p].user = u}])
  /\ Ending
  /\ UNCHANGED <<account, org, pairs, black, now, out, ended, reused, forked>>

(* ... and status and refresh rows are changed by the commit.              *)
RevokedBy(u) == {p \in Pair : pairs[p].user = u /\ ~pairs[p].revoked}
CommitShut(q) ==
  LET f == at[q] IN
  /\ f.op = "shut"
  /\ account' = [account EXCEPT ![f.user].status = "disabled"]
  /\ pairs' = [p \in Pair |-> [pairs[p] EXCEPT
                 !.revoked = @ \/ p \in RevokedBy(f.user)]]
  /\ ended' = ended \cup f.seen
  /\ Goto(q, Idle)
  /\ UNCHANGED <<org, black, before, now, ends, out, reused, forked>>

Reopen(a, u) ==
  /\ account[u].status = "disabled"
  /\ MayPatch(a, u)
  /\ account' = [account EXCEPT ![u].status = "active"]
  /\ UNCHANGED <<org, pairs, black, before, now, at, History>>

(* A request is lost, or its database fails: the transaction is rolled     *)
(* back, Redis keeps what was written.                                     *)
Rollback(q) ==
  /\ at[q] # Idle
  /\ Goto(q, Idle)
  /\ UNCHANGED <<account, org, pairs, black, before, now, History>>

Tick == /\ now < MaxTime
        /\ now' = now + 1
        /\ UNCHANGED <<account, org, pairs, black, before, at, History>>

SessionsNext ==
  \/ Tick
  \/ \E q \in Request :
       \/ InsertOrg(q) \/ CountUsers(q) \/ IssuePair(q)
       \/ Blacklist(q) \/ CommitLogout(q) \/ CommitShut(q) \/ Rollback(q)
       \/ \E u \in User : Register(q, u) \/ Login(q, u)
       \/ \E p \in Pair : Refresh(q, p) \/ Reuse(q, p)
       \/ \E p \in Pair : \E r \in {0} \cup FamilyOf(p) : Logout(q, p, r)
       \/ \E a, u \in User : Shut(q, a, u)
  \/ \E a, u \in User : Reopen(a, u)

SessionsSpec == SessionsInit /\ [][SessionsNext]_sessionVars

-----------------------------------------------------------------------------
(* Type invariant of the session tables, the Redis keys and the frames.    *)
SessionsTypeOK ==
  /\ account \in [User -> Account]
  /\ org \in BOOLEAN
  /\ pairs \in Seq(TokenPair) /\ Len(pairs) <= MaxPairs
  /\ black \in [1 .. MaxPairs -> Nat]
  /\ \A u \in User : before[u] \in 0 .. now
  /\ now \in 1 .. MaxTime
  /\ at \in [Request -> Frame]
  /\ ends \in 0 .. MaxEnds
  /\ out \subseteq Pair /\ ended \subseteq Pair
  /\ reused \subseteq Pair /\ forked \subseteq Pair

(* An access token whose logout was acknowledged is refused from then on:  *)
(* the blacklist key lives at least as long as the token, however late in  *)
(* its life the logout ran and however long it took.                       *)
LoggedOutIsOut == \A p \in out : ~Accepted(p)

(* Shutting an account ends every session it had when the request began,   *)
(* for good: after the account is opened again neither the access nor the  *)
(* refresh token of such a pair works, whatever ran meanwhile.             *)
ShutEndsSessions == \A p \in ended : ~Accepted(p) /\ pairs[p].revoked

(* Rotation: a family has one live refresh token at most, unless two       *)
(* requests refreshed the same token before either committed.              *)
OneLivePerFamily ==
  \A p, r \in Pair :
    pairs[p].family = pairs[r].family /\ ~pairs[p].revoked /\ ~pairs[r].revoked
      => p = r \/ pairs[p].family \in forked

(* The first account to register becomes platform administrator, and no    *)
(* two overlapping registrations both do: the unique code of the default   *)
(* organisation, which the first one creates, serialises them.             *)
OneFounder == Cardinality({u \in User : account[u].super}) <= 1

(* The design documents say that a refresh token used twice revokes its    *)
(* whole family.  The code rolls that revocation back.                     *)
ReuseRevokesFamily ==
  \A p \in Pair : pairs[p].family \in reused => pairs[p].revoked
=============================================================================

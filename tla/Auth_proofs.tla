---------------------------- MODULE Auth_proofs ----------------------------
(***************************************************************************)
(* Login sessions, the first administrator and the cache of rights, for any *)
(* number of users, roles and overlapping requests, any lifetimes and bounds. *)
(***************************************************************************)
EXTENDS MCAuth, FiniteSetTheorems, SequenceTheorems, TLAPS

(* The tables and the frames.  A frame names pairs that have been issued.  *)
FrameFits(f) ==
  /\ f.op = "issue" => f.from \in 0 .. Len(pairs) /\ f.iat <= now
  /\ f.op \in {"logout", "loggedOut"} => f.pair \in Pair /\ f.refresh \in 0 .. Len(pairs)

Typed ==
  /\ account \in [User -> Account]
  /\ org \in BOOLEAN
  /\ pairs \in Seq(TokenPair) /\ Len(pairs) <= MaxPairs
  /\ \A p \in Pair : pairs[p].iat <= now /\ pairs[p].family \in Pair
  /\ black \in [1 .. MaxPairs -> Nat]
  /\ before \in [User -> Nat]
  /\ \A u \in User : before[u] <= now
  /\ now \in 1 .. MaxTime
  /\ at \in [Request -> Frame]
  /\ \A q \in Request : FrameFits(at[q])

(* Nothing that was issued changes, except that it may be revoked.         *)
Kept ==
  /\ Len(pairs) <= Len(pairs') /\ Pair \subseteq Pair'
  /\ \A p \in Pair : /\ pairs'[p].user = pairs[p].user
                     /\ pairs'[p].family = pairs[p].family
                     /\ pairs'[p].iat = pairs[p].iat
                     /\ pairs[p].revoked => pairs'[p].revoked

(* What each kind of frame holds.                                          *)
LEMMA FrameFields ==
  ASSUME Typed, NEW q \in Request
  PROVE  /\ at[q].op \in {"orgInsert", "orgHeld", "orgRead"} =>
              at[q] = [op |-> at[q].op, user |-> at[q].user] /\ at[q].user \in User
         /\ at[q].op = "issue" =>
              /\ at[q].user \in User /\ at[q].create \in BOOLEAN /\ at[q].local \in BOOLEAN
              /\ at[q].super \in BOOLEAN /\ at[q].orgNew \in BOOLEAN
              /\ at[q].from \in 0 .. Len(pairs) /\ at[q].iat \in 1 .. MaxTime
              /\ at[q].iat <= now
         /\ at[q].op \in {"logout", "loggedOut"} =>
              at[q].pair \in Pair /\ at[q].refresh \in 0 .. Len(pairs)
         /\ at[q].op = "shut" => at[q].user \in User /\ at[q].seen \subseteq 1 .. MaxPairs
         /\ at[q].op \in {"idle", "orgInsert", "orgHeld", "orgRead", "issue", "logout",
                          "loggedOut", "shut"}
<1>1. at[q] \in Frame /\ FrameFits(at[q]) BY DEF Typed
<1>2. CASE at[q] = Idle BY <1>2 DEF Idle
<1>3. CASE at[q] \in [op : {"orgInsert", "orgHeld", "orgRead"}, user : User]
  BY <1>3
<1>4. CASE at[q] \in [op : {"issue"}, user : User, create : BOOLEAN, local : BOOLEAN,
                      super : BOOLEAN, orgNew : BOOLEAN, from : 0 .. MaxPairs,
                      iat : 1 .. MaxTime]
  BY <1>1, <1>4 DEF FrameFits
<1>5. CASE at[q] \in [op : {"logout"}, pair : 1 .. MaxPairs, refresh : 0 .. MaxPairs]
  BY <1>1, <1>5 DEF FrameFits
<1>6. CASE at[q] \in [op : {"loggedOut"}, pair : 1 .. MaxPairs, refresh : 0 .. MaxPairs]
  BY <1>1, <1>6 DEF FrameFits
<1>7. CASE at[q] \in [op : {"shut"}, user : User, seen : SUBSET (1 .. MaxPairs)]
  BY <1>7
<1>8. QED BY <1>1, <1>2, <1>3, <1>4, <1>5, <1>6, <1>7 DEF Frame

LEMMA TypedInitially == SessionsInit => Typed
<1> SUFFICES ASSUME SessionsInit PROVE Typed OBVIOUS
<1> USE DEF SessionsInit
<1>1. account \in [User -> Account] /\ org \in BOOLEAN BY DEF Account, Status
<1>2. pairs \in Seq(TokenPair) /\ Len(pairs) = 0 OBVIOUS
<1>3. Pair = {} BY <1>2 DEF Pair
<1>4. black \in [1 .. MaxPairs -> Nat] /\ before \in [User -> Nat] /\ now \in 1 .. MaxTime
  BY BoundsAssumption
<1>5. at \in [Request -> Frame] BY DEF Frame
<1>6. \A q \in Request : FrameFits(at[q]) BY DEF FrameFits, Idle
<1>7. QED BY <1>1, <1>2, <1>3, <1>4, <1>5, <1>6, BoundsAssumption DEF Typed

(* A request that only moves on.                                           *)
LEMMA MovesTyped ==
  ASSUME Typed, NEW q \in Request, NEW f \in Frame, FrameFits(f),
         at' = [at EXCEPT ![q] = f], UNCHANGED <<account, org, pairs, black, now>>,
         before' \in [User -> Nat], \A u \in User : before'[u] <= now
  PROVE  Typed' /\ Kept
BY DEF Typed, FrameFits, Kept, Pair

LEMMA Revoking ==
  ASSUME NEW t \in TokenPair, NEW b \in BOOLEAN
  PROVE  [t EXCEPT !.revoked = b]
           = [user |-> t.user, family |-> t.family, iat |-> t.iat, revoked |-> b]
BY DEF TokenPair

(* One pair revoked.                                                       *)
Without(r) == [pairs EXCEPT ![r].revoked = TRUE]
LEMMA RevokeOne ==
  ASSUME pairs \in Seq(TokenPair), NEW r \in Pair, NEW s, s = Without(r)
  PROVE  /\ s \in Seq(TokenPair) /\ Len(s) = Len(pairs)
         /\ s[r].revoked
         /\ \A p \in Pair : /\ p # r => s[p] = pairs[p]
                            /\ s[p].user = pairs[p].user
                            /\ s[p].family = pairs[p].family
                            /\ s[p].iat = pairs[p].iat
                            /\ pairs[p].revoked => s[p].revoked
<1> DEFINE t == [user |-> pairs[r].user, family |-> pairs[r].family, iat |-> pairs[r].iat,
                 revoked |-> TRUE]
<1>1. Len(pairs) \in Nat /\ pairs[r] \in TokenPair BY DEF Pair
<1>2. t \in TokenPair BY <1>1 DEF TokenPair
<1>3. s = [pairs EXCEPT ![r] = t] BY <1>1, Revoking DEF Without
<1>4. t.user = pairs[r].user /\ t.family = pairs[r].family /\ t.iat = pairs[r].iat
      /\ t.revoked
  OBVIOUS
<1> HIDE DEF t
<1>5. s \in Seq(TokenPair) /\ Len(s) = Len(pairs) BY <1>2, <1>3, ExceptSeq DEF Pair
<1>6. s[r] = t /\ \A p \in Pair : p # r => s[p] = pairs[p] BY <1>1, <1>3 DEF Pair
<1>7. QED BY <1>4, <1>5, <1>6

LEMMA IssueTyped ==
  ASSUME Typed, NEW q \in Request, IssuePair(q) PROVE Typed' /\ Kept
<1> DEFINE f == at[q]
           family == IF f.from = 0 THEN Len(pairs) + 1 ELSE pairs[f.from].family
           new == [user |-> f.user, family |-> family, iat |-> f.iat, revoked |-> FALSE]
<1>1. f.op = "issue" BY DEF IssuePair
<1>2. /\ f.user \in User /\ f.create \in BOOLEAN /\ f.local \in BOOLEAN /\ f.super \in BOOLEAN
      /\ f.orgNew \in BOOLEAN /\ f.from \in 0 .. Len(pairs)
      /\ f.iat \in 1 .. MaxTime /\ f.iat <= now
  BY <1>1, FrameFields
<1>3. pairs \in Seq(TokenPair) /\ Len(pairs) \in Nat /\ Len(pairs) < MaxPairs
  BY DEF Typed, IssuePair
<1>4. /\ at' \in [Request -> Frame]
      /\ \A r \in Request : at'[r] = at[r] \/ at'[r] = Idle
  BY DEF Typed, Frame, IssuePair, Goto
<1>5. UNCHANGED <<black, before, now>> BY DEF IssuePair
<1>6. CASE f.create /\ Exists(f.user)
  <2>1. UNCHANGED <<account, org, pairs>> BY <1>6 DEF IssuePair
  <2>2. \A r \in Request : FrameFits(at[r])'
    BY <1>4, <1>5, <2>1 DEF Typed, FrameFits, Idle, Pair
  <2>3. QED BY <1>4, <1>5, <2>1, <2>2 DEF Typed, Kept, Pair
<1>7. CASE ~(f.create /\ Exists(f.user))
  <2> DEFINE spent == Spent(f)
  <2>1. pairs' = Append(spent, new) BY <1>7 DEF IssuePair
  <2>2. /\ spent \in Seq(TokenPair) /\ Len(spent) = Len(pairs)
        /\ \A p \in Pair : /\ spent[p].user = pairs[p].user
                           /\ spent[p].family = pairs[p].family
                           /\ spent[p].iat = pairs[p].iat
                           /\ pairs[p].revoked => spent[p].revoked
    <3>1. CASE f.from = 0 BY <1>3, <3>1 DEF Spent
    <3>2. CASE f.from # 0
      <4>1. f.from \in Pair BY <1>2, <1>3, <3>2 DEF Pair
      <4>2. spent = Without(f.from) BY <3>2 DEF Spent, Without
      <4> HIDE DEF spent
      <4>3. QED BY <1>3, <4>1, <4>2, RevokeOne
    <3>3. QED BY <3>1, <3>2
  <2>3. family \in 1 .. Len(pairs) + 1 BY <1>2, <1>3 DEF Typed, Pair
  <2> HIDE DEF family, spent
  <2>4. new \in TokenPair
    <3>1. family \in 1 .. MaxPairs BY <1>3, <2>3, BoundsAssumption
    <3>2. QED BY <1>2, <3>1 DEF TokenPair
  <2>5. new.iat <= now /\ new.family = family BY <1>2
  <2> HIDE DEF new
  <2>6. /\ pairs' \in Seq(TokenPair) /\ Len(pairs') = Len(pairs) + 1
        /\ \A p \in Pair : pairs'[p] = spent[p]
        /\ pairs'[Len(pairs) + 1] = new
    BY <1>3, <2>1, <2>2, <2>4 DEF Pair
  <2>7. Kept BY <1>3, <2>2, <2>6 DEF Kept, Pair
  <2>8. \A p \in Pair' : pairs'[p].iat <= now /\ pairs'[p].family \in Pair'
    <3>1. new.iat <= now /\ new.family \in Pair' BY <1>3, <2>3, <2>5, <2>6 DEF Pair
    <3>2. \A p \in Pair : pairs'[p].iat <= now /\ pairs'[p].family \in Pair'
      BY <1>3, <2>6, <2>7 DEF Kept, Typed, Pair
    <3>3. QED BY <1>3, <2>6, <3>1, <3>2 DEF Pair
  <2>9. account' \in [User -> Account] /\ org' \in BOOLEAN
    <3>1. account' = account \/ account' = [account EXCEPT ![f.user] =
                                  [status |-> "active", super |-> f.super,
                                   local |-> f.local]]
      BY <1>7 DEF IssuePair
    <3>2. [status |-> "active", super |-> f.super, local |-> f.local] \in Account
      BY <1>2 DEF Account, Status
    <3>3. account' \in [User -> Account] BY <3>1, <3>2 DEF Typed
    <3>4. org' = (org \/ f.orgNew) BY <1>7 DEF IssuePair
    <3>5. QED BY <3>3, <3>4
  <2>10. \A r \in Request : FrameFits(at[r])'
    <3> SUFFICES ASSUME NEW r \in Request PROVE FrameFits(at[r])' OBVIOUS
    <3>1. CASE at'[r] = Idle BY <3>1 DEF FrameFits, Idle
    <3>2. CASE at'[r] = at[r]
      <4>1. FrameFits(at[r]) BY DEF Typed
      <4>2. Pair \subseteq Pair' /\ 0 .. Len(pairs) \subseteq 0 .. Len(pairs')
        BY <1>3, <2>6 DEF Pair
      <4>3. QED BY <1>5, <3>2, <4>1, <4>2 DEF FrameFits
    <3>3. QED BY <1>4, <3>1, <3>2
  <2>11. QED BY <1>3, <1>4, <1>5, <2>6, <2>7, <2>8, <2>9, <2>10, BoundsAssumption DEF Typed
<1>8. QED BY <1>6, <1>7

(* The requests that revoke what is there.                                 *)
LEMMA RevokesTyped ==
  ASSUME Typed, NEW q \in Request, CommitLogout(q) \/ CommitShut(q) PROVE Typed' /\ Kept
<1>1. at' \in [Request -> Frame] /\ \A r \in Request : at'[r] = at[r] \/ at'[r] = Idle
  BY DEF Typed, Frame, CommitLogout, CommitShut, Goto
<1>2. pairs \in Seq(TokenPair) /\ Len(pairs) \in Nat BY DEF Typed
<1>3. \A p \in Pair : pairs[p] \in TokenPair BY <1>2 DEF Pair
<1>4. /\ pairs' \in Seq(TokenPair) /\ Len(pairs') = Len(pairs)
      /\ \A p \in Pair : /\ pairs'[p].user = pairs[p].user
                         /\ pairs'[p].family = pairs[p].family
                         /\ pairs'[p].iat = pairs[p].iat
                         /\ pairs[p].revoked => pairs'[p].revoked
  <2>1. CASE CommitLogout(q)
    <3>1. at[q].op = "loggedOut" BY <2>1 DEF CommitLogout
    <3>2. at[q].refresh \in 0 .. Len(pairs) BY <3>1, FrameFields
    <3>3. CASE at[q].refresh = 0 BY <1>2, <2>1, <3>3 DEF CommitLogout
    <3>4. CASE at[q].refresh # 0
      <4>1. at[q].refresh \in Pair BY <1>2, <3>2, <3>4 DEF Pair
      <4>2. pairs' = Without(at[q].refresh)
        BY <2>1, <3>4 DEF CommitLogout, Without
      <4>3. QED BY <1>2, <4>1, <4>2, RevokeOne
    <3>5. QED BY <3>3, <3>4
  <2>2. CASE CommitShut(q)
    <3> DEFINE b(p) == pairs[p].revoked \/ p \in RevokedBy(at[q].user)
               g(p) == [user |-> pairs[p].user, family |-> pairs[p].family,
                        iat |-> pairs[p].iat, revoked |-> b(p)]
    <3>1. \A p \in Pair : g(p) \in TokenPair BY <1>3 DEF TokenPair
    <3>2. pairs' = [p \in Pair |-> [pairs[p] EXCEPT !.revoked = b(p)]]
      BY <2>2 DEF CommitShut
    <3>3. \A p \in Pair : [pairs[p] EXCEPT !.revoked = b(p)] = g(p)
      BY <1>3, Revoking
    <3>4. pairs' = [p \in 1 .. Len(pairs) |-> g(p)] BY <3>2, <3>3 DEF Pair
    <3>5. \A p \in Pair : /\ g(p).user = pairs[p].user /\ g(p).family = pairs[p].family
                          /\ g(p).iat = pairs[p].iat
                          /\ pairs[p].revoked => g(p).revoked
      OBVIOUS
    <3> HIDE DEF g
    <3>6. pairs' \in Seq(TokenPair) /\ Len(pairs') = Len(pairs)
      <4>1. pairs' \in [1 .. Len(pairs) -> TokenPair] BY <3>1, <3>4 DEF Pair
      <4>2. pairs' \in Seq(TokenPair) BY <1>2, <4>1, SeqDef
      <4>3. DOMAIN pairs' = 1 .. Len(pairs) BY <4>1
      <4>4. QED BY <1>2, <4>2, <4>3, LenProperties
    <3>7. \A p \in Pair : pairs'[p] = g(p) BY <3>4 DEF Pair
    <3>8. \A p \in Pair : /\ pairs'[p].user = pairs[p].user
                          /\ pairs'[p].family = pairs[p].family
                          /\ pairs'[p].iat = pairs[p].iat
                          /\ pairs[p].revoked => pairs'[p].revoked
      BY <3>5, <3>7, Zenon
    <3>9. QED BY <3>6, <3>8, Zenon
  <2>3. QED BY <2>1, <2>2
<1>5. Pair' = Pair BY <1>4 DEF Pair
<1>6. Kept BY <1>2, <1>4, <1>5 DEF Kept
<1>7. UNCHANGED <<org, black, before, now>> BY DEF CommitLogout, CommitShut
<1>8. \A r \in Request : FrameFits(at[r])'
  BY <1>1, <1>4, <1>5, <1>7 DEF Typed, FrameFits, Idle
<1>9. account' \in [User -> Account]
  <2>1. CASE CommitLogout(q) BY <2>1 DEF CommitLogout, Typed
  <2>2. CASE CommitShut(q)
    <3>1. at[q].op = "shut" BY <2>2 DEF CommitShut
    <3>2. at[q].user \in User BY <3>1, FrameFields
    <3>3. account' = [account EXCEPT ![at[q].user].status = "disabled"]
      BY <2>2 DEF CommitShut
    <3>4. QED BY <3>2, <3>3 DEF Typed, Account, Status
  <2>3. QED BY <2>1, <2>2
<1>10. QED BY <1>1, <1>4, <1>5, <1>6, <1>7, <1>8, <1>9 DEF Typed

(* The other steps leave the pairs alone.                                  *)
LEMMA StepTyped == ASSUME Typed, [SessionsNext]_sessionVars PROVE Typed' /\ Kept
<1>1. CASE UNCHANGED sessionVars
  BY <1>1 DEF sessionVars, Typed, FrameFits, Kept, Pair
<1>2. CASE Tick
  <2>1. now \in 1 .. MaxTime /\ now' = now + 1 /\ now < MaxTime BY <1>2 DEF Tick, Typed
  <2>2. now' \in 1 .. MaxTime BY <2>1, BoundsAssumption
  <2>3. UNCHANGED <<account, org, pairs, black, before, at>> BY <1>2 DEF Tick
  <2>4. Pair' = Pair BY <2>3 DEF Pair
  <2>5. \A p \in Pair : pairs[p].iat \in Nat
    <3> SUFFICES ASSUME NEW p \in Pair PROVE pairs[p].iat \in Nat OBVIOUS
    <3>1. pairs[p] \in TokenPair BY DEF Typed, Pair
    <3>2. QED BY <3>1 DEF TokenPair
  <2>6. \A q \in Request : FrameFits(at[q])'
    <3> SUFFICES ASSUME NEW q \in Request PROVE FrameFits(at[q])' OBVIOUS
    <3>1. FrameFits(at[q]) BY DEF Typed
    <3>2. at[q].op = "issue" => at[q].iat \in 1 .. MaxTime BY FrameFields
    <3>3. QED BY <2>1, <2>3, <2>4, <3>1, <3>2, BoundsAssumption DEF FrameFits
  <2>7. QED BY <2>1, <2>2, <2>3, <2>4, <2>5, <2>6 DEF Typed, Kept
<1>3. CASE \E a, u \in User : Reopen(a, u)
  <2>1. PICK u \in User : account' = [account EXCEPT ![u].status = "active"]
    BY <1>3 DEF Reopen
  <2>2. UNCHANGED <<org, pairs, black, before, now, at>> BY <1>3 DEF Reopen
  <2>3. account' \in [User -> Account] BY <2>1 DEF Typed, Account, Status
  <2>4. QED BY <2>2, <2>3 DEF Typed, FrameFits, Kept, Pair
<1>4. ASSUME NEW q \in Request PROVE Idle \in Frame /\ FrameFits(Idle)
  BY DEF Frame, FrameFits, Idle
<1>5. ASSUME NEW q \in Request, InsertOrg(q) PROVE Typed' /\ Kept
  <2>1. at[q] = [op |-> at[q].op, user |-> at[q].user] /\ at[q].user \in User
        /\ at[q].op = "orgInsert"
    BY <1>5, FrameFields DEF InsertOrg
  <2>3. [op |-> "orgHeld", user |-> at[q].user] \in Frame BY <2>1 DEF Frame
  <2>4. FrameFits([op |-> "orgHeld", user |-> at[q].user]) BY DEF FrameFits
  <2>5. UNCHANGED <<account, org, pairs, black, before, now>> BY <1>5 DEF InsertOrg
  <2>6. \/ at' = [at EXCEPT ![q] = Idle]
        \/ at' = [at EXCEPT ![q] = [op |-> "orgHeld", user |-> at[q].user]]
    BY <1>5 DEF InsertOrg, Goto
  <2>7. before' \in [User -> Nat] /\ \A u \in User : before'[u] <= now BY <2>5 DEF Typed
  <2>8. QED BY <1>4, <2>3, <2>4, <2>5, <2>6, <2>7, MovesTyped
<1>6. ASSUME NEW q \in Request, NEW f \in Frame, FrameFits(f), Goto(q, f),
             UNCHANGED <<account, org, pairs, black, before, now>>
      PROVE  Typed' /\ Kept
  <2>1. before' \in [User -> Nat] /\ \A u \in User : before'[u] <= now BY <1>6 DEF Typed
  <2>2. QED BY <1>6, <2>1, MovesTyped DEF Goto
<1>7. ASSUME NEW q \in Request, NEW u \in User, Register(q, u) PROVE Typed' /\ Kept
  <2> DEFINE f == [op |-> IF org THEN "orgRead" ELSE "orgInsert", user |-> u]
  <2>1. f \in Frame /\ FrameFits(f) BY DEF Frame, FrameFits
  <2>2. QED BY <1>6, <1>7, <2>1 DEF Register
<1>8. ASSUME NEW q \in Request, CountUsers(q) PROVE Typed' /\ Kept
  <2> DEFINE f == [op |-> "issue", user |-> at[q].user, create |-> TRUE, local |-> TRUE,
                   super |-> NoUsers, orgNew |-> at[q].op = "orgHeld", from |-> 0,
                   iat |-> now]
  <2>1. at[q].user \in User BY <1>8, FrameFields DEF CountUsers
  <2>2. NoUsers \in BOOLEAN /\ 0 \in 0 .. MaxPairs /\ now \in 1 .. MaxTime
    BY BoundsAssumption DEF NoUsers, Typed
  <2>3. f \in [op : {"issue"}, user : User, create : BOOLEAN, local : BOOLEAN,
               super : BOOLEAN, orgNew : BOOLEAN, from : 0 .. MaxPairs, iat : 1 .. MaxTime]
    BY <2>1, <2>2
  <2>4. f \in Frame BY <2>3, Zenon DEF Frame
  <2>5. FrameFits(f) BY DEF FrameFits, Typed
  <2>6. Goto(q, f) /\ UNCHANGED <<account, org, pairs, black, before, now>>
    BY <1>8 DEF CountUsers
  <2> HIDE DEF f
  <2>7. QED BY <1>6, <2>4, <2>5, <2>6
<1>9. ASSUME NEW q \in Request, NEW u \in User, NEW b \in BOOLEAN,
             NEW n \in 0 .. Len(pairs),
             Goto(q, IssueFrame(u, b, n)),
             UNCHANGED <<account, org, pairs, black, before, now>>
      PROVE  Typed' /\ Kept
  <2> DEFINE f == [op |-> "issue", user |-> u, create |-> b, local |-> FALSE,
                   super |-> FALSE, orgNew |-> FALSE, from |-> n, iat |-> now]
  <2>1. n \in 0 .. MaxPairs /\ now \in 1 .. MaxTime /\ now <= now BY BoundsAssumption DEF Typed
  <2>2. f \in [op : {"issue"}, user : User, create : BOOLEAN, local : BOOLEAN,
               super : BOOLEAN, orgNew : BOOLEAN, from : 0 .. MaxPairs, iat : 1 .. MaxTime]
    BY <2>1
  <2>3. f \in Frame BY <2>2, Zenon DEF Frame
  <2>4. FrameFits(f) BY <2>1 DEF FrameFits
  <2>5. Goto(q, f) BY <1>9 DEF IssueFrame
  <2> HIDE DEF f
  <2>6. QED BY <1>6, <1>9, <2>3, <2>4, <2>5
<1>10. ASSUME NEW q \in Request, NEW u \in User, Login(q, u) PROVE Typed' /\ Kept
  <2>1. (~Exists(u)) \in BOOLEAN /\ 0 \in 0 .. Len(pairs) BY DEF Exists, Typed
  <2>2. QED BY <1>9, <1>10, <2>1 DEF Login
<1>11. ASSUME NEW q \in Request, NEW p \in Pair, Refresh(q, p) PROVE Typed' /\ Kept
  <2>1. FALSE \in BOOLEAN OBVIOUS
  <2>2. p \in 0 .. Len(pairs) /\ pairs[p] \in TokenPair BY DEF Typed, Pair
  <2>3. pairs[p].user \in User BY <2>2 DEF TokenPair
  <2>4. QED BY <1>9, <1>11, <2>1, <2>2, <2>3 DEF Refresh
<1>12. ASSUME NEW q \in Request, NEW p \in Pair, Reuse(q, p) PROVE Typed' /\ Kept
  BY <1>12 DEF Reuse, Typed, FrameFits, Kept, Pair
<1>13. ASSUME NEW q \in Request, NEW p \in Pair, NEW r \in {0} \cup FamilyOf(p),
              Logout(q, p, r)
       PROVE  Typed' /\ Kept
  <2> DEFINE f == [op |-> "logout", pair |-> p, refresh |-> r]
  <2>1. p \in 1 .. MaxPairs /\ r \in 0 .. Len(pairs) /\ r \in 0 .. MaxPairs
    BY BoundsAssumption DEF Typed, FamilyOf, Pair
  <2>2. f \in Frame BY <2>1 DEF Frame
  <2>3. FrameFits(f) BY <2>1 DEF FrameFits
  <2>4. QED BY <1>6, <1>13, <2>2, <2>3 DEF Logout
<1>14. ASSUME NEW q \in Request, Blacklist(q) PROVE Typed' /\ Kept
  <2> DEFINE r == IF at[q].refresh # 0 /\ ~pairs[at[q].refresh].revoked
                  THEN at[q].refresh ELSE 0
             f == [op |-> "loggedOut", pair |-> at[q].pair, refresh |-> r]
  <2>1. at[q].pair \in Pair /\ at[q].refresh \in 0 .. Len(pairs)
    BY <1>14, FrameFields DEF Blacklist
  <2>2. r \in 0 .. Len(pairs) BY <2>1
  <2>3. at[q].pair \in 1 .. MaxPairs /\ r \in 0 .. MaxPairs
    BY <2>1, <2>2, BoundsAssumption DEF Typed, Pair
  <2>4. Goto(q, f) BY <1>14 DEF Blacklist
  <2> HIDE DEF r
  <2>5. f \in Frame /\ FrameFits(f) BY <2>1, <2>2, <2>3 DEF Frame, FrameFits
  <2>6. at' = [at EXCEPT ![q] = f] BY <2>4 DEF Goto
  <2> HIDE DEF f
  <2>7. UNCHANGED <<account, org, pairs, before, now>> BY <1>14 DEF Blacklist
  <2>8. black' \in [1 .. MaxPairs -> Nat]
    <3>1. black' = [black EXCEPT ![at[q].pair] = now + BlacklistTtl(at[q].pair)]
      BY <1>14 DEF Blacklist
    <3>2. pairs[at[q].pair] \in TokenPair BY <2>1 DEF Typed, Pair
    <3>3. pairs[at[q].pair].iat \in Nat /\ now \in Nat BY <3>2 DEF TokenPair, Typed
    <3>4. now + BlacklistTtl(at[q].pair) \in Nat BY <3>3, TtlAssumption DEF BlacklistTtl
    <3>5. QED BY <3>1, <3>4 DEF Typed
  <2>9. at' \in [Request -> Frame] /\ \A k \in Request : FrameFits(at[k])'
    BY <2>5, <2>6, <2>7 DEF Typed, FrameFits, Pair
  <2>10. QED BY <2>7, <2>8, <2>9 DEF Typed, Kept, Pair
<1>15. ASSUME NEW q \in Request, NEW a \in User, NEW u \in User, Shut(q, a, u)
       PROVE  Typed' /\ Kept
  <2> DEFINE f == [op |-> "shut", user |-> u, seen |-> {p \in Pair : pairs[p].user = u}]
  <2>1. {p \in Pair : pairs[p].user = u} \in SUBSET (1 .. MaxPairs)
    BY BoundsAssumption DEF Typed, Pair
  <2>2. f \in [op : {"shut"}, user : User, seen : SUBSET (1 .. MaxPairs)] BY <2>1
  <2>3. f \in Frame BY <2>2, Zenon DEF Frame
  <2>4. FrameFits(f) BY DEF FrameFits
  <2>5. before' \in [User -> Nat] /\ \A v \in User : before'[v] <= now
    BY <1>15 DEF Shut, RevokeMark, Typed
  <2>6. at' = [at EXCEPT ![q] = f] /\ UNCHANGED <<account, org, pairs, black, now>>
    BY <1>15 DEF Shut, Goto
  <2> HIDE DEF f
  <2>7. QED BY <2>3, <2>4, <2>5, <2>6, MovesTyped
<1>16. ASSUME NEW q \in Request, Rollback(q) PROVE Typed' /\ Kept
  BY <1>4, <1>6, <1>16 DEF Rollback
<1>17. QED
  BY <1>1, <1>2, <1>3, <1>5, <1>7, <1>8, <1>10, <1>11, <1>12, <1>13, <1>14, <1>15, <1>16,
     IssueTyped, RevokesTyped
  DEF SessionsNext

-----------------------------------------------------------------------------
(* Logout: the key of a pair that was logged out outlives its token.       *)
Outlived(p) == p \in Pair /\ pairs[p].iat + AccessTtl <= black[p]
LogoutInv ==
  /\ \A p \in out : Outlived(p)
  /\ \A q \in Request : at[q].op = "loggedOut" => Outlived(at[q].pair)

(* Steps that write no key and acknowledge no logout.                      *)
LEMMA LogoutUntouched ==
  ASSUME Typed, Kept, LogoutInv, black' = black, out' = out,
         \A r \in Request : at'[r] = at[r] \/ at'[r].op # "loggedOut"
  PROVE  LogoutInv'
<1>1. \A p : Outlived(p) => Outlived(p)' BY DEF Outlived, Kept
<1>2. QED BY <1>1 DEF LogoutInv

LEMMA LogoutKeeps == ASSUME Typed, LogoutInv, [SessionsNext]_sessionVars PROVE LogoutInv'
<1>1. Typed' /\ Kept BY StepTyped
<1>2. CASE UNCHANGED sessionVars BY <1>1, <1>2, LogoutUntouched DEF sessionVars
<1>3. CASE Tick \/ \E a, u \in User : Reopen(a, u)
  BY <1>1, <1>3, LogoutUntouched DEF Tick, Reopen, History
<1>4. ASSUME NEW q \in Request, NEW f, f.op # "loggedOut", Goto(q, f), black' = black,
             out' = out
      PROVE  LogoutInv'
  BY <1>1, <1>4, LogoutUntouched DEF Goto, Typed
<1>5. ASSUME NEW q \in Request, InsertOrg(q) \/ CountUsers(q) \/ Rollback(q)
      PROVE  LogoutInv'
  BY <1>4, <1>5 DEF InsertOrg, CountUsers, Rollback, Idle, History
<1>6. ASSUME NEW q \in Request, IssuePair(q) \/ CommitShut(q) PROVE LogoutInv'
  BY <1>4, <1>6 DEF IssuePair, CommitShut, Idle
<1>7. ASSUME NEW q \in Request, NEW u \in User, Register(q, u) \/ Login(q, u)
      PROVE  LogoutInv'
  BY <1>4, <1>7 DEF Register, Login, IssueFrame, History
<1>8. ASSUME NEW q \in Request, NEW p \in Pair, Refresh(q, p) PROVE LogoutInv'
  BY <1>4, <1>8 DEF Refresh, IssueFrame, History
<1>9. ASSUME NEW q \in Request, NEW p \in Pair, Reuse(q, p) PROVE LogoutInv'
  BY <1>1, <1>9, LogoutUntouched DEF Reuse
<1>10. ASSUME NEW q \in Request, NEW p, NEW r, Logout(q, p, r) PROVE LogoutInv'
  BY <1>4, <1>10 DEF Logout
<1>11. ASSUME NEW q \in Request, NEW a, NEW u, Shut(q, a, u) PROVE LogoutInv'
  BY <1>4, <1>11 DEF Shut
<1>12. ASSUME NEW q \in Request, Blacklist(q) PROVE LogoutInv'
  <2>0. PICK p : p = at[q].pair OBVIOUS
  <2>1. p \in Pair /\ p \in 1 .. MaxPairs /\ pairs[p] \in TokenPair
    BY <2>0, <1>12, FrameFields, BoundsAssumption DEF Blacklist, Typed, Pair
  <2>2. pairs[p].iat \in Nat /\ now \in Nat /\ AccessTtl \in Nat
    BY <2>1, TtlAssumption, BoundsAssumption DEF TokenPair, Typed
  <2>3. pairs[p].iat + AccessTtl <= now + BlacklistTtl(p) BY <2>2 DEF BlacklistTtl
  <2>4. UNCHANGED <<pairs, out>> /\ black' = [black EXCEPT ![p] = now + BlacklistTtl(p)]
    BY <2>0, <1>12 DEF Blacklist, History
  <2>5. Outlived(p)'
    <3>1. black'[p] = now + BlacklistTtl(p) BY <2>1, <2>4 DEF Typed
    <3>2. QED BY <2>1, <2>3, <2>4, <3>1 DEF Outlived, Pair
  <2>6. \A r : Outlived(r) => Outlived(r)'
    <3> SUFFICES ASSUME NEW r, Outlived(r) PROVE Outlived(r)' OBVIOUS
    <3>1. CASE r = p BY <2>5, <3>1
    <3>2. CASE r # p
      <4>1. r \in 1 .. MaxPairs BY BoundsAssumption DEF Outlived, Typed, Pair
      <4>2. black'[r] = black[r] BY <2>1, <2>4, <3>2, <4>1 DEF Typed
      <4>3. QED BY <2>4, <4>2 DEF Outlived, Pair
    <3>3. QED BY <3>1, <3>2
  <2>7. at'[q].pair = p /\ \A r \in Request \ {q} : at'[r] = at[r]
    BY <2>0, <1>12 DEF Blacklist, Goto, Typed
  <2>8. QED BY <2>4, <2>5, <2>6, <2>7 DEF LogoutInv
<1>13. ASSUME NEW q \in Request, CommitLogout(q) PROVE LogoutInv'
  <2>1. \A p : Outlived(p) => Outlived(p)' BY <1>1, <1>13 DEF CommitLogout, Outlived, Kept
  <2>2. at'[q] = Idle /\ \A r \in Request \ {q} : at'[r] = at[r]
    BY <1>13 DEF CommitLogout, Goto, Typed
  <2>3. out' = out \cup {at[q].pair} /\ at[q].op = "loggedOut" BY <1>13 DEF CommitLogout
  <2>4. QED BY <2>1, <2>2, <2>3 DEF LogoutInv, Idle
<1>14. QED
  BY <1>2, <1>3, <1>5, <1>6, <1>7, <1>8, <1>9, <1>10, <1>11, <1>12, <1>13 DEF SessionsNext

-----------------------------------------------------------------------------
(* Shutting an account: the mark in Redis is not older than the pairs.     *)
Barred(p) ==
  p \in Pair /\ before[pairs[p].user] # 0 /\ pairs[p].iat <= before[pairs[p].user]
ShutInv ==
  /\ \A p \in ended : Barred(p) /\ pairs[p].revoked
  /\ \A q \in Request : at[q].op = "shut" =>
       \A p \in at[q].seen : Barred(p) /\ pairs[p].user = at[q].user

(* Marks only grow.                                                        *)
LEMMA StaysBarred ==
  ASSUME Typed, Kept, \A u \in User : before'[u] = before[u] \/ before'[u] = now, NEW p
  PROVE  Barred(p) => Barred(p)'
<1> SUFFICES ASSUME Barred(p) PROVE Barred(p)' OBVIOUS
<1>1. p \in Pair /\ pairs[p] \in TokenPair BY DEF Barred, Typed, Pair
<1>2. pairs[p].user \in User /\ pairs[p].iat \in Nat BY <1>1 DEF TokenPair
<1>3. pairs'[p].user = pairs[p].user /\ pairs'[p].iat = pairs[p].iat /\ p \in Pair'
  BY <1>1 DEF Kept
<1>4. now \in Nat \ {0} /\ pairs[p].iat <= now BY <1>1 DEF Typed
<1>5. QED BY <1>1, <1>2, <1>3, <1>4 DEF Barred

LEMMA ShutUntouched ==
  ASSUME Typed, Kept, ShutInv, before' = before, ended' = ended,
         \A r \in Request : at'[r] = at[r] \/ at'[r].op # "shut"
  PROVE  ShutInv'
<1>1. \A p : Barred(p) => Barred(p)' BY StaysBarred
<1>2. \A p : Barred(p) => pairs'[p].user = pairs[p].user BY DEF Barred, Kept
<1>3. \A p : Barred(p) /\ pairs[p].revoked => pairs'[p].revoked BY DEF Barred, Kept
<1>4. QED BY <1>1, <1>2, <1>3 DEF ShutInv

LEMMA ShutKeeps == ASSUME Typed, ShutInv, [SessionsNext]_sessionVars PROVE ShutInv'
<1>1. Typed' /\ Kept BY StepTyped
<1>2. CASE UNCHANGED sessionVars BY <1>1, <1>2, ShutUntouched DEF sessionVars
<1>3. CASE Tick \/ \E a, u \in User : Reopen(a, u)
  BY <1>1, <1>3, ShutUntouched DEF Tick, Reopen, History
<1>4. ASSUME NEW q \in Request, NEW f, f.op # "shut", Goto(q, f), before' = before,
             ended' = ended
      PROVE  ShutInv'
  BY <1>1, <1>4, ShutUntouched DEF Goto, Typed
<1>5. ASSUME NEW q \in Request, InsertOrg(q) \/ CountUsers(q) \/ Rollback(q)
      PROVE  ShutInv'
  BY <1>4, <1>5 DEF InsertOrg, CountUsers, Rollback, Idle, History
<1>6. ASSUME NEW q \in Request, IssuePair(q) \/ CommitLogout(q) PROVE ShutInv'
  BY <1>4, <1>6 DEF IssuePair, CommitLogout, Idle
<1>7. ASSUME NEW q \in Request, NEW u \in User, Register(q, u) \/ Login(q, u)
      PROVE  ShutInv'
  BY <1>4, <1>7 DEF Register, Login, IssueFrame, History
<1>8. ASSUME NEW q \in Request, NEW p \in Pair, Refresh(q, p) PROVE ShutInv'
  BY <1>4, <1>8 DEF Refresh, IssueFrame, History
<1>9. ASSUME NEW q \in Request, NEW p \in Pair, Reuse(q, p) PROVE ShutInv'
  BY <1>1, <1>9, ShutUntouched DEF Reuse
<1>10. ASSUME NEW q \in Request, NEW p, NEW r, Logout(q, p, r) PROVE ShutInv'
  BY <1>4, <1>10 DEF Logout
<1>11. ASSUME NEW q \in Request, Blacklist(q) PROVE ShutInv'
  BY <1>4, <1>11 DEF Blacklist, History
<1>12. ASSUME NEW q \in Request, NEW a \in User, NEW u \in User, Shut(q, a, u)
       PROVE  ShutInv'
  <2>1. before' = [before EXCEPT ![u] = now] /\ UNCHANGED <<pairs, now, ended>>
    BY <1>12 DEF Shut, RevokeMark
  <2>2. \A v \in User : before'[v] = before[v] \/ before'[v] = now BY <2>1 DEF Typed
  <2>3. \A p : Barred(p) => Barred(p)' BY <1>1, <2>2, StaysBarred
  <2>4. at'[q].seen = {p \in Pair : pairs[p].user = u} /\ at'[q].user = u
        /\ \A r \in Request \ {q} : at'[r] = at[r]
    BY <1>12 DEF Shut, Goto, Typed
  <2>5. ASSUME NEW p \in Pair, pairs[p].user = u PROVE Barred(p)'
    <3>1. before'[u] = now /\ now \in Nat \ {0} /\ pairs[p].iat <= now BY <2>1 DEF Typed
    <3>2. QED BY <2>1, <2>5, <3>1 DEF Barred, Pair
  <2>6. QED BY <2>1, <2>3, <2>4, <2>5 DEF ShutInv
<1>13. ASSUME NEW q \in Request, CommitShut(q) PROVE ShutInv'
  <2>1. before' = before /\ ended' = ended \cup at[q].seen /\ at[q].op = "shut"
    BY <1>13 DEF CommitShut
  <2>2. \A p : Barred(p) => Barred(p)' BY <1>1, <2>1, StaysBarred
  <2>3. ASSUME NEW p \in at[q].seen PROVE Barred(p) /\ pairs'[p].revoked
    <3>1. Barred(p) /\ p \in Pair /\ pairs[p].user = at[q].user
      BY <2>1 DEF ShutInv, Barred
    <3>2. pairs[p] \in TokenPair BY <3>1 DEF Typed, Pair
    <3> DEFINE b == pairs[p].revoked \/ p \in RevokedBy(at[q].user)
    <3>3. b = TRUE /\ b \in BOOLEAN BY <3>1, <3>2 DEF RevokedBy, TokenPair
    <3>4. pairs'[p] = [pairs[p] EXCEPT !.revoked = b] BY <1>13, <3>1 DEF CommitShut
    <3>5. pairs'[p] = [user |-> pairs[p].user, family |-> pairs[p].family,
                       iat |-> pairs[p].iat, revoked |-> b]
      BY <3>2, <3>3, <3>4, Revoking
    <3>6. pairs'[p].revoked = b BY <3>5
    <3>7. QED BY <3>1, <3>3, <3>6
  <2>4. at'[q] = Idle /\ \A r \in Request \ {q} : at'[r] = at[r]
    BY <1>13 DEF CommitShut, Goto, Typed
  <2>5. \A p : Barred(p) => pairs'[p].user = pairs[p].user BY <1>1 DEF Barred, Kept
  <2>6. \A p : Barred(p) /\ pairs[p].revoked => pairs'[p].revoked BY <1>1 DEF Barred, Kept
  <2>7. QED BY <2>1, <2>2, <2>3, <2>4, <2>5, <2>6 DEF ShutInv, Idle
<1>14. QED
  BY <1>2, <1>3, <1>5, <1>6, <1>7, <1>8, <1>9, <1>10, <1>11, <1>12, <1>13 DEF SessionsNext

-----------------------------------------------------------------------------
(* Rotation: two live pairs of a family come of one that was taken twice.  *)
LEMMA FamilyKeeps ==
  ASSUME Typed, OneLivePerFamily, [SessionsNext]_sessionVars PROVE OneLivePerFamily'
<1>1. Typed' /\ Kept BY StepTyped
<1>2. ASSUME Len(pairs') = Len(pairs), forked' = forked PROVE OneLivePerFamily'
  <2>1. Pair' = Pair BY <1>2 DEF Pair
  <2>2. QED BY <1>1, <1>2, <2>1 DEF OneLivePerFamily, Kept
<1>3. CASE UNCHANGED <<pairs, forked>> BY <1>2, <1>3
<1>4. ASSUME NEW q \in Request, CommitLogout(q) \/ CommitShut(q) PROVE OneLivePerFamily'
  <2>1. pairs \in Seq(TokenPair) /\ forked' = forked
    BY <1>4 DEF Typed, CommitLogout, CommitShut
  <2>2. DOMAIN pairs' = DOMAIN pairs
    BY <1>4, <2>1 DEF CommitLogout, CommitShut, Pair
  <2>3. Len(pairs') = Len(pairs) BY <1>1, <2>1, <2>2, LenProperties DEF Typed
  <2>4. QED BY <1>2, <2>1, <2>3
<1>5. ASSUME NEW q \in Request, IssuePair(q), ~UNCHANGED <<pairs, forked>>
      PROVE  OneLivePerFamily'
  <2>0. PICK f : f = at[q] OBVIOUS
  <2> DEFINE family == IF f.from = 0 THEN Len(pairs) + 1 ELSE pairs[f.from].family
             new == [user |-> f.user, family |-> family, iat |-> f.iat, revoked |-> FALSE]
             spent == Spent(f)
             n == Len(pairs) + 1
  <2>1. /\ pairs' = Append(spent, new)
        /\ forked' = IF f.from # 0 /\ pairs[f.from].revoked
                     THEN forked \cup {family} ELSE forked
    BY <2>0, <1>5 DEF IssuePair
  <2>2. pairs \in Seq(TokenPair) /\ Len(pairs) \in Nat /\ f.from \in 0 .. Len(pairs)
    BY <2>0, <1>5, FrameFields DEF Typed, IssuePair
  <2>3. new.family = family OBVIOUS
  <2> HIDE DEF new
  <2>4. Len(spent) = Len(pairs) /\ \E S : spent \in Seq(S)
    <3>1. CASE f.from = 0 BY <2>2, <3>1 DEF Spent
    <3>2. CASE f.from # 0
      <4>1. f.from \in Pair /\ spent = Without(f.from)
        BY <2>2, <3>2 DEF Pair, Spent, Without
      <4> HIDE DEF spent
      <4>2. QED BY <2>2, <4>1, RevokeOne
    <3>3. QED BY <3>1, <3>2
  <2> HIDE DEF spent, family
  <2>5. Pair' = Pair \cup {n} /\ pairs'[n] = new /\ \A p \in Pair : pairs'[p] = spent[p]
    BY <2>1, <2>2, <2>4 DEF Pair
  <2>6. \A p \in Pair : /\ pairs'[p].family = pairs[p].family
                        /\ ~pairs'[p].revoked => ~pairs[p].revoked
    BY <1>1 DEF Kept
  <2>7. forked \subseteq forked' BY <2>1
  <2>8. ASSUME NEW p \in Pair, pairs'[p].family = family, ~pairs'[p].revoked
        PROVE  family \in forked'
    <3>1. pairs[p].family = family /\ ~pairs[p].revoked BY <2>6, <2>8
    <3>2. f.from # 0 BY <2>2, <3>1 DEF Typed, Pair, family
    <3>3. f.from \in Pair /\ pairs[f.from].family = family
      BY <2>2, <3>2 DEF Pair, family
    <3>4. CASE pairs[f.from].revoked BY <2>1, <3>2, <3>4
    <3>5. CASE ~pairs[f.from].revoked
      <4>1. p = f.from \/ family \in forked BY <3>1, <3>3, <3>5 DEF OneLivePerFamily
      <4>2. p # f.from
        <5>1. spent = Without(f.from) BY <3>2 DEF spent, Spent, Without
        <5>2. spent[f.from].revoked BY <2>2, <3>3, <5>1, RevokeOne
        <5>3. pairs'[f.from].revoked BY <2>5, <3>3, <5>2
        <5>4. QED BY <2>8, <5>3
      <4>3. QED BY <2>7, <4>1, <4>2
    <3>6. QED BY <3>4, <3>5
  <2>9. SUFFICES ASSUME NEW p \in Pair', NEW r \in Pair',
                        pairs'[p].family = pairs'[r].family,
                        ~pairs'[p].revoked, ~pairs'[r].revoked, p # r
                 PROVE  pairs'[p].family \in forked'
    BY DEF OneLivePerFamily
  <2>10. CASE p \in Pair /\ r \in Pair BY <2>6, <2>7, <2>9, <2>10 DEF OneLivePerFamily
  <2>11. CASE p = n \/ r = n
    BY <2>3, <2>5, <2>8, <2>9, <2>11
  <2>12. QED BY <2>5, <2>10, <2>11
<1>6. SUFFICES ASSUME ~UNCHANGED <<pairs, forked>> PROVE OneLivePerFamily' BY <1>3
<1>7. \E q \in Request : CommitLogout(q) \/ CommitShut(q) \/ IssuePair(q)
  BY <1>6 DEF SessionsNext, sessionVars, Tick, InsertOrg, CountUsers, Blacklist, Rollback,
     Register, Login, Refresh, Reuse, Logout, Shut, Reopen, History
<1>8. QED BY <1>4, <1>5, <1>6, <1>7

-----------------------------------------------------------------------------
(* The first administrator: who counted no users holds the insert of the   *)
(* default organisation, and nobody exists before that is committed.       *)
Creates(f) ==
  /\ f.super => f.orgNew
  /\ f.orgNew => f.create
  /\ f.create /\ ~f.orgNew => org
OrgFounded == org <=> \E u \in User : Exists(u)
OneHolder == (\A q \in OrgHolders : ~org) /\ (\A q, r \in OrgHolders : q = r)
FramesAgree == \A q \in Request : /\ at[q].op = "issue" => Creates(at[q])
                                  /\ at[q].op = "orgRead" => org
                                  /\ at[q].op = "shut" => Exists(at[q].user)
FlagsMeanUsers == \A u \in User : account[u].super \/ account[u].local => Exists(u)
OneSuper == \A u, v \in User : account[u].super /\ account[v].super => u = v
FounderInv == OrgFounded /\ OneHolder /\ FramesAgree /\ FlagsMeanUsers /\ OneSuper

(* Steps that create no account and count no users.                        *)
LEMMA FounderUntouched ==
  ASSUME Typed, FounderInv, org' = org,
         \A u \in User : /\ account'[u].super = account[u].super
                         /\ account'[u].local = account[u].local
                         /\ (account'[u].status = "none") = (account[u].status = "none"),
         \A r \in Request : \/ at'[r] = at[r]
                            \/ at'[r].op \notin {"issue", "orgHeld", "orgRead", "shut"}
                            \/ at'[r].op = "orgRead" /\ org
                            \/ /\ at'[r].op = "shut" /\ at'[r].user \in User
                               /\ Exists(at'[r].user)
                            \/ at'[r].op = "issue" /\ Creates(at'[r]) /\ ~at'[r].orgNew
  PROVE  FounderInv'
<1>1. \A u \in User : Exists(u)' = Exists(u) BY DEF Exists
<1>2. OrgHolders' \subseteq OrgHolders BY DEF OrgHolders
<1>3. \A r \in Request : /\ at'[r].op = "issue" => Creates(at[r])'
                         /\ at'[r].op = "orgRead" => org
  BY DEF FounderInv, FramesAgree, Creates
<1>4. ASSUME NEW r \in Request, at'[r].op = "shut" PROVE account'[at'[r].user].status # "none"
  <2>1. CASE at'[r] = at[r]
    <3>1. at[r].op = "shut" BY <1>4, <2>1
    <3>2. at[r].user \in User /\ Exists(at[r].user)
      BY <3>1, FrameFields DEF FounderInv, FramesAgree
    <3>3. QED BY <2>1, <3>2 DEF Exists
  <2>2. CASE at'[r].user \in User /\ Exists(at'[r].user) BY <2>2 DEF Exists
  <2>3. QED BY <1>4, <2>1, <2>2
<1>5. QED
  BY <1>1, <1>2, <1>3, <1>4
  DEF FounderInv, OrgFounded, OneHolder, FramesAgree, FlagsMeanUsers, OneSuper, Exists

LEMMA FounderKeeps == ASSUME Typed, FounderInv, [SessionsNext]_sessionVars PROVE FounderInv'
<1>1. CASE UNCHANGED <<account, org, at>> BY <1>1, FounderUntouched
<1>2. CASE Tick BY <1>1, <1>2 DEF Tick
<1>3. CASE \E a, u \in User : Reopen(a, u)
  <2>1. PICK u \in User : /\ account' = [account EXCEPT ![u].status = "active"]
                          /\ account[u].status = "disabled"
    BY <1>3 DEF Reopen
  <2>2. \A v \in User : /\ account'[v].super = account[v].super
                        /\ account'[v].local = account[v].local
                        /\ (account'[v].status = "none") = (account[v].status = "none")
    BY <2>1 DEF Typed, Account
  <2>3. org' = org /\ at' = at BY <1>3 DEF Reopen
  <2>4. QED BY <2>2, <2>3, FounderUntouched
<1>4. ASSUME NEW q \in Request, NEW f, Goto(q, f), UNCHANGED <<account, org>>,
             \/ f.op \notin {"issue", "orgHeld", "orgRead", "shut"}
             \/ f.op = "orgRead" /\ org
             \/ f.op = "shut" /\ f.user \in User /\ Exists(f.user)
             \/ f.op = "issue" /\ Creates(f) /\ ~f.orgNew
      PROVE  FounderInv'
  BY <1>4, FounderUntouched DEF Goto, Typed
<1>5. ASSUME NEW q \in Request, NEW u \in User, Register(q, u) PROVE FounderInv'
  BY <1>4, <1>5 DEF Register
<1>6. ASSUME NEW q \in Request, NEW u \in User, Login(q, u) PROVE FounderInv'
  <2>1. Exists(u) \/ org BY <1>6 DEF Login, ByDirectory, FounderInv, FlagsMeanUsers
  <2>2. Creates(IssueFrame(u, ~Exists(u), 0)) BY <2>1 DEF Creates, IssueFrame
  <2>3. QED BY <1>4, <1>6, <2>2 DEF Login, IssueFrame
<1>7. ASSUME NEW q \in Request, NEW p \in Pair, Refresh(q, p) PROVE FounderInv'
  <2>1. Creates(IssueFrame(pairs[p].user, FALSE, p)) BY DEF Creates, IssueFrame
  <2>2. QED BY <1>4, <1>7, <2>1 DEF Refresh, IssueFrame
<1>8. ASSUME NEW q \in Request, NEW p \in Pair, Reuse(q, p) PROVE FounderInv'
  BY <1>1, <1>8 DEF Reuse
<1>9. ASSUME NEW q \in Request, NEW p, NEW r, Logout(q, p, r) PROVE FounderInv'
  BY <1>4, <1>9 DEF Logout
<1>10. ASSUME NEW q \in Request, NEW a, NEW u \in User, Shut(q, a, u) PROVE FounderInv'
  BY <1>4, <1>10 DEF Shut
<1>11. ASSUME NEW q \in Request, Blacklist(q) \/ Rollback(q) \/ CommitLogout(q)
       PROVE  FounderInv'
  BY <1>4, <1>11 DEF Blacklist, Rollback, CommitLogout, Idle
<1>12. ASSUME NEW q \in Request, CommitShut(q) PROVE FounderInv'
  <2>1. PICK u \in User : /\ account' = [account EXCEPT ![u].status = "disabled"]
                          /\ account[u].status # "none"
    BY <1>12, FrameFields DEF CommitShut, FounderInv, FramesAgree, Exists
  <2>2. org' = org /\ at' = [at EXCEPT ![q] = Idle] BY <1>12 DEF CommitShut, Goto
  <2>3. \A v \in User : /\ account'[v].super = account[v].super
                        /\ account'[v].local = account[v].local
                        /\ (account'[v].status = "none") = (account[v].status = "none")
    BY <2>1 DEF Typed, Account
  <2>4. at'[q] = Idle /\ \A r \in Request \ {q} : at'[r] = at[r] BY <2>2 DEF Typed
  <2>5. QED BY <2>2, <2>3, <2>4, FounderUntouched DEF Idle
<1>13. ASSUME NEW q \in Request, InsertOrg(q) PROVE FounderInv'
  <2>1. CASE org BY <1>4, <1>13, <2>1 DEF InsertOrg, Idle
  <2>2. CASE ~org
    <3>1. UNCHANGED <<account, org>> /\ OrgHolders = {} BY <1>13 DEF InsertOrg
    <3>2. at'[q] = [op |-> "orgHeld", user |-> at[q].user]
          /\ \A r \in Request \ {q} : at'[r] = at[r]
      BY <1>13, <2>2 DEF InsertOrg, Goto, Typed
    <3>3. OrgHolders' \subseteq {q} BY <3>1, <3>2 DEF OrgHolders
    <3>4. \A u \in User : Exists(u)' = Exists(u) BY <3>1 DEF Exists
    <3>5. \A r \in Request : /\ at'[r].op = "issue" => Creates(at[r])'
                             /\ at'[r].op = "orgRead" => org
                             /\ at'[r].op = "shut" => Exists(at[r].user)'
      BY <3>1, <3>2 DEF FounderInv, FramesAgree, Creates, Exists
    <3>6. QED BY <2>2, <3>1, <3>3, <3>4, <3>5
          DEF FounderInv, OrgFounded, OneHolder, FramesAgree, FlagsMeanUsers, OneSuper
  <2>3. QED BY <2>1, <2>2
<1>14. ASSUME NEW q \in Request, CountUsers(q) PROVE FounderInv'
  <2>1. UNCHANGED <<account, org>> BY <1>14 DEF CountUsers, History
  <2>2. PICK none \in BOOLEAN, held \in BOOLEAN :
          none = NoUsers /\ held = (at[q].op = "orgHeld")
    BY DEF NoUsers
  <2>3. Goto(q, [op |-> "issue", user |-> at[q].user, create |-> TRUE, local |-> TRUE,
                  super |-> none, orgNew |-> held, from |-> 0, iat |-> now])
    BY <1>14, <2>2, Zenon DEF CountUsers
  <2>4. /\ at'[q].super = none /\ at'[q].orgNew = held
         /\ at'[q].op = "issue" /\ at'[q].create
         /\ \A r \in Request \ {q} : at'[r] = at[r]
    BY <2>3 DEF Goto, Typed
  <2>5. at[q].op \in {"orgRead", "orgHeld"} BY <1>14 DEF CountUsers
  <2>6. OrgHolders' \subseteq OrgHolders BY <2>2, <2>4, <2>5 DEF OrgHolders
  <2>7. at[q].op = "orgRead" => org /\ ~NoUsers
    BY DEF FounderInv, OrgFounded, FramesAgree, NoUsers
  <2>8. (none => held) /\ (held \/ org) BY <2>2, <2>5, <2>7
  <2>9. Creates(at[q])'
    <3>1. org' = org BY <2>1
    <3>2. at'[q].super = none /\ at'[q].orgNew = held /\ at'[q].create BY <2>4
    <3>3. QED BY <2>8, <3>1, <3>2, Zenon DEF Creates
  <2>10. \A u \in User : Exists(u)' = Exists(u) BY <2>1 DEF Exists
  <2>11. FramesAgree'
    BY <2>1, <2>4, <2>9 DEF FounderInv, FramesAgree, Creates, Exists
  <2>12. OrgFounded' BY <2>1, <2>10 DEF FounderInv, OrgFounded
  <2>13. FlagsMeanUsers' /\ OneSuper'
    BY <2>1, <2>10 DEF FounderInv, FlagsMeanUsers, OneSuper
  <2>14. OneHolder'
    BY <2>1, <2>6 DEF FounderInv, OneHolder
  <2>15. QED BY <2>11, <2>12, <2>13, <2>14 DEF FounderInv
<1>15. ASSUME NEW q \in Request, IssuePair(q) PROVE FounderInv'
  <2>0. PICK f : f = at[q] OBVIOUS
  <2>1. /\ f.op = "issue" /\ f.user \in User /\ f.create \in BOOLEAN /\ f.super \in BOOLEAN
        /\ f.orgNew \in BOOLEAN /\ f.local \in BOOLEAN /\ Creates(f)
    BY <2>0, <1>15, FrameFields DEF IssuePair, FounderInv, FramesAgree
  <2>2. Goto(q, Idle) BY <1>15 DEF IssuePair
  <2>3. CASE f.create /\ Exists(f.user)
    <3>1. UNCHANGED <<account, org>> BY <1>15, <2>0, <2>3 DEF IssuePair
    <3>2. QED BY <1>4, <2>2, <3>1 DEF Idle
  <2>4. CASE ~f.create
    <3>1. account' = account /\ org' = (org \/ f.orgNew) BY <1>15, <2>0, <2>4 DEF IssuePair
    <3>2. ~f.orgNew BY <2>1, <2>4 DEF Creates
    <3>3. org' = org BY <3>1, <3>2 DEF Typed
    <3>4. QED BY <1>4, <2>2, <3>1, <3>3 DEF Idle
  <2>5. CASE f.create /\ ~Exists(f.user)
    <3>1. /\ account' = [account EXCEPT ![f.user] =
                           [status |-> "active", super |-> f.super, local |-> f.local]]
          /\ org' = (org \/ f.orgNew)
      BY <1>15, <2>0, <2>5 DEF IssuePair
    <3>2. org' BY <2>1, <2>5, <3>1 DEF Creates
    <3>3. at'[q] = Idle /\ \A r \in Request \ {q} : at'[r] = at[r]
      BY <2>2 DEF Goto, Typed
    <3>4. account'[f.user].status = "active" /\ account'[f.user].super = f.super
          /\ \A v \in User \ {f.user} : account'[v] = account[v]
      BY <2>1, <3>1 DEF Typed
    <3>5. /\ Exists(f.user)'
          /\ \A v \in User \ {f.user} : Exists(v)' = Exists(v)
      BY <3>4 DEF Exists
    <3>6. OrgHolders' = {}
      <4>1. OrgHolders' \subseteq OrgHolders \ {q} BY <3>3 DEF OrgHolders, Idle
      <4>2. CASE f.orgNew
        <5>1. q \in OrgHolders BY <2>0, <2>1, <4>2 DEF OrgHolders
        <5>2. QED BY <4>1, <5>1 DEF FounderInv, OneHolder
      <4>3. CASE ~f.orgNew
        <5>1. org BY <2>1, <2>5, <4>3 DEF Creates
        <5>2. QED BY <4>1, <5>1 DEF FounderInv, OneHolder
      <4>4. QED BY <2>1, <4>2, <4>3
    <3>7. f.super => \A v \in User : ~account[v].super
      <4>1. SUFFICES ASSUME f.super PROVE \A v \in User : ~account[v].super OBVIOUS
      <4>2. q \in OrgHolders BY <2>0, <2>1, <4>1 DEF Creates, OrgHolders
      <4>3. QED BY <4>2 DEF FounderInv, OrgFounded, OneHolder, FlagsMeanUsers
    <3>8. \A r \in Request : /\ at'[r].op = "issue" => Creates(at[r])'
                             /\ at'[r].op = "shut" => Exists(at[r].user)'
      <4> SUFFICES ASSUME NEW r \in Request
                   PROVE  /\ at'[r].op = "issue" => Creates(at[r])'
                          /\ at'[r].op = "shut" => Exists(at[r].user)'
        OBVIOUS
      <4>1. CASE r = q BY <3>3, <4>1 DEF Idle
      <4>2. CASE r # q
        <5>1. at'[r] = at[r] BY <3>3, <4>2
        <5>2. at[r].op = "issue" => Creates(at[r])'
          BY <3>2, <5>1 DEF FounderInv, FramesAgree, Creates
        <5>3. at[r].op = "shut" => Exists(at[r].user)'
          <6> SUFFICES ASSUME at[r].op = "shut" PROVE Exists(at[r].user)' OBVIOUS
          <6>1. at[r].user \in User /\ Exists(at[r].user)
            BY FrameFields DEF FounderInv, FramesAgree
          <6>2. QED BY <3>4, <5>1, <6>1 DEF Exists
        <5>4. QED BY <5>1, <5>2, <5>3
      <4>3. QED BY <4>1, <4>2
    <3>9. \A u \in User : account'[u].super \/ account'[u].local => Exists(u)'
      BY <3>4, <3>5 DEF FounderInv, FlagsMeanUsers
    <3>10. \A u, v \in User : account'[u].super /\ account'[v].super => u = v
      BY <3>4, <3>7 DEF FounderInv, OneSuper
    <3>11. QED BY <2>1, <3>2, <3>5, <3>6, <3>8, <3>9, <3>10
           DEF FounderInv, OrgFounded, OneHolder, FramesAgree, FlagsMeanUsers, OneSuper
  <2>6. QED BY <2>1, <2>3, <2>4, <2>5
<1>16. QED
  BY <1>1, <1>2, <1>3, <1>5, <1>6, <1>7, <1>8, <1>9, <1>10, <1>11, <1>12, <1>13, <1>14,
     <1>15 DEF SessionsNext, sessionVars

(* A set whose elements are all equal has one at most.                     *)
LEMMA AtMostOne == ASSUME NEW S, \A c, d \in S : c = d PROVE Cardinality(S) <= 1
<1>1. CASE S = {} BY <1>1, FS_EmptySet
<1>2. CASE S # {}
  <2>1. PICK c \in S : TRUE BY <1>2
  <2>2. S = {c} BY <2>1
  <2>3. Cardinality({c}) = 1 BY FS_Singleton, Zenon
  <2>4. QED BY <2>2, <2>3
<1>3. QED BY <1>1, <1>2

-----------------------------------------------------------------------------
(* The inductive invariant: the tables are typed, and each of the four     *)
(* properties comes with what it says of requests under way.               *)
SessionsInv == Typed /\ LogoutInv /\ ShutInv /\ OneLivePerFamily /\ FounderInv

LEMMA SessionsInductive ==
  /\ SessionsInit => SessionsInv
  /\ SessionsInv /\ [SessionsNext]_sessionVars => SessionsInv'
<1>1. SessionsInit => LogoutInv /\ ShutInv /\ OneLivePerFamily
  BY DEF SessionsInit, LogoutInv, ShutInv, OneLivePerFamily, Pair, Idle
<1>2. SessionsInit => FounderInv
  BY DEF SessionsInit, FounderInv, OrgFounded, OneHolder, FramesAgree, FlagsMeanUsers, OneSuper,
         OrgHolders, Exists, Idle
<1>3. QED
  BY <1>1, <1>2, TypedInitially, StepTyped, LogoutKeeps, ShutKeeps, FamilyKeeps, FounderKeeps
  DEF SessionsInv

LEMMA SessionsInvHolds == SessionsSpec => []SessionsInv
BY SessionsInductive, PTL DEF SessionsSpec

(* An access token is refused for ever after its logout was acknowledged,  *)
(* however many requests overlap and however long each of them takes.      *)
THEOREM LogoutIsFinal == SessionsSpec => []LoggedOutIsOut
<1>1. SessionsInv => LoggedOutIsOut
  <2> SUFFICES ASSUME SessionsInv, NEW p \in out PROVE ~Accepted(p) BY DEF LoggedOutIsOut
  <2>1. p \in Pair /\ p \in 1 .. MaxPairs /\ pairs[p] \in TokenPair
    BY BoundsAssumption DEF SessionsInv, LogoutInv, Outlived, Typed, Pair
  <2>2. pairs[p].iat \in Nat /\ now \in Nat /\ AccessTtl \in Nat /\ black[p] \in Nat
    <3>1. pairs[p].iat \in Nat BY <2>1 DEF TokenPair
    <3>2. now \in Nat /\ black[p] \in Nat BY <2>1, BoundsAssumption DEF SessionsInv, Typed
    <3>3. QED BY <3>1, <3>2, TtlAssumption
  <2>3. pairs[p].iat + AccessTtl <= black[p] BY DEF SessionsInv, LogoutInv, Outlived
  <2>4. QED BY <2>2, <2>3 DEF Accepted, Unexpired, Blacklisted
<1>2. QED BY <1>1, SessionsInvHolds, PTL

(* Every session an account had when it was shut stays ended, also after   *)
(* the account is opened again.                                            *)
THEOREM ShutIsFinal == SessionsSpec => []ShutEndsSessions
<1>1. SessionsInv => ShutEndsSessions
  BY DEF SessionsInv, ShutInv, ShutEndsSessions, Barred, Accepted, RevokedAsAWhole
<1>2. QED BY <1>1, SessionsInvHolds, PTL

(* A family of refresh tokens has one live token, unless two requests      *)
(* exchanged the same one at the same time.                                *)
THEOREM RotationLeavesOne == SessionsSpec => []OneLivePerFamily
BY SessionsInvHolds, PTL DEF SessionsInv

(* Registrations that overlap make one platform administrator.             *)
THEOREM OneAdministrator == SessionsSpec => []OneFounder
<1>1. SessionsInv => OneFounder
  <2> SUFFICES ASSUME SessionsInv PROVE OneFounder OBVIOUS
  <2> DEFINE S == {u \in User : account[u].super}
  <2>1. \A u, v \in S : u = v BY DEF SessionsInv, FounderInv, OneSuper
  <2> HIDE DEF S
  <2>2. Cardinality(S) <= 1 BY <2>1, AtMostOne
  <2>3. QED BY <2>2 DEF S, OneFounder
<1>2. QED BY <1>1, SessionsInvHolds, PTL

-----------------------------------------------------------------------------
(* What a request is about to cache counts as held, and what the cache     *)
(* holds was held as recently as its remaining lifetime says.              *)
CacheInv ==
  /\ grant \in [Role -> Grants] /\ cached \in [Role -> Entry \cup {NoEntry}]
  /\ DOMAIN call = Caller
  /\ since \in [Role -> [Grants -> 0 .. GrantTtl + 1]]
  /\ \A r \in Role : since[r][grant[r]] = 0
  /\ \A r \in Role : cached[r] # NoEntry => since[r][cached[r].value] + cached[r].left <= GrantTtl
  /\ \A q \in Caller : call[q].op = "fill" =>
       /\ call[q].role \in Role /\ call[q].value \in Grants
       /\ since[call[q].role][call[q].value] = 0

LEMMA CacheInitially == AccessInit => CacheInv
<1> SUFFICES ASSUME AccessInit PROVE CacheInv OBVIOUS
<1>0. GrantTtl \in Nat \ {0} BY AccessAssumption
<1>1. grant \in [Role -> Grants] /\ cached \in [Role -> Entry \cup {NoEntry}]
  BY AccessAssumption DEF AccessInit, Empty, Grants
<1>2. DOMAIN call = Caller /\ \A q \in Caller : call[q].op # "fill" BY DEF AccessInit, Resting
<1>3. since \in [Role -> [Grants -> 0 .. GrantTtl + 1]] BY <1>0 DEF AccessInit
<1>4. Empty \in Grants BY AccessAssumption DEF Empty, Grants
<1>5. \A r \in Role : since[r][grant[r]] = 0 /\ cached[r] = NoEntry BY <1>4 DEF AccessInit
<1>6. QED BY <1>1, <1>2, <1>3, <1>5 DEF CacheInv

LEMMA FillFields ==
  ASSUME CacheInv, NEW q \in Caller, call[q].op = "fill"
  PROVE  call[q].role \in Role /\ call[q].value \in Grants
BY DEF CacheInv

LEMMA CacheInductive == CacheInv /\ [AccessNext]_accessVars => CacheInv'
<1> SUFFICES ASSUME CacheInv, [AccessNext]_accessVars PROVE CacheInv' OBVIOUS
<1>0. GrantTtl \in Nat \ {0} BY AccessAssumption
<1>1. CASE UNCHANGED <<grant, cached, call, since>> BY <1>1 DEF CacheInv
<1>2. ASSUME NEW c, NEW q \in Caller, call' = [call EXCEPT ![q] = c], c.op # "fill",
             UNCHANGED <<grant, cached, since>>
      PROVE  CacheInv'
  <2>1. DOMAIN call' = Caller /\ \A p \in Caller : call'[p] = IF p = q THEN c ELSE call[p]
    BY <1>2 DEF CacheInv
  <2>2. QED BY <1>2, <2>1 DEF CacheInv
<1>3. ASSUME NEW q \in Caller, NEW r \in Role, ReadGrants(q, r) PROVE CacheInv'
  <2>1. PICK f : f = [op |-> "fill", role |-> r, value |-> grant[r]] OBVIOUS
  <2>2. call' = [call EXCEPT ![q] = f] /\ UNCHANGED <<grant, cached, since>>
    BY <1>3, <2>1 DEF ReadGrants
  <2>3. grant[r] \in Grants BY DEF CacheInv
  <2>4. f.role = r /\ f.value = grant[r] BY <2>1
  <2>5. DOMAIN call' = Caller /\ \A p \in Caller : call'[p] = IF p = q THEN f ELSE call[p]
    BY <2>2, <2>4 DEF CacheInv
  <2>6. QED BY <2>2, <2>3, <2>4, <2>5 DEF CacheInv
<1>4. ASSUME NEW q \in Caller, SetRoleGrants(q) PROVE CacheInv'
  <2>1. PICK r, v, e : r = call[q].role /\ v = call[q].value /\ e = Expiring(v) OBVIOUS
  <2>2. r \in Role /\ v \in Grants /\ since[r][v] = 0
    BY <1>4, <2>1, FillFields DEF SetRoleGrants, CacheInv
  <2>3. /\ cached' = [cached EXCEPT ![r] = e] /\ call' = [call EXCEPT ![q] = Resting]
        /\ UNCHANGED <<grant, since>>
    BY <1>4, <2>1 DEF SetRoleGrants
  <2>4. e \in Entry /\ e.value = v /\ e.left = GrantTtl BY <1>0, <2>1, <2>2 DEF Expiring, Entry
  <2>5. Resting.op # "fill" BY DEF Resting
  <2>6. /\ DOMAIN call' = Caller /\ cached' \in [Role -> Entry \cup {NoEntry}]
        /\ \A p \in Caller : call'[p] = IF p = q THEN Resting ELSE call[p]
        /\ \A s \in Role : cached'[s] = IF s = r THEN e ELSE cached[s]
    BY <2>2, <2>3, <2>4, <2>5 DEF CacheInv
  <2>7. ASSUME NEW s \in Role, cached'[s] # NoEntry
        PROVE  since[s][cached'[s].value] + cached'[s].left <= GrantTtl
    BY <1>0, <2>2, <2>4, <2>6, <2>7 DEF CacheInv
  <2>8. ASSUME NEW p \in Caller, call'[p].op = "fill"
        PROVE  /\ call'[p].role \in Role /\ call'[p].value \in Grants
               /\ since[call'[p].role][call'[p].value] = 0
    BY <2>5, <2>6, <2>8 DEF CacheInv
  <2>9. QED BY <2>3, <2>6, <2>7, <2>8 DEF CacheInv
<1>5. ASSUME NEW q \in Caller, FailToCache(q) \/ CommitBindings(q) PROVE CacheInv'
  <2>1. call' = [call EXCEPT ![q] = Resting] /\ UNCHANGED <<grant, cached, since>>
    BY <1>5 DEF FailToCache, CommitBindings
  <2>2. Resting.op # "fill" BY DEF Resting
  <2>3. QED BY <1>2, <2>1, <2>2
<1>6. ASSUME NEW q \in Caller, NEW x \in Resource \cup App, NEW items \in Bodies,
             PutBindings(q, x, items)
      PROVE  CacheInv'
  <2>1. PICK f : /\ call' = [call EXCEPT ![q] = f] /\ f.op = "put"
                 /\ UNCHANGED <<grant, cached, since>>
    <3>1. PICK f : f = [op |-> "put", on |-> x, seen |-> binding[x], items |-> items]
      OBVIOUS
    <3>2. f.op = "put" BY <3>1
    <3>3. call' = [call EXCEPT ![q] = f] /\ UNCHANGED <<grant, cached, since>>
      BY <1>6, <3>1 DEF PutBindings
    <3>4. QED BY <3>2, <3>3
  <2>2. QED BY <1>2, <2>1
<1>7. ASSUME NEW r \in Role, NEW g \in Grants, ChangeGrants(r, g) PROVE CacheInv'
  <2>1. /\ grant' = [grant EXCEPT ![r] = g] /\ since' = [since EXCEPT ![r][g] = 0]
        /\ UNCHANGED <<cached, call>>
    BY <1>7 DEF ChangeGrants
  <2>2. /\ grant' \in [Role -> Grants] /\ since' \in [Role -> [Grants -> 0 .. GrantTtl + 1]]
        /\ \A s \in Role : grant'[s] = IF s = r THEN g ELSE grant[s]
        /\ \A s \in Role, h \in Grants : since'[s][h] = IF s = r /\ h = g THEN 0 ELSE since[s][h]
    BY <1>0, <2>1 DEF CacheInv
  <2>3. \A s \in Role, h \in Grants : since'[s][h] <= since[s][h] /\ since'[s][h] \in Nat
    BY <1>0, <2>2 DEF CacheInv
  <2>4. \A s \in Role : since'[s][grant'[s]] = 0 BY <2>2 DEF CacheInv
  <2>5. ASSUME NEW s \in Role, cached[s] # NoEntry
        PROVE  since'[s][cached[s].value] + cached[s].left <= GrantTtl
    <3>1. PICK v \in Grants, l \in Nat : v = cached[s].value /\ l = cached[s].left
      BY <2>5 DEF CacheInv, Entry
    <3>2. since[s][v] + l <= GrantTtl /\ since[s][v] \in Nat BY <1>0, <2>5, <3>1 DEF CacheInv
    <3>3. since'[s][v] + l <= GrantTtl BY <1>0, <2>3, <3>2
    <3>4. QED BY <3>1, <3>3
  <2>6. ASSUME NEW q \in Caller, call[q].op = "fill"
        PROVE  /\ call[q].role \in Role /\ call[q].value \in Grants
               /\ since'[call[q].role][call[q].value] = 0
    BY <2>2, <2>6, FillFields DEF CacheInv
  <2>7. QED BY <2>1, <2>2, <2>4, <2>5, <2>6 DEF CacheInv
<1>8. ASSUME NEW u \in Person, NEW roles \in SUBSET Role, ChangeRoles(u, roles) PROVE CacheInv'
  BY <1>1, <1>8 DEF ChangeRoles
<1>9. CASE TickAccess
  <2>1. /\ cached' = [r \in Role |->
             IF cached[r] = NoEntry \/ cached[r].left = 1 THEN NoEntry
             ELSE [cached[r] EXCEPT !.left = @ - 1]]
        /\ since' = [r \in Role |-> [g \in Grants |->
             IF g = grant[r] \/ Carried(r, g) THEN 0
             ELSE IF since[r][g] > GrantTtl THEN since[r][g] ELSE since[r][g] + 1]]
        /\ UNCHANGED <<grant, call>>
    BY <1>9 DEF TickAccess
  <2>2. \A s \in Role, h \in Grants : since[s][h] \in 0 .. GrantTtl + 1 BY DEF CacheInv
  <2>3. /\ since' \in [Role -> [Grants -> 0 .. GrantTtl + 1]]
        /\ \A s \in Role, h \in Grants : since'[s][h] <= since[s][h] + 1 /\ since'[s][h] \in Nat
    BY <1>0, <2>1, <2>2
  <2>4. \A s \in Role : since'[s][grant'[s]] = 0 BY <2>1 DEF CacheInv
  <2>5. ASSUME NEW s \in Role
        PROVE  /\ cached'[s] \in Entry \cup {NoEntry}
               /\ cached'[s] # NoEntry =>
                    since'[s][cached'[s].value] + cached'[s].left <= GrantTtl
    <3>1. CASE cached[s] = NoEntry \/ cached[s].left = 1 BY <2>1, <3>1
    <3>2. CASE ~(cached[s] = NoEntry \/ cached[s].left = 1)
      <4>1. PICK v \in Grants, l \in Nat \ {0} : cached[s] = [value |-> v, left |-> l]
        BY <3>2 DEF CacheInv, Entry
      <4>2. l # 1 /\ cached'[s] = [value |-> v, left |-> l - 1] BY <2>1, <3>2, <4>1
      <4>3. l - 1 \in Nat \ {0} BY <4>1, <4>2
      <4>4. since[s][v] + l <= GrantTtl BY <3>2, <4>1 DEF CacheInv
      <4>5. since'[s][v] + (l - 1) <= GrantTtl BY <1>0, <2>2, <2>3, <4>1, <4>3, <4>4
      <4>6. QED BY <4>2, <4>3, <4>5 DEF Entry
    <3>3. QED BY <3>1, <3>2
  <2>6. cached' \in [Role -> Entry \cup {NoEntry}]
    <3>1. cached' = [r \in Role |-> cached'[r]] BY <2>1
    <3>2. QED BY <2>5, <3>1
  <2>7. ASSUME NEW q \in Caller, call[q].op = "fill"
        PROVE  since'[call[q].role][call[q].value] = 0
    <3>1. PICK r \in Role, g \in Grants : r = call[q].role /\ g = call[q].value
      BY <2>7, FillFields
    <3>2. Carried(r, g) BY <2>7, <3>1 DEF Carried
    <3>3. since'[r][g] = 0 BY <2>1, <3>2
    <3>4. QED BY <3>1, <3>3
  <2>8. QED BY <2>1, <2>3, <2>4, <2>5, <2>6, <2>7 DEF CacheInv
<1>10. CASE UNCHANGED accessVars BY <1>1, <1>10 DEF accessVars
<1>11. QED BY <1>3, <1>4, <1>5, <1>6, <1>7, <1>8, <1>9, <1>10 DEF AccessNext

(* A withdrawn right is honoured while a request that read it before is    *)
(* about to cache it, and for less than one lifetime of the cache after,   *)
(* however many requests fill it and however long each of them takes.      *)
THEOREM WithdrawnRightsEnd == AccessSpec => []StaleGrantsExpire
<1>1. CacheInv => StaleGrantsExpire
  <2> SUFFICES ASSUME CacheInv, NEW r \in Role PROVE since[r][KnownGrants(r)] < GrantTtl
    BY DEF StaleGrantsExpire
  <2>0. GrantTtl \in Nat \ {0} BY AccessAssumption
  <2>1. CASE cached[r] = NoEntry BY <2>0, <2>1 DEF CacheInv, KnownGrants
  <2>2. CASE cached[r] # NoEntry
    <3>1. PICK v \in Grants, l \in Nat \ {0} : v = cached[r].value /\ l = cached[r].left
      BY <2>2 DEF CacheInv, Entry
    <3>2. since[r][v] + l <= GrantTtl /\ since[r][v] \in Nat
      BY <2>0, <2>2, <3>1 DEF CacheInv
    <3>3. since[r][v] < GrantTtl BY <2>0, <3>1, <3>2
    <3>4. QED BY <2>2, <3>1, <3>3 DEF KnownGrants
  <2>3. QED BY <2>1, <2>2
<1>2. AccessSpec => []CacheInv
  BY CacheInitially, CacheInductive, PTL DEF AccessSpec
<1>3. QED BY <1>1, <1>2, PTL

(* The two ways to each decision agree in every state there can be.        *)
THEOREM DecisionsAlwaysAgree == AccessSpec => []DecisionsAgree
<1>1. DecisionsAgree
  <2> SUFFICES ASSUME NEW u \in Person
               PROVE  /\ \A x \in Resource : CanSeeAgentResource(u, x) <=> x \in LoadVisibleRows(u)
                      /\ \A app \in App : CanControlApp(u, app) => CanUseApp(u, app)
                      /\ \A app \in App, a \in UseActions : app \in AccessibleApps(u, a) <=> Check(u, app, a)
    BY DEF DecisionsAgree
  <2>1. ASSUME NEW x \in Resource PROVE CanSeeAgentResource(u, x) <=> x \in LoadVisibleRows(u)
    BY DEF CanSeeAgentResource, LoadVisibleRows, VisibleResourceIds, RowsOfSubjects
  <2>2. ASSUME NEW app \in App PROVE CanControlApp(u, app) => CanUseApp(u, app)
    <3>1. ControlActions \subseteq UseActions BY DEF ControlActions, UseActions
    <3>2. QED BY <3>1 DEF CanControlApp, CanUseApp, AppAllowed
  <2>3. ASSUME NEW app \in App, NEW a \in UseActions
        PROVE  app \in AccessibleApps(u, a) <=> Check(u, app, a)
    BY DEF AccessibleApps, Check
  <2>4. QED BY <2>1, <2>2, <2>3
<1>2. QED BY <1>1, PTL

-----------------------------------------------------------------------------
(* The histories of the sessions are about pairs that were issued.         *)
HistoryInv == ends \in 0 .. MaxEnds /\ reused \subseteq Pair /\ forked \subseteq Pair

LEMMA HistoryKeeps ==
  ASSUME SessionsInv, HistoryInv, [SessionsNext]_sessionVars PROVE HistoryInv'
<1>0. Typed /\ Typed' /\ Pair \subseteq Pair' BY StepTyped DEF SessionsInv, Kept
<1>1. CASE UNCHANGED <<ends, reused, forked>> BY <1>0, <1>1 DEF HistoryInv
<1>2. ASSUME Ending, UNCHANGED <<reused, forked>> PROVE HistoryInv'
  <2>1. ends \in Nat /\ MaxEnds \in Nat /\ ends < MaxEnds /\ ends' = ends + 1
    BY <1>2, BoundsAssumption DEF Ending, HistoryInv
  <2>2. ends' \in 0 .. MaxEnds BY <2>1
  <2>3. QED BY <1>0, <1>2, <2>2 DEF HistoryInv
<1>3. ASSUME NEW q \in Request, NEW p \in Pair, Reuse(q, p) PROVE HistoryInv'
  <2>1. pairs[p].family \in Pair BY <1>0 DEF Typed
  <2>2. reused' \subseteq reused \cup {pairs[p].family} /\ UNCHANGED <<ends, forked>>
    BY <1>3 DEF Reuse
  <2>3. QED BY <1>0, <2>1, <2>2 DEF HistoryInv
<1>4. ASSUME NEW q \in Request, IssuePair(q) PROVE HistoryInv'
  <2>1. PICK n : n = at[q].from OBVIOUS
  <2>2. n \in 0 .. Len(pairs) BY <1>0, <1>4, <2>1, FrameFields DEF IssuePair
  <2>3. forked' = forked \/ (n # 0 /\ forked' = forked \cup {pairs[n].family})
    BY <1>4, <2>1 DEF IssuePair
  <2>4. n # 0 => pairs[n].family \in Pair BY <1>0, <2>2 DEF Typed, Pair
  <2>5. UNCHANGED <<ends, reused>> BY <1>4 DEF IssuePair
  <2>6. QED BY <1>0, <2>3, <2>4, <2>5 DEF HistoryInv
<1>5. ASSUME NEW q \in Request, NEW p, NEW r, Logout(q, p, r) \/ Shut(q, p, r) PROVE HistoryInv'
  BY <1>2, <1>5 DEF Logout, Shut
<1>6. ASSUME NEW q \in Request,
             \/ InsertOrg(q) \/ CountUsers(q) \/ Blacklist(q) \/ CommitLogout(q)
             \/ CommitShut(q) \/ Rollback(q) \/ \E u : Register(q, u) \/ Login(q, u)
             \/ \E p : Refresh(q, p)
      PROVE  HistoryInv'
  BY <1>1, <1>6 DEF InsertOrg, CountUsers, Blacklist, CommitLogout, CommitShut, Rollback,
     Register, Login, Refresh, History
<1>7. CASE Tick \/ \E a, u \in User : Reopen(a, u) BY <1>1, <1>7 DEF Tick, Reopen, History
<1>8. CASE UNCHANGED sessionVars BY <1>1, <1>8 DEF sessionVars
<1>9. QED BY <1>3, <1>4, <1>5, <1>6, <1>7, <1>8 DEF SessionsNext

LEMMA SessionsAreTyped == SessionsSpec => []SessionsTypeOK
<1>1. SessionsInit => HistoryInv BY BoundsAssumption DEF SessionsInit, HistoryInv
<1>2. SessionsInv /\ HistoryInv => SessionsTypeOK
  <2> SUFFICES ASSUME SessionsInv, HistoryInv PROVE SessionsTypeOK OBVIOUS
  <2>1. Typed BY DEF SessionsInv
  <2>2. \A u \in User : before[u] \in 0 .. now BY <2>1, BoundsAssumption DEF Typed
  <2>3. out \subseteq Pair /\ ended \subseteq Pair
    BY DEF SessionsInv, LogoutInv, ShutInv, Outlived, Barred
  <2>4. QED BY <2>1, <2>2, <2>3 DEF Typed, HistoryInv, SessionsTypeOK
<1>3. SessionsSpec => []HistoryInv
  BY <1>1, HistoryKeeps, SessionsInvHolds, PTL DEF SessionsSpec
<1>4. QED BY <1>2, <1>3, SessionsInvHolds, PTL

-----------------------------------------------------------------------------
(* Bindings: a resource has one row per subject, although a PUT deletes    *)
(* only the rows that its statement sees.                                  *)
OneRowEach(rows) == \A b, c \in rows : b.subject = c.subject => b = c
BindingsInv ==
  /\ binding \in [Resource \cup App -> SUBSET Row]
  /\ \A x \in Resource \cup App : OneRowEach(binding[x])
  /\ rolesOf \in [Person -> SUBSET Role]
  /\ call \in [Caller -> Call]

LEMMA PutFields ==
  ASSUME BindingsInv, NEW q \in Caller, call[q].op = "put"
  PROVE  /\ call[q].on \in Resource \cup App /\ call[q].seen \in SUBSET Row
         /\ call[q].items \in Bodies
<1>1. call[q] \in Call BY DEF BindingsInv
<1>2. call[q] \in [op : {"put"}, on : Resource \cup App, seen : SUBSET Row, items : Bodies]
  BY <1>1 DEF Call, Resting
<1>3. QED BY <1>2

LEMMA NewRowsAreRows ==
  ASSUME NEW items \in Bodies, NEW i \in items
  PROVE  RowFor(i.subject, i.actions) \in Row /\ RowFor(i.subject, i.actions).subject = i.subject
<1>1. i.subject \in Subject BY BodiesAssumption
<1>2. i.actions \in {j.actions : j \in UNION Bodies} OBVIOUS
<1>3. QED BY <1>1, <1>2 DEF RowFor, Row

LEMMA CallMoves ==
  ASSUME BindingsInv, NEW q \in Caller, NEW f \in Call, call' = [call EXCEPT ![q] = f],
         UNCHANGED <<binding, rolesOf>>
  PROVE  BindingsInv'
BY DEF BindingsInv

LEMMA CommitKeepsBindings ==
  ASSUME BindingsInv, NEW q \in Caller, CommitBindings(q) PROVE BindingsInv'
<1>0. PICK f : f = call[q] OBVIOUS
<1>1. /\ f.op = "put" /\ call' = [call EXCEPT ![q] = Resting] /\ rolesOf' = rolesOf
      /\ binding' = IF Clash(f) THEN binding
                    ELSE [binding EXCEPT ![f.on] = Surviving(f) \cup NewRows(f)]
  BY <1>0 DEF CommitBindings
<1>2. f.on \in Resource \cup App /\ f.items \in Bodies BY <1>0, <1>1, PutFields
<1>3. Resting \in Call BY DEF Call
<1>4. CASE Clash(f) BY <1>1, <1>3, <1>4, CallMoves
<1>5. CASE ~Clash(f)
  <2>1. PICK rows : rows = Surviving(f) \cup NewRows(f) OBVIOUS
  <2>2. Surviving(f) \in SUBSET Row /\ OneRowEach(Surviving(f))
    BY <1>2 DEF BindingsInv, Surviving, OneRowEach
  <2>3. ASSUME NEW c \in NewRows(f)
        PROVE  c \in Row /\ \E i \in f.items : c = RowFor(i.subject, i.actions) /\ c.subject = i.subject
    BY <1>2, NewRowsAreRows DEF NewRows
  <2>4. rows \in SUBSET Row BY <2>1, <2>2, <2>3
  <2>5. OneRowEach(rows)
    <3> SUFFICES ASSUME NEW b \in rows, NEW c \in rows, b.subject = c.subject PROVE b = c
      BY DEF OneRowEach
    <3>1. CASE b \in Surviving(f) /\ c \in Surviving(f) BY <2>2, <3>1 DEF OneRowEach
    <3>2. CASE b \in Surviving(f) /\ c \in NewRows(f) BY <1>5, <2>3, <3>2 DEF Clash
    <3>3. CASE b \in NewRows(f) /\ c \in Surviving(f) BY <1>5, <2>3, <3>3 DEF Clash
    <3>4. CASE b \in NewRows(f) /\ c \in NewRows(f) BY <1>5, <2>3, <3>4 DEF Clash
    <3>5. QED BY <2>1, <3>1, <3>2, <3>3, <3>4
  <2>6. binding' = [binding EXCEPT ![f.on] = rows] BY <1>1, <1>5, <2>1
  <2>7. /\ binding' \in [Resource \cup App -> SUBSET Row]
        /\ \A x \in Resource \cup App : OneRowEach(binding'[x])
    BY <1>2, <2>4, <2>5, <2>6 DEF BindingsInv
  <2>8. call' \in [Caller -> Call] BY <1>1, <1>3 DEF BindingsInv
  <2>9. QED BY <1>1, <2>7, <2>8 DEF BindingsInv
<1>6. QED BY <1>4, <1>5

LEMMA BindingsInductive == CacheInv /\ BindingsInv /\ [AccessNext]_accessVars => BindingsInv'
<1> SUFFICES ASSUME CacheInv, BindingsInv, [AccessNext]_accessVars PROVE BindingsInv' OBVIOUS
<1>1. CASE UNCHANGED <<binding, rolesOf, call>> BY <1>1 DEF BindingsInv
<1>2. ASSUME NEW q \in Caller, NEW r \in Role, ReadGrants(q, r) PROVE BindingsInv'
  <2>1. PICK f : f = [op |-> "fill", role |-> r, value |-> grant[r]] OBVIOUS
  <2>2. grant[r] \in Grants BY DEF CacheInv
  <2>3. f \in Call BY <2>1, <2>2 DEF Call
  <2>4. call' = [call EXCEPT ![q] = f] /\ UNCHANGED <<binding, rolesOf>>
    BY <1>2, <2>1 DEF ReadGrants
  <2>5. QED BY <2>3, <2>4, CallMoves
<1>3. ASSUME NEW q \in Caller, SetRoleGrants(q) \/ FailToCache(q) PROVE BindingsInv'
  <2>1. Resting \in Call BY DEF Call
  <2>2. QED BY <1>3, <2>1, CallMoves DEF SetRoleGrants, FailToCache
<1>4. ASSUME NEW q \in Caller, NEW x \in Resource \cup App, NEW items \in Bodies,
             PutBindings(q, x, items)
      PROVE  BindingsInv'
  <2>1. PICK f : f = [op |-> "put", on |-> x, seen |-> binding[x], items |-> items] OBVIOUS
  <2>2. binding[x] \in SUBSET Row BY DEF BindingsInv
  <2>3. f \in [op : {"put"}, on : Resource \cup App, seen : SUBSET Row, items : Bodies]
    BY <2>1, <2>2
  <2>4. f \in Call BY <2>3, Zenon DEF Call
  <2>5. call' = [call EXCEPT ![q] = f] /\ UNCHANGED <<binding, rolesOf>>
    BY <1>4, <2>1 DEF PutBindings
  <2>6. QED BY <2>4, <2>5, CallMoves
<1>5. ASSUME NEW u \in Person, NEW roles \in SUBSET Role, ChangeRoles(u, roles) PROVE BindingsInv'
  BY <1>5 DEF ChangeRoles, BindingsInv
<1>6. CASE TickAccess \/ (\E r \in Role, g \in Grants : ChangeGrants(r, g)) \/ UNCHANGED accessVars
  BY <1>1, <1>6 DEF TickAccess, ChangeGrants, accessVars
<1>7. QED BY <1>2, <1>3, <1>4, <1>5, <1>6, CommitKeepsBindings DEF AccessNext

LEMMA AccessIsTyped == AccessSpec => []AccessTypeOK
<1>1. AccessInit => BindingsInv
  <2>1. Resting \in Call BY DEF Call
  <2>2. QED BY <2>1 DEF AccessInit, BindingsInv, OneRowEach
<1>2. CacheInv /\ BindingsInv => AccessTypeOK BY DEF CacheInv, BindingsInv, OneRowEach, AccessTypeOK
<1>3. QED BY <1>1, <1>2, CacheInitially, CacheInductive, BindingsInductive, PTL DEF AccessSpec

-----------------------------------------------------------------------------
(* Sessions and rights side by side.                                       *)
LEMMA AuthSteps == AuthSpec => SessionsSpec /\ AccessSpec
<1>1. AuthInit => SessionsInit /\ AccessInit BY DEF AuthInit
<1>2. [AuthNext]_<<part, sessionVars, accessVars>>
        => [SessionsNext]_sessionVars /\ [AccessNext]_accessVars
  BY DEF AuthNext
<1>3. QED BY <1>1, <1>2, PTL DEF AuthSpec, SessionsSpec, AccessSpec

(* Session tables and permission tables stay well formed, however many     *)
(* requests overlap: histories name issued pairs, no mark is in the        *)
(* future, and a resource has one binding per subject.                     *)
THEOREM TablesStayTyped == AuthSpec => []AuthTypeOK
<1>1. AuthTypeOK <=> SessionsTypeOK /\ AccessTypeOK BY DEF AuthTypeOK
<1>2. QED BY <1>1, AuthSteps, SessionsAreTyped, AccessIsTyped, PTL
=============================================================================

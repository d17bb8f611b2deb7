-------------------------- MODULE SseStream_proofs --------------------------
(***************************************************************************)
(* The stream bus for any processes, readers, runs and lengths of queues:  *)
(* its bindings (BindInv), the order in which frames come to a reader      *)
(* (FrameInv, and TurnInv of the turns that publish them), and what the    *)
(* reader shows of the runs (ViewInv).                                     *)
(***************************************************************************)
EXTENDS SseStream, FiniteSetTheorems, SequenceTheorems, TLAPS

Call == [do : {"bind", "unbind"}, for : Reader]
Subscribed == {"binding", "gone"}

(* The pending calls of process p, with its readers at places pl: a bind   *)
(* is the call of a reader that waits for it, or has been cancelled, and   *)
(* every reader makes one.                                                 *)
GoodCalls(s, p, pl) ==
  /\ s \in Seq(Call)
  /\ \A i \in 1 .. Len(s) :
       HomeOf[s[i].for] = p /\ (s[i].do = "bind" => pl[s[i].for] \in Subscribed)
  /\ \A i, j \in 1 .. Len(s) :
       s[i].do = "bind" /\ s[j].do = "bind" /\ s[i].for = s[j].for => i = j

EndsBound(s, b) == IF s = <<>> THEN b ELSE s[Len(s)].do = "bind"

(* Who builds the connection of p is its only reader; or all is built, and *)
(* what the broker still has to do ends with a binding.                    *)
Settled(p) == \/ builder[p] \in Reader /\ holders[p] = {builder[p]}
              \/ link[p] = "ready" /\ EndsBound(calls[p], bound[p])

BusTyped ==
  /\ link \in [Api -> Links]
  /\ builder \in [Api -> Reader \cup {NoOne, Publisher}]
  /\ holders \in [Api -> SUBSET Reader]
  /\ bound \in [Api -> BOOLEAN]
  /\ calls \in [Api -> Seq(Call)]
  /\ place \in [Reader -> Places]
  /\ early \subseteq Api

BindInv ==
  /\ BusTyped
  /\ \A p \in Api : GoodCalls(calls[p], p, place)
  /\ \A p \in Api : link[p] = "ready" => builder[p] = NoOne
  /\ \A p \in Api : builder[p] \in Reader =>
       place[builder[p]] = "building" /\ HomeOf[builder[p]] = p
  /\ \A r \in Reader : place[r] = "waiting" => HomeOf[r] \in early
  /\ \A p \in Api \ early : holders[p] # {} => Settled(p)

-----------------------------------------------------------------------------
(* Sequences of calls.                                                     *)

LEMMA OtherPlaces ==
  ASSUME NEW p, NEW s, NEW pl, NEW q, GoodCalls(s, p, pl),
         \A r \in Reader : HomeOf[r] = p /\ pl[r] \in Subscribed => q[r] \in Subscribed
  PROVE  GoodCalls(s, p, q)
<1>1. \A i \in 1 .. Len(s) : s[i] \in Call BY DEF GoodCalls
<1>2. \A i \in 1 .. Len(s) : s[i].for \in Reader BY <1>1 DEF Call
<1>3. QED BY <1>2 DEF GoodCalls

LEMMA AppendCall ==
  ASSUME NEW p, NEW s, NEW pl, GoodCalls(s, p, pl), NEW r \in Reader, HomeOf[r] = p,
         NEW do \in {"bind", "unbind"},
         do = "bind" => pl[r] \in Subscribed
           /\ \A i \in 1 .. Len(s) : s[i].do = "bind" => s[i].for # r
  PROVE  /\ GoodCalls(Append(s, [do |-> do, for |-> r]), p, pl)
         /\ \A b : EndsBound(Append(s, [do |-> do, for |-> r]), b) <=> do = "bind"
<1> DEFINE c == [do |-> do, for |-> r]
           t == Append(s, c)
<1>1. c \in Call /\ s \in Seq(Call) BY DEF Call, GoodCalls
<1>2. /\ t \in Seq(Call) /\ Len(t) = Len(s) + 1 /\ Len(s) \in Nat
      /\ \A i \in 1 .. Len(s) : t[i] = s[i]
      /\ t[Len(s) + 1] = c
  BY <1>1
<1> HIDE DEF t
<1>3. c.do = do /\ c.for = r OBVIOUS
<1> HIDE DEF c
<1>4. \A i \in 1 .. Len(t) : HomeOf[t[i].for] = p /\ (t[i].do = "bind" => pl[t[i].for] \in Subscribed)
  BY <1>2, <1>3 DEF GoodCalls
<1>5. \A i, j \in 1 .. Len(t) :
        t[i].do = "bind" /\ t[j].do = "bind" /\ t[i].for = t[j].for => i = j
  <2> SUFFICES ASSUME NEW i \in 1 .. Len(t), NEW j \in 1 .. Len(t),
                      t[i].do = "bind", t[j].do = "bind", t[i].for = t[j].for
               PROVE  i = j
    OBVIOUS
  <2>1. CASE i \in 1 .. Len(s) /\ j \in 1 .. Len(s) BY <1>2, <2>1 DEF GoodCalls
  <2>2. CASE i = Len(s) + 1 /\ j \in 1 .. Len(s) BY <1>2, <1>3, <2>2
  <2>3. CASE j = Len(s) + 1 /\ i \in 1 .. Len(s) BY <1>2, <1>3, <2>3
  <2>4. CASE i = Len(s) + 1 /\ j = Len(s) + 1 BY <2>4
  <2>5. QED BY <1>2, <2>1, <2>2, <2>3, <2>4
<1>6. GoodCalls(t, p, pl) BY <1>2, <1>4, <1>5 DEF GoodCalls
<1>7. t # <<>> /\ t[Len(t)] = c BY <1>2
<1>8. \A b : EndsBound(t, b) <=> do = "bind" BY <1>3, <1>7 DEF EndsBound
<1>9. QED BY <1>6, <1>8 DEF t, c

(* The broker has served the first call.                                   *)
LEMMA TailCall ==
  ASSUME NEW p, NEW s, NEW pl, GoodCalls(s, p, pl), s # <<>>
  PROVE  /\ GoodCalls(Tail(s), p, pl) /\ Head(s) \in Call /\ HomeOf[Head(s).for] = p
         /\ Head(s).do = "bind" =>
              \A i \in 1 .. Len(Tail(s)) :
                Tail(s)[i].do = "bind" => Tail(s)[i].for # Head(s).for
         /\ \A b : EndsBound(s, b) => EndsBound(Tail(s), Head(s).do = "bind")
<1>1. s \in Seq(Call) /\ Len(s) \in Nat /\ Len(s) >= 1 /\ Head(s) = s[1] BY DEF GoodCalls
<1>2. PICK n \in Nat : n = Len(s) BY <1>1
<1>3. PICK t : t = Tail(s) OBVIOUS
<1>4. /\ t \in Seq(Call) /\ Len(t) = n - 1
      /\ \A i \in 1 .. Len(t) : t[i] = s[i + 1]
  BY <1>1, <1>2, <1>3
<1>5. s[1] \in Call BY <1>1
<1>6. GoodCalls(t, p, pl)
  <2>1. \A i \in 1 .. Len(t) : i + 1 \in 1 .. Len(s) BY <1>1, <1>2, <1>4
  <2>2. \A i \in 1 .. Len(t) : HomeOf[t[i].for] = p /\ (t[i].do = "bind" => pl[t[i].for] \in Subscribed)
    BY <1>4, <2>1 DEF GoodCalls
  <2>3. \A i, j \in 1 .. Len(t) :
          t[i].do = "bind" /\ t[j].do = "bind" /\ t[i].for = t[j].for => i = j
    <3> SUFFICES ASSUME NEW i \in 1 .. Len(t), NEW j \in 1 .. Len(t),
                        t[i].do = "bind", t[j].do = "bind", t[i].for = t[j].for
                 PROVE  i = j
      OBVIOUS
    <3>1. i + 1 = j + 1 BY <1>4, <2>1 DEF GoodCalls
    <3>2. QED BY <3>1
  <2>4. QED BY <1>4, <2>2, <2>3 DEF GoodCalls
<1>7. s[1].do = "bind" => \A i \in 1 .. Len(t) : t[i].do = "bind" => t[i].for # s[1].for
  <2> SUFFICES ASSUME s[1].do = "bind", NEW i \in 1 .. Len(t), t[i].do = "bind",
                      t[i].for = s[1].for
               PROVE  FALSE
    OBVIOUS
  <2>1. i + 1 \in 1 .. Len(s) /\ 1 \in 1 .. Len(s) /\ i + 1 # 1 BY <1>1, <1>2, <1>4
  <2>2. s[i + 1].do = "bind" /\ s[i + 1].for = s[1].for BY <1>4
  <2>3. QED BY <2>1, <2>2 DEF GoodCalls
<1>8. ASSUME NEW b, EndsBound(s, b) PROVE EndsBound(t, s[1].do = "bind")
  <2>1. s[n].do = "bind" BY <1>2, <1>8 DEF EndsBound
  <2>2. CASE n = 1
    <3>1. t = <<>> BY <1>4, <2>2
    <3>2. QED BY <2>1, <2>2, <3>1 DEF EndsBound
  <2>3. CASE n # 1
    <3>1. t # <<>> /\ Len(t) \in 1 .. Len(t) /\ Len(t) + 1 = n BY <1>1, <1>2, <1>4, <2>3
    <3>2. t[Len(t)] = s[n] BY <1>4, <3>1
    <3>3. QED BY <2>1, <3>1, <3>2 DEF EndsBound
  <2>4. QED BY <2>2, <2>3
<1>9. HomeOf[s[1].for] = p BY <1>1 DEF GoodCalls
<1>10. QED BY <1>1, <1>3, <1>5, <1>6, <1>7, <1>8, <1>9

(* A reader goes away whose call waits: what remains is as good, and ends  *)
(* as it did when the call was no bind.                                    *)
LEMMA WithoutCallIsGood ==
  ASSUME NEW p, NEW s, NEW pl, GoodCalls(s, p, pl), NEW r \in Reader
  PROVE  /\ GoodCalls(WithoutCall(s, r), p, pl)
         /\ \A b : EndsBound(s, b) /\ (s # <<>> => s[Len(s)].for # r)
                     => EndsBound(WithoutCall(s, r), b)
<1>1. CASE Waits(s, r) = {} BY <1>1 DEF WithoutCall
<1>2. CASE Waits(s, r) # {}
  <2> DEFINE k == CHOOSE k \in Waits(s, r) : TRUE
             t == [j \in 1 .. Len(s) - 1 |-> IF j < k THEN s[j] ELSE s[j + 1]]
             old(j) == IF j < k THEN j ELSE j + 1
  <2>0. PICK n \in Nat : n = Len(s) BY DEF GoodCalls
  <2>1. k \in 2 .. n /\ s[k].for = r BY <1>2, <2>0 DEF Waits
  <2>2. WithoutCall(s, r) = t BY <1>2 DEF WithoutCall
  <2> HIDE DEF k
  <2>3. s \in Seq(Call) /\ n - 1 \in Nat BY <2>0, <2>1 DEF GoodCalls
  <2>4. \A j \in 1 .. n - 1 : old(j) \in 1 .. n /\ t[j] = s[old(j)]
    BY <2>0, <2>1
  <2>5. \A i, j \in 1 .. n - 1 : old(i) = old(j) => i = j BY <2>1
  <2>6. old(n - 1) = n \/ k = n BY <2>0, <2>1
  <2>7. t \in Seq(Call) /\ Len(t) = n - 1
    <3>1. \A j \in 1 .. n : s[j] \in Call BY <2>0, <2>3
    <3>2. t \in [1 .. n - 1 -> Call] BY <2>0, <2>4, <3>1
    <3>3. PICK m \in Nat : m = n - 1 BY <2>3
    <3>4. t \in [1 .. m -> Call] BY <3>2, <3>3
    <3>5. t \in Seq(Call) BY <3>4, SeqDef
    <3>6. Len(t) = m
      <4>1. DOMAIN t = 1 .. m BY <3>4
      <4>2. PICK l \in Nat : l = Len(t) /\ DOMAIN t = 1 .. l BY <3>5, LenProperties
      <4>3. \A i \in Nat : i \in 1 .. m <=> i \in 1 .. l BY <4>1, <4>2
      <4>4. m <= l
        <5>1. CASE m = 0 BY <5>1
        <5>2. CASE m # 0
          <6>1. m \in 1 .. m BY <5>2
          <6>2. m \in 1 .. l BY <4>3, <6>1
          <6>3. QED BY <6>2
        <5>3. QED BY <5>1, <5>2
      <4>5. l <= m
        <5>1. CASE l = 0 BY <5>1
        <5>2. CASE l # 0
          <6>1. l \in 1 .. l BY <5>2
          <6>2. l \in 1 .. m BY <4>3, <6>1
          <6>3. QED BY <6>2
        <5>3. QED BY <5>1, <5>2
      <4>6. m = l BY <4>4, <4>5
      <4>7. QED BY <4>2, <4>6
    <3>7. QED BY <3>3, <3>5, <3>6
  <2> HIDE DEF t, old
  <2>8. GoodCalls(t, p, pl)
    <3>1. \A i \in 1 .. Len(t) :
            HomeOf[t[i].for] = p /\ (t[i].do = "bind" => pl[t[i].for] \in Subscribed)
      BY <2>0, <2>4, <2>7 DEF GoodCalls
    <3>2. \A i, j \in 1 .. Len(t) :
            t[i].do = "bind" /\ t[j].do = "bind" /\ t[i].for = t[j].for => i = j
      <4> SUFFICES ASSUME NEW i \in 1 .. n - 1, NEW j \in 1 .. n - 1,
                          t[i].do = "bind", t[j].do = "bind", t[i].for = t[j].for
                   PROVE  i = j
        BY <2>7
      <4>1. old(i) \in 1 .. Len(s) /\ old(j) \in 1 .. Len(s) BY <2>0, <2>4
      <4>2. s[old(i)].do = "bind" /\ s[old(j)].do = "bind" /\ s[old(i)].for = s[old(j)].for
        BY <2>4
      <4>3. old(i) = old(j) BY <4>1, <4>2 DEF GoodCalls
      <4>4. QED BY <2>5, <4>3
    <3>3. QED BY <2>7, <3>1, <3>2 DEF GoodCalls
  <2>9. ASSUME NEW b, EndsBound(s, b), s # <<>> => s[Len(s)].for # r
        PROVE  EndsBound(t, b)
    <3>1. s # <<>> /\ s[n].do = "bind" /\ s[n].for # r BY <2>0, <2>1, <2>3, <2>9 DEF EndsBound
    <3>2. k # n /\ old(n - 1) = n BY <2>1, <2>6, <3>1
    <3>3. n - 1 \in 1 .. n - 1 /\ t # <<>> BY <2>1, <2>7, <3>2
    <3>4. t[Len(t)] = s[n] BY <2>4, <2>7, <3>2, <3>3
    <3>5. QED BY <3>1, <3>3, <3>4 DEF EndsBound
  <2>10. QED BY <2>2, <2>8, <2>9
<1>3. QED BY <1>1, <1>2

-----------------------------------------------------------------------------
(* Steps of one process and its readers.                                   *)

LEMMA OneProcess ==
  ASSUME BindInv, NEW p \in Api, BusTyped', GoodCalls(calls'[p], p, place'),
         \A q \in Api \ {p} : /\ link'[q] = link[q] /\ builder'[q] = builder[q]
                              /\ holders'[q] = holders[q] /\ bound'[q] = bound[q]
                              /\ calls'[q] = calls[q],
         \A x \in Reader : HomeOf[x] # p => place'[x] = place[x],
         early \subseteq early',
         link'[p] = "ready" => builder'[p] = NoOne,
         builder'[p] \in Reader =>
           place'[builder'[p]] = "building" /\ HomeOf[builder'[p]] = p,
         \A x \in Reader : HomeOf[x] = p /\ place'[x] = "waiting" => p \in early',
         p \notin early' /\ holders'[p] # {} => Settled(p)'
  PROVE  BindInv'
<1>1. ASSUME NEW q \in Api, q # p PROVE GoodCalls(calls'[q], q, place')
  <2>1. calls'[q] = calls[q] /\ GoodCalls(calls[q], q, place) BY <1>1 DEF BindInv
  <2>2. \A x \in Reader : HomeOf[x] = q /\ place[x] \in Subscribed => place'[x] \in Subscribed
    BY <1>1
  <2>3. QED BY <2>1, <2>2, OtherPlaces
<1>2. \A q \in Api : GoodCalls(calls'[q], q, place') BY <1>1
<1>3. \A q \in Api : link'[q] = "ready" => builder'[q] = NoOne BY DEF BindInv
<1>4. ASSUME NEW q \in Api, builder'[q] \in Reader
      PROVE  place'[builder'[q]] = "building" /\ HomeOf[builder'[q]] = q
  <2>1. CASE q = p BY <1>4, <2>1
  <2>2. CASE q # p
    <3>1. builder'[q] = builder[q] BY <2>2
    <3>2. place[builder[q]] = "building" /\ HomeOf[builder[q]] = q BY <1>4, <3>1 DEF BindInv
    <3>3. QED BY <1>4, <2>2, <3>1, <3>2
  <2>3. QED BY <2>1, <2>2
<1>5. ASSUME NEW x \in Reader, place'[x] = "waiting" PROVE HomeOf[x] \in early'
  <2>1. CASE HomeOf[x] = p BY <1>5, <2>1
  <2>2. CASE HomeOf[x] # p BY <1>5, <2>2 DEF BindInv
  <2>3. QED BY <2>1, <2>2
<1>6. ASSUME NEW q \in Api \ early', holders'[q] # {} PROVE Settled(q)'
  <2>1. CASE q = p BY <1>6, <2>1
  <2>2. CASE q # p
    <3>1. /\ link'[q] = link[q] /\ builder'[q] = builder[q] /\ holders'[q] = holders[q]
          /\ bound'[q] = bound[q] /\ calls'[q] = calls[q]
      BY <2>2
    <3>2. Settled(q) BY <1>6, <3>1 DEF BindInv
    <3>3. QED BY <3>1, <3>2 DEF Settled
  <2>3. QED BY <2>1, <2>2
<1>7. QED BY <1>2, <1>3, <1>4, <1>5, <1>6 DEF BindInv

(* Outside early, a process without a complete connection has no readers   *)
(* but the one that builds it.                                             *)
LEMMA Uninhabited ==
  ASSUME BindInv, NEW p \in Api \ early, builder[p] \notin Reader, link[p] # "ready"
  PROVE  holders[p] = {}
BY DEF BindInv, Settled

(* The two ways of BindOrNot, and what both do.                            *)
Binds(r, p) == /\ calls' = [calls EXCEPT ![p] = Append(@, [do |-> "bind", for |-> r])]
               /\ place' = [place EXCEPT ![r] = "binding"]
Enters(r) == place' = [place EXCEPT ![r] = "on"] /\ calls' = calls
Moved(r, p) ==
  /\ calls' \in [Api -> Seq(Call)] /\ place' \in [Reader -> Places]
  /\ GoodCalls(calls'[p], p, place')
  /\ place'[r] \in {"binding", "on"} /\ \A x \in Reader \ {r} : place'[x] = place[x]
  /\ \A q \in Api \ {p} : calls'[q] = calls[q]

LEMMA BindMoves ==
  ASSUME BindInv, NEW r \in Reader, NEW p \in Api, p = HomeOf[r],
         place[r] \in {"away", "waiting", "building"}, Binds(r, p)
  PROVE  Moved(r, p) /\ \A b : EndsBound(calls'[p], b)
<1>1. GoodCalls(calls[p], p, place) /\ BusTyped BY DEF BindInv
<1>2. \A i \in 1 .. Len(calls[p]) : calls[p][i].do = "bind" => calls[p][i].for # r
  BY <1>1 DEF GoodCalls, Subscribed
<1> DEFINE c == [do |-> "bind", for |-> r]
           t == Append(calls[p], c)
<1>3. calls' = [calls EXCEPT ![p] = t] /\ place' = [place EXCEPT ![r] = "binding"]
  BY DEF Binds
<1>4. place'[r] = "binding" /\ \A x \in Reader \ {r} : place'[x] = place[x]
  BY <1>1, <1>3 DEF BusTyped
<1>5. GoodCalls(calls[p], p, place') BY <1>1, <1>4, OtherPlaces DEF Subscribed
<1>6. GoodCalls(t, p, place') /\ \A b : EndsBound(t, b)
  BY <1>2, <1>4, <1>5, AppendCall DEF Subscribed
<1>7. t \in Seq(Call) BY <1>6 DEF GoodCalls
<1> HIDE DEF t
<1>8. calls'[p] = t /\ calls' \in [Api -> Seq(Call)] /\ \A q \in Api \ {p} : calls'[q] = calls[q]
  BY <1>1, <1>3, <1>7 DEF BusTyped
<1>9. place' \in [Reader -> Places] BY <1>1, <1>3 DEF BusTyped, Places
<1>10. QED BY <1>4, <1>6, <1>8, <1>9 DEF Moved

LEMMA EnterMoves ==
  ASSUME BindInv, NEW r \in Reader, NEW p \in Api, p = HomeOf[r],
         place[r] \in {"away", "waiting", "building"}, Enters(r)
  PROVE  Moved(r, p)
<1>1. GoodCalls(calls[p], p, place) /\ BusTyped BY DEF BindInv
<1>2. calls' = calls /\ place' = [place EXCEPT ![r] = "on"] BY DEF Enters
<1>3. place'[r] = "on" /\ \A x \in Reader \ {r} : place'[x] = place[x]
  BY <1>1, <1>2 DEF BusTyped
<1>4. place[r] \notin Subscribed BY DEF Subscribed
<1>5. GoodCalls(calls[p], p, place') BY <1>1, <1>3, <1>4, OtherPlaces
<1>6. place' \in [Reader -> Places] BY <1>1, <1>2 DEF BusTyped, Places
<1>7. QED BY <1>1, <1>2, <1>3, <1>5, <1>6 DEF BusTyped, Moved

LEMMA Strings == NoOne \notin Reader /\ Publisher \notin Reader /\ Publisher # NoOne
BY BusAssumption DEF NoOne, Publisher

LEMMA SubscribeKeeps ==
  ASSUME BindInv, NEW r \in Reader, Subscribe(r) PROVE BindInv'
<1>0. PICK p \in Api : p = HomeOf[r] BY BusAssumption
<1>1. BusTyped BY DEF BindInv
<1> DEFINE hs == holders[p] \cup {r}
<1>2. /\ place[r] = "away" /\ UNCHANGED <<link, bound>>
      /\ holders' = [holders EXCEPT ![p] = hs]
      /\ early' = IF link[p] \in {"exchange", "queue"} \/ builder[p] # NoOne
                     \/ (link[p] = "none" /\ holders[p] # {})
                  THEN early \cup {p} ELSE early
  BY <1>0 DEF Subscribe
<1>3. /\ holders' \in [Api -> SUBSET Reader] /\ holders'[p] = hs
      /\ \A q \in Api \ {p} : holders'[q] = holders[q]
  BY <1>1, <1>2 DEF BusTyped
<1>4. early' \subseteq Api /\ early \subseteq early' BY <1>1, <1>2 DEF BusTyped
<1>5. CASE link[p] # "none" /\ BindOrNot(r, p, hs, link[p]) /\ UNCHANGED builder
  <2>1. /\ Moved(r, p)
        /\ \/ link[p] \in {"queue", "ready"} /\ MustBind(p, hs) /\ \A b : EndsBound(calls'[p], b)
           \/ ~(link[p] \in {"queue", "ready"} /\ MustBind(p, hs)) /\ calls' = calls
    <3>1. \/ link[p] \in {"queue", "ready"} /\ MustBind(p, hs) /\ Binds(r, p)
          \/ ~(link[p] \in {"queue", "ready"} /\ MustBind(p, hs)) /\ Enters(r)
      BY <1>5 DEF BindOrNot, Binds, Enters
    <3>2. place[r] \in {"away", "waiting", "building"} BY <1>2
    <3>3. CASE link[p] \in {"queue", "ready"} /\ MustBind(p, hs) /\ Binds(r, p)
      BY <1>0, <3>2, <3>3, BindMoves
    <3>4. CASE ~(link[p] \in {"queue", "ready"} /\ MustBind(p, hs)) /\ Enters(r)
      <4>1. Moved(r, p) BY <1>0, <3>2, <3>4, EnterMoves
      <4>2. QED BY <3>4, <4>1 DEF Enters
    <3>5. QED BY <3>1, <3>3, <3>4
  <2>2. BusTyped' BY <1>1, <1>2, <1>3, <1>4, <1>5, <2>1 DEF BusTyped, Moved
  <2>3. ASSUME p \notin early' PROVE Settled(p)'
    <3>1. link[p] = "ready" /\ builder[p] = NoOne
      BY <1>1, <1>2, <1>5, <2>3 DEF BusTyped, Links
    <3>2. CASE MustBind(p, hs) BY <1>2, <2>1, <3>1, <3>2 DEF Settled
    <3>3. CASE ~MustBind(p, hs)
      <4>1. holders[p] # {} BY <3>3, FS_Singleton DEF MustBind
      <4>2. p \in Api \ early BY <1>4, <2>3
      <4>3. EndsBound(calls[p], bound[p]) BY <3>1, <4>1, <4>2, Strings DEF BindInv, Settled
      <4>4. QED BY <1>2, <2>1, <3>1, <3>3, <4>3 DEF Settled
    <3>4. QED BY <3>2, <3>3
  <2>4. builder'[p] \in Reader =>
          place'[builder'[p]] = "building" /\ HomeOf[builder'[p]] = p
    BY <1>2, <1>5, <2>1 DEF BindInv, Moved
  <2>5. link'[p] = "ready" => builder'[p] = NoOne BY <1>2, <1>5 DEF BindInv
  <2>6. \A x \in Reader : HomeOf[x] = p /\ place'[x] = "waiting" => p \in early'
    BY <1>4, <2>1 DEF BindInv, Moved
  <2>7. \A x \in Reader : HomeOf[x] # p => place'[x] = place[x] BY <1>0, <2>1 DEF Moved
  <2>8. QED
    BY <1>2, <1>3, <1>4, <1>5, <2>1, <2>2, <2>3, <2>4, <2>5, <2>6, <2>7, OneProcess DEF Moved
<1>6. CASE /\ link[p] = "none" /\ UNCHANGED calls
           /\ \/ /\ builder[p] = NoOne /\ builder' = [builder EXCEPT ![p] = r]
                 /\ place' = [place EXCEPT ![r] = "building"]
              \/ /\ builder[p] # NoOne /\ UNCHANGED builder
                 /\ place' = [place EXCEPT ![r] = "waiting"]
  <2>1. /\ place' \in [Reader -> Places] /\ place'[r] \in {"building", "waiting"}
        /\ \A x \in Reader \ {r} : place'[x] = place[x]
    BY <1>1, <1>6 DEF BusTyped, Places
  <2>2. builder' \in [Api -> Reader \cup {NoOne, Publisher}] BY <1>1, <1>6 DEF BusTyped
  <2>3. BusTyped' BY <1>1, <1>2, <1>3, <1>4, <1>6, <2>1, <2>2 DEF BusTyped
  <2>4. GoodCalls(calls'[p], p, place')
    <3>1. GoodCalls(calls[p], p, place) /\ place[r] \notin Subscribed
      BY <1>2 DEF BindInv, Subscribed
    <3>2. QED BY <1>6, <2>1, <3>1, OtherPlaces
  <2>5. \A q \in Api \ {p} : builder'[q] = builder[q] BY <1>1, <1>6 DEF BusTyped
  <2>6. builder'[p] \in Reader => place'[builder'[p]] = "building" /\ HomeOf[builder'[p]] = p
    <3>1. CASE builder[p] = NoOne
      <4>1. builder'[p] = r /\ place'[r] = "building" BY <1>1, <1>6, <3>1 DEF BusTyped
      <4>2. QED BY <1>0, <4>1
    <3>2. CASE builder[p] # NoOne
      <4>1. builder'[p] = builder[p] BY <1>6, <3>2
      <4>2. QED BY <1>2, <2>1, <4>1 DEF BindInv
    <3>3. QED BY <3>1, <3>2
  <2>7. ASSUME p \notin early' PROVE Settled(p)'
    <3>1. builder[p] = NoOne /\ holders[p] = {} BY <1>2, <1>6, <2>7
    <3>2. builder'[p] = r BY <1>1, <1>6, <3>1 DEF BusTyped
    <3>3. QED BY <1>3, <3>1, <3>2 DEF Settled
  <2>8. \A x \in Reader : HomeOf[x] = p /\ place'[x] = "waiting" => p \in early'
    <3> SUFFICES ASSUME NEW x \in Reader, HomeOf[x] = p, place'[x] = "waiting"
                 PROVE  p \in early'
      OBVIOUS
    <3>1. CASE x # r BY <1>4, <2>1, <3>1 DEF BindInv
    <3>2. CASE x = r
      <4>1. builder[p] # NoOne BY <1>1, <1>6, <3>2 DEF BusTyped
      <4>2. QED BY <1>2, <4>1
    <3>3. QED BY <3>1, <3>2
  <2>9. link'[p] # "ready" BY <1>2, <1>6
  <2>10. \A x \in Reader : HomeOf[x] # p => place'[x] = place[x] BY <1>0, <2>1
  <2>11. QED
    BY <1>2, <1>3, <1>4, <1>6, <2>3, <2>4, <2>5, <2>6, <2>7, <2>8, <2>9, <2>10, OneProcess
<1>7. QED BY <1>0, <1>5, <1>6 DEF Subscribe

LEMMA WakeKeeps ==
  ASSUME BindInv, NEW r \in Reader, Wake(r) PROVE BindInv'
<1>0. PICK p \in Api : p = HomeOf[r] BY BusAssumption
<1>1. BusTyped BY DEF BindInv
<1>2. /\ place[r] = "waiting" /\ builder[p] = NoOne /\ p \in early
      /\ UNCHANGED <<link, holders, bound, early>>
  BY <1>0 DEF Wake, BindInv
<1>3. CASE link[p] # "none" /\ BindOrNot(r, p, holders[p], link[p]) /\ UNCHANGED builder
  <2>1. Moved(r, p)
    <3>1. Binds(r, p) \/ Enters(r) BY <1>3 DEF BindOrNot, Binds, Enters
    <3>2. place[r] \in {"away", "waiting", "building"} BY <1>2
    <3>3. QED BY <1>0, <3>1, <3>2, BindMoves, EnterMoves
  <2>2. BusTyped' BY <1>1, <1>2, <1>3, <2>1 DEF BusTyped, Moved
  <2>3. builder'[p] = NoOne BY <1>2, <1>3
  <2>4. \A x \in Reader : HomeOf[x] # p => place'[x] = place[x] BY <1>0, <2>1 DEF Moved
  <2>5. QED BY <1>2, <1>3, <2>1, <2>2, <2>3, <2>4, Strings, OneProcess DEF Moved
<1>4. CASE /\ link[p] = "none" /\ builder' = [builder EXCEPT ![p] = r]
           /\ place' = [place EXCEPT ![r] = "building"] /\ UNCHANGED calls
  <2>1. /\ place' \in [Reader -> Places] /\ place'[r] = "building"
        /\ \A x \in Reader \ {r} : place'[x] = place[x]
    BY <1>1, <1>4 DEF BusTyped, Places
  <2>2. /\ builder' \in [Api -> Reader \cup {NoOne, Publisher}] /\ builder'[p] = r
        /\ \A q \in Api \ {p} : builder'[q] = builder[q]
    BY <1>1, <1>4 DEF BusTyped
  <2>3. BusTyped' BY <1>1, <1>2, <1>4, <2>1, <2>2 DEF BusTyped
  <2>4. GoodCalls(calls'[p], p, place')
    <3>1. GoodCalls(calls[p], p, place) /\ place[r] \notin Subscribed
      BY <1>2 DEF BindInv, Subscribed
    <3>2. QED BY <1>4, <2>1, <3>1, OtherPlaces
  <2>5. \A x \in Reader : HomeOf[x] # p => place'[x] = place[x] BY <1>0, <2>1
  <2>6. link'[p] # "ready" BY <1>2, <1>4
  <2>7. QED BY <1>0, <1>2, <1>4, <2>1, <2>2, <2>3, <2>4, <2>5, <2>6, OneProcess
<1>5. QED BY <1>0, <1>2, <1>3, <1>4 DEF Wake

LEMMA BuildKeeps ==
  ASSUME BindInv, NEW p \in Api, Build(p) PROVE BindInv'
<1>0. PICK r : r = builder[p] OBVIOUS
<1>1. BusTyped BY DEF BindInv
<1>2. /\ r # NoOne /\ UNCHANGED <<holders, bound, early>>
      /\ link' = [link EXCEPT ![p] = After(link[p])]
  BY <1>0 DEF Build
<1>3. /\ link' \in [Api -> Links] /\ link'[p] = After(link[p]) /\ After(link[p]) \in Links
      /\ \A q \in Api \ {p} : link'[q] = link[q]
  BY <1>1, <1>2 DEF BusTyped, Links, After
<1>4. link[p] # "ready" /\ (r \in Reader \/ r = Publisher)
  BY <1>0, <1>1, <1>2 DEF BindInv, BusTyped
<1>5. r \in Reader => place[r] = "building" /\ HomeOf[r] = p BY <1>0 DEF BindInv
<1>6. p \notin early /\ holders[p] # {} => r \in Reader /\ holders[p] = {r}
  BY <1>0, <1>4 DEF BindInv, Settled
<1>7. \A x \in Reader : HomeOf[x] = p /\ place[x] = "waiting" => p \in early BY DEF BindInv
<1>8. GoodCalls(calls[p], p, place) BY DEF BindInv
<1>9. CASE After(link[p]) # "ready" /\ UNCHANGED <<builder, place, calls>>
  <2>1. BusTyped' BY <1>1, <1>2, <1>3, <1>9 DEF BusTyped
  <2>2. p \notin early' /\ holders'[p] # {} => Settled(p)'
    BY <1>0, <1>2, <1>6, <1>9 DEF Settled
  <2>3. QED BY <1>0, <1>2, <1>3, <1>5, <1>7, <1>8, <1>9, <2>1, <2>2, OneProcess
<1>10. ASSUME After(link[p]) = "ready", builder' = [builder EXCEPT ![p] = NoOne],
              \/ r = Publisher /\ UNCHANGED <<place, calls>>
              \/ r # Publisher /\ BindOrNot(r, p, holders[p], "ready")
       PROVE  BindInv'
  <2>1. /\ builder' \in [Api -> Reader \cup {NoOne, Publisher}] /\ builder'[p] = NoOne
        /\ \A q \in Api \ {p} : builder'[q] = builder[q]
    BY <1>1, <1>10 DEF BusTyped
  <2>2. CASE r = Publisher /\ UNCHANGED <<place, calls>>
    <3>1. BusTyped' BY <1>1, <1>2, <1>3, <2>1, <2>2 DEF BusTyped
    <3>2. p \in early' \/ holders'[p] = {} BY <1>2, <1>6, <2>2, Strings
    <3>3. QED BY <1>2, <1>3, <1>7, <1>8, <2>1, <2>2, <3>1, <3>2, Strings, OneProcess
  <2>3. CASE r # Publisher /\ BindOrNot(r, p, holders[p], "ready")
    <3>1. r \in Reader /\ p = HomeOf[r] /\ place[r] \in {"away", "waiting", "building"}
      BY <1>4, <1>5, <2>3
    <3>2. \/ MustBind(p, holders[p]) /\ Binds(r, p)
          \/ ~MustBind(p, holders[p]) /\ Enters(r)
      BY <2>3 DEF BindOrNot, Binds, Enters
    <3>3. Moved(r, p) BY <3>1, <3>2, BindMoves, EnterMoves
    <3>4. BusTyped' BY <1>1, <1>2, <1>3, <2>1, <3>3 DEF BusTyped, Moved
    <3>5. ASSUME p \notin early', holders'[p] # {} PROVE Settled(p)'
      <4>1. holders[p] = {r} BY <1>2, <1>6, <3>5
      <4>2. MustBind(p, holders[p]) BY <4>1, FS_Singleton DEF MustBind
      <4>3. \A b : EndsBound(calls'[p], b) BY <3>1, <3>2, <4>2, BindMoves
      <4>4. QED BY <1>3, <1>10, <4>3 DEF Settled
    <3>6. \A x \in Reader : HomeOf[x] = p /\ place'[x] = "waiting" => p \in early'
      BY <1>2, <1>7, <3>1, <3>3 DEF Moved
    <3>7. \A x \in Reader : HomeOf[x] # p => place'[x] = place[x] BY <3>1, <3>3 DEF Moved
    <3>8. QED
      BY <1>2, <1>3, <2>1, <3>3, <3>4, <3>5, <3>6, <3>7, Strings, OneProcess DEF Moved
  <2>4. QED BY <1>10, <2>2, <2>3
<1>11. QED
  <2>1. After(link[p]) = "ready" =>
          /\ builder' = [builder EXCEPT ![p] = NoOne]
          /\ \/ r = Publisher /\ UNCHANGED <<place, calls>>
             \/ r # Publisher /\ BindOrNot(r, p, holders[p], "ready")
    BY <1>0 DEF Build, BindOrNot
  <2>2. After(link[p]) # "ready" => UNCHANGED <<builder, place, calls>> BY DEF Build
  <2>3. QED BY <1>9, <1>10, <2>1, <2>2

(* Steps that take a build back, or begin one for a publication.           *)
LEMMA BuilderKeeps ==
  ASSUME BindInv, NEW p \in Api, BuildFails(p) \/ BuildTimesOut(p) \/ EnsureForPublish(p)
  PROVE  BindInv'
<1>0. PICK r : r = builder[p] OBVIOUS
<1>1. BusTyped BY DEF BindInv
<1>2. \A x \in Reader : HomeOf[x] = p /\ place[x] = "waiting" => p \in early BY DEF BindInv
<1>3. GoodCalls(calls[p], p, place) BY DEF BindInv
<1>4. CASE BuildFails(p)
  <2>1. /\ r # NoOne /\ UNCHANGED <<holders, bound, calls>>
        /\ link' = [link EXCEPT ![p] = "none"] /\ builder' = [builder EXCEPT ![p] = NoOne]
        /\ place' = IF r = Publisher THEN place ELSE [place EXCEPT ![r] = "on"]
        /\ early' = IF r = Publisher THEN early ELSE early \cup {p}
    BY <1>0, <1>4 DEF BuildFails
  <2>2. r = Publisher \/ (r \in Reader /\ place[r] = "building" /\ HomeOf[r] = p)
    BY <1>0, <1>1, <2>1 DEF BindInv, BusTyped
  <2>3. /\ place' \in [Reader -> Places]
        /\ \A x \in Reader : /\ HomeOf[x] # p => place'[x] = place[x]
                             /\ place'[x] = "waiting" => place[x] = "waiting"
                             /\ place[x] \in Subscribed => place'[x] \in Subscribed
    BY <1>1, <2>1, <2>2 DEF BusTyped, Places, Subscribed
  <2>4. /\ link' \in [Api -> Links] /\ link'[p] = "none"
        /\ \A q \in Api \ {p} : link'[q] = link[q]
        /\ builder' \in [Api -> Reader \cup {NoOne, Publisher}] /\ builder'[p] = NoOne
        /\ \A q \in Api \ {p} : builder'[q] = builder[q]
    BY <1>1, <2>1 DEF BusTyped, Links
  <2>5. early \subseteq early' /\ early' \subseteq Api BY <1>1, <2>1 DEF BusTyped
  <2>6. BusTyped' BY <1>1, <2>1, <2>3, <2>4, <2>5 DEF BusTyped
  <2>7. GoodCalls(calls'[p], p, place') BY <1>3, <2>1, <2>3, OtherPlaces
  <2>8. p \in early' \/ holders'[p] = {}
    <3>1. CASE r = Publisher
      <4>1. link[p] # "ready" /\ builder[p] \notin Reader
        BY <1>0, <3>1, Strings DEF BindInv
      <4>2. QED BY <2>1, <2>5, <4>1, Uninhabited
    <3>2. CASE r # Publisher BY <2>1, <3>2
    <3>3. QED BY <3>1, <3>2
  <2>9. builder'[p] \notin Reader BY <2>4, Strings
  <2>10. \A x \in Reader : HomeOf[x] = p /\ place'[x] = "waiting" => p \in early'
    BY <1>2, <2>3, <2>5
  <2>11. QED BY <2>1, <2>3, <2>4, <2>5, <2>6, <2>7, <2>8, <2>9, <2>10, OneProcess
<1>5. CASE BuildTimesOut(p) \/ EnsureForPublish(p)
  <2>1. /\ UNCHANGED <<link, holders, bound, calls, place, early>>
        /\ builder[p] \notin Reader /\ link[p] # "ready"
        /\ \/ builder' = [builder EXCEPT ![p] = NoOne]
           \/ builder' = [builder EXCEPT ![p] = Publisher]
    BY <1>5, Strings DEF BuildTimesOut, EnsureForPublish, BindInv
  <2>2. /\ builder' \in [Api -> Reader \cup {NoOne, Publisher}] /\ builder'[p] \notin Reader
        /\ \A q \in Api \ {p} : builder'[q] = builder[q]
    BY <1>1, <2>1, Strings DEF BusTyped
  <2>3. BusTyped' BY <1>1, <2>1, <2>2 DEF BusTyped
  <2>4. p \in early' \/ holders'[p] = {} BY <2>1, Uninhabited
  <2>5. QED BY <1>2, <1>3, <2>1, <2>2, <2>3, <2>4, OneProcess
<1>6. QED BY <1>4, <1>5

LEMMA AnswerKeeps ==
  ASSUME BindInv, NEW p \in Api, Answer(p) PROVE BindInv'
<1>0. PICK s, c : s = calls[p] /\ c = Head(s) OBVIOUS
<1>1. BusTyped /\ GoodCalls(s, p, place) BY <1>0 DEF BindInv
<1>2. /\ s # <<>> /\ UNCHANGED <<link, builder, holders, early>>
      /\ bound' = [bound EXCEPT ![p] = c.do = "bind"]
      /\ place' = IF place[c.for] = "binding" /\ c.do = "bind"
                  THEN [place EXCEPT ![c.for] = "on"]
                  ELSE IF place[c.for] = "leaving" THEN [place EXCEPT ![c.for] = "gone"]
                  ELSE place
      /\ calls' = [calls EXCEPT ![p] = Tail(s)]
  BY <1>0 DEF Answer
<1>3. PICK t : t = Tail(s) OBVIOUS
<1>4. /\ GoodCalls(t, p, place) /\ c \in Call /\ HomeOf[c.for] = p
      /\ c.do = "bind" => \A i \in 1 .. Len(t) : t[i].do = "bind" => t[i].for # c.for
      /\ EndsBound(s, bound[p]) => EndsBound(t, c.do = "bind")
  BY <1>0, <1>1, <1>2, <1>3, TailCall
<1>5. c.for \in Reader /\ c.do \in {"bind", "unbind"} BY <1>4 DEF Call
<1>6. /\ place' \in [Reader -> Places]
      /\ \A x \in Reader : /\ x # c.for => place'[x] = place[x]
                           /\ place'[x] \in {"waiting", "building"} <=>
                                place[x] \in {"waiting", "building"}
                           /\ place'[x] \in {"waiting", "building"} => place'[x] = place[x]
                           /\ place[x] \in Subscribed =>
                                place'[x] \in Subscribed \/ (x = c.for /\ c.do = "bind")
  <2>1. CASE place[c.for] = "binding" /\ c.do = "bind"
    BY <1>1, <1>2, <1>5, <2>1 DEF BusTyped, Places, Subscribed
  <2>2. CASE place[c.for] = "leaving"
    BY <1>1, <1>2, <1>5, <2>2 DEF BusTyped, Places, Subscribed
  <2>3. CASE ~(place[c.for] = "binding" /\ c.do = "bind") /\ place[c.for] # "leaving"
    BY <1>1, <1>2, <2>3 DEF BusTyped
  <2>4. QED BY <2>1, <2>2, <2>3
<1>7. GoodCalls(t, p, place')
  <2>1. \A i \in 1 .. Len(t) : t[i].for \in Reader
    <3>1. t \in Seq(Call) BY <1>4 DEF GoodCalls
    <3>2. \A i \in 1 .. Len(t) : t[i] \in Call BY <3>1
    <3>3. \A k \in Call : k.for \in Reader BY DEF Call
    <3>4. QED BY <3>2, <3>3
  <2>2. \A i \in 1 .. Len(t) : t[i].do = "bind" => place'[t[i].for] \in Subscribed
    BY <1>4, <1>6, <2>1 DEF GoodCalls
  <2>3. QED BY <1>4, <2>2 DEF GoodCalls
<1>8. calls'[p] = t /\ \A q \in Api \ {p} : calls'[q] = calls[q]
  BY <1>1, <1>2, <1>3 DEF BusTyped
<1>9. calls' \in [Api -> Seq(Call)]
  <2>1. t \in Seq(Call) BY <1>4 DEF GoodCalls
  <2>2. QED BY <1>1, <1>2, <1>3, <2>1 DEF BusTyped
<1>10. /\ bound' \in [Api -> BOOLEAN] /\ bound'[p] = (c.do = "bind")
       /\ \A q \in Api \ {p} : bound'[q] = bound[q]
  BY <1>1, <1>2 DEF BusTyped
<1>11. BusTyped' BY <1>1, <1>2, <1>6, <1>9, <1>10 DEF BusTyped
<1>12. ASSUME p \notin early', holders'[p] # {} PROVE Settled(p)'
  <2>1. Settled(p) BY <1>2, <1>12 DEF BindInv
  <2>2. CASE builder[p] \in Reader /\ holders[p] = {builder[p]} BY <1>2, <2>2 DEF Settled
  <2>3. CASE link[p] = "ready" /\ EndsBound(s, bound[p])
    <3>1. EndsBound(t, bound'[p]) BY <1>4, <1>10, <2>3
    <3>2. QED BY <1>2, <1>8, <2>3, <3>1 DEF Settled
  <2>4. QED BY <1>0, <2>1, <2>2, <2>3 DEF Settled
<1>13. builder'[p] \in Reader => place'[builder'[p]] = "building" /\ HomeOf[builder'[p]] = p
  BY <1>2, <1>6 DEF BindInv
<1>14. \A x \in Reader : HomeOf[x] = p /\ place'[x] = "waiting" => p \in early'
  BY <1>2, <1>6 DEF BindInv
<1>15. link'[p] = "ready" => builder'[p] = NoOne BY <1>2 DEF BindInv
<1>16. \A x \in Reader : HomeOf[x] # p => place'[x] = place[x] BY <1>4, <1>6
<1>17. QED
  BY <1>2, <1>7, <1>8, <1>10, <1>11, <1>12, <1>13, <1>14, <1>15, <1>16, OneProcess

LEMMA UnsubscribeKeeps ==
  ASSUME BindInv, NEW r \in Reader, Unsubscribe(r) PROVE BindInv'
<1>0. PICK p \in Api : p = HomeOf[r] BY BusAssumption
<1>1. BusTyped /\ GoodCalls(calls[p], p, place) BY DEF BindInv
<1>2. PICK hs : hs = holders[p] \ {r} OBVIOUS
<1>3. /\ place[r] = "on" /\ UNCHANGED <<link, builder, bound, early>>
      /\ holders' = [holders EXCEPT ![p] = hs]
      /\ \/ /\ hs = {} /\ place' = [place EXCEPT ![r] = "leaving"]
            /\ calls' = [calls EXCEPT ![p] = Append(@, [do |-> "unbind", for |-> r])]
         \/ /\ place' = [place EXCEPT ![r] = "gone"] /\ UNCHANGED calls
  BY <1>0, <1>2 DEF Unsubscribe
<1>4. /\ holders' \in [Api -> SUBSET Reader] /\ holders'[p] = hs
      /\ \A q \in Api \ {p} : holders'[q] = holders[q]
  BY <1>1, <1>2, <1>3 DEF BusTyped
<1>5. /\ place' \in [Reader -> Places] /\ place'[r] \in {"leaving", "gone"}
      /\ \A x \in Reader \ {r} : place'[x] = place[x]
  BY <1>1, <1>3 DEF BusTyped, Places
<1>6. GoodCalls(calls[p], p, place') BY <1>1, <1>3, <1>5, OtherPlaces DEF Subscribed
<1>7. PICK t : t = Append(calls[p], [do |-> "unbind", for |-> r]) OBVIOUS
<1>8. GoodCalls(t, p, place') BY <1>0, <1>6, <1>7, AppendCall
<1>9. t \in Seq(Call) BY <1>8 DEF GoodCalls
<1>10. /\ calls' \in [Api -> Seq(Call)] /\ \A q \in Api \ {p} : calls'[q] = calls[q]
       /\ calls'[p] = t \/ calls'[p] = calls[p]
       /\ hs # {} => calls'[p] = calls[p]
  BY <1>1, <1>3, <1>7, <1>9 DEF BusTyped
<1>11. BusTyped' BY <1>1, <1>3, <1>4, <1>5, <1>10 DEF BusTyped
<1>12. GoodCalls(calls'[p], p, place') BY <1>6, <1>8, <1>10
<1>13. builder[p] \in Reader =>
         place[builder[p]] = "building" /\ HomeOf[builder[p]] = p /\ builder[p] # r
  BY <1>3 DEF BindInv
<1>14. ASSUME p \notin early', holders'[p] # {} PROVE Settled(p)'
  <2>1. Settled(p) /\ calls'[p] = calls[p] BY <1>2, <1>3, <1>4, <1>10, <1>14 DEF BindInv
  <2>2. CASE builder[p] \in Reader /\ holders[p] = {builder[p]}
    BY <1>2, <1>3, <1>4, <1>13, <2>2 DEF Settled
  <2>3. CASE link[p] = "ready" /\ EndsBound(calls[p], bound[p]) BY <1>3, <2>1, <2>3 DEF Settled
  <2>4. QED BY <2>1, <2>2, <2>3 DEF Settled
<1>15. builder'[p] \in Reader => place'[builder'[p]] = "building" /\ HomeOf[builder'[p]] = p
  BY <1>3, <1>5, <1>13
<1>16. \A x \in Reader : HomeOf[x] = p /\ place'[x] = "waiting" => p \in early'
  BY <1>3, <1>5 DEF BindInv
<1>17. link'[p] = "ready" => builder'[p] = NoOne BY <1>3 DEF BindInv
<1>18. \A x \in Reader : HomeOf[x] # p => place'[x] = place[x] BY <1>0, <1>5
<1>19. QED
  BY <1>3, <1>4, <1>10, <1>11, <1>12, <1>14, <1>15, <1>16, <1>17, <1>18, OneProcess

LEMMA CancelKeeps ==
  ASSUME BindInv, NEW r \in Reader, Cancel(r) PROVE BindInv'
<1>0. PICK p \in Api : p = HomeOf[r] BY BusAssumption
<1>1. BusTyped /\ GoodCalls(calls[p], p, place) BY DEF BindInv
<1>2. PICK t : t = WithoutCall(calls[p], r) OBVIOUS
<1>3. /\ place[r] \in {"building", "waiting", "binding", "leaving"}
      /\ UNCHANGED <<link, holders, bound>>
      /\ place' = [place EXCEPT ![r] = "gone"]
      /\ builder' = IF builder[p] = r THEN [builder EXCEPT ![p] = NoOne] ELSE builder
      /\ calls' = [calls EXCEPT ![p] = t]
      /\ early' = IF place[r] = "leaving" THEN early ELSE early \cup {p}
  BY <1>0, <1>2 DEF Cancel
<1>4. /\ place' \in [Reader -> Places] /\ place'[r] = "gone"
      /\ \A x \in Reader \ {r} : place'[x] = place[x]
  BY <1>1, <1>3 DEF BusTyped, Places
<1>5. GoodCalls(t, p, place) BY <1>1, <1>2, WithoutCallIsGood
<1>6. GoodCalls(t, p, place') BY <1>4, <1>5, OtherPlaces DEF Subscribed
<1>7. t \in Seq(Call) BY <1>6 DEF GoodCalls
<1>8. /\ calls' \in [Api -> Seq(Call)] /\ calls'[p] = t
      /\ \A q \in Api \ {p} : calls'[q] = calls[q]
  BY <1>1, <1>3, <1>7 DEF BusTyped
<1>9. /\ builder' \in [Api -> Reader \cup {NoOne, Publisher}]
      /\ \A q \in Api \ {p} : builder'[q] = builder[q]
      /\ builder[p] = r => builder'[p] = NoOne
      /\ builder[p] # r => builder'[p] = builder[p]
  BY <1>1, <1>3 DEF BusTyped
<1>10. early \subseteq early' /\ early' \subseteq Api BY <1>1, <1>3 DEF BusTyped
<1>11. BusTyped' BY <1>1, <1>3, <1>4, <1>8, <1>9, <1>10 DEF BusTyped
<1>12. ASSUME p \notin early', holders'[p] # {} PROVE Settled(p)'
  <2>1. place[r] = "leaving" /\ Settled(p) BY <1>3, <1>12 DEF BindInv
  <2>2. builder[p] # r
    <3>1. builder[p] \in Reader => place[builder[p]] = "building" BY DEF BindInv
    <3>2. QED BY <2>1, <3>1
  <2>3. CASE builder[p] \in Reader /\ holders[p] = {builder[p]}
    BY <1>3, <1>9, <2>2, <2>3 DEF Settled
  <2>4. CASE link[p] = "ready" /\ EndsBound(calls[p], bound[p])
    <3>1. PICK s : s = calls[p] OBVIOUS
    <3>2. s # <<>> => s[Len(s)].for # r
      <4> SUFFICES ASSUME s # <<>> PROVE s[Len(s)].for # r
        OBVIOUS
      <4>1. s \in Seq(Call) BY <1>1, <3>1 DEF GoodCalls
      <4>2. Len(s) \in 1 .. Len(s) BY <4>1
      <4>3. s[Len(s)].do = "bind" BY <2>4, <3>1 DEF EndsBound
      <4>4. place[s[Len(s)].for] \in Subscribed BY <1>1, <3>1, <4>2, <4>3 DEF GoodCalls
      <4>5. QED BY <2>1, <4>4 DEF Subscribed
    <3>3. EndsBound(t, bound[p]) BY <1>1, <1>2, <2>4, <3>1, <3>2, WithoutCallIsGood
    <3>4. QED BY <1>3, <1>8, <2>4, <3>3 DEF Settled
  <2>5. QED BY <2>1, <2>3, <2>4 DEF Settled
<1>13. builder'[p] \in Reader => place'[builder'[p]] = "building" /\ HomeOf[builder'[p]] = p
  <2> SUFFICES ASSUME builder'[p] \in Reader
               PROVE  place'[builder'[p]] = "building" /\ HomeOf[builder'[p]] = p
    OBVIOUS
  <2>1. builder[p] # r /\ builder'[p] = builder[p] BY <1>9, Strings
  <2>2. place[builder[p]] = "building" /\ HomeOf[builder[p]] = p BY <2>1 DEF BindInv
  <2>3. QED BY <1>4, <2>1, <2>2
<1>14. \A x \in Reader : HomeOf[x] = p /\ place'[x] = "waiting" => p \in early'
  BY <1>4, <1>10 DEF BindInv
<1>15. link'[p] = "ready" => builder'[p] = NoOne BY <1>3, <1>9 DEF BindInv
<1>16. \A x \in Reader : HomeOf[x] # p => place'[x] = place[x] BY <1>0, <1>4
<1>17. GoodCalls(calls'[p], p, place') BY <1>6, <1>8
<1>18. QED
  BY <1>3, <1>8, <1>9, <1>10, <1>11, <1>12, <1>13, <1>14, <1>15, <1>16, <1>17, OneProcess

-----------------------------------------------------------------------------
(* The steps of runs and of the queues leave all this alone.               *)
LEMMA Unaffected ==
  ASSUME BindInv, UNCHANGED <<link, builder, holders, bound, calls, place, early>>
  PROVE  BindInv'
<1>1. BusTyped' BY DEF BindInv, BusTyped
<1>2. \A p \in Api : Settled(p)' <=> Settled(p) BY DEF Settled
<1>3. \A p \in Api : GoodCalls(calls'[p], p, place') BY DEF BindInv
<1>4. QED BY <1>1, <1>2, <1>3 DEF BindInv

LEMMA Initially == ASSUME StreamInit PROVE BindInv
<1>1. BusInit BY DEF StreamInit
<1>2. BusTyped BY <1>1 DEF BusInit, BusTyped, Links, Places
<1>3. ASSUME NEW p \in Api PROVE GoodCalls(calls[p], p, place)
  <2>1. calls[p] = <<>> /\ Len(calls[p]) = 0 BY <1>1 DEF BusInit
  <2>2. QED BY <2>1 DEF GoodCalls
<1>4. /\ \A p \in Api : link[p] = "none" /\ builder[p] = NoOne /\ holders[p] = {}
      /\ \A r \in Reader : place[r] = "away"
  BY <1>1 DEF BusInit
<1>5. QED BY <1>2, <1>3, <1>4, Strings DEF BindInv

LEMMA Inductive == BindInv /\ [StreamNext]_streamVars => BindInv'
<1> SUFFICES ASSUME BindInv, [StreamNext]_streamVars PROVE BindInv'
  OBVIOUS
<1>1. CASE UNCHANGED streamVars BY <1>1, Unaffected DEF streamVars, busVars
<1>2. ASSUME NEW x \in Run, \/ SubmitRun(x) \/ SendSubmitted(x) \/ EndSilently(x)
                           \/ \E w \in Process : Begin(x, w)
      PROVE  BindInv'
  <2>1. UNCHANGED <<link, builder, holders, bound, calls, place, early>>
    BY <1>2 DEF SubmitRun, SendSubmitted, EndSilently, Begin, bus, busVars
  <2>2. QED BY <2>1, Unaffected
<1>3. ASSUME NEW x \in Run, NEW t \in DOMAIN turns[x],
             \/ Delta(x, t) \/ Ask(x, t) \/ Interrupted(x, t) \/ Leave(x, t) \/ Settle(x, t)
             \/ Finish(x, t, "run_completed") \/ Finish(x, t, "run_failed") \/ Lost(x, t)
             \/ \E y \in Run : SpawnChild(y, x, t)
      PROVE  BindInv'
  <2>1. UNCHANGED <<link, builder, holders, bound, calls, place, early>>
    BY <1>3 DEF Delta, Ask, Interrupted, Leave, Settle, Finish, Lost, SpawnChild, PublishFrom,
                bus, busVars
  <2>2. QED BY <2>1, Unaffected
<1>4. ASSUME NEW r \in Reader, Take(r) \/ Connected(r) PROVE BindInv'
  <2>1. UNCHANGED <<link, builder, holders, bound, calls, place, early>>
    BY <1>4 DEF Take, Connected, bus, busVars
  <2>2. QED BY <2>1, Unaffected
<1>5. ASSUME NEW r \in Reader, SubscribeTo(r) \/ UnsubscribeFrom(r) PROVE BindInv'
  <2>1. Subscribe(r) \/ Unsubscribe(r) BY <1>5 DEF SubscribeTo, UnsubscribeFrom
  <2>2. QED BY <2>1, SubscribeKeeps, UnsubscribeKeeps
<1>6. ASSUME NEW r \in Reader, Wake(r) \/ Cancel(r) PROVE BindInv'
  BY <1>6, WakeKeeps, CancelKeeps
<1>7. ASSUME NEW p \in Api, Consume(p) PROVE BindInv'
  <2>1. UNCHANGED <<link, builder, holders, bound, calls, place, early>> BY <1>7 DEF Consume
  <2>2. QED BY <2>1, Unaffected
<1>8. ASSUME NEW p \in Api, \/ EnsureForPublish(p) \/ BuildFails(p) \/ BuildTimesOut(p)
                           \/ Build(p) \/ Answer(p)
      PROVE  BindInv'
  BY <1>8, BuildKeeps, BuilderKeeps, AnswerKeeps
<1>9. QED BY <1>1, <1>2, <1>3, <1>4, <1>5, <1>6, <1>7, <1>8 DEF StreamNext

(* A process with readers is bound to the conversation when nothing of its *)
(* connection is under way, unless a reader came while the connection was  *)
(* being set up or was cancelled: however many subscribe and leave, and in *)
(* whatever order the broker's answers come between.                       *)
THEOREM ReadersKeepTheBinding == StreamSpec => []BoundWhileRead
<1>1. BindInv => BoundWhileRead
  <2> SUFFICES ASSUME BindInv, NEW p \in Api \ early, holders[p] # {}, calls[p] = <<>>,
                      builder[p] = NoOne
               PROVE  bound[p]
    BY DEF BoundWhileRead
  <2>1. Settled(p) BY DEF BindInv
  <2>2. QED BY <2>1, Strings DEF Settled, EndsBound
<1>2. QED BY <1>1, Initially, Inductive, PTL DEF StreamSpec

-----------------------------------------------------------------------------
(* Frames on their way to a reader.                                        *)

Opening == {"run_submitted"}
Terminal == {"run_completed", "run_failed"}
Telling == {"run_submitted", "speaking", "run_interrupted"}
Frame == [origin : Process, run : Run, turn : Nat, name : Telling \cup Terminal, n : Nat]

RunRecord == [state : RunStates, n : Nat]
RunsTyped(rn) == rn \in [Run -> RunRecord]
AtHome(hs) == hs \in [Api -> SUBSET Reader] /\ \A p \in Api : \A r \in hs[p] : HomeOf[r] = p

(* With runs as in rn: a frame at the broker is of a run whose beginning   *)
(* was sent, and which uses its number no more.                            *)
Sent(rn, e) == rn[e.run].state \notin {"new", "submitting"} /\ e.n < rn[e.run].n

(* A frame that came to a reader of process p.                             *)
Received(rn, p, e) ==
  /\ rn[e.run].state # "new"
  /\ IF rn[e.run].state = "submitting" THEN FromOf[e.run] = p /\ e.n = rn[e.run].n
     ELSE e.n < rn[e.run].n

(* Ordered, with the overtaken runs as in ov.                              *)
Precedes(e, f, ov) == e.run = f.run /\ (e.turn = f.turn \/ e.run \notin ov) => e.n < f.n
InOrder(u, v, p, ov) ==
  /\ \A i, j \in 1 .. Len(u) : i < j => Precedes(u[i], u[j], ov)
  /\ \A i \in 1 .. Len(u), j \in 1 .. Len(v) : Foreign(p, v[j]) => Precedes(u[i], v[j], ov)
  /\ \A i, j \in 1 .. Len(v) :
       i < j /\ Foreign(p, v[i]) /\ Foreign(p, v[j]) => Precedes(v[i], v[j], ov)

AllSent(rn, w) == \A q \in Api : \A i \in 1 .. Len(w[q]) : Sent(rn, w[q][i])
AllReceived(rn, b) ==
  \A r \in Reader : \A i \in 1 .. Len(b[r]) : Received(rn, HomeOf[r], b[r][i])
AllInOrder(b, w, ov) == \A r \in Reader : InOrder(b[r], w[HomeOf[r]], HomeOf[r], ov)

FrameInv ==
  /\ RunsTyped(run) /\ AtHome(holders)
  /\ wire \in [Api -> Seq(Frame)] /\ inbox \in [Reader -> Seq(Frame)]
  /\ AllSent(run, wire) /\ AllReceived(run, inbox) /\ AllInOrder(inbox, wire, overtaken)

(* Who publishes them.                                                     *)
Turn == [by : Process, pc : TurnStates]
TurnsTyped(rn, ts) ==
  /\ ts \in [Run -> Seq(Turn)]
  /\ \A x \in Run : rn[x].state \in {"new", "submitting", "submitted"} => ts[x] = <<>>

(* With turns as in ts: a frame at the broker is of the process that       *)
(* executes its turn.                                                      *)
Made(ts, e) ==
  /\ e.turn \in 0 .. Len(ts[e.run])
  /\ e.origin = IF e.turn = 0 THEN FromOf[e.run] ELSE ts[e.run][e.turn].by
AllMade(ts, w) == \A q \in Api : \A i \in 1 .. Len(w[q]) : Made(ts, w[q][i])

(* Only the last turn of a run publishes, and when its process serves      *)
(* readers, no frame of another one is on its way to it; unless the run    *)
(* was overtaken.                                                          *)
Cleared(x, q, w) == \A i \in 1 .. Len(w[q]) : w[q][i].run = x => ~Foreign(q, w[q][i])
Clear(x, ts, w) ==
  \A t \in 1 .. Len(ts[x]) : ts[x][t].pc \notin Silent =>
    t = Len(ts[x]) /\ (ts[x][t].by \in Api => Cleared(x, ts[x][t].by, w))
AllClear(ts, w, ov) == \A x \in Run \ ov : Clear(x, ts, w)

(* A turn that has something to publish is of a run that goes on, unless   *)
(* runs were overtaken, or ended without a frame.                          *)
Told(rn, ts, mute, ov) ==
  ~mute /\ ov = {} =>
    \A x \in Run : \A t \in 1 .. Len(ts[x]) :
      ts[x][t].pc \notin Silent => rn[x].state = "active"

TurnInv ==
  /\ TurnsTyped(run, turns) /\ AllMade(turns, wire) /\ AllClear(turns, wire, overtaken)
  /\ Told(run, turns, muted, overtaken)

-----------------------------------------------------------------------------
(* What is still to come to a reader: its frames u, then the foreign ones  *)
(* of v.                                                                   *)
Comes(u, v, p, good) ==
  \/ \E i \in 1 .. Len(u) : u[i].name \in good
  \/ \E i \in 1 .. Len(v) : Foreign(p, v[i]) /\ v[i].name \in good
Followed(u, v, p, bad, good) ==
  /\ \A i \in 1 .. Len(u) : u[i].name \in bad =>
       \/ \E j \in 1 .. Len(u) : i < j /\ u[j].name \in good
       \/ \E j \in 1 .. Len(v) : Foreign(p, v[j]) /\ v[j].name \in good
  /\ \A i \in 1 .. Len(v) : Foreign(p, v[i]) /\ v[i].name \in bad =>
       \E j \in 1 .. Len(v) : i < j /\ Foreign(p, v[j]) /\ v[j].name \in good

(* Nothing happened to the runs that the readers cannot know of.           *)
Straight == ~tangled /\ ~muted /\ overtaken = {}
Watches(r) == place[r] \in {"building", "waiting", "binding", "on"}
Faithful(r) == Watches(r) /\ r \notin lossy \cup late /\ Straight

(* A run that is known to the readers of process p.                        *)
Begun(x, p) == Active(x) /\ (run[x].state = "submitting" => FromOf[x] = p)
Quiet == \A x \in Run : ~Active(x)

(* When no run goes on, the end of the last one is seen or to come; when   *)
(* one has begun, so is its beginning, and nothing after it ends it.       *)
SeesEnd(s, u, v, p) ==
  Followed(u, v, p, Telling, Terminal) /\ (s = "run_active" => Comes(u, v, p, Terminal))
SeesRun(s, u, v, p) ==
  Followed(u, v, p, Terminal, Opening) /\ (s = "run_active" \/ Comes(u, v, p, Opening))

Sees(r) ==
  /\ Quiet => SeesEnd(shown[r], inbox[r], wire[HomeOf[r]], HomeOf[r])
  /\ r \notin midway /\ (\E x \in Run : Begun(x, HomeOf[r])) =>
       SeesRun(shown[r], inbox[r], wire[HomeOf[r]], HomeOf[r])

(* Who watches is in the list of its process; who has not come yet has     *)
(* nothing.                                                                *)
Seated(r) ==
  /\ Watches(r) => r \in holders[HomeOf[r]]
  /\ place[r] = "away" => inbox[r] = <<>> /\ r \notin holders[HomeOf[r]]
  /\ shown[r] # "idle" => place[r] = "on"

(* Runs do not overlap, and the broker has frames of the last one only.    *)
FramesOf(x, w) == \A q \in Api : \A i \in 1 .. Len(w[q]) : w[q][i].run = x
OneByOne == Straight => \A x \in Run : Active(x) =>
              (\A y \in Run : Active(y) => y = x) /\ FramesOf(x, wire)

ViewInv ==
  /\ shown \in [Reader -> MachineStates]
  /\ \A r \in Reader : Seated(r)
  /\ OneByOne
  /\ \A r \in Reader : Faithful(r) => Sees(r)
-----------------------------------------------------------------------------
(* Sequences of frames.                                                    *)

LEMMA TailFrames ==
  ASSUME NEW u \in Seq(Frame), u # <<>>
  PROVE  /\ Tail(u) \in Seq(Frame) /\ Len(Tail(u)) = Len(u) - 1 /\ Len(u) \in Nat \ {0}
         /\ \A i \in 1 .. Len(u) - 1 : Tail(u)[i] = u[i + 1]
         /\ Head(u) = u[1] /\ u[1] \in Frame
OBVIOUS

LEMMA AppendFrame ==
  ASSUME NEW u \in Seq(Frame), NEW e \in Frame
  PROVE  /\ Append(u, e) \in Seq(Frame) /\ Len(Append(u, e)) = Len(u) + 1 /\ Len(u) \in Nat
         /\ \A i \in 1 .. Len(u) : Append(u, e)[i] = u[i]
         /\ Append(u, e)[Len(u) + 1] = e
OBVIOUS

LEMMA OrderedTail ==
  ASSUME NEW u \in Seq(Frame), NEW v \in Seq(Frame), NEW p, NEW ov, u # <<>>, InOrder(u, v, p, ov)
  PROVE  InOrder(Tail(u), v, p, ov)
BY TailFrames DEF InOrder

LEMMA OrderedMove ==
  ASSUME NEW u \in Seq(Frame), NEW v \in Seq(Frame), NEW p, NEW ov, v # <<>>, InOrder(u, v, p, ov),
         Foreign(p, Head(v))
  PROVE  InOrder(Append(u, Head(v)), Tail(v), p, ov)
<1> DEFINE e == Head(v)
           w == Append(u, e)
           z == Tail(v)
<1>1. /\ z \in Seq(Frame) /\ Len(z) = Len(v) - 1 /\ Len(v) \in Nat \ {0}
      /\ \A i \in 1 .. Len(v) - 1 : z[i] = v[i + 1]
      /\ e = v[1] /\ e \in Frame
  BY TailFrames
<1>2. /\ Len(w) = Len(u) + 1 /\ Len(u) \in Nat
      /\ \A i \in 1 .. Len(u) : w[i] = u[i]
      /\ w[Len(u) + 1] = e
  BY <1>1, AppendFrame
<1> HIDE DEF e, w, z
<1>3. InOrder(w, z, p, ov)
  <2>1. ASSUME NEW i \in 1 .. Len(w), NEW j \in 1 .. Len(w), i < j PROVE Precedes(w[i], w[j], ov)
    BY <1>1, <1>2, <2>1 DEF InOrder, e
  <2>2. ASSUME NEW i \in 1 .. Len(w), NEW j \in 1 .. Len(z), Foreign(p, z[j])
        PROVE  Precedes(w[i], z[j], ov)
    <3>1. j + 1 \in 1 .. Len(v) /\ 1 \in 1 .. Len(v) /\ 1 < j + 1 /\ z[j] = v[j + 1] BY <1>1
    <3>2. CASE i \in 1 .. Len(u) BY <1>2, <2>2, <3>1, <3>2 DEF InOrder
    <3>3. CASE i = Len(u) + 1 BY <1>1, <1>2, <2>2, <3>1, <3>3 DEF InOrder, e
    <3>4. QED BY <1>2, <3>2, <3>3
  <2>3. ASSUME NEW i \in 1 .. Len(z), NEW j \in 1 .. Len(z), i < j,
               Foreign(p, z[i]), Foreign(p, z[j])
        PROVE  Precedes(z[i], z[j], ov)
    <3>1. i + 1 \in 1 .. Len(v) /\ j + 1 \in 1 .. Len(v) /\ i + 1 < j + 1
          /\ z[i] = v[i + 1] /\ z[j] = v[j + 1]
      BY <1>1, <2>3
    <3>2. QED BY <2>3, <3>1 DEF InOrder
  <2>4. QED BY <2>1, <2>2, <2>3 DEF InOrder
<1>4. QED BY <1>3 DEF w, z, e

LEMMA OrderedDrop ==
  ASSUME NEW u \in Seq(Frame), NEW v \in Seq(Frame), NEW p, NEW ov, v # <<>>, InOrder(u, v, p, ov)
  PROVE  InOrder(u, Tail(v), p, ov)
<1> DEFINE z == Tail(v)
<1>1. /\ Len(z) = Len(v) - 1 /\ Len(v) \in Nat \ {0} /\ Len(u) \in Nat
      /\ \A i \in 1 .. Len(v) - 1 : z[i] = v[i + 1]
  BY TailFrames
<1> HIDE DEF z
<1>2. ASSUME NEW j \in 1 .. Len(z) PROVE j + 1 \in 1 .. Len(v) /\ z[j] = v[j + 1] BY <1>1
<1>3. \A i \in 1 .. Len(u), j \in 1 .. Len(z) : Foreign(p, z[j]) => Precedes(u[i], z[j], ov)
  BY <1>2 DEF InOrder
<1>4. ASSUME NEW i \in 1 .. Len(z), NEW j \in 1 .. Len(z), i < j,
             Foreign(p, z[i]), Foreign(p, z[j])
      PROVE  Precedes(z[i], z[j], ov)
  <2>1. i + 1 < j + 1 BY <1>1, <1>4
  <2>2. QED BY <1>2, <1>4, <2>1 DEF InOrder
<1>5. InOrder(u, z, p, ov) BY <1>3, <1>4 DEF InOrder
<1>6. QED BY <1>5 DEF z

LEMMA OrderedSend ==
  ASSUME NEW u \in Seq(Frame), NEW v \in Seq(Frame), NEW p, NEW ov, NEW e \in Frame, InOrder(u, v, p, ov),
         Foreign(p, e) => /\ \A i \in 1 .. Len(u) : Precedes(u[i], e, ov)
                          /\ \A i \in 1 .. Len(v) : Foreign(p, v[i]) => Precedes(v[i], e, ov)
  PROVE  InOrder(u, Append(v, e), p, ov)
<1> DEFINE w == Append(v, e)
<1>1. /\ Len(w) = Len(v) + 1 /\ Len(v) \in Nat
      /\ \A i \in 1 .. Len(v) : w[i] = v[i]
      /\ w[Len(v) + 1] = e
  BY AppendFrame
<1> HIDE DEF w
<1>2. ASSUME NEW j \in 1 .. Len(w) PROVE (j \in 1 .. Len(v) /\ w[j] = v[j]) \/ (j = Len(v) + 1 /\ w[j] = e)
  BY <1>1
<1>3. \A i \in 1 .. Len(u), j \in 1 .. Len(w) : Foreign(p, w[j]) => Precedes(u[i], w[j], ov)
  BY <1>2 DEF InOrder
<1>4. ASSUME NEW i \in 1 .. Len(w), NEW j \in 1 .. Len(w), i < j,
             Foreign(p, w[i]), Foreign(p, w[j])
      PROVE  Precedes(w[i], w[j], ov)
  <2>1. i \in 1 .. Len(v) /\ w[i] = v[i] BY <1>1, <1>4
  <2>2. QED BY <1>2, <1>4, <2>1 DEF InOrder
<1>5. InOrder(u, w, p, ov) BY <1>3, <1>4 DEF InOrder
<1>6. QED BY <1>5 DEF w

LEMMA OrderedPut ==
  ASSUME NEW u \in Seq(Frame), NEW v \in Seq(Frame), NEW p, NEW ov, NEW e \in Frame, InOrder(u, v, p, ov),
         \A i \in 1 .. Len(u) : Precedes(u[i], e, ov),
         \A i \in 1 .. Len(v) : Foreign(p, v[i]) => Precedes(e, v[i], ov)
  PROVE  InOrder(Append(u, e), v, p, ov)
<1> DEFINE w == Append(u, e)
<1>1. /\ Len(w) = Len(u) + 1 /\ Len(u) \in Nat
      /\ \A i \in 1 .. Len(u) : w[i] = u[i]
      /\ w[Len(u) + 1] = e
  BY AppendFrame
<1> HIDE DEF w
<1>2. ASSUME NEW j \in 1 .. Len(w) PROVE (j \in 1 .. Len(u) /\ w[j] = u[j]) \/ (j = Len(u) + 1 /\ w[j] = e)
  BY <1>1
<1>3. \A i \in 1 .. Len(w), j \in 1 .. Len(v) : Foreign(p, v[j]) => Precedes(w[i], v[j], ov)
  BY <1>2 DEF InOrder
<1>4. ASSUME NEW i \in 1 .. Len(w), NEW j \in 1 .. Len(w), i < j PROVE Precedes(w[i], w[j], ov)
  <2>1. i \in 1 .. Len(u) /\ w[i] = u[i] BY <1>1, <1>4
  <2>2. QED BY <1>2, <1>4, <2>1 DEF InOrder
<1>5. InOrder(w, v, p, ov) BY <1>3, <1>4 DEF InOrder
<1>6. QED BY <1>5 DEF w

(* The same sequences, as to what follows what.                            *)
LEMMA FollowedTail ==
  ASSUME NEW u \in Seq(Frame), NEW v \in Seq(Frame), NEW p, NEW bad, NEW good, u # <<>>,
         Followed(u, v, p, bad, good)
  PROVE  /\ Followed(Tail(u), v, p, bad, good)
         /\ Head(u).name \in bad => Comes(Tail(u), v, p, good)
         /\ Comes(u, v, p, good) => Head(u).name \in good \/ Comes(Tail(u), v, p, good)
<1> DEFINE z == Tail(u)
<1>1. /\ Len(z) = Len(u) - 1 /\ Len(u) \in Nat \ {0}
      /\ \A i \in 1 .. Len(u) - 1 : z[i] = u[i + 1]
      /\ Head(u) = u[1]
  BY TailFrames
<1> HIDE DEF z
<1>2. ASSUME NEW j \in 1 .. Len(u), j # 1 PROVE j - 1 \in 1 .. Len(z) /\ z[j - 1] = u[j]
  BY <1>1, <1>2
<1>3. ASSUME NEW i \in 1 .. Len(z), z[i].name \in bad
      PROVE  \/ \E j \in 1 .. Len(z) : i < j /\ z[j].name \in good
             \/ \E j \in 1 .. Len(v) : Foreign(p, v[j]) /\ v[j].name \in good
  <2>1. i + 1 \in 1 .. Len(u) /\ u[i + 1].name \in bad BY <1>1, <1>3
  <2>2. CASE \E j \in 1 .. Len(v) : Foreign(p, v[j]) /\ v[j].name \in good BY <2>2
  <2>3. CASE \E j \in 1 .. Len(u) : i + 1 < j /\ u[j].name \in good
    <3>1. PICK j \in 1 .. Len(u) : i + 1 < j /\ u[j].name \in good BY <2>3
    <3>2. j # 1 /\ i < j - 1 BY <1>1, <3>1
    <3>3. QED BY <1>2, <3>1, <3>2
  <2>4. QED BY <2>1, <2>2, <2>3 DEF Followed
<1>4. Followed(z, v, p, bad, good) BY <1>3 DEF Followed
<1>5. Head(u).name \in bad => Comes(z, v, p, good)
  <2> SUFFICES ASSUME u[1].name \in bad PROVE Comes(z, v, p, good) BY <1>1
  <2>0. 1 \in 1 .. Len(u) BY <1>1
  <2>1. CASE \E j \in 1 .. Len(v) : Foreign(p, v[j]) /\ v[j].name \in good BY <2>1 DEF Comes
  <2>2. CASE \E j \in 1 .. Len(u) : 1 < j /\ u[j].name \in good BY <1>2, <2>2 DEF Comes
  <2>3. QED BY <2>0, <2>1, <2>2 DEF Followed
<1>6. Comes(u, v, p, good) => Head(u).name \in good \/ Comes(z, v, p, good)
  BY <1>1, <1>2 DEF Comes
<1>7. QED BY <1>4, <1>5, <1>6 DEF z

LEMMA FollowedMove ==
  ASSUME NEW u \in Seq(Frame), NEW v \in Seq(Frame), NEW p, NEW bad, NEW good, v # <<>>,
         Foreign(p, Head(v))
  PROVE  /\ Followed(u, v, p, bad, good) => Followed(Append(u, Head(v)), Tail(v), p, bad, good)
         /\ Comes(u, v, p, good) => Comes(Append(u, Head(v)), Tail(v), p, good)
<1> DEFINE e == Head(v)
           w == Append(u, e)
           z == Tail(v)
<1>1. /\ Len(z) = Len(v) - 1 /\ Len(v) \in Nat \ {0}
      /\ \A i \in 1 .. Len(v) - 1 : z[i] = v[i + 1]
      /\ e = v[1] /\ e \in Frame
  BY TailFrames
<1>2. /\ Len(w) = Len(u) + 1 /\ Len(u) \in Nat
      /\ \A i \in 1 .. Len(u) : w[i] = u[i]
      /\ w[Len(u) + 1] = e
  BY <1>1, AppendFrame
<1> HIDE DEF e, w, z
<1>3. ASSUME NEW j \in 1 .. Len(v), j # 1 PROVE j - 1 \in 1 .. Len(z) /\ z[j - 1] = v[j]
  BY <1>1, <1>3
<1>4. ASSUME NEW j \in 1 .. Len(z) PROVE j + 1 \in 1 .. Len(v) /\ z[j] = v[j + 1] BY <1>1
<1>5. Comes(u, v, p, good) => Comes(w, z, p, good)
  <2>1. CASE \E i \in 1 .. Len(u) : u[i].name \in good BY <1>2, <2>1 DEF Comes
  <2>2. ASSUME NEW j \in 1 .. Len(v), Foreign(p, v[j]), v[j].name \in good
        PROVE  Comes(w, z, p, good)
    <3>1. CASE j = 1
      <4>1. Len(u) + 1 \in 1 .. Len(w) /\ w[Len(u) + 1].name \in good BY <1>1, <1>2, <2>2, <3>1
      <4>2. QED BY <4>1 DEF Comes
    <3>2. CASE j # 1 BY <1>3, <2>2, <3>2 DEF Comes
    <3>3. QED BY <3>1, <3>2
  <2>3. QED BY <2>1, <2>2 DEF Comes
<1>6. ASSUME Followed(u, v, p, bad, good) PROVE Followed(w, z, p, bad, good)
  <2>1. ASSUME NEW i \in 1 .. Len(z), Foreign(p, z[i]), z[i].name \in bad
        PROVE  \E j \in 1 .. Len(z) : i < j /\ Foreign(p, z[j]) /\ z[j].name \in good
    <3>1. PICK j \in 1 .. Len(v) : i + 1 < j /\ Foreign(p, v[j]) /\ v[j].name \in good
      BY <1>4, <1>6, <2>1 DEF Followed
    <3>2. j # 1 /\ i < j - 1 BY <1>1, <3>1
    <3>3. QED BY <1>3, <3>1, <3>2
  <2>2. ASSUME NEW i \in 1 .. Len(w), w[i].name \in bad
        PROVE  \/ \E j \in 1 .. Len(w) : i < j /\ w[j].name \in good
               \/ \E j \in 1 .. Len(z) : Foreign(p, z[j]) /\ z[j].name \in good
    <3>1. CASE i \in 1 .. Len(u)
      <4>1. w[i] = u[i] BY <1>2, <3>1
      <4>2. CASE \E j \in 1 .. Len(u) : i < j /\ u[j].name \in good BY <1>2, <4>2
      <4>3. ASSUME NEW j \in 1 .. Len(v), Foreign(p, v[j]), v[j].name \in good
            PROVE  \/ \E k \in 1 .. Len(w) : i < k /\ w[k].name \in good
                   \/ \E k \in 1 .. Len(z) : Foreign(p, z[k]) /\ z[k].name \in good
        <5>1. CASE j = 1
          <6>1. Len(u) + 1 \in 1 .. Len(w) /\ i < Len(u) + 1 /\ w[Len(u) + 1].name \in good
            BY <1>1, <1>2, <3>1, <4>3, <5>1
          <6>2. QED BY <6>1
        <5>2. CASE j # 1 BY <1>3, <4>3, <5>2
        <5>3. QED BY <5>1, <5>2
      <4>4. QED BY <1>6, <2>2, <3>1, <4>1, <4>2, <4>3 DEF Followed
    <3>2. CASE i = Len(u) + 1
      <4>1. 1 \in 1 .. Len(v) /\ v[1].name \in bad /\ Foreign(p, v[1])
        BY <1>1, <1>2, <2>2, <3>2 DEF e
      <4>2. PICK j \in 1 .. Len(v) : 1 < j /\ Foreign(p, v[j]) /\ v[j].name \in good
        BY <1>6, <4>1 DEF Followed
      <4>3. QED BY <1>3, <4>2
    <3>3. QED BY <1>2, <3>1, <3>2
  <2>3. QED BY <2>1, <2>2 DEF Followed
<1>7. QED BY <1>5, <1>6 DEF e, w, z

LEMMA FollowedDrop ==
  ASSUME NEW u, NEW v \in Seq(Frame), NEW p, NEW bad, NEW good, v # <<>>,
         ~Foreign(p, Head(v))
  PROVE  /\ Followed(u, v, p, bad, good) => Followed(u, Tail(v), p, bad, good)
         /\ Comes(u, v, p, good) => Comes(u, Tail(v), p, good)
<1> DEFINE z == Tail(v)
<1>1. /\ Len(z) = Len(v) - 1 /\ Len(v) \in Nat \ {0}
      /\ \A i \in 1 .. Len(v) - 1 : z[i] = v[i + 1]
      /\ Head(v) = v[1]
  BY TailFrames
<1> HIDE DEF z
<1>3. ASSUME NEW j \in 1 .. Len(v), Foreign(p, v[j])
      PROVE  j # 1 /\ j - 1 \in 1 .. Len(z) /\ z[j - 1] = v[j]
  BY <1>1, <1>3
<1>4. ASSUME NEW j \in 1 .. Len(z) PROVE j + 1 \in 1 .. Len(v) /\ z[j] = v[j + 1] BY <1>1
<1>5. Comes(u, v, p, good) => Comes(u, z, p, good) BY <1>3 DEF Comes
<1>6. ASSUME Followed(u, v, p, bad, good) PROVE Followed(u, z, p, bad, good)
  <2>1. ASSUME NEW i \in 1 .. Len(z), Foreign(p, z[i]), z[i].name \in bad
        PROVE  \E j \in 1 .. Len(z) : i < j /\ Foreign(p, z[j]) /\ z[j].name \in good
    <3>1. PICK j \in 1 .. Len(v) : i + 1 < j /\ Foreign(p, v[j]) /\ v[j].name \in good
      BY <1>4, <1>6, <2>1 DEF Followed
    <3>2. i < j - 1 BY <1>1, <3>1
    <3>3. QED BY <1>3, <3>1, <3>2
  <2>2. ASSUME NEW i \in 1 .. Len(u), u[i].name \in bad
        PROVE  \/ \E j \in 1 .. Len(u) : i < j /\ u[j].name \in good
               \/ \E j \in 1 .. Len(z) : Foreign(p, z[j]) /\ z[j].name \in good
    BY <1>3, <1>6, <2>2 DEF Followed
  <2>3. QED BY <2>1, <2>2 DEF Followed
<1>7. QED BY <1>5, <1>6 DEF z

LEMMA FollowedSend ==
  ASSUME NEW u, NEW v \in Seq(Frame), NEW p, NEW bad, NEW good, NEW e \in Frame,
         Foreign(p, e) => e.name \notin bad
  PROVE  /\ Followed(u, v, p, bad, good) \/ (Foreign(p, e) /\ e.name \in good) =>
              Followed(u, Append(v, e), p, bad, good)
         /\ Comes(u, v, p, good) \/ (Foreign(p, e) /\ e.name \in good) =>
              Comes(u, Append(v, e), p, good)
<1> DEFINE w == Append(v, e)
<1>1. /\ Len(w) = Len(v) + 1 /\ Len(v) \in Nat
      /\ \A i \in 1 .. Len(v) : w[i] = v[i]
      /\ w[Len(v) + 1] = e
  BY AppendFrame
<1> HIDE DEF w
<1>2. ASSUME NEW j \in 1 .. Len(w)
      PROVE  (j \in 1 .. Len(v) /\ w[j] = v[j]) \/ (j = Len(v) + 1 /\ w[j] = e)
  BY <1>1
<1>3. \A j \in 1 .. Len(v) : j \in 1 .. Len(w) /\ w[j] = v[j] BY <1>1
<1>4. Len(v) + 1 \in 1 .. Len(w) /\ \A j \in 1 .. Len(v) : j < Len(v) + 1 BY <1>1
<1>5. CASE Foreign(p, e) /\ e.name \in good
  <2>1. \E j \in 1 .. Len(w) : Foreign(p, w[j]) /\ w[j].name \in good BY <1>1, <1>4, <1>5
  <2>2. ASSUME NEW i \in 1 .. Len(w), Foreign(p, w[i]), w[i].name \in bad
        PROVE  \E j \in 1 .. Len(w) : i < j /\ Foreign(p, w[j]) /\ w[j].name \in good
    <3>1. i \in 1 .. Len(v) BY <1>2, <2>2
    <3>2. QED BY <1>1, <1>4, <1>5, <3>1
  <2>3. Followed(u, w, p, bad, good) /\ Comes(u, w, p, good) BY <2>1, <2>2 DEF Followed, Comes
  <2>4. QED BY <2>3 DEF w
<1>6. ASSUME Followed(u, v, p, bad, good) PROVE Followed(u, w, p, bad, good)
  <2>1. ASSUME NEW i \in 1 .. Len(w), Foreign(p, w[i]), w[i].name \in bad
        PROVE  \E j \in 1 .. Len(w) : i < j /\ Foreign(p, w[j]) /\ w[j].name \in good
    <3>1. i \in 1 .. Len(v) /\ w[i] = v[i] BY <1>2, <2>1
    <3>2. QED BY <1>3, <1>6, <2>1, <3>1 DEF Followed
  <2>2. QED BY <1>3, <1>6, <2>1 DEF Followed
<1>7. Comes(u, v, p, good) => Comes(u, w, p, good) BY <1>3 DEF Comes
<1>8. QED BY <1>5, <1>6, <1>7 DEF w

LEMMA FollowedPut ==
  ASSUME NEW u \in Seq(Frame), NEW v, NEW p, NEW bad, NEW good, NEW e \in Frame,
         e.name \notin bad
  PROVE  /\ Followed(u, v, p, bad, good) => Followed(Append(u, e), v, p, bad, good)
         /\ e.name \in good /\ (\A i \in 1 .. Len(v) : ~Foreign(p, v[i])) =>
              Followed(Append(u, e), v, p, bad, good)
         /\ Comes(u, v, p, good) \/ e.name \in good => Comes(Append(u, e), v, p, good)
<1> DEFINE w == Append(u, e)
<1>1. /\ Len(w) = Len(u) + 1 /\ Len(u) \in Nat
      /\ \A i \in 1 .. Len(u) : w[i] = u[i]
      /\ w[Len(u) + 1] = e
  BY AppendFrame
<1> HIDE DEF w
<1>2. ASSUME NEW j \in 1 .. Len(w)
      PROVE  (j \in 1 .. Len(u) /\ w[j] = u[j]) \/ (j = Len(u) + 1 /\ w[j] = e)
  BY <1>1
<1>3. \A j \in 1 .. Len(u) : j \in 1 .. Len(w) /\ w[j] = u[j] BY <1>1
<1>4. Len(u) + 1 \in 1 .. Len(w) /\ \A j \in 1 .. Len(u) : j < Len(u) + 1 BY <1>1
<1>5. ASSUME e.name \in good, \A i \in 1 .. Len(v) : ~Foreign(p, v[i])
      PROVE  Followed(w, v, p, bad, good)
  <2>1. ASSUME NEW i \in 1 .. Len(w), w[i].name \in bad
        PROVE  \E j \in 1 .. Len(w) : i < j /\ w[j].name \in good
    <3>1. i \in 1 .. Len(u) BY <1>2, <2>1
    <3>2. QED BY <1>1, <1>4, <1>5, <3>1
  <2>2. QED BY <1>5, <2>1 DEF Followed
<1>6. ASSUME Followed(u, v, p, bad, good) PROVE Followed(w, v, p, bad, good)
  <2>1. ASSUME NEW i \in 1 .. Len(w), w[i].name \in bad
        PROVE  \/ \E j \in 1 .. Len(w) : i < j /\ w[j].name \in good
               \/ \E j \in 1 .. Len(v) : Foreign(p, v[j]) /\ v[j].name \in good
    <3>1. i \in 1 .. Len(u) /\ w[i] = u[i] BY <1>2, <2>1
    <3>2. QED BY <1>3, <1>6, <2>1, <3>1 DEF Followed
  <2>2. QED BY <1>6, <2>1 DEF Followed
<1>7. Comes(u, v, p, good) \/ e.name \in good => Comes(w, v, p, good)
  BY <1>1, <1>3, <1>4 DEF Comes
<1>8. QED BY <1>5, <1>6, <1>7 DEF w

-----------------------------------------------------------------------------
(* Frames are numbered.                                                    *)

(* What a step of a run may do to the run: what is known of frames stays.  *)
Keeps(rn, sn) ==
  \A e \in Frame : /\ Sent(rn, e) => Sent(sn, e)
                   /\ \A q \in Api : Received(rn, q, e) => Received(sn, q, e)

LEMMA RunKeeps ==
  ASSUME NEW rn, NEW sn, NEW w \in [Api -> Seq(Frame)], NEW b \in [Reader -> Seq(Frame)],
         Keeps(rn, sn)
  PROVE  /\ AllSent(rn, w) => AllSent(sn, w)
         /\ AllReceived(rn, b) => AllReceived(sn, b)
<1>1. \A q \in Api : \A i \in 1 .. Len(w[q]) : w[q][i] \in Frame OBVIOUS
<1>2. \A r \in Reader : \A i \in 1 .. Len(b[r]) : b[r][i] \in Frame /\ HomeOf[r] \in Api
  BY BusAssumption
<1>3. QED BY <1>1, <1>2 DEF AllSent, AllReceived, Keeps

(* A run that changes its state without a frame.                           *)
LEMMA Becomes ==
  ASSUME RunsTyped(run), NEW x \in Run, NEW s \in RunStates \ {"new"},
         run[x].state # "submitting", s = "submitting" => run[x].state = "new",
         run' = [run EXCEPT ![x].state = s]
  PROVE  /\ RunsTyped(run') /\ Keeps(run, run')
         /\ run'[x] = [state |-> s, n |-> run[x].n] /\ run[x].n \in Nat /\ run'[x].state = s
         /\ \A y \in Run : y # x => run'[y] = run[y]
<1>1. run[x] \in RunRecord /\ run[x].n \in Nat BY DEF RunsTyped, RunRecord
<1>2. run'[x] = [state |-> s, n |-> run[x].n] BY <1>1 DEF RunsTyped, RunRecord
<1>3. \A y \in Run : y # x => run'[y] = run[y] BY DEF RunsTyped
<1>4. RunsTyped(run')
  <2>1. run'[x] \in RunRecord BY <1>1, <1>2 DEF RunRecord
  <2>2. \A y \in Run : run'[y] \in RunRecord BY <1>3, <2>1 DEF RunsTyped
  <2>3. QED BY <2>2 DEF RunsTyped
<1>5. run'[x].state = s /\ run'[x].n = run[x].n BY <1>2
<1>6. ASSUME NEW e \in Frame, NEW q \in Api
      PROVE  /\ Sent(run, e) => Sent(run', e)
             /\ Received(run, q, e) => Received(run', q, e)
  <2>0. e.run \in Run BY DEF Frame
  <2>1. CASE e.run = x BY <1>5, <2>1 DEF Sent, Received
  <2>2. CASE e.run # x BY <1>3, <2>0, <2>2 DEF Sent, Received
  <2>3. QED BY <2>1, <2>2
<1>7. Keeps(run, run')
  <2>1. ASSUME NEW e \in Frame PROVE Sent(run, e) => Sent(run', e)
    <3>0. e.run \in Run BY DEF Frame
    <3>1. CASE e.run = x BY <1>5, <3>1 DEF Sent
    <3>2. CASE e.run # x BY <1>3, <3>0, <3>2 DEF Sent
    <3>3. QED BY <3>1, <3>2
  <2>2. QED BY <1>6, <2>1 DEF Keeps
<1>8. QED BY <1>1, <1>2, <1>3, <1>4, <1>5, <1>7

(* A run that publishes.                                                   *)
LEMMA Counts ==
  ASSUME RunsTyped(run), NEW x \in Run, NEW s \in {"submitted", "active", "ended"},
         run[x].state # "new", Published(x, s)
  PROVE  /\ RunsTyped(run') /\ Keeps(run, run')
         /\ run'[x] = [state |-> s, n |-> run[x].n + 1] /\ run[x].n \in Nat /\ run'[x].state = s
         /\ \A y \in Run : y # x => run'[y] = run[y]
<1>1. run[x] \in RunRecord /\ run[x].n \in Nat BY DEF RunsTyped, RunRecord
<1>2. run'[x] = [state |-> s, n |-> run[x].n + 1]
  BY <1>1 DEF Published, RunsTyped, RunRecord
<1>3. \A y \in Run : y # x => run'[y] = run[y] BY DEF Published, RunsTyped
<1>4. RunsTyped(run')
  <2>1. run'[x] \in RunRecord BY <1>1, <1>2 DEF RunRecord, RunStates
  <2>2. \A y \in Run : run'[y] \in RunRecord BY <1>3, <2>1 DEF RunsTyped
  <2>3. QED BY <2>2 DEF Published, RunsTyped
<1>5. run'[x].state = s /\ run'[x].n = run[x].n + 1 BY <1>2
<1>6. Keeps(run, run')
  <2>1. ASSUME NEW e \in Frame
        PROVE  /\ Sent(run, e) => Sent(run', e)
               /\ \A q \in Api : Received(run, q, e) => Received(run', q, e)
    <3>0. e.run \in Run /\ e.n \in Nat BY DEF Frame
    <3>1. CASE e.run = x BY <1>1, <1>5, <3>0, <3>1 DEF Sent, Received
    <3>2. CASE e.run # x BY <1>3, <3>0, <3>2 DEF Sent, Received
    <3>3. QED BY <3>1, <3>2
  <2>2. QED BY <2>1 DEF Keeps
<1>7. QED BY <1>1, <1>2, <1>3, <1>4, <1>5, <1>6

(* One more frame, or one less.                                            *)
LEMMA AppendSent ==
  ASSUME NEW v \in Seq(Frame), NEW e \in Frame, NEW rn, Sent(rn, e),
         \A i \in 1 .. Len(v) : Sent(rn, v[i])
  PROVE  /\ Append(v, e) \in Seq(Frame)
         /\ \A i \in 1 .. Len(Append(v, e)) : Sent(rn, Append(v, e)[i])
<1> DEFINE w == Append(v, e)
<1>1. /\ w \in Seq(Frame) /\ Len(w) = Len(v) + 1 /\ Len(v) \in Nat
      /\ \A i \in 1 .. Len(v) : w[i] = v[i]
      /\ w[Len(v) + 1] = e
  BY AppendFrame
<1> HIDE DEF w
<1>2. \A i \in 1 .. Len(w) : (i \in 1 .. Len(v) /\ w[i] = v[i]) \/ w[i] = e BY <1>1
<1>3. \A i \in 1 .. Len(w) : Sent(rn, w[i]) BY <1>2
<1>4. QED BY <1>1, <1>3 DEF w

LEMMA AppendReceived ==
  ASSUME NEW u \in Seq(Frame), NEW e \in Frame, NEW rn, NEW p, Received(rn, p, e),
         \A i \in 1 .. Len(u) : Received(rn, p, u[i])
  PROVE  /\ Append(u, e) \in Seq(Frame)
         /\ \A i \in 1 .. Len(Append(u, e)) : Received(rn, p, Append(u, e)[i])
<1> DEFINE w == Append(u, e)
<1>1. /\ w \in Seq(Frame) /\ Len(w) = Len(u) + 1 /\ Len(u) \in Nat
      /\ \A i \in 1 .. Len(u) : w[i] = u[i]
      /\ w[Len(u) + 1] = e
  BY AppendFrame
<1> HIDE DEF w
<1>2. \A i \in 1 .. Len(w) : (i \in 1 .. Len(u) /\ w[i] = u[i]) \/ w[i] = e BY <1>1
<1>3. \A i \in 1 .. Len(w) : Received(rn, p, w[i]) BY <1>2
<1>4. QED BY <1>1, <1>3 DEF w

(* Steps that move no frame; an overtaken run is asked for less.           *)
LEMMA FramesStay ==
  ASSUME FrameInv, AtHome(holders'), UNCHANGED <<inbox, wire>>,
         RunsTyped(run'), Keeps(run, run'), overtaken \subseteq overtaken'
  PROVE  FrameInv'
<1>1. AllSent(run', wire) /\ AllReceived(run', inbox) BY RunKeeps DEF FrameInv
<1>2. AllInOrder(inbox, wire, overtaken')
  <2>1. \A e, f : Precedes(e, f, overtaken) => Precedes(e, f, overtaken') BY DEF Precedes
  <2>2. \A r \in Reader : InOrder(inbox[r], wire[HomeOf[r]], HomeOf[r], overtaken)
    BY DEF FrameInv, AllInOrder
  <2>3. ASSUME NEW r \in Reader
        PROVE  InOrder(inbox[r], wire[HomeOf[r]], HomeOf[r], overtaken')
    BY <2>1, <2>2 DEF InOrder
  <2>4. QED BY <2>3 DEF AllInOrder
<1>3. AllSent(run', wire') /\ AllReceived(run', inbox') /\ AllInOrder(inbox', wire', overtaken')
  BY <1>1, <1>2 DEF FrameInv
<1>4. QED BY <1>3 DEF FrameInv

LEMMA NothingKept == Keeps(run, run) BY DEF Keeps

(* Steps of a run that publish nothing.                                    *)
LEMMA BecomesFrames ==
  ASSUME FrameInv, NEW x \in Run, NEW s \in {"submitted", "active", "ended"},
         run[x].state # "submitting", run' = [run EXCEPT ![x].state = s],
         UNCHANGED <<inbox, wire, holders>>, overtaken \subseteq overtaken'
  PROVE  FrameInv'
<1>1. s \in RunStates \ {"new"} /\ s # "submitting" BY DEF RunStates
<1>2. RunsTyped(run') /\ Keeps(run, run') BY <1>1, Becomes DEF FrameInv
<1>3. AtHome(holders') BY DEF FrameInv
<1>4. QED BY <1>2, <1>3, FramesStay

(* run_submitted comes to the readers of the process first.                *)
LEMMA SubmitRunFrames ==
  ASSUME FrameInv, TurnInv, NEW x \in Run, SubmitRun(x) PROVE FrameInv'
<1> DEFINE p == FromOf[x]
           e == Event(x, 0, "run_submitted")
<1>0. p \in Api /\ p \in Process BY StreamAssumption DEF Process
<1>1. /\ run[x].state = "new" /\ UNCHANGED <<wire, holders, overtaken>>
      /\ run' = [run EXCEPT ![x].state = "submitting"]
      /\ inbox' = [r \in Reader |-> IF r \in holders[p] /\ ~Full(r)
                                    THEN Append(inbox[r], e) ELSE inbox[r]]
  BY DEF SubmitRun, Fanout, bus
<1>2. /\ RunsTyped(run') /\ Keeps(run, run')
      /\ run'[x] = [state |-> "submitting", n |-> run[x].n] /\ run[x].n \in Nat
  <2>1. RunsTyped(run) /\ "submitting" \in RunStates \ {"new"} BY DEF FrameInv, RunStates
  <2>2. QED BY <1>1, <2>1, Becomes
<1>3. e \in Frame /\ e.run = x /\ e.n = run[x].n BY <1>0, <1>2 DEF Frame, Telling, Event, By
<1> HIDE DEF e, p
<1>4. AllSent(run', wire) /\ AllReceived(run', inbox) BY <1>2, RunKeeps DEF FrameInv
<1>5. /\ \A f \in Frame : Sent(run, f) => f.run # x
      /\ \A q : \A f \in Frame : Received(run, q, f) => f.run # x
  BY <1>1 DEF Sent, Received
<1>6. Received(run', p, e) BY <1>2, <1>3 DEF Received, p
<1>7. ASSUME NEW r \in Reader
      PROVE  /\ inbox'[r] \in Seq(Frame)
             /\ InOrder(inbox'[r], wire[HomeOf[r]], HomeOf[r], overtaken)
             /\ \A i \in 1 .. Len(inbox'[r]) : Received(run', HomeOf[r], inbox'[r][i])
  <2>0. inbox[r] \in Seq(Frame) /\ HomeOf[r] \in Api /\ wire[HomeOf[r]] \in Seq(Frame)
    BY BusAssumption DEF FrameInv
  <2>1. InOrder(inbox[r], wire[HomeOf[r]], HomeOf[r], overtaken) BY DEF FrameInv, AllInOrder
  <2>2. \A i \in 1 .. Len(inbox[r]) : Received(run', HomeOf[r], inbox[r][i])
    BY <1>4 DEF AllReceived
  <2>3. CASE inbox'[r] = inbox[r] BY <2>0, <2>1, <2>2, <2>3
  <2>4. CASE r \in holders[p] /\ inbox'[r] = Append(inbox[r], e)
    <3>1. HomeOf[r] = p BY <1>0, <2>4 DEF FrameInv, AtHome
    <3>2. \A i \in 1 .. Len(inbox[r]) : inbox[r][i].run # x
      <4>1. \A i \in 1 .. Len(inbox[r]) : inbox[r][i] \in Frame BY <2>0
      <4>2. QED BY <1>5, <4>1 DEF FrameInv, AllReceived
    <3>3. \A i \in 1 .. Len(wire[HomeOf[r]]) : wire[HomeOf[r]][i].run # x
      <4>1. \A i \in 1 .. Len(wire[HomeOf[r]]) : wire[HomeOf[r]][i] \in Frame BY <2>0
      <4>2. QED BY <1>5, <2>0, <4>1 DEF FrameInv, AllSent
    <3>4. InOrder(Append(inbox[r], e), wire[HomeOf[r]], HomeOf[r], overtaken)
      <4>1. \A i \in 1 .. Len(inbox[r]) : Precedes(inbox[r][i], e, overtaken)
        BY <1>3, <3>2 DEF Precedes
      <4>2. \A i \in 1 .. Len(wire[HomeOf[r]]) :
              Foreign(HomeOf[r], wire[HomeOf[r]][i]) => Precedes(e, wire[HomeOf[r]][i], overtaken)
        BY <1>3, <3>3 DEF Precedes
      <4>3. QED BY <1>3, <2>0, <2>1, <4>1, <4>2, OrderedPut
    <3>5. QED BY <1>3, <1>6, <2>0, <2>2, <2>4, <3>1, <3>4, AppendReceived
  <2>5. QED BY <1>1, <2>3, <2>4
<1>8. inbox' \in [Reader -> Seq(Frame)] BY <1>1, <1>7
<1>9. /\ wire' \in [Api -> Seq(Frame)] /\ AllSent(run', wire') /\ AllReceived(run', inbox')
      /\ AllInOrder(inbox', wire', overtaken') /\ AtHome(holders')
  BY <1>1, <1>4, <1>7 DEF FrameInv, AllReceived, AllInOrder
<1>10. QED BY <1>2, <1>8, <1>9 DEF FrameInv

(* ... and then to the exchange, which serves the readers of others.       *)
LEMMA SendSubmittedFrames ==
  ASSUME FrameInv, NEW x \in Run, SendSubmitted(x) PROVE FrameInv'
<1> DEFINE p == FromOf[x]
           e == Event(x, 0, "run_submitted")
<1>0. run[x].state = "submitting" /\ Published(x, "submitted") BY DEF SendSubmitted
<1>1. p \in Api /\ p \in Process BY StreamAssumption DEF Process
<1>2. /\ RunsTyped(run') /\ Keeps(run, run')
      /\ run'[x] = [state |-> "submitted", n |-> run[x].n + 1] /\ run[x].n \in Nat
  BY <1>0, Counts DEF FrameInv
<1>3. e \in Frame /\ e.run = x /\ e.n = run[x].n /\ e.origin = p
  BY <1>1, <1>2 DEF Frame, Telling, Event, By
<1>4. /\ UNCHANGED <<inbox, holders, overtaken>>
      /\ \/ wire' = wire
         \/ wire' = [q \in Api |-> IF bound[q] THEN Append(wire[q], e) ELSE wire[q]]
  BY DEF SendSubmitted, Route, Lose, bus, watching
<1> HIDE DEF e, p
<1>5. \A f \in Frame : Sent(run, f) => f.run # x BY <1>0 DEF Sent
<1>6. \A q : \A f \in Frame : Received(run, q, f) /\ f.run = x => q = p
  BY <1>0 DEF Received, p
<1>7. AllSent(run', wire) /\ AllReceived(run', inbox) BY <1>2, RunKeeps DEF FrameInv
<1>8. Sent(run', e) BY <1>2, <1>3 DEF Sent
<1>9. \A q \in Api : /\ wire'[q] \in Seq(Frame)
                     /\ \A i \in 1 .. Len(wire'[q]) : Sent(run', wire'[q][i])
  <2> SUFFICES ASSUME NEW q \in Api
               PROVE  /\ wire'[q] \in Seq(Frame)
                      /\ \A i \in 1 .. Len(wire'[q]) : Sent(run', wire'[q][i])
    OBVIOUS
  <2>1. wire[q] \in Seq(Frame) /\ \A i \in 1 .. Len(wire[q]) : Sent(run', wire[q][i])
    BY <1>7 DEF FrameInv, AllSent
  <2>2. CASE wire'[q] = wire[q] BY <2>1, <2>2
  <2>3. CASE wire'[q] = Append(wire[q], e) BY <1>3, <1>8, <2>1, <2>3, AppendSent
  <2>4. QED BY <1>4, <2>2, <2>3
<1>10. ASSUME NEW r \in Reader PROVE InOrder(inbox[r], wire'[HomeOf[r]], HomeOf[r], overtaken)
  <2>0. inbox[r] \in Seq(Frame) /\ HomeOf[r] \in Api /\ wire[HomeOf[r]] \in Seq(Frame)
    BY BusAssumption DEF FrameInv
  <2>1. InOrder(inbox[r], wire[HomeOf[r]], HomeOf[r], overtaken) BY DEF FrameInv, AllInOrder
  <2>2. CASE wire'[HomeOf[r]] = wire[HomeOf[r]] BY <2>1, <2>2
  <2>3. CASE wire'[HomeOf[r]] = Append(wire[HomeOf[r]], e)
    <3>1. ASSUME Foreign(HomeOf[r], e), NEW i \in 1 .. Len(inbox[r])
          PROVE  Precedes(inbox[r][i], e, overtaken)
      <4>1. inbox[r][i] \in Frame /\ Received(run, HomeOf[r], inbox[r][i]) /\ HomeOf[r] # p
        BY <1>3, <2>0, <3>1 DEF FrameInv, AllReceived, Foreign
      <4>2. QED BY <1>3, <1>6, <4>1 DEF Precedes
    <3>2. ASSUME NEW i \in 1 .. Len(wire[HomeOf[r]])
          PROVE  Precedes(wire[HomeOf[r]][i], e, overtaken)
      <4>1. wire[HomeOf[r]][i] \in Frame /\ Sent(run, wire[HomeOf[r]][i])
        BY <2>0 DEF FrameInv, AllSent
      <4>2. QED BY <1>3, <1>5, <4>1 DEF Precedes
    <3>3. QED BY <1>3, <2>0, <2>1, <2>3, <3>1, <3>2, OrderedSend
  <2>4. QED BY <1>4, <2>0, <2>2, <2>3
<1>11. wire' \in [Api -> Seq(Frame)]
  <2>1. wire' = [q \in Api |-> wire'[q]] BY <1>4 DEF FrameInv
  <2>2. QED BY <1>9, <2>1
<1>12. /\ inbox' \in [Reader -> Seq(Frame)] /\ AllReceived(run', inbox') /\ AtHome(holders')
       /\ AllSent(run', wire') /\ AllInOrder(inbox', wire', overtaken')
  BY <1>4, <1>7, <1>9, <1>10 DEF FrameInv, AllSent, AllInOrder
<1>13. QED BY <1>2, <1>11, <1>12 DEF FrameInv

(* A turn of which there is something to say is of a run that was sent.    *)
LEMMA Executing ==
  ASSUME RunsTyped(run), TurnsTyped(run, turns), NEW x \in Run, NEW t \in DOMAIN turns[x]
  PROVE  /\ run[x].state \in {"active", "ended"} /\ t \in 1 .. Len(turns[x]) /\ t # 0
         /\ turns[x][t] \in Turn /\ turns[x] \in Seq(Turn)
<1>1. turns[x] \in Seq(Turn) BY DEF TurnsTyped
<1>2. DOMAIN turns[x] = 1 .. Len(turns[x]) /\ Len(turns[x]) \in Nat BY <1>1
<1>3. turns[x] # <<>>
  <2>1. Len(<<>>) = 0 OBVIOUS
  <2>2. QED BY <1>2, <2>1
<1>4. run[x].state \in {"active", "ended"}
  BY <1>3 DEF TurnsTyped, RunsTyped, RunRecord, RunStates
<1>5. turns[x][t] \in Turn BY <1>1, <1>2
<1>6. QED BY <1>1, <1>2, <1>4, <1>5

(* A publication of a turn: the readers of its process, and those of       *)
(* others.  What the broker still has for the first is of other runs, or   *)
(* of other turns of an overtaken one.                                     *)
LEMMA PublishFrames ==
  ASSUME FrameInv, TurnInv, NEW x \in Run, NEW t \in DOMAIN turns[x],
         turns[x][t].pc \notin Silent,
         NEW name \in Telling \cup Terminal, NEW s \in {"active", "ended"},
         PublishFrom(Event(x, t, name)), Published(x, s), UNCHANGED overtaken
  PROVE  FrameInv'
<1> DEFINE p == turns[x][t].by
           e == Event(x, t, name)
           mine == IF p \in Api THEN holders[p] ELSE {}
<1>0. /\ run[x].state \in {"active", "ended"} /\ t \in 1 .. Len(turns[x]) /\ t # 0
      /\ turns[x][t] \in Turn /\ turns[x] \in Seq(Turn)
  BY Executing DEF FrameInv, TurnInv
<1>1. /\ RunsTyped(run') /\ Keeps(run, run') /\ run[x].n \in Nat
      /\ run'[x] = [state |-> s, n |-> run[x].n + 1]
      /\ \A y \in Run : y # x => run'[y] = run[y]
  BY <1>0, Counts DEF FrameInv
<1>2. p \in Process /\ t \in Nat BY <1>0 DEF Turn
<1>3. e \in Frame /\ e.run = x /\ e.turn = t /\ e.n = run[x].n /\ e.origin = p
  BY <1>0, <1>1, <1>2 DEF Frame, Event, By
<1>4. PICK sent : wire' = [q \in Api |-> IF sent /\ bound[q] THEN Append(wire[q], e) ELSE wire[q]]
  BY DEF PublishFrom
<1>5. /\ inbox' = [r \in Reader |-> IF r \in mine /\ ~Full(r) THEN Append(inbox[r], e)
                                    ELSE inbox[r]]
      /\ UNCHANGED holders
  BY <1>3 DEF PublishFrom, bus
<1>6. \A r \in mine : HomeOf[r] = p /\ p \in Api BY DEF FrameInv, AtHome
<1> HIDE DEF e, p, mine
<1>7. AllSent(run', wire) /\ AllReceived(run', inbox) BY <1>1, RunKeeps DEF FrameInv
<1>8. Sent(run', e) /\ \A q : Received(run', q, e)
  BY <1>1, <1>3 DEF Sent, Received
<1>9. ASSUME NEW q \in Api
      PROVE  /\ wire'[q] \in Seq(Frame)
             /\ \A i \in 1 .. Len(wire'[q]) : Sent(run', wire'[q][i])
  <2>1. wire[q] \in Seq(Frame) /\ \A i \in 1 .. Len(wire[q]) : Sent(run', wire[q][i])
    BY <1>7 DEF FrameInv, AllSent
  <2>2. CASE wire'[q] = wire[q] BY <2>1, <2>2
  <2>3. CASE wire'[q] = Append(wire[q], e) BY <1>3, <1>8, <2>1, <2>3, AppendSent
  <2>4. QED BY <1>4, <2>2, <2>3
<1>10. ASSUME NEW r \in Reader
       PROVE  /\ inbox'[r] \in Seq(Frame)
              /\ \A i \in 1 .. Len(inbox'[r]) : Received(run', HomeOf[r], inbox'[r][i])
  <2>1. inbox[r] \in Seq(Frame) /\ \A i \in 1 .. Len(inbox[r]) : Received(run', HomeOf[r], inbox[r][i])
    BY <1>7 DEF FrameInv, AllReceived
  <2>2. CASE inbox'[r] = inbox[r] BY <2>1, <2>2
  <2>3. CASE inbox'[r] = Append(inbox[r], e) BY <1>3, <1>8, <2>1, <2>3, AppendReceived
  <2>4. QED BY <1>5, <2>2, <2>3
<1>11. ASSUME NEW q \in Api, q = p, NEW i \in 1 .. Len(wire[q]), Foreign(q, wire[q][i])
       PROVE  Precedes(e, wire[q][i], overtaken)
  <2>1. Made(turns, wire[q][i]) BY DEF TurnInv, AllMade
  <2>2. wire[q][i].run = x => wire[q][i].turn # t
    BY <1>0, <1>11, <2>1 DEF Made, Foreign, p
  <2>3. x \notin overtaken => wire[q][i].run # x
    BY <1>0, <1>11 DEF TurnInv, AllClear, Clear, Cleared, p
  <2>4. QED BY <1>3, <2>2, <2>3 DEF Precedes
<1>12. ASSUME NEW r \in Reader PROVE InOrder(inbox'[r], wire'[HomeOf[r]], HomeOf[r], overtaken)
  <2>0. inbox[r] \in Seq(Frame) /\ HomeOf[r] \in Api /\ wire[HomeOf[r]] \in Seq(Frame)
    BY BusAssumption DEF FrameInv
  <2>1. InOrder(inbox[r], wire[HomeOf[r]], HomeOf[r], overtaken) BY DEF FrameInv, AllInOrder
  <2>2. \A i \in 1 .. Len(inbox[r]) : Precedes(inbox[r][i], e, overtaken)
    <3>1. ASSUME NEW i \in 1 .. Len(inbox[r]) PROVE Precedes(inbox[r][i], e, overtaken)
      <4>1. Received(run, HomeOf[r], inbox[r][i]) BY DEF FrameInv, AllReceived
      <4>2. QED BY <1>0, <1>3, <4>1 DEF Precedes, Received
    <3>2. QED BY <3>1
  <2>3. \A i \in 1 .. Len(wire[HomeOf[r]]) : Precedes(wire[HomeOf[r]][i], e, overtaken)
    <3>1. ASSUME NEW i \in 1 .. Len(wire[HomeOf[r]])
          PROVE  Precedes(wire[HomeOf[r]][i], e, overtaken)
      <4>1. Sent(run, wire[HomeOf[r]][i]) BY <2>0 DEF FrameInv, AllSent
      <4>2. QED BY <1>3, <4>1 DEF Precedes, Sent
    <3>2. QED BY <3>1
  <2>4. InOrder(inbox'[r], wire[HomeOf[r]], HomeOf[r], overtaken)
    <3>1. CASE inbox'[r] = inbox[r] BY <2>1, <3>1
    <3>2. CASE r \in mine /\ inbox'[r] = Append(inbox[r], e)
      <4>1. HomeOf[r] = p BY <1>6, <3>2
      <4>2. \A i \in 1 .. Len(wire[HomeOf[r]]) :
              Foreign(HomeOf[r], wire[HomeOf[r]][i]) => Precedes(e, wire[HomeOf[r]][i], overtaken)
        BY <1>11, <2>0, <4>1
      <4>3. QED BY <1>3, <2>0, <2>1, <2>2, <3>2, <4>2, OrderedPut
    <3>3. QED BY <1>5, <3>1, <3>2
  <2>5. CASE wire'[HomeOf[r]] = wire[HomeOf[r]] BY <2>4, <2>5
  <2>6. CASE wire'[HomeOf[r]] = Append(wire[HomeOf[r]], e)
    <3>1. ASSUME Foreign(HomeOf[r], e) PROVE inbox'[r] = inbox[r]
      BY <1>3, <1>5, <1>6, <3>1 DEF Foreign
    <3>2. inbox'[r] \in Seq(Frame) BY <1>10
    <3>3. Foreign(HomeOf[r], e) => \A i \in 1 .. Len(inbox'[r]) : Precedes(inbox'[r][i], e, overtaken)
      BY <2>2, <3>1
    <3>4. QED BY <1>3, <2>0, <2>3, <2>4, <2>6, <3>2, <3>3, OrderedSend
  <2>7. QED BY <1>4, <2>0, <2>5, <2>6
<1>13. wire' \in [Api -> Seq(Frame)] /\ inbox' \in [Reader -> Seq(Frame)]
  <2>1. wire' = [q \in Api |-> wire'[q]] BY <1>4
  <2>2. inbox' = [r \in Reader |-> inbox'[r]] BY <1>5
  <2>3. QED BY <1>9, <1>10, <2>1, <2>2
<1>14. /\ AllSent(run', wire') /\ AllReceived(run', inbox')
       /\ AllInOrder(inbox', wire', overtaken') /\ AtHome(holders')
  BY <1>5, <1>9, <1>10, <1>12 DEF FrameInv, AllSent, AllReceived, AllInOrder
<1>15. QED BY <1>1, <1>13, <1>14 DEF FrameInv
LEMMA TailSent ==
  ASSUME NEW v \in Seq(Frame), v # <<>>, NEW rn, \A i \in 1 .. Len(v) : Sent(rn, v[i])
  PROVE  /\ Tail(v) \in Seq(Frame) /\ Head(v) \in Frame /\ Sent(rn, Head(v))
         /\ \A i \in 1 .. Len(Tail(v)) : Sent(rn, Tail(v)[i])
<1>1. /\ Tail(v) \in Seq(Frame) /\ Len(Tail(v)) = Len(v) - 1 /\ Len(v) \in Nat \ {0}
      /\ \A i \in 1 .. Len(v) - 1 : Tail(v)[i] = v[i + 1]
      /\ Head(v) = v[1] /\ v[1] \in Frame
  BY TailFrames
<1>2. \A i \in 1 .. Len(v) - 1 : i + 1 \in 1 .. Len(v) BY <1>1
<1>3. 1 \in 1 .. Len(v) BY <1>1
<1>4. QED BY <1>1, <1>2, <1>3

(* The broker delivers a frame: to every reader of the process, or, when   *)
(* the process published it, to none.                                      *)
LEMMA ConsumeFrames ==
  ASSUME FrameInv, NEW p \in Api, Consume(p), UNCHANGED <<run, overtaken>> PROVE FrameInv'
<1> DEFINE e == Head(wire[p])
<1>1. /\ wire[p] # <<>> /\ wire' = [wire EXCEPT ![p] = Tail(wire[p])]
      /\ UNCHANGED holders
  BY DEF Consume
<1>2. /\ Foreign(p, e) => inbox' = [r \in Reader |-> IF r \in holders[p] /\ ~Full(r)
                                                     THEN Append(inbox[r], e) ELSE inbox[r]]
      /\ ~Foreign(p, e) => inbox' = inbox
  BY DEF Consume, Fanout
<1>3. /\ wire[p] \in Seq(Frame) /\ Tail(wire[p]) \in Seq(Frame) /\ e \in Frame
      /\ Sent(run, e)
      /\ \A i \in 1 .. Len(Tail(wire[p])) : Sent(run, Tail(wire[p])[i])
  BY <1>1, TailSent DEF FrameInv, AllSent
<1> HIDE DEF e
<1>4. /\ wire'[p] = Tail(wire[p]) /\ \A q \in Api \ {p} : wire'[q] = wire[q]
      /\ wire' \in [Api -> Seq(Frame)]
  BY <1>1, <1>3 DEF FrameInv
<1>5. AllSent(run, wire') BY <1>3, <1>4 DEF FrameInv, AllSent
<1>6. Received(run, p, e) BY <1>3 DEF Received, Sent
<1>7. ASSUME NEW r \in Reader
      PROVE  /\ inbox'[r] \in Seq(Frame)
             /\ \A i \in 1 .. Len(inbox'[r]) : Received(run, HomeOf[r], inbox'[r][i])
             /\ InOrder(inbox'[r], wire'[HomeOf[r]], HomeOf[r], overtaken)
  <2>1. /\ inbox[r] \in Seq(Frame) /\ HomeOf[r] \in Api
        /\ \A i \in 1 .. Len(inbox[r]) : Received(run, HomeOf[r], inbox[r][i])
        /\ InOrder(inbox[r], wire[HomeOf[r]], HomeOf[r], overtaken)
    BY BusAssumption DEF FrameInv, AllReceived, AllInOrder
  <2>2. CASE inbox'[r] = inbox[r]
    <3>1. CASE HomeOf[r] = p BY <1>1, <1>3, <1>4, <2>1, <2>2, <3>1, OrderedDrop
    <3>2. CASE HomeOf[r] # p BY <1>4, <2>1, <2>2, <3>2
    <3>3. QED BY <3>1, <3>2
  <2>3. CASE r \in holders[p] /\ Foreign(p, e) /\ inbox'[r] = Append(inbox[r], e)
    <3>1. HomeOf[r] = p BY <2>3 DEF FrameInv, AtHome
    <3>2. InOrder(Append(inbox[r], e), Tail(wire[p]), p, overtaken)
      BY <1>1, <1>3, <2>1, <2>3, <3>1, OrderedMove DEF e
    <3>3. QED BY <1>3, <1>4, <1>6, <2>1, <2>3, <3>1, <3>2, AppendReceived
  <2>4. QED BY <1>2, <2>2, <2>3
<1>8. inbox' \in [Reader -> Seq(Frame)]
  <2>1. inbox' = [r \in Reader |-> inbox'[r]] BY <1>2 DEF FrameInv
  <2>2. QED BY <1>7, <2>1
<1>9. AllReceived(run, inbox') /\ AllInOrder(inbox', wire', overtaken') /\ AtHome(holders')
  BY <1>1, <1>7 DEF FrameInv, AllReceived, AllInOrder
<1>10. QED BY <1>4, <1>5, <1>8, <1>9 DEF FrameInv

(* ... and likewise.                                                       *)
LEMMA TailReceived ==
  ASSUME NEW u \in Seq(Frame), u # <<>>, NEW rn, NEW p,
         \A i \in 1 .. Len(u) : Received(rn, p, u[i])
  PROVE  Tail(u) \in Seq(Frame) /\ \A i \in 1 .. Len(Tail(u)) : Received(rn, p, Tail(u)[i])
<1>1. /\ Tail(u) \in Seq(Frame) /\ Len(Tail(u)) = Len(u) - 1 /\ Len(u) \in Nat \ {0}
      /\ \A i \in 1 .. Len(u) - 1 : Tail(u)[i] = u[i + 1]
  BY TailFrames
<1>2. \A i \in 1 .. Len(u) - 1 : i + 1 \in 1 .. Len(u) BY <1>1
<1>3. QED BY <1>1, <1>2

(* A reader takes its first frame, or goes and leaves them all.            *)
LEMMA ReaderFrames ==
  ASSUME FrameInv, NEW r \in Reader, NEW t,
         t = <<>> \/ (inbox[r] # <<>> /\ t = Tail(inbox[r])),
         inbox' = [inbox EXCEPT ![r] = t], UNCHANGED <<run, wire, overtaken>>, AtHome(holders')
  PROVE  FrameInv'
<1>1. /\ inbox[r] \in Seq(Frame) /\ HomeOf[r] \in Api /\ wire[HomeOf[r]] \in Seq(Frame)
      /\ \A i \in 1 .. Len(inbox[r]) : Received(run, HomeOf[r], inbox[r][i])
      /\ InOrder(inbox[r], wire[HomeOf[r]], HomeOf[r], overtaken)
  BY BusAssumption DEF FrameInv, AllReceived, AllInOrder
<1>2. /\ t \in Seq(Frame) /\ \A i \in 1 .. Len(t) : Received(run, HomeOf[r], t[i])
      /\ InOrder(t, wire[HomeOf[r]], HomeOf[r], overtaken)
  <2>1. CASE t = <<>>
    <3>1. t \in Seq(Frame) /\ Len(t) = 0 BY <2>1
    <3>2. QED BY <1>1, <3>1 DEF InOrder
  <2>2. CASE inbox[r] # <<>> /\ t = Tail(inbox[r]) BY <1>1, <2>2, TailReceived, OrderedTail
  <2>3. QED BY <2>1, <2>2
<1>3. /\ inbox' \in [Reader -> Seq(Frame)] /\ inbox'[r] = t
      /\ \A s \in Reader \ {r} : inbox'[s] = inbox[s]
  BY <1>2 DEF FrameInv
<1>4. AllReceived(run, inbox') /\ AllInOrder(inbox', wire, overtaken')
  BY <1>2, <1>3 DEF FrameInv, AllReceived, AllInOrder
<1>5. QED BY <1>3, <1>4 DEF FrameInv

LEMMA SubscriptionAtHome ==
  ASSUME FrameInv, NEW r \in Reader, Subscribe(r) \/ Unsubscribe(r) PROVE AtHome(holders')
<1>1. PICK p \in Api : p = HomeOf[r] BY BusAssumption
<1>2. PICK hs \in SUBSET (holders[p] \cup {r}) : holders' = [holders EXCEPT ![p] = hs]
  <2>1. CASE Subscribe(r) BY <1>1, <2>1 DEF Subscribe
  <2>2. CASE Unsubscribe(r) BY <1>1, <2>2 DEF Unsubscribe
  <2>3. QED BY <2>1, <2>2
<1>3. hs \subseteq Reader /\ \A s \in hs : HomeOf[s] = p BY <1>1 DEF FrameInv, AtHome
<1>4. QED BY <1>2, <1>3 DEF FrameInv, AtHome

LEMMA FramesAtFirst == ASSUME StreamInit PROVE FrameInv
<1>1. /\ run = [x \in Run |-> [state |-> "new", n |-> 0]]
      /\ wire = [p \in Api |-> <<>>] /\ inbox = [r \in Reader |-> <<>>]
      /\ holders = [p \in Api |-> {}]
  BY DEF StreamInit, BusInit
<1>2. RunsTyped(run)
  <2>1. [state |-> "new", n |-> 0] \in RunRecord BY DEF RunRecord, RunStates
  <2>2. QED BY <1>1, <2>1 DEF RunsTyped
<1>3. AtHome(holders) BY <1>1 DEF AtHome
<1>4. <<>> \in Seq(Frame) /\ Len(<<>>) = 0 OBVIOUS
<1>5. wire \in [Api -> Seq(Frame)] /\ inbox \in [Reader -> Seq(Frame)] BY <1>1, <1>4
<1>6. AllSent(run, wire) /\ AllReceived(run, inbox)
  BY <1>1, <1>4 DEF AllSent, AllReceived
<1>7. AllInOrder(inbox, wire, overtaken)
  <2>1. \A p : InOrder(<<>>, <<>>, p, overtaken) BY <1>4 DEF InOrder
  <2>2. QED BY <1>1, <2>1, BusAssumption DEF AllInOrder
<1>8. QED BY <1>2, <1>3, <1>5, <1>6, <1>7 DEF FrameInv

LEMMA BeginFrames ==
  ASSUME FrameInv, TurnInv, NEW x \in Run, NEW w \in Process, Begin(x, w) PROVE FrameInv'
<1>1. /\ run' = [run EXCEPT ![x].state = "active"] /\ UNCHANGED <<inbox, wire, holders>>
      /\ overtaken \subseteq overtaken' /\ Envelope(x, w)
  BY DEF Begin, busVars
<1>2. run[x].state # "submitting" BY <1>1 DEF Envelope, TurnInv, TurnsTyped
<1>3. QED BY <1>1, <1>2, BecomesFrames

(* A step of a turn.                                                       *)
LEMMA TurnFrames ==
  ASSUME FrameInv, TurnInv, NEW x \in Run, NEW t \in DOMAIN turns[x],
         \/ Delta(x, t) \/ Ask(x, t) \/ Interrupted(x, t) \/ Leave(x, t) \/ Settle(x, t)
         \/ Finish(x, t, "run_completed") \/ Finish(x, t, "run_failed") \/ Lost(x, t)
         \/ \E y \in Run : SpawnChild(y, x, t)
  PROVE  FrameInv'
<1>0. run[x].state \in {"active", "ended"} BY Executing DEF FrameInv, TurnInv
<1>1. AtHome(holders) /\ RunsTyped(run) BY DEF FrameInv
<1>2. CASE Delta(x, t)
  <2>1. "speaking" \in Telling BY DEF Telling
  <2>2. turns[x][t].pc \notin Silent BY <1>2 DEF Delta, At, Silent
  <2>3. PublishFrom(Event(x, t, "speaking")) /\ Published(x, run[x].state) /\ UNCHANGED overtaken
    BY <1>2 DEF Delta, watching
  <2>4. QED BY <1>0, <2>1, <2>2, <2>3, PublishFrames
<1>3. CASE Interrupted(x, t)
  <2>1. "run_interrupted" \in Telling BY DEF Telling
  <2>2. turns[x][t].pc \notin Silent BY <1>3 DEF Interrupted, At, Silent
  <2>3. /\ PublishFrom(Event(x, t, "run_interrupted")) /\ Published(x, run[x].state)
        /\ UNCHANGED overtaken
    BY <1>3 DEF Interrupted, watching
  <2>4. QED BY <1>0, <2>1, <2>2, <2>3, PublishFrames
<1>4. CASE Finish(x, t, "run_completed") \/ Finish(x, t, "run_failed")
  <2>1. PICK name \in Terminal : Finish(x, t, name) BY <1>4 DEF Terminal
  <2>2. turns[x][t].pc \notin Silent BY <2>1 DEF Finish, At, Silent
  <2>3. PublishFrom(Event(x, t, name)) /\ Published(x, "ended") /\ UNCHANGED overtaken
    BY <2>1 DEF Finish, watching
  <2>4. QED BY <2>2, <2>3, PublishFrames
<1>5. CASE Ask(x, t)
  <2>1. /\ run' = [run EXCEPT ![x].state = "active"]
        /\ UNCHANGED <<inbox, wire, holders, overtaken>>
    BY <1>5 DEF Ask, busVars, watching
  <2>2. QED BY <1>0, <2>1, BecomesFrames
<1>6. CASE Leave(x, t) \/ Settle(x, t)
  <2>1. UNCHANGED <<run, inbox, wire, holders, overtaken>>
    BY <1>6 DEF Leave, Settle, busVars, watching
  <2>2. QED BY <1>1, <2>1, FramesStay, NothingKept
<1>7. CASE Lost(x, t)
  <2>1. UNCHANGED <<inbox, wire, holders, overtaken>> BY <1>7 DEF Lost, busVars
  <2>2. run' = run \/ run' = [run EXCEPT ![x].state = "ended"] BY <1>7 DEF Lost
  <2>3. CASE run' = run BY <1>1, <2>1, <2>3, FramesStay, NothingKept
  <2>4. CASE run' = [run EXCEPT ![x].state = "ended"] BY <1>0, <2>1, <2>4, BecomesFrames
  <2>5. QED BY <2>2, <2>3, <2>4
<1>8. ASSUME NEW y \in Run, SpawnChild(y, x, t) PROVE FrameInv'
  <2>1. /\ run' = [run EXCEPT ![y].state = "submitted"] /\ run[y].state = "new"
        /\ UNCHANGED <<inbox, wire, holders, overtaken>>
    BY <1>8 DEF SpawnChild, busVars
  <2>2. QED BY <2>1, BecomesFrames
<1>9. QED BY <1>2, <1>3, <1>4, <1>5, <1>6, <1>7, <1>8

LEMMA FramesInductive == FrameInv /\ TurnInv /\ [StreamNext]_streamVars => FrameInv'
<1> SUFFICES ASSUME FrameInv, TurnInv, [StreamNext]_streamVars PROVE FrameInv'
  OBVIOUS
<1>0. RunsTyped(run) /\ AtHome(holders) BY DEF FrameInv
<1>1. ASSUME UNCHANGED <<run, wire, inbox, holders, overtaken>> PROVE FrameInv'
  BY <1>0, <1>1, FramesStay, NothingKept
<1>2. CASE UNCHANGED streamVars BY <1>1, <1>2 DEF streamVars, busVars
<1>3. ASSUME NEW x \in Run, EndSilently(x) PROVE FrameInv'
  <2>1. /\ run' = [run EXCEPT ![x].state = "ended"] /\ run[x].state # "submitting"
        /\ UNCHANGED <<inbox, wire, holders, overtaken>>
    BY <1>3 DEF EndSilently, busVars
  <2>2. QED BY <2>1, BecomesFrames
<1>4. ASSUME NEW x \in Run, \/ SubmitRun(x) \/ SendSubmitted(x)
                           \/ \E w \in Process : Begin(x, w)
      PROVE  FrameInv'
  BY <1>4, SubmitRunFrames, SendSubmittedFrames, BeginFrames
<1>5. ASSUME NEW r \in Reader, Take(r) PROVE FrameInv'
  <2>1. /\ inbox[r] # <<>> /\ inbox' = [inbox EXCEPT ![r] = Tail(inbox[r])]
        /\ UNCHANGED <<run, wire, holders, overtaken>>
    BY <1>5 DEF Take, bus
  <2>2. QED BY <1>0, <2>1, ReaderFrames
<1>6. ASSUME NEW r \in Reader, Connected(r) \/ ((Wake(r) \/ Cancel(r)) /\ Quietly)
      PROVE  FrameInv'
  <2>1. UNCHANGED <<run, wire, inbox, holders, overtaken>>
    BY <1>6 DEF Connected, Wake, Cancel, Quietly, busVars, watching
  <2>2. QED BY <1>1, <2>1
<1>7. ASSUME NEW r \in Reader, SubscribeTo(r) PROVE FrameInv'
  <2>1. Subscribe(r) /\ UNCHANGED <<run, wire, inbox, overtaken>>
    BY <1>7 DEF SubscribeTo, Subscribe
  <2>2. AtHome(holders') BY <2>1, SubscriptionAtHome
  <2>3. QED BY <1>0, <2>1, <2>2, FramesStay, NothingKept
<1>8. ASSUME NEW r \in Reader, UnsubscribeFrom(r) PROVE FrameInv'
  <2>1. /\ Unsubscribe(r) /\ inbox' = [inbox EXCEPT ![r] = <<>>]
        /\ UNCHANGED <<run, wire, overtaken>>
    BY <1>8 DEF UnsubscribeFrom, Unsubscribe
  <2>2. AtHome(holders') BY <2>1, SubscriptionAtHome
  <2>3. QED BY <2>1, <2>2, ReaderFrames
<1>9. ASSUME NEW p \in Api, Consume(p), Quietly PROVE FrameInv'
  BY <1>9, ConsumeFrames DEF Quietly, watching
<1>10. ASSUME NEW p \in Api, \/ EnsureForPublish(p)
                             \/ ((Build(p) \/ BuildFails(p) \/ BuildTimesOut(p) \/ Answer(p)) /\ Quietly)
       PROVE  FrameInv'
  <2>1. UNCHANGED <<run, wire, inbox, holders, overtaken>>
    BY <1>10 DEF EnsureForPublish, Build, BuildFails, BuildTimesOut, Answer, Quietly, watching
  <2>2. QED BY <1>1, <2>1
<1>11. CASE \/ \E x \in Run : SubmitRun(x) \/ SendSubmitted(x) \/ EndSilently(x)
            \/ \E x \in Run, w \in Process : Begin(x, w)
  BY <1>3, <1>4, <1>11
<1>12. CASE \E x \in Run : \E t \in DOMAIN turns[x] :
              \/ Delta(x, t) \/ Ask(x, t) \/ Interrupted(x, t) \/ Leave(x, t) \/ Settle(x, t)
              \/ Finish(x, t, "run_completed") \/ Finish(x, t, "run_failed") \/ Lost(x, t)
              \/ \E y \in Run : SpawnChild(y, x, t)
  BY <1>12, TurnFrames
<1>13. CASE \/ \E r \in Reader : Take(r) \/ Connected(r) \/ SubscribeTo(r) \/ UnsubscribeFrom(r)
            \/ \E r \in Reader : (Wake(r) \/ Cancel(r)) /\ Quietly
  BY <1>5, <1>6, <1>7, <1>8, <1>13
<1>14. CASE \/ \E p \in Api : EnsureForPublish(p)
            \/ \E p \in Api : (Consume(p) \/ Build(p) \/ BuildFails(p) \/ BuildTimesOut(p)
                                \/ Answer(p)) /\ Quietly
  BY <1>9, <1>10, <1>14
<1>15. QED BY <1>2, <1>11, <1>12, <1>13, <1>14 DEF StreamNext
-----------------------------------------------------------------------------
(* Turns and what they publish.                                            *)

LEMMA TurnGoes ==
  ASSUME TurnsTyped(run, turns), NEW x \in Run, NEW t \in DOMAIN turns[x],
         NEW pc \in TurnStates, Goes(x, t, pc)
  PROVE  /\ turns' \in [Run -> Seq(Turn)]
         /\ \A y \in Run : Len(turns'[y]) = Len(turns[y]) /\ Len(turns[y]) \in Nat
         /\ \A y \in Run : turns[y] = <<>> => turns'[y] = <<>>
         /\ turns'[x][t] = [by |-> turns[x][t].by, pc |-> pc]
         /\ \A y \in Run : \A s \in 1 .. Len(turns[y]) :
              ~(y = x /\ s = t) => turns'[y][s] = turns[y][s]
         /\ \A y \in Run : \A s \in 1 .. Len(turns[y]) : turns'[y][s].by = turns[y][s].by
<1>1. /\ turns \in [Run -> Seq(Turn)] /\ turns[x] \in Seq(Turn)
      /\ t \in 1 .. Len(turns[x]) /\ turns[x][t] \in Turn
  BY DEF TurnsTyped
<1>2. turns' = [turns EXCEPT ![x] = [turns[x] EXCEPT ![t] = [turns[x][t] EXCEPT !.pc = pc]]]
  BY DEF Goes
<1> DEFINE new == [by |-> turns[x][t].by, pc |-> pc]
           s2 == [turns[x] EXCEPT ![t] = new]
<1>3. [turns[x][t] EXCEPT !.pc = pc] = new /\ new \in Turn BY <1>1 DEF Turn
<1>4. turns' = [turns EXCEPT ![x] = s2] BY <1>2, <1>3
<1> HIDE DEF new
<1>5. /\ s2 \in Seq(Turn) /\ Len(s2) = Len(turns[x]) /\ s2[t] = new
      /\ \A s \in 1 .. Len(turns[x]) : s # t => s2[s] = turns[x][s]
  BY <1>1, <1>3
<1>6. turns[x] # <<>>
  <2>1. Len(<<>>) = 0 OBVIOUS
  <2>2. QED BY <1>1, <2>1
<1> HIDE DEF s2
<1>7. /\ turns' \in [Run -> Seq(Turn)] /\ turns'[x] = s2
      /\ \A y \in Run : y # x => turns'[y] = turns[y]
  BY <1>1, <1>4, <1>5
<1>8. \A y \in Run : Len(turns[y]) \in Nat BY <1>1
<1>9. new.by = turns[x][t].by BY DEF new
<1>10. QED BY <1>1, <1>5, <1>6, <1>7, <1>8, <1>9 DEF new

(* Steps that begin no turn, and bring frames of turns to the broker at    *)
(* most.                                                                   *)
Keep(ts, us) ==
  \A y \in Run : /\ Len(us[y]) = Len(ts[y])
                 /\ \A s \in 1 .. Len(ts[y]) :
                      /\ us[y][s].by = ts[y][s].by
                      /\ us[y][s].pc \notin Silent => ts[y][s].pc \notin Silent
Among(w, z, es) ==
  \A q \in Api : \A i \in 1 .. Len(z[q]) :
    z[q][i] \in es \/ \E j \in 1 .. Len(w[q]) : z[q][i] = w[q][j]

LEMMA PublishersStay ==
  ASSUME FrameInv, TurnInv, Keep(turns, turns'), UNCHANGED overtaken,
         NEW es \in SUBSET Frame, Among(wire, wire', es),
         \A e \in es : Made(turns, e),
         \A e \in es : \A t \in 1 .. Len(turns[e.run]) :
           turns[e.run][t].pc \notin Silent => turns[e.run][t].by = e.origin \/ e.run \in overtaken
  PROVE  AllMade(turns', wire') /\ AllClear(turns', wire', overtaken')
<1>0. \A q \in Api : \A i \in 1 .. Len(wire[q]) : wire[q][i] \in Frame BY DEF FrameInv
<1>1. \A e \in Frame : e.run \in Run BY DEF Frame
<1>2. \A y \in Run : Len(turns[y]) \in Nat BY DEF TurnInv, TurnsTyped
<1>3. ASSUME NEW e \in Frame, Made(turns, e) PROVE Made(turns', e)
  <2>1. /\ e.run \in Run /\ Len(turns'[e.run]) = Len(turns[e.run])
        /\ \A s \in 1 .. Len(turns[e.run]) : turns'[e.run][s].by = turns[e.run][s].by
    BY <1>1 DEF Keep
  <2>2. e.turn \in 0 .. Len(turns[e.run]) /\ Len(turns[e.run]) \in Nat
    BY <1>2, <1>3, <2>1 DEF Made
  <2>3. e.turn # 0 => e.turn \in 1 .. Len(turns[e.run]) BY <2>2
  <2>4. QED BY <1>3, <2>1, <2>2, <2>3 DEF Made
<1>4. AllMade(turns', wire')
  <2>1. ASSUME NEW q \in Api, NEW i \in 1 .. Len(wire'[q]) PROVE Made(turns', wire'[q][i])
    <3>1. CASE wire'[q][i] \in es BY <1>3, <3>1
    <3>2. CASE \E j \in 1 .. Len(wire[q]) : wire'[q][i] = wire[q][j]
      <4>1. PICK j \in 1 .. Len(wire[q]) : wire'[q][i] = wire[q][j] BY <3>2
      <4>2. Made(turns, wire[q][j]) BY DEF TurnInv, AllMade
      <4>3. QED BY <1>0, <1>3, <4>1, <4>2
    <3>3. QED BY <3>1, <3>2 DEF Among
  <2>2. QED BY <2>1 DEF AllMade
<1>5. ASSUME NEW x \in Run \ overtaken, NEW t \in 1 .. Len(turns'[x]),
             turns'[x][t].pc \notin Silent
      PROVE  t = Len(turns'[x]) /\ (turns'[x][t].by \in Api => Cleared(x, turns'[x][t].by, wire'))
  <2>1. /\ Len(turns'[x]) = Len(turns[x]) /\ t \in 1 .. Len(turns[x])
        /\ turns'[x][t].by = turns[x][t].by /\ turns[x][t].pc \notin Silent
    BY <1>5 DEF Keep
  <2>2. t = Len(turns[x]) /\ (turns[x][t].by \in Api => Cleared(x, turns[x][t].by, wire))
    BY <2>1 DEF TurnInv, AllClear, Clear
  <2>3. ASSUME NEW q \in Api, q = turns[x][t].by, NEW i \in 1 .. Len(wire'[q]), wire'[q][i].run = x
        PROVE  ~Foreign(q, wire'[q][i])
    <3>1. CASE wire'[q][i] \in es BY <1>5, <2>1, <2>3, <3>1 DEF Foreign
    <3>2. CASE \E j \in 1 .. Len(wire[q]) : wire'[q][i] = wire[q][j]
      BY <2>2, <2>3, <3>2 DEF Cleared
    <3>3. QED BY <3>1, <3>2 DEF Among
  <2>4. QED BY <2>1, <2>2, <2>3 DEF Cleared
<1>6. AllClear(turns', wire', overtaken') BY <1>5 DEF AllClear, Clear
<1>7. QED BY <1>4, <1>6

LEMMA NoneAmong == wire' = wire => Among(wire, wire', {}) BY DEF Among

LEMMA AppendAmong ==
  ASSUME FrameInv, NEW e \in Frame,
         \A q \in Api : wire'[q] = wire[q] \/ wire'[q] = Append(wire[q], e)
  PROVE  Among(wire, wire', {e})
<1> SUFFICES ASSUME NEW q \in Api, NEW i \in 1 .. Len(wire'[q])
             PROVE  wire'[q][i] = e \/ \E j \in 1 .. Len(wire[q]) : wire'[q][i] = wire[q][j]
  BY DEF Among
<1>1. CASE wire'[q] = wire[q] BY <1>1
<1>2. CASE wire'[q] = Append(wire[q], e)
  <2>1. wire[q] \in Seq(Frame) BY DEF FrameInv
  <2>2. /\ Len(wire'[q]) = Len(wire[q]) + 1 /\ Len(wire[q]) \in Nat
        /\ \A j \in 1 .. Len(wire[q]) : wire'[q][j] = wire[q][j]
        /\ wire'[q][Len(wire[q]) + 1] = e
    BY <1>2, <2>1, AppendFrame
  <2>3. i \in 1 .. Len(wire[q]) \/ i = Len(wire[q]) + 1 BY <2>2
  <2>4. QED BY <2>2, <2>3
<1>3. QED BY <1>1, <1>2

LEMMA TailAmong ==
  ASSUME FrameInv, NEW p \in Api, Consume(p) PROVE Among(wire, wire', {})
<1>1. /\ wire[p] # <<>> /\ wire[p] \in Seq(Frame) /\ wire'[p] = Tail(wire[p])
      /\ \A q \in Api : q # p => wire'[q] = wire[q]
  BY DEF Consume, FrameInv
<1>2. /\ Len(wire'[p]) = Len(wire[p]) - 1 /\ Len(wire[p]) \in Nat \ {0}
      /\ \A i \in 1 .. Len(wire[p]) - 1 : wire'[p][i] = wire[p][i + 1]
  BY <1>1, TailFrames
<1>3. \A i \in 1 .. Len(wire'[p]) : i + 1 \in 1 .. Len(wire[p]) /\ wire'[p][i] = wire[p][i + 1]
  BY <1>2
<1>4. ASSUME NEW q \in Api, NEW i \in 1 .. Len(wire'[q])
      PROVE  \E j \in 1 .. Len(wire[q]) : wire'[q][i] = wire[q][j]
  <2>1. CASE q = p BY <1>3, <2>1
  <2>2. CASE q # p BY <1>1, <2>2
  <2>3. QED BY <2>1, <2>2
<1>5. QED BY <1>4 DEF Among

(* Steps of no turn.                                                       *)
LEMMA TurnsStay ==
  ASSUME FrameInv, TurnInv, UNCHANGED <<turns, overtaken>>, Among(wire, wire', {}),
         \A x \in Run : run'[x].state \in {"new", "submitting", "submitted"} => turns[x] = <<>>,
         \/ muted'
         \/ muted' = muted /\ \A x \in Run : run[x].state = "active" => run'[x].state = "active"
  PROVE  TurnInv'
<1>1. Keep(turns, turns') BY DEF Keep
<1>2. AllMade(turns', wire') /\ AllClear(turns', wire', overtaken')
  BY <1>1, PublishersStay
<1>3. TurnsTyped(run', turns') BY DEF TurnInv, TurnsTyped
<1>4. Told(run', turns', muted', overtaken') BY DEF TurnInv, Told
<1>5. QED BY <1>2, <1>3, <1>4 DEF TurnInv

LEMMA SubmitRunTurns == ASSUME FrameInv, TurnInv, NEW x \in Run, SubmitRun(x) PROVE TurnInv'
<1>1. /\ run[x].state = "new" /\ run' = [run EXCEPT ![x].state = "submitting"]
      /\ UNCHANGED <<wire, turns, muted, overtaken>>
  BY DEF SubmitRun
<1>2. /\ run'[x].state = "submitting" /\ \A y \in Run : y # x => run'[y] = run[y]
  <2>1. "submitting" \in RunStates \ {"new"} /\ run[x].state # "submitting" BY <1>1 DEF RunStates
  <2>2. QED BY <1>1, <2>1, Becomes DEF FrameInv
<1>3. QED BY <1>1, <1>2, TurnsStay, NoneAmong DEF TurnInv, TurnsTyped

LEMMA EndSilentlyTurns == ASSUME FrameInv, TurnInv, NEW x \in Run, EndSilently(x) PROVE TurnInv'
<1>1. /\ run[x].state \in {"submitted", "active"} /\ run' = [run EXCEPT ![x].state = "ended"]
      /\ UNCHANGED <<wire, turns, overtaken>> /\ muted' = TRUE
  BY DEF EndSilently, busVars
<1>2. /\ run'[x].state = "ended" /\ \A y \in Run : y # x => run'[y] = run[y]
  <2>1. "ended" \in RunStates \ {"new"} /\ run[x].state # "submitting" BY <1>1 DEF RunStates
  <2>2. QED BY <1>1, <2>1, Becomes DEF FrameInv
<1>3. QED BY <1>1, <1>2, TurnsStay, NoneAmong DEF TurnInv, TurnsTyped

(* The submission is published as of no turn.                              *)
LEMMA SendSubmittedTurns ==
  ASSUME FrameInv, TurnInv, NEW x \in Run, SendSubmitted(x) PROVE TurnInv'
<1> DEFINE e == Event(x, 0, "run_submitted")
<1>1. /\ run[x].state = "submitting" /\ Published(x, "submitted")
      /\ UNCHANGED <<turns, muted, overtaken>>
      /\ \A q \in Api : wire'[q] = wire[q] \/ wire'[q] = Append(wire[q], e)
  <2>1. UNCHANGED wire \/ wire' = [q \in Api |-> IF bound[q] THEN Append(wire[q], e) ELSE wire[q]]
    BY DEF SendSubmitted, Route, Lose
  <2>2. QED BY <2>1 DEF SendSubmitted, watching
<1>2. turns[x] = <<>> /\ Len(turns[x]) = 0
  <2>1. Len(<<>>) = 0 OBVIOUS
  <2>2. QED BY <1>1, <2>1 DEF TurnInv, TurnsTyped
<1>3. /\ run'[x] = [state |-> "submitted", n |-> run[x].n + 1] /\ run[x].n \in Nat
      /\ \A y \in Run : y # x => run'[y] = run[y]
  BY <1>1, Counts DEF FrameInv
<1>4. FromOf[x] \in Process BY StreamAssumption DEF Process
<1>5. e \in Frame /\ e.run = x /\ e.turn = 0 /\ e.origin = FromOf[x]
  BY <1>3, <1>4 DEF Frame, Telling, Event, By
<1> HIDE DEF e
<1>6. Among(wire, wire', {e}) /\ Keep(turns, turns') BY <1>1, <1>5, AppendAmong DEF Keep
<1>7. Made(turns, e) BY <1>2, <1>5 DEF Made
<1>8. AllMade(turns', wire') /\ AllClear(turns', wire', overtaken')
  <2>1. \A t \in 1 .. Len(turns[e.run]) : FALSE BY <1>2, <1>5
  <2>2. QED BY <1>1, <1>5, <1>6, <1>7, <2>1, PublishersStay
<1>9. TurnsTyped(run', turns') BY <1>1, <1>2, <1>3 DEF TurnInv, TurnsTyped
<1>10. Told(run', turns', muted', overtaken') BY <1>1, <1>2, <1>3 DEF TurnInv, Told
<1>11. QED BY <1>8, <1>9, <1>10 DEF TurnInv

(* A turn goes on, and publishes one frame at most.                        *)
LEMMA GoesOnTurns ==
  ASSUME FrameInv, TurnInv, NEW x \in Run, NEW t \in DOMAIN turns[x],
         turns[x][t].pc \notin Silent,
         UNCHANGED turns \/ \E pc \in TurnStates : Goes(x, t, pc), UNCHANGED overtaken,
         \/ UNCHANGED wire
         \/ \E name \in Telling \cup Terminal : PublishFrom(Event(x, t, name))
  PROVE  /\ turns' \in [Run -> Seq(Turn)]
         /\ \A y \in Run : turns[y] = <<>> => turns'[y] = <<>>
         /\ AllMade(turns', wire') /\ AllClear(turns', wire', overtaken')
<1>0. /\ t \in 1 .. Len(turns[x]) /\ t # 0 /\ turns[x][t] \in Turn /\ TurnsTyped(run, turns)
      /\ run[x].n \in Nat /\ t \in Nat
  BY Executing DEF FrameInv, TurnInv, RunsTyped, RunRecord
<1>1. /\ turns' \in [Run -> Seq(Turn)]
      /\ \A y \in Run : turns[y] = <<>> => turns'[y] = <<>>
      /\ Keep(turns, turns')
  <2>1. CASE UNCHANGED turns BY <1>0, <2>1 DEF TurnsTyped, Keep
  <2>2. ASSUME NEW pc \in TurnStates, Goes(x, t, pc)
        PROVE  /\ turns' \in [Run -> Seq(Turn)]
               /\ \A y \in Run : turns[y] = <<>> => turns'[y] = <<>>
               /\ Keep(turns, turns')
    <3>1. /\ turns' \in [Run -> Seq(Turn)]
          /\ \A y \in Run : Len(turns'[y]) = Len(turns[y])
          /\ \A y \in Run : turns[y] = <<>> => turns'[y] = <<>>
          /\ \A y \in Run : \A s \in 1 .. Len(turns[y]) :
               ~(y = x /\ s = t) => turns'[y][s] = turns[y][s]
          /\ \A y \in Run : \A s \in 1 .. Len(turns[y]) : turns'[y][s].by = turns[y][s].by
      BY <1>0, <2>2, TurnGoes
    <3>2. QED BY <3>1 DEF Keep
  <2>3. QED BY <2>1, <2>2
<1>2. CASE UNCHANGED wire BY <1>1, <1>2, NoneAmong, PublishersStay
<1>3. ASSUME NEW name \in Telling \cup Terminal, PublishFrom(Event(x, t, name))
      PROVE  AllMade(turns', wire') /\ AllClear(turns', wire', overtaken')
  <2> DEFINE e == Event(x, t, name)
  <2>1. e \in Frame /\ e.run = x /\ e.turn = t /\ e.origin = turns[x][t].by
    BY <1>0 DEF Frame, Event, By, Turn
  <2>2. \A q \in Api : wire'[q] = wire[q] \/ wire'[q] = Append(wire[q], e)
    BY <1>3 DEF PublishFrom
  <2> HIDE DEF e
  <2>3. Among(wire, wire', {e}) BY <2>1, <2>2, AppendAmong
  <2>4. Made(turns, e) BY <1>0, <2>1 DEF Made
  <2>5. \A s \in 1 .. Len(turns[x]) :
          turns[x][s].pc \notin Silent => turns[x][s].by = e.origin \/ x \in overtaken
    <3>1. ASSUME x \notin overtaken, NEW s \in 1 .. Len(turns[x]), turns[x][s].pc \notin Silent
          PROVE  s = t
      <4>1. Clear(x, turns, wire) BY <3>1 DEF TurnInv, AllClear
      <4>2. s = Len(turns[x]) /\ t = Len(turns[x]) BY <1>0, <3>1, <4>1 DEF Clear
      <4>3. QED BY <4>2
    <3>2. QED BY <2>1, <3>1
  <2>6. QED BY <1>1, <2>1, <2>3, <2>4, <2>5, PublishersStay
<1>4. QED BY <1>1, <1>2, <1>3

(* ... and the run as it is, or at its end.                                *)
LEMMA TurnTurns ==
  ASSUME FrameInv, TurnInv, NEW x \in Run, NEW t \in DOMAIN turns[x],
         \/ Delta(x, t) \/ Ask(x, t) \/ Interrupted(x, t) \/ Leave(x, t) \/ Settle(x, t)
         \/ Finish(x, t, "run_completed") \/ Finish(x, t, "run_failed") \/ Lost(x, t)
         \/ \E y \in Run : SpawnChild(y, x, t)
  PROVE  TurnInv'
<1>0. run[x].state \in {"active", "ended"} BY Executing DEF FrameInv, TurnInv
<1>1. turns[x][t].pc \notin Silent
  BY DEF Delta, Ask, Interrupted, Leave, Settle, Finish, Lost, SpawnChild, At, Silent
<1>2. UNCHANGED turns \/ \E pc \in TurnStates : Goes(x, t, pc)
  BY DEF Delta, Ask, Interrupted, Leave, Settle, Finish, Lost, SpawnChild, TurnStates
<1>3. UNCHANGED overtaken
  BY DEF Delta, Ask, Interrupted, Leave, Settle, Finish, Lost, SpawnChild, watching
<1>4. UNCHANGED wire \/ \E name \in Telling \cup Terminal : PublishFrom(Event(x, t, name))
  BY DEF Delta, Ask, Interrupted, Leave, Settle, Finish, Lost, SpawnChild, busVars, Telling, Terminal
<1>5. /\ turns' \in [Run -> Seq(Turn)]
      /\ \A y \in Run : turns[y] = <<>> => turns'[y] = <<>>
      /\ AllMade(turns', wire') /\ AllClear(turns', wire', overtaken')
  BY <1>1, <1>2, <1>3, <1>4, GoesOnTurns
<1>6. TurnsTyped(run, turns) /\ RunsTyped(run) BY DEF TurnInv, FrameInv
<1>7. ASSUME \A y \in Run : run'[y].state \in {"new", "submitting", "submitted"} =>
                  run[y].state \in {"new", "submitting", "submitted"}
      PROVE  TurnsTyped(run', turns')
  BY <1>5, <1>6, <1>7 DEF TurnsTyped
<1>8. ASSUME TurnsTyped(run', turns'), UNCHANGED muted,
             \A y \in Run : run[y].state = "active" => run'[y].state = "active"
      PROVE  TurnInv'
  <2>1. Keep(turns, turns')
    <3>1. CASE UNCHANGED turns BY <3>1 DEF Keep
    <3>2. ASSUME NEW pc \in TurnStates, Goes(x, t, pc) PROVE Keep(turns, turns')
      <4>1. /\ \A y \in Run : Len(turns'[y]) = Len(turns[y])
            /\ \A y \in Run : \A s \in 1 .. Len(turns[y]) :
                 ~(y = x /\ s = t) => turns'[y][s] = turns[y][s]
            /\ \A y \in Run : \A s \in 1 .. Len(turns[y]) : turns'[y][s].by = turns[y][s].by
        BY <1>6, <3>2, TurnGoes
      <4>2. QED BY <1>1, <4>1 DEF Keep
    <3>3. QED BY <1>2, <3>1, <3>2
  <2>2. Told(run', turns', muted', overtaken')
    BY <1>3, <1>8, <2>1 DEF TurnInv, Told, Keep
  <2>3. QED BY <1>5, <1>8, <2>2 DEF TurnInv
<1>9. ASSUME NEW s \in {"active", "ended"}, Published(x, s) \/ run' = [run EXCEPT ![x].state = s]
      PROVE  run'[x].state = s /\ \A y \in Run : y # x => run'[y] = run[y]
  <2>1. s \in RunStates \ {"new"} /\ s # "submitting" BY DEF RunStates
  <2>2. CASE Published(x, s) BY <1>0, <1>6, <2>2, Counts
  <2>3. CASE run' = [run EXCEPT ![x].state = s] BY <1>0, <1>6, <2>1, <2>3, Becomes
  <2>4. QED BY <1>9, <2>2, <2>3
<1>10. CASE Delta(x, t) \/ Interrupted(x, t)
  <2>1. Published(x, run[x].state) /\ UNCHANGED muted BY <1>10 DEF Delta, Interrupted, watching
  <2>2. run'[x].state = run[x].state /\ \A y \in Run : y # x => run'[y] = run[y]
    BY <1>0, <1>9, <2>1
  <2>3. QED BY <1>7, <1>8, <2>1, <2>2
<1>11. CASE Ask(x, t)
  <2>1. run' = [run EXCEPT ![x].state = "active"] /\ UNCHANGED muted BY <1>11 DEF Ask, watching
  <2>2. run'[x].state = "active" /\ \A y \in Run : y # x => run'[y] = run[y] BY <1>9, <2>1
  <2>3. QED BY <1>7, <1>8, <2>1, <2>2
<1>12. CASE Leave(x, t) \/ Settle(x, t)
  <2>1. UNCHANGED <<run, muted>> BY <1>12 DEF Leave, Settle, watching
  <2>2. QED BY <1>7, <1>8, <2>1
<1>13. CASE Finish(x, t, "run_completed") \/ Finish(x, t, "run_failed")
  <2>1. Published(x, "ended") /\ UNCHANGED muted /\ Goes(x, t, "done")
    BY <1>13 DEF Finish, watching
  <2>2. run'[x].state = "ended" /\ \A y \in Run : y # x => run'[y] = run[y] BY <1>9, <2>1
  <2>3. TurnsTyped(run', turns') BY <1>7, <2>2
  <2>4. ASSUME ~muted', overtaken' = {}, NEW y \in Run, NEW s \in 1 .. Len(turns'[y]),
               turns'[y][s].pc \notin Silent
        PROVE  run'[y].state = "active"
    <3>1. /\ \A z \in Run : Len(turns'[z]) = Len(turns[z])
          /\ turns'[x][t] = [by |-> turns[x][t].by, pc |-> "done"]
          /\ \A z \in Run : \A u \in 1 .. Len(turns[z]) :
               ~(z = x /\ u = t) => turns'[z][u] = turns[z][u]
      BY <1>6, <2>1, TurnGoes DEF TurnStates
    <3>2. s \in 1 .. Len(turns[y]) BY <3>1
    <3>3. ~(y = x /\ s = t) BY <2>4, <3>1 DEF Silent
    <3>4. turns[y][s].pc \notin Silent BY <2>4, <3>1, <3>2, <3>3
    <3>5. y # x
      <4>1. SUFFICES ASSUME y = x PROVE FALSE OBVIOUS
      <4>2. Clear(x, turns, wire) BY <1>3, <2>4 DEF TurnInv, AllClear
      <4>3. t \in 1 .. Len(turns[x]) BY Executing, <1>6
      <4>4. s = Len(turns[x]) /\ t = Len(turns[x]) BY <1>1, <3>2, <3>4, <4>1, <4>2, <4>3 DEF Clear
      <4>5. QED BY <3>3, <4>1, <4>4
    <3>6. run[y].state = "active" BY <1>3, <2>1, <2>4, <3>2, <3>4 DEF TurnInv, Told
    <3>7. QED BY <2>2, <3>5, <3>6
  <2>5. Told(run', turns', muted', overtaken') BY <2>4 DEF Told
  <2>6. QED BY <1>5, <2>3, <2>5 DEF TurnInv
<1>14. CASE Lost(x, t)
  <2>1. CASE UNCHANGED <<muted, run>> BY <1>7, <1>8, <2>1
  <2>2. CASE muted' = TRUE /\ run' = [run EXCEPT ![x].state = "ended"]
    <3>1. run'[x].state = "ended" /\ \A y \in Run : y # x => run'[y] = run[y] BY <1>9, <2>2
    <3>2. TurnsTyped(run', turns') BY <1>7, <3>1
    <3>3. Told(run', turns', muted', overtaken') BY <2>2 DEF Told
    <3>4. QED BY <1>5, <3>2, <3>3 DEF TurnInv
  <2>3. QED BY <1>14, <2>1, <2>2 DEF Lost
<1>15. ASSUME NEW y \in Run, SpawnChild(y, x, t) PROVE TurnInv'
  <2>1. /\ run' = [run EXCEPT ![y].state = "submitted"] /\ run[y].state = "new"
        /\ UNCHANGED muted
    BY <1>15 DEF SpawnChild
  <2>2. run'[y].state = "submitted" /\ \A z \in Run : z # y => run'[z] = run[z]
    <3>1. "submitted" \in RunStates \ {"new"} /\ run[y].state # "submitting" BY <2>1 DEF RunStates
    <3>2. QED BY <1>6, <2>1, <3>1, Becomes
  <2>3. QED BY <1>7, <1>8, <2>1, <2>2
<1>16. QED BY <1>10, <1>11, <1>12, <1>13, <1>14, <1>15

(* A turn begins: if another could still publish, or frames of the run are *)
(* on their way to its process, the run counts as overtaken.               *)
LEMMA BeginTurns ==
  ASSUME FrameInv, TurnInv, NEW x \in Run, NEW w \in Process, Begin(x, w) PROVE TurnInv'
<1> DEFINE new == [by |-> w, pc |-> "working"]
           ts == Append(turns[x], new)
<1>1. /\ Envelope(x, w) /\ turns' = [turns EXCEPT ![x] = ts]
      /\ run' = [run EXCEPT ![x].state = "active"] /\ UNCHANGED <<wire, muted>>
      /\ overtaken' = IF run[x].state = "ended" \/ Publishing(x) \/ OnTheWay(x, w)
                      THEN overtaken \cup {x} ELSE overtaken
  BY DEF Begin, busVars
<1>2. turns \in [Run -> Seq(Turn)] /\ turns[x] \in Seq(Turn) /\ new \in Turn
  BY DEF TurnInv, TurnsTyped, Turn, TurnStates
<1> HIDE DEF new
<1>3. /\ ts \in Seq(Turn) /\ Len(ts) = Len(turns[x]) + 1 /\ Len(turns[x]) \in Nat
      /\ ts[Len(turns[x]) + 1] = new
      /\ \A s \in 1 .. Len(turns[x]) : ts[s] = turns[x][s]
      /\ DOMAIN turns[x] = 1 .. Len(turns[x])
  BY <1>2
<1> HIDE DEF ts
<1>4. /\ turns' \in [Run -> Seq(Turn)] /\ turns'[x] = ts
      /\ \A y \in Run : y # x => turns'[y] = turns[y]
  BY <1>1, <1>2, <1>3
<1>5. /\ run'[x].state = "active" /\ \A y \in Run : y # x => run'[y] = run[y]
  <2>1. run[x].state # "submitting" BY <1>1 DEF Envelope, TurnInv, TurnsTyped
  <2>2. "active" \in RunStates \ {"new"} BY DEF RunStates
  <2>3. QED BY <1>1, <2>1, <2>2, Becomes DEF FrameInv
<1>6. TurnsTyped(run', turns') BY <1>4, <1>5 DEF TurnInv, TurnsTyped
<1>7. ASSUME NEW q \in Api, NEW i \in 1 .. Len(wire[q]) PROVE Made(turns', wire[q][i])
  <2> DEFINE e == wire[q][i]
  <2>1. Made(turns, e) /\ e \in Frame BY DEF TurnInv, AllMade, FrameInv
  <2> HIDE DEF e
  <2>2. e.run \in Run /\ e.turn \in Nat BY <2>1 DEF Frame
  <2>3. CASE e.run = x
    <3>1. e.turn \in 0 .. Len(turns[x]) BY <2>1, <2>3 DEF Made
    <3>2. e.turn \in 0 .. Len(ts) /\ (e.turn # 0 => ts[e.turn] = turns[x][e.turn])
      BY <1>3, <3>1
    <3>3. QED BY <1>4, <2>1, <2>3, <3>2 DEF Made, e
  <2>4. CASE e.run # x BY <1>4, <2>1, <2>2, <2>4 DEF Made, e
  <2>5. QED BY <2>3, <2>4
<1>8. AllMade(turns', wire') BY <1>1, <1>7 DEF AllMade
<1>9. ASSUME x \notin overtaken'
      PROVE  /\ run[x].state # "ended"
             /\ \A s \in 1 .. Len(turns[x]) : turns[x][s].pc \in Silent
             /\ w \in Api => Cleared(x, w, wire)
  <2>1. run[x].state # "ended" /\ ~Publishing(x) /\ ~OnTheWay(x, w) BY <1>1, <1>9
  <2>2. \A s \in 1 .. Len(turns[x]) : turns[x][s].pc \in Silent BY <1>3, <2>1 DEF Publishing
  <2>3. ASSUME w \in Api, NEW i \in 1 .. Len(wire[w]), wire[w][i].run = x
        PROVE  ~Foreign(w, wire[w][i])
    <3>1. wire[w] \in Seq(Frame) BY <2>3 DEF FrameInv
    <3>2. i \in DOMAIN wire[w] BY <3>1
    <3>3. QED BY <2>1, <2>3, <3>2 DEF OnTheWay
  <2>4. QED BY <2>1, <2>2, <2>3 DEF Cleared
<1>10. Clear(x, turns', wire) \/ x \in overtaken'
  <2> SUFFICES ASSUME x \notin overtaken', NEW t \in 1 .. Len(ts), ts[t].pc \notin Silent
               PROVE  t = Len(ts) /\ (ts[t].by \in Api => Cleared(x, ts[t].by, wire))
    BY <1>4 DEF Clear
  <2>1. t \notin 1 .. Len(turns[x]) BY <1>3, <1>9
  <2>2. t = Len(turns[x]) + 1 BY <1>3, <2>1
  <2>3. ts[t].by = w BY <1>3, <2>2 DEF new
  <2>4. QED BY <1>3, <1>9, <2>2, <2>3
<1>11. AllClear(turns', wire', overtaken')
  <2>1. ASSUME NEW y \in Run \ overtaken', y # x PROVE Clear(y, turns', wire)
    <3>1. y \in Run \ overtaken BY <1>1, <2>1
    <3>2. Clear(y, turns, wire) BY <3>1 DEF TurnInv, AllClear
    <3>3. QED BY <1>4, <2>1, <3>2 DEF Clear
  <2>2. QED BY <1>1, <1>10, <2>1 DEF AllClear
<1>12. Told(run', turns', muted', overtaken')
  <2> SUFFICES ASSUME ~muted', overtaken' = {}, NEW y \in Run, NEW t \in 1 .. Len(turns'[y]),
                      turns'[y][t].pc \notin Silent
               PROVE  run'[y].state = "active"
    BY DEF Told
  <2>1. overtaken = {} BY <1>1
  <2>2. CASE y = x BY <1>5, <2>2
  <2>3. CASE y # x BY <1>1, <1>4, <1>5, <2>1, <2>3 DEF TurnInv, Told
  <2>4. QED BY <2>2, <2>3
<1>13. QED BY <1>6, <1>8, <1>11, <1>12 DEF TurnInv

LEMMA TurnsAtFirst == ASSUME StreamInit PROVE TurnInv
<1>1. turns = [x \in Run |-> <<>>] /\ wire = [p \in Api |-> <<>>]
  BY DEF StreamInit, BusInit
<1>2. <<>> \in Seq(Turn) /\ Len(<<>>) = 0 OBVIOUS
<1>3. TurnsTyped(run, turns) BY <1>1, <1>2 DEF TurnsTyped
<1>4. AllMade(turns, wire) BY <1>1, <1>2 DEF AllMade
<1>5. AllClear(turns, wire, overtaken) BY <1>1, <1>2 DEF AllClear, Clear
<1>6. Told(run, turns, muted, overtaken) BY <1>1, <1>2 DEF Told
<1>7. QED BY <1>3, <1>4, <1>5, <1>6 DEF TurnInv

LEMMA TurnsInductive == FrameInv /\ TurnInv /\ [StreamNext]_streamVars => TurnInv'
<1> SUFFICES ASSUME FrameInv, TurnInv, [StreamNext]_streamVars PROVE TurnInv'
  OBVIOUS
<1>0. \A x \in Run : run[x].state \in {"new", "submitting", "submitted"} => turns[x] = <<>>
  BY DEF TurnInv, TurnsTyped
<1>1. ASSUME UNCHANGED <<run, turns, wire, muted, overtaken>> PROVE TurnInv'
  BY <1>0, <1>1, TurnsStay, NoneAmong
<1>2. CASE UNCHANGED streamVars BY <1>1, <1>2 DEF streamVars, busVars
<1>3. CASE \/ \E x \in Run : SubmitRun(x) \/ SendSubmitted(x) \/ EndSilently(x)
           \/ \E x \in Run, w \in Process : Begin(x, w)
  BY <1>3, SubmitRunTurns, SendSubmittedTurns, EndSilentlyTurns, BeginTurns
<1>4. CASE \E x \in Run : \E t \in DOMAIN turns[x] :
             \/ Delta(x, t) \/ Ask(x, t) \/ Interrupted(x, t) \/ Leave(x, t) \/ Settle(x, t)
             \/ Finish(x, t, "run_completed") \/ Finish(x, t, "run_failed") \/ Lost(x, t)
             \/ \E y \in Run : SpawnChild(y, x, t)
  BY <1>4, TurnTurns
<1>5. ASSUME NEW r \in Reader, \/ Take(r) \/ Connected(r) \/ SubscribeTo(r) \/ UnsubscribeFrom(r)
                              \/ ((Wake(r) \/ Cancel(r)) /\ Quietly)
      PROVE  TurnInv'
  <2>1. UNCHANGED <<run, turns, wire, muted, overtaken>>
    BY <1>5 DEF Take, Connected, SubscribeTo, UnsubscribeFrom, Subscribe, Unsubscribe, Wake,
                Cancel, Quietly, busVars, watching
  <2>2. QED BY <1>1, <2>1
<1>6. ASSUME NEW p \in Api,
             \/ EnsureForPublish(p)
             \/ ((Build(p) \/ BuildFails(p) \/ BuildTimesOut(p) \/ Answer(p)) /\ Quietly)
      PROVE  TurnInv'
  <2>1. UNCHANGED <<run, turns, wire, muted, overtaken>>
    BY <1>6 DEF EnsureForPublish, Build, BuildFails, BuildTimesOut, Answer, Quietly, watching
  <2>2. QED BY <1>1, <2>1
<1>7. ASSUME NEW p \in Api, Consume(p), Quietly PROVE TurnInv'
  <2>1. Among(wire, wire', {}) /\ UNCHANGED <<run, turns, muted, overtaken>>
    BY <1>7, TailAmong DEF Quietly, watching
  <2>2. QED BY <1>0, <2>1, TurnsStay
<1>8. QED BY <1>2, <1>3, <1>4, <1>5, <1>6, <1>7 DEF StreamNext

(* Whatever processes, readers and runs there are, and however the copies  *)
(* of a frame travel: what a reader has and what is still to come to it    *)
(* has the events of a run in their order and none of them twice, though   *)
(* a process puts its frames into the queues of its own readers before     *)
(* the broker returns them, and every turn of the run may be executed by   *)
(* another process.  Where a turn began before another of its run had      *)
(* published all, or before that had arrived, this holds turn by turn.     *)
THEOREM FramesComeOnceInOrder == StreamSpec => []OnceInOrder
<1>1. FrameInv => OnceInOrder
  BY DEF FrameInv, AllInOrder, InOrder, Precedes, OnceInOrder, Ordered, Before, Akin
<1>2. StreamInit => FrameInv /\ TurnInv BY FramesAtFirst, TurnsAtFirst
<1>3. FrameInv /\ TurnInv /\ [StreamNext]_streamVars => (FrameInv /\ TurnInv)'
  BY FramesInductive, TurnsInductive
<1>4. QED BY <1>1, <1>2, <1>3, PTL DEF StreamSpec
-----------------------------------------------------------------------------
(* What is shown.                                                          *)

(* Steps that do not concern reader r.                                     *)
LEMMA SeesSame ==
  ASSUME NEW r \in Reader, Sees(r), run' = run, inbox'[r] = inbox[r],
         wire'[HomeOf[r]] = wire[HomeOf[r]], shown'[r] = shown[r], r \in midway => r \in midway'
  PROVE  Sees(r)'
BY DEF Sees, Quiet, Begun, Active

(* Nothing that a reader could see happens to the runs.                    *)
SameRuns == \A x \in Run : /\ Active(x)' <=> Active(x)
                           /\ run'[x].state = "submitting" <=> run[x].state = "submitting"

LEMMA RunsSame ==
  ASSUME UNCHANGED <<run, tangled, muted, overtaken>> PROVE Straight' => Straight /\ SameRuns
BY DEF Straight, SameRuns, Active

(* Steps of readers and connections, and of turns that publish nothing: a  *)
(* reader that watches did before.                                         *)
LEMMA ViewStays ==
  ASSUME ViewInv, UNCHANGED <<wire, inbox, holders, shown, lossy, midway, late>>,
         Straight' => Straight /\ SameRuns,
         \A r \in Reader : Watches(r)' => Watches(r),
         \A r \in Reader : place'[r] # "away" \/ place[r] = "away",
         \A r \in Reader : place[r] = "on" => place'[r] = "on"
  PROVE  ViewInv'
<1>1. ASSUME NEW r \in Reader PROVE Seated(r)'
  <2>1. Seated(r) BY DEF ViewInv
  <2>2. QED BY <2>1 DEF Seated
<1>2. ASSUME NEW r \in Reader, Faithful(r)' PROVE Sees(r)'
  <2>1. Faithful(r) /\ SameRuns BY <1>2 DEF Faithful, Straight
  <2>2. Sees(r) BY <2>1 DEF ViewInv
  <2>3. (Quiet' <=> Quiet) /\ \A x \in Run : Begun(x, HomeOf[r])' <=> Begun(x, HomeOf[r])
    BY <2>1 DEF SameRuns, Quiet, Begun
  <2>4. QED BY <2>2, <2>3 DEF Sees
<1>3. OneByOne'
  <2>1. ASSUME Straight', NEW x \in Run, Active(x)'
        PROVE  (\A y \in Run : Active(y)' => y = x) /\ FramesOf(x, wire)
    BY <2>1 DEF ViewInv, OneByOne, Straight, SameRuns
  <2>2. QED BY <2>1 DEF OneByOne, Straight
<1>4. QED BY <1>1, <1>2, <1>3 DEF ViewInv

LEMMA BuilderView ==
  ASSUME ViewInv, BindInv, NEW p \in Api, Build(p) \/ BuildFails(p) \/ BuildTimesOut(p), Quietly
  PROVE  ViewInv'
<1>1. UNCHANGED <<run, wire, inbox, holders, shown, lossy, midway, late, tangled, muted, overtaken>>
  BY DEF Build, BuildFails, BuildTimesOut, Quietly, watching
<1>2. place \in [Reader -> Places] /\ builder[p] \in Reader \cup {NoOne, Publisher}
      /\ (builder[p] \in Reader => place[builder[p]] = "building")
  BY DEF BindInv, BusTyped
<1>3. \/ place' = place
      \/ builder[p] \in Reader /\ \E w \in {"binding", "on"} : place' = [place EXCEPT ![builder[p]] = w]
  BY <1>2, Strings DEF Build, BuildFails, BuildTimesOut, BindOrNot
<1>4. ASSUME NEW r \in Reader, place'[r] # place[r]
      PROVE  place[r] = "building" /\ place'[r] \in {"binding", "on"}
  BY <1>2, <1>3, <1>4
<1>5. QED BY <1>1, <1>4, RunsSame, ViewStays DEF Watches

LEMMA ReaderStepsView ==
  ASSUME ViewInv, BindInv, NEW r \in Reader, Wake(r) \/ Cancel(r), Quietly PROVE ViewInv'
<1>1. UNCHANGED <<run, wire, inbox, holders, shown, lossy, midway, late, tangled, muted, overtaken>>
  BY DEF Wake, Cancel, Quietly, watching
<1>2. place \in [Reader -> Places] BY DEF BindInv, BusTyped
<1>3. \/ place[r] = "waiting" /\ \E w \in {"building", "binding", "on"} : place' = [place EXCEPT ![r] = w]
      \/ place[r] \in {"building", "waiting", "binding", "leaving"} /\ place' = [place EXCEPT ![r] = "gone"]
  BY DEF Wake, BindOrNot, Cancel
<1>4. \A s \in Reader : place'[s] # place[s] =>
        \/ place[s] = "waiting" /\ place'[s] \in {"building", "binding", "on"}
        \/ place[s] \in {"building", "waiting", "binding", "leaving"} /\ place'[s] = "gone"
  BY <1>2, <1>3
<1>5. QED BY <1>1, <1>4, RunsSame, ViewStays DEF Watches

LEMMA AnswerView ==
  ASSUME ViewInv, BindInv, NEW p \in Api, Answer(p), Quietly PROVE ViewInv'
<1>1. UNCHANGED <<run, wire, inbox, holders, shown, lossy, midway, late, tangled, muted, overtaken>>
  BY DEF Answer, Quietly, watching
<1>2. place \in [Reader -> Places] BY DEF BindInv, BusTyped
<1>3. PICK c : c = Head(calls[p]).for OBVIOUS
<1>4. \/ place' = place
      \/ place[c] = "binding" /\ place' = [place EXCEPT ![c] = "on"]
      \/ place[c] = "leaving" /\ place' = [place EXCEPT ![c] = "gone"]
  BY <1>3 DEF Answer
<1>5. \A s \in Reader : place'[s] # place[s] =>
        \/ place[s] = "binding" /\ place'[s] = "on"
        \/ place[s] = "leaving" /\ place'[s] = "gone"
  BY <1>2, <1>4
<1>6. QED BY <1>1, <1>5, RunsSame, ViewStays DEF Watches

(* A subscriber has seen nothing; it finds no run at all, or is midway.    *)
LEMMA SubscribeView ==
  ASSUME ViewInv, BindInv, FrameInv, NEW r \in Reader, SubscribeTo(r) PROVE ViewInv'
<1>1. /\ UNCHANGED <<run, wire, inbox, shown, lossy, tangled, muted, overtaken>>
      /\ place[r] = "away"
      /\ holders' = [holders EXCEPT ![HomeOf[r]] = holders[HomeOf[r]] \cup {r}]
      /\ midway' = IF \E x \in Run : Active(x) THEN midway \cup {r} ELSE midway
      /\ late' = IF wire[HomeOf[r]] # <<>> /\ ~\E x \in Run : Active(x) THEN late \cup {r} ELSE late
  BY DEF SubscribeTo, Subscribe
<1>2. place \in [Reader -> Places] /\ holders \in [Api -> SUBSET Reader] /\ HomeOf \in [Reader -> Api]
  BY BusAssumption DEF BindInv, BusTyped
<1>3. PICK w \in {"building", "waiting", "binding", "on"} : place' = [place EXCEPT ![r] = w]
  BY <1>2 DEF SubscribeTo, Subscribe, BindOrNot
<1>4. \A s \in Reader \ {r} : place'[s] = place[s] BY <1>2, <1>3
<1>5. place'[r] = w BY <1>2, <1>3
<1>6. /\ r \in holders'[HomeOf[r]]
      /\ \A p \in Api : holders[p] \subseteq holders'[p] /\ holders'[p] \subseteq holders[p] \cup {r}
  BY <1>1, <1>2
<1>7. Seated(r) /\ shown[r] = "idle" /\ inbox[r] = <<>> BY <1>1 DEF ViewInv, Seated
<1>8. ASSUME NEW s \in Reader PROVE Seated(s)'
  <2>1. CASE s = r BY <1>1, <1>5, <1>6, <1>7, <2>1 DEF Seated
  <2>2. CASE s # r
    <3>1. Seated(s) /\ HomeOf[s] \in Api BY <1>2 DEF ViewInv
    <3>2. QED BY <1>1, <1>4, <1>6, <2>2, <3>1 DEF Seated, Watches
  <2>3. QED BY <2>1, <2>2
<1>9. Quiet' <=> Quiet BY <1>1 DEF Quiet, Active
<1>10. ASSUME Faithful(r)' PROVE Sees(r)'
  <2>1. CASE Quiet
    <3>1. wire[HomeOf[r]] = <<>> BY <1>1, <1>10, <2>1 DEF Faithful, Straight, Quiet
    <3>2. SeesEnd(shown'[r], inbox'[r], wire'[HomeOf[r]], HomeOf[r])
      <4>1. Len(<<>>) = 0 OBVIOUS
      <4>2. Followed(<<>>, <<>>, HomeOf[r], Telling, Terminal) BY <4>1 DEF Followed
      <4>3. QED BY <1>1, <1>7, <3>1, <4>2 DEF SeesEnd
    <3>3. \A x \in Run : ~Begun(x, HomeOf[r])' BY <1>1, <2>1 DEF Quiet, Begun, Active
    <3>4. QED BY <3>2, <3>3 DEF Sees
  <2>2. CASE ~Quiet
    <3>1. r \in midway' BY <1>1, <2>2 DEF Quiet
    <3>2. QED BY <1>9, <2>2, <3>1 DEF Sees
  <2>3. QED BY <2>1, <2>2
<1>11. ASSUME NEW s \in Reader, s # r, Faithful(s)' PROVE Sees(s)'
  <2>1. Faithful(s) BY <1>1, <1>4, <1>11 DEF Faithful, Straight, Watches
  <2>2. Sees(s) BY <2>1 DEF ViewInv
  <2>3. QED BY <1>1, <2>2, SeesSame
<1>12. OneByOne' BY <1>1 DEF ViewInv, OneByOne, Straight, Active
<1>13. QED BY <1>1, <1>8, <1>10, <1>11, <1>12 DEF ViewInv

LEMMA UnsubscribeView ==
  ASSUME ViewInv, BindInv, FrameInv, NEW r \in Reader, UnsubscribeFrom(r) PROVE ViewInv'
<1>1. /\ UNCHANGED <<run, wire, lossy, midway, late, tangled, muted, overtaken>>
      /\ holders' = [holders EXCEPT ![HomeOf[r]] = holders[HomeOf[r]] \ {r}]
      /\ inbox' = [inbox EXCEPT ![r] = <<>>] /\ shown' = [shown EXCEPT ![r] = "idle"]
      /\ place[r] = "on"
  BY DEF UnsubscribeFrom, Unsubscribe
<1>2. /\ place \in [Reader -> Places] /\ holders \in [Api -> SUBSET Reader]
      /\ HomeOf \in [Reader -> Api] /\ shown \in [Reader -> MachineStates]
      /\ inbox \in [Reader -> Seq(Frame)]
  BY BusAssumption DEF BindInv, BusTyped, ViewInv, FrameInv
<1>3. PICK w \in {"leaving", "gone"} : place' = [place EXCEPT ![r] = w]
  BY DEF UnsubscribeFrom, Unsubscribe
<1>4. /\ place'[r] = w /\ shown'[r] = "idle" /\ shown' \in [Reader -> MachineStates]
      /\ \A s \in Reader \ {r} : place'[s] = place[s] /\ shown'[s] = shown[s] /\ inbox'[s] = inbox[s]
  BY <1>1, <1>2, <1>3 DEF MachineStates
<1>5. ASSUME NEW s \in Reader PROVE Seated(s)'
  <2>1. CASE s = r BY <1>4, <2>1 DEF Seated, Watches
  <2>2. CASE s # r
    <3>1. Seated(s) /\ HomeOf[s] \in Api BY <1>2 DEF ViewInv
    <3>2. s \in holders[HomeOf[s]] <=> s \in holders'[HomeOf[s]] BY <1>1, <1>2, <2>2
    <3>3. QED BY <1>4, <2>2, <3>1, <3>2 DEF Seated, Watches
  <2>3. QED BY <2>1, <2>2
<1>6. ASSUME NEW s \in Reader, Faithful(s)' PROVE Sees(s)'
  <2>1. s # r BY <1>4, <1>6 DEF Faithful, Straight, Watches
  <2>2. Faithful(s) BY <1>1, <1>4, <1>6, <2>1 DEF Faithful, Straight, Watches
  <2>3. Sees(s) BY <2>2 DEF ViewInv
  <2>4. QED BY <1>1, <1>4, <2>1, <2>3, SeesSame
<1>7. OneByOne' BY <1>1 DEF ViewInv, OneByOne, Straight, Active
<1>8. QED BY <1>4, <1>5, <1>6, <1>7 DEF ViewInv

(* The first state of the machine says nothing of runs.                    *)
LEMMA ConnectedView ==
  ASSUME ViewInv, NEW r \in Reader, Connected(r) PROVE ViewInv'
<1>1. /\ UNCHANGED <<run, wire, inbox, place, holders, lossy, midway, late, tangled, muted, overtaken>>
      /\ shown[r] = "idle" /\ place[r] = "on" /\ shown' = [shown EXCEPT ![r] = "subscribed"]
  BY DEF Connected, busVars
<1>2. /\ shown' \in [Reader -> MachineStates] /\ shown'[r] = "subscribed"
      /\ \A s \in Reader \ {r} : shown'[s] = shown[s]
  BY <1>1 DEF ViewInv, MachineStates
<1>3. ASSUME NEW s \in Reader PROVE Seated(s)'
  <2>1. Seated(s) BY DEF ViewInv
  <2>2. QED BY <1>1, <1>2, <2>1 DEF Seated, Watches
<1>4. ASSUME NEW s \in Reader, Faithful(s)' PROVE Sees(s)'
  <2>1. Faithful(s) BY <1>1, <1>4 DEF Faithful, Straight, Watches
  <2>2. Sees(s) BY <2>1 DEF ViewInv
  <2>3. CASE s = r
    <3>1. SeesEnd(shown[r], inbox[r], wire[HomeOf[r]], HomeOf[r]) =>
            SeesEnd(shown'[r], inbox'[r], wire'[HomeOf[r]], HomeOf[r])
      BY <1>1, <1>2 DEF SeesEnd
    <3>2. SeesRun(shown[r], inbox[r], wire[HomeOf[r]], HomeOf[r]) =>
            SeesRun(shown'[r], inbox'[r], wire'[HomeOf[r]], HomeOf[r])
      BY <1>1, <1>2 DEF SeesRun
    <3>3. QED BY <1>1, <2>2, <2>3, <3>1, <3>2 DEF Sees, Quiet, Begun, Active
  <2>4. CASE s # r BY <1>1, <1>2, <2>2, <2>4, SeesSame
  <2>5. QED BY <2>3, <2>4
<1>5. OneByOne' BY <1>1 DEF ViewInv, OneByOne, Straight, Active
<1>6. QED BY <1>2, <1>3, <1>4, <1>5 DEF ViewInv

(* The machine takes the first frame.                                      *)
LEMMA AppliedSees ==
  ASSUME NEW s \in MachineStates \ {"idle"}, NEW u \in Seq(Frame), u # <<>>,
         NEW v \in Seq(Frame), NEW p
  PROVE  /\ SeesEnd(s, u, v, p) => SeesEnd(Applied(s, Head(u).name), Tail(u), v, p)
         /\ SeesRun(s, u, v, p) => SeesRun(Applied(s, Head(u).name), Tail(u), v, p)
<1> DEFINE name == Head(u).name
           t == Applied(s, name)
<1>1. name \in Telling \cup Terminal
  <2>1. Head(u) \in Frame BY TailFrames
  <2>2. QED BY <2>1 DEF Frame
<1>2. /\ name \in Terminal => t # "run_active"
      /\ name \in Opening => t = "run_active"
      /\ name \notin Terminal /\ s = "run_active" => t = "run_active"
  BY <1>1 DEF Applied, MayStart, MayFinish, Telling, Terminal, Opening, MachineStates
<1> HIDE DEF name, t
<1>3. ASSUME SeesEnd(s, u, v, p) PROVE SeesEnd(t, Tail(u), v, p)
  <2>1. Followed(u, v, p, Telling, Terminal) BY <1>3 DEF SeesEnd
  <2>2. /\ Followed(Tail(u), v, p, Telling, Terminal)
        /\ name \in Telling => Comes(Tail(u), v, p, Terminal)
    BY <2>1, FollowedTail DEF name
  <2>3. QED BY <1>1, <1>2, <2>2 DEF SeesEnd
<1>4. ASSUME SeesRun(s, u, v, p) PROVE SeesRun(t, Tail(u), v, p)
  <2>1. Followed(u, v, p, Terminal, Opening) BY <1>4 DEF SeesRun
  <2>2. /\ Followed(Tail(u), v, p, Terminal, Opening)
        /\ name \in Terminal => Comes(Tail(u), v, p, Opening)
        /\ Comes(u, v, p, Opening) => name \in Opening \/ Comes(Tail(u), v, p, Opening)
    BY <2>1, FollowedTail DEF name
  <2>3. QED BY <1>2, <1>4, <2>2 DEF SeesRun
<1>5. QED BY <1>3, <1>4 DEF name, t

LEMMA TakeView ==
  ASSUME ViewInv, FrameInv, NEW r \in Reader, Take(r) PROVE ViewInv'
<1>1. /\ UNCHANGED <<run, wire, place, holders, lossy, midway, late, tangled, muted, overtaken>>
      /\ place[r] = "on" /\ inbox[r] # <<>> /\ shown[r] # "idle"
      /\ shown' = [shown EXCEPT ![r] = Applied(shown[r], Head(inbox[r]).name)]
      /\ inbox' = [inbox EXCEPT ![r] = Tail(inbox[r])]
  BY DEF Take, bus
<1>2. /\ shown \in [Reader -> MachineStates] /\ inbox \in [Reader -> Seq(Frame)]
      /\ HomeOf[r] \in Api /\ wire[HomeOf[r]] \in Seq(Frame)
  BY BusAssumption DEF ViewInv, FrameInv
<1>3. Applied(shown[r], Head(inbox[r]).name) \in MachineStates
  BY <1>2 DEF Applied, MachineStates
<1>4. /\ shown' \in [Reader -> MachineStates]
      /\ shown'[r] = Applied(shown[r], Head(inbox[r]).name) /\ inbox'[r] = Tail(inbox[r])
      /\ \A s \in Reader \ {r} : shown'[s] = shown[s] /\ inbox'[s] = inbox[s]
  BY <1>1, <1>2, <1>3
<1>5. ASSUME NEW s \in Reader PROVE Seated(s)'
  <2>1. Seated(s) BY DEF ViewInv
  <2>2. CASE s = r BY <1>1, <2>1, <2>2 DEF Seated, Watches
  <2>3. CASE s # r BY <1>1, <1>4, <2>1, <2>3 DEF Seated, Watches
  <2>4. QED BY <2>2, <2>3
<1>6. ASSUME NEW s \in Reader, Faithful(s)' PROVE Sees(s)'
  <2>1. Faithful(s) BY <1>1, <1>6 DEF Faithful, Straight, Watches
  <2>2. Sees(s) BY <2>1 DEF ViewInv
  <2>3. CASE s = r
    <3>1. /\ SeesEnd(shown[r], inbox[r], wire[HomeOf[r]], HomeOf[r]) =>
               SeesEnd(shown'[r], inbox'[r], wire[HomeOf[r]], HomeOf[r])
          /\ SeesRun(shown[r], inbox[r], wire[HomeOf[r]], HomeOf[r]) =>
               SeesRun(shown'[r], inbox'[r], wire[HomeOf[r]], HomeOf[r])
      <4>1. shown[r] \in MachineStates \ {"idle"} /\ inbox[r] \in Seq(Frame) BY <1>1, <1>2
      <4>2. QED BY <1>1, <1>2, <1>4, <4>1, AppliedSees
    <3>2. QED BY <1>1, <2>2, <2>3, <3>1 DEF Sees, Quiet, Begun, Active
  <2>4. CASE s # r BY <1>1, <1>4, <2>2, <2>4, SeesSame
  <2>5. QED BY <2>3, <2>4
<1>7. OneByOne' BY <1>1 DEF ViewInv, OneByOne, Straight, Active
<1>8. QED BY <1>4, <1>5, <1>6, <1>7 DEF ViewInv

(* The broker delivers: what was to come to a reader it has, or it was not *)
(* for it.                                                                 *)
LEMMA TailOf ==
  ASSUME NEW v \in Seq(Frame), v # <<>>, NEW x, \A i \in 1 .. Len(v) : v[i].run = x
  PROVE  \A i \in 1 .. Len(Tail(v)) : Tail(v)[i].run = x
<1>1. /\ Len(Tail(v)) = Len(v) - 1 /\ Len(v) \in Nat \ {0}
      /\ \A i \in 1 .. Len(v) - 1 : Tail(v)[i] = v[i + 1]
  BY TailFrames
<1>2. \A i \in 1 .. Len(v) - 1 : i + 1 \in 1 .. Len(v) BY <1>1
<1>3. QED BY <1>1, <1>2

LEMMA ConsumeView ==
  ASSUME ViewInv, FrameInv, NEW p \in Api, Consume(p), Quietly PROVE ViewInv'
<1> DEFINE e == Head(wire[p])
<1>1. /\ UNCHANGED <<run, place, holders, shown, midway, late, tangled, muted, overtaken>>
      /\ wire[p] # <<>> /\ wire' = [wire EXCEPT ![p] = Tail(wire[p])]
  BY DEF Consume, Quietly, watching
<1>2. /\ Foreign(p, e) =>
           /\ inbox' = [r \in Reader |-> IF r \in holders[p] /\ ~Full(r)
                                         THEN Append(inbox[r], e) ELSE inbox[r]]
           /\ lossy' = lossy \cup {r \in holders[p] : Full(r)}
      /\ ~Foreign(p, e) => inbox' = inbox /\ lossy' = lossy
  BY DEF Consume, Fanout
<1> HIDE DEF e
<1>3. /\ AtHome(holders) /\ wire \in [Api -> Seq(Frame)] /\ HomeOf \in [Reader -> Api]
  BY BusAssumption DEF FrameInv
<1>4. wire'[p] = Tail(wire[p]) /\ \A q \in Api \ {p} : wire'[q] = wire[q] BY <1>1, <1>3
<1>5. ASSUME NEW s \in Reader PROVE Seated(s)'
  <2>1. Seated(s) BY DEF ViewInv
  <2>2. CASE inbox'[s] = inbox[s] BY <1>1, <2>1, <2>2 DEF Seated, Watches
  <2>3. CASE s \in holders[p]
    <3>1. ASSUME place[s] = "away" PROVE inbox'[s] = inbox[s]
      <4>1. HomeOf[s] = p BY <1>3, <2>3 DEF AtHome
      <4>2. QED BY <2>1, <2>3, <3>1, <4>1 DEF Seated
    <3>2. QED BY <1>1, <2>1, <3>1 DEF Seated, Watches
  <2>4. QED BY <1>2, <2>2, <2>3
<1>6. ASSUME NEW s \in Reader, Faithful(s)' PROVE Sees(s)'
  <2>1. Faithful(s) BY <1>1, <1>2, <1>6 DEF Faithful, Straight, Watches
  <2>2. Sees(s) /\ Seated(s) BY <2>1 DEF ViewInv
  <2>3. CASE HomeOf[s] # p
    <3>1. s \notin holders[p] BY <1>3, <2>3 DEF AtHome
    <3>2. inbox'[s] = inbox[s] BY <1>2, <3>1
    <3>3. QED BY <1>1, <1>3, <1>4, <2>2, <2>3, <3>2, SeesSame
  <2>4. CASE HomeOf[s] = p
    <3>0. inbox[s] \in Seq(Frame) /\ wire[p] \in Seq(Frame) BY <1>3 DEF FrameInv
    <3>1. s \in holders[p] BY <2>1, <2>2, <2>4 DEF Faithful, Straight, Seated
    <3>2. CASE Foreign(p, e)
      <4>1. inbox'[s] = Append(inbox[s], e) BY <1>2, <1>6, <3>1, <3>2 DEF Faithful, Straight
      <4>2. \A bad, good :
              /\ Followed(inbox[s], wire[p], p, bad, good) => Followed(inbox'[s], wire'[p], p, bad, good)
              /\ Comes(inbox[s], wire[p], p, good) => Comes(inbox'[s], wire'[p], p, good)
        BY <1>1, <1>4, <3>0, <3>2, <4>1, FollowedMove DEF e
      <4>3. QED BY <1>1, <2>2, <2>4, <4>2 DEF Sees, SeesEnd, SeesRun, Quiet, Begun, Active
    <3>3. CASE ~Foreign(p, e)
      <4>1. inbox'[s] = inbox[s] BY <1>2, <3>3
      <4>2. \A bad, good :
              /\ Followed(inbox[s], wire[p], p, bad, good) => Followed(inbox'[s], wire'[p], p, bad, good)
              /\ Comes(inbox[s], wire[p], p, good) => Comes(inbox'[s], wire'[p], p, good)
        BY <1>1, <1>4, <3>0, <3>3, <4>1, FollowedDrop DEF e
      <4>3. QED BY <1>1, <2>2, <2>4, <4>2 DEF Sees, SeesEnd, SeesRun, Quiet, Begun, Active
    <3>4. QED BY <3>2, <3>3
  <2>5. QED BY <2>3, <2>4
<1>7. OneByOne'
  <2>1. ASSUME NEW x, FramesOf(x, wire) PROVE FramesOf(x, wire')
    BY <1>1, <1>3, <1>4, <2>1, TailOf DEF FramesOf
  <2>2. QED BY <1>1, <2>1 DEF ViewInv, OneByOne, Straight, Active
<1>8. QED BY <1>1, <1>5, <1>6, <1>7 DEF ViewInv

-----------------------------------------------------------------------------
(* Steps of runs: they bring frames to the readers of a process at most.   *)
LEMMA RunsSeated ==
  ASSUME ViewInv, FrameInv, UNCHANGED <<place, holders, shown>>, NEW p,
         \A r \in Reader : inbox'[r] = inbox[r] \/ (p \in Api /\ r \in holders[p])
  PROVE  \A r \in Reader : Seated(r)'
<1> SUFFICES ASSUME NEW r \in Reader PROVE Seated(r)'
  OBVIOUS
<1>1. Seated(r) BY DEF ViewInv
<1>2. p \in Api /\ r \in holders[p] => HomeOf[r] = p BY DEF FrameInv, AtHome
<1>3. QED BY <1>1, <1>2 DEF Seated, Watches

(* What no reader is told of, or what confuses them.                       *)
LEMMA Unseen ==
  ASSUME ViewInv, FrameInv, ~Straight', UNCHANGED <<inbox, place, holders, shown>>
  PROVE  ViewInv'
<1>1. \A r \in Reader : Seated(r)' BY RunsSeated
<1>2. QED BY <1>1 DEF ViewInv, OneByOne, Faithful

(* A run begins when none goes on and the broker has no frame: its readers *)
(* of the process have its first frame.                                    *)
LEMMA SubmitRunView ==
  ASSUME ViewInv, FrameInv, NEW x \in Run, SubmitRun(x) PROVE ViewInv'
<1> DEFINE p == FromOf[x]
           e == Event(x, 0, "run_submitted")
<1>0. p \in Api /\ p \in Process BY StreamAssumption DEF Process
<1>1. /\ run[x].state = "new"
      /\ UNCHANGED <<wire, place, holders, shown, midway, late, muted, overtaken>>
      /\ run' = [run EXCEPT ![x].state = "submitting"]
      /\ inbox' = [r \in Reader |-> IF r \in holders[p] /\ ~Full(r)
                                    THEN Append(inbox[r], e) ELSE inbox[r]]
      /\ lossy' = lossy \cup {r \in holders[p] : Full(r)}
      /\ tangled' = (tangled \/ (\E y \in Run : Active(y)) \/ \E q \in Api : wire[q] # <<>>)
  BY DEF SubmitRun, Fanout, bus
<1>2. /\ run'[x].state = "submitting" /\ run[x].n \in Nat
      /\ \A y \in Run : y # x => run'[y] = run[y]
  <2>1. RunsTyped(run) /\ "submitting" \in RunStates \ {"new"} BY DEF FrameInv, RunStates
  <2>2. QED BY <1>1, <2>1, Becomes
<1>3. e \in Frame /\ e.run = x /\ e.name = "run_submitted"
  BY <1>0, <1>2 DEF Frame, Telling, Event, By
<1> HIDE DEF e, p
<1>4. Straight' => Straight /\ Quiet /\ \A q \in Api : wire[q] = <<>>
  BY <1>1 DEF Quiet, Straight
<1>5. Straight' => \A y \in Run : Active(y)' => y = x BY <1>2, <1>4 DEF Active, Quiet
<1>6. Active(x)' BY <1>2 DEF Active
<1>7. \A r \in Reader : Seated(r)'
  <2>1. \A r \in Reader : inbox'[r] = inbox[r] \/ (p \in Api /\ r \in holders[p]) BY <1>0, <1>1
  <2>2. QED BY <1>1, <2>1, RunsSeated
<1>8. OneByOne'
  <2>1. Len(<<>>) = 0 OBVIOUS
  <2>2. Straight' => \A y : FramesOf(y, wire') BY <1>1, <1>4, <2>1 DEF FramesOf
  <2>3. QED BY <1>5, <2>2 DEF OneByOne
<1>9. ASSUME NEW r \in Reader, Faithful(r)' PROVE Sees(r)'
  <2>1. ~Quiet' BY <1>6 DEF Quiet
  <2>2. ASSUME NEW y \in Run, Begun(y, HomeOf[r])'
        PROVE  SeesRun(shown'[r], inbox'[r], wire'[HomeOf[r]], HomeOf[r])
    <3>1. Straight' /\ Watches(r) /\ r \notin lossy' BY <1>1, <1>9 DEF Faithful, Watches
    <3>2. y = x BY <1>5, <2>2, <3>1 DEF Begun
    <3>3. HomeOf[r] = p BY <1>2, <2>2, <3>2 DEF Begun, p
    <3>4. r \in holders[p] BY <3>1, <3>3 DEF ViewInv, Seated
    <3>5. inbox'[r] = Append(inbox[r], e) BY <1>1, <3>1, <3>4
    <3>6. inbox[r] \in Seq(Frame) /\ wire'[HomeOf[r]] = <<>>
      BY <1>0, <1>1, <1>4, <3>1, <3>3 DEF FrameInv
    <3>7. \A i \in 1 .. Len(<<>>) : ~Foreign(HomeOf[r], <<>>[i])
      <4>1. Len(<<>>) = 0 OBVIOUS
      <4>2. QED BY <4>1
    <3>8. e.name \notin Terminal /\ e.name \in Opening BY <1>3 DEF Terminal, Opening
    <3>9. /\ Followed(inbox'[r], <<>>, HomeOf[r], Terminal, Opening)
          /\ Comes(inbox'[r], <<>>, HomeOf[r], Opening)
      BY <1>3, <3>5, <3>6, <3>7, <3>8, FollowedPut
    <3>10. QED BY <3>6, <3>9 DEF SeesRun
  <2>3. QED BY <2>1, <2>2 DEF Sees
<1>10. QED BY <1>1, <1>7, <1>8, <1>9 DEF ViewInv

LEMMA AppendOf ==
  ASSUME NEW v \in Seq(Frame), NEW e \in Frame, \A i \in 1 .. Len(v) : v[i].run = e.run
  PROVE  \A i \in 1 .. Len(Append(v, e)) : Append(v, e)[i].run = e.run
<1> DEFINE w == Append(v, e)
<1>1. /\ Len(w) = Len(v) + 1 /\ Len(v) \in Nat
      /\ \A i \in 1 .. Len(v) : w[i] = v[i]
      /\ w[Len(v) + 1] = e
  BY AppendFrame
<1> HIDE DEF w
<1>2. \A i \in 1 .. Len(w) : (i \in 1 .. Len(v) /\ w[i] = v[i]) \/ w[i] = e BY <1>1
<1>3. \A i \in 1 .. Len(w) : w[i].run = e.run BY <1>2
<1>4. QED BY <1>3 DEF w

(* A publication leaves the broker with frames of its own run only.        *)
LEMMA FramesOfStay ==
  ASSUME wire \in [Api -> Seq(Frame)], NEW e \in Frame, FramesOf(e.run, wire),
         \A q \in Api : wire'[q] = wire[q] \/ wire'[q] = Append(wire[q], e)
  PROVE  FramesOf(e.run, wire')
<1>1. SUFFICES ASSUME NEW q \in Api
               PROVE  \A i \in 1 .. Len(wire'[q]) : wire'[q][i].run = e.run
  BY DEF FramesOf
<1>2. wire[q] \in Seq(Frame) /\ \A i \in 1 .. Len(wire[q]) : wire[q][i].run = e.run
  BY DEF FramesOf
<1>3. CASE wire'[q] = wire[q] BY <1>2, <1>3
<1>4. CASE wire'[q] = Append(wire[q], e)
  <2>1. \A i \in 1 .. Len(Append(wire[q], e)) : Append(wire[q], e)[i].run = e.run
    BY <1>2, AppendOf
  <2>2. QED BY <1>4, <2>1
<1>5. QED BY <1>3, <1>4

(* It becomes known to the readers of the others.                          *)
LEMMA SendSubmittedView ==
  ASSUME ViewInv, FrameInv, NEW x \in Run, SendSubmitted(x) PROVE ViewInv'
<1> DEFINE p == FromOf[x]
           e == Event(x, 0, "run_submitted")
<1>0. run[x].state = "submitting" /\ Published(x, "submitted") BY DEF SendSubmitted
<1>1. p \in Api /\ p \in Process BY StreamAssumption DEF Process
<1>2. /\ run'[x].state = "submitted" /\ run[x].n \in Nat
      /\ \A y \in Run : y # x => run'[y] = run[y]
  BY <1>0, Counts DEF FrameInv
<1>3. e \in Frame /\ e.run = x /\ e.name = "run_submitted" /\ e.origin = p
  BY <1>1, <1>2 DEF Frame, Telling, Event, By
<1>4. /\ UNCHANGED <<inbox, holders, place, shown, midway, late, tangled, muted, overtaken>>
      /\ \/ /\ wire' = wire
            /\ lossy' = lossy \cup {r \in Reader : HomeOf[r] # p /\ r \in holders[HomeOf[r]]}
         \/ /\ wire' = [q \in Api |-> IF bound[q] THEN Append(wire[q], e) ELSE wire[q]]
            /\ lossy' = lossy \cup {r \in Reader : /\ HomeOf[r] # p /\ r \in holders[HomeOf[r]]
                                                   /\ ~bound[HomeOf[r]]}
  BY <1>3 DEF SendSubmitted, Route, Lose, bus, watching
<1>5. Foreign(p, e) <=> FALSE BY <1>3 DEF Foreign
<1>6. \A q : q # p => Foreign(q, e) BY <1>3 DEF Foreign
<1> HIDE DEF e
<1>7. Straight' <=> Straight BY <1>4 DEF Straight
<1>8. Active(x) /\ Active(x)' /\ \A y \in Run : Active(y)' <=> Active(y)
  BY <1>0, <1>2 DEF Active
<1>9. \A r \in Reader : Seated(r)' BY <1>4, RunsSeated
<1>10. wire \in [Api -> Seq(Frame)] BY DEF FrameInv
<1>11. \A q \in Api : wire'[q] = wire[q] \/ wire'[q] = Append(wire[q], e) BY <1>4
<1>12. OneByOne'
  <2>1. ASSUME FramesOf(x, wire) PROVE FramesOf(x, wire')
    BY <1>3, <1>10, <1>11, <2>1, FramesOfStay
  <2>2. ASSUME Straight PROVE FramesOf(x, wire') /\ \A y \in Run : Active(y) => y = x
    BY <1>8, <2>1, <2>2 DEF ViewInv, OneByOne
  <2>3. QED BY <1>7, <1>8, <2>2 DEF OneByOne
<1>13. ASSUME NEW r \in Reader, Faithful(r)' PROVE Sees(r)'
  <2>1. ~Quiet' BY <1>8 DEF Quiet
  <2>2. Faithful(r) BY <1>4, <1>7, <1>13 DEF Faithful, Watches
  <2>3. Sees(r) /\ HomeOf[r] \in Api /\ inbox[r] \in Seq(Frame) /\ wire[HomeOf[r]] \in Seq(Frame)
    BY <2>2, BusAssumption DEF ViewInv, FrameInv
  <2>4. e.name \notin Terminal /\ e.name \in Opening BY <1>3 DEF Terminal, Opening
  <2>5. ASSUME r \notin midway
        PROVE  SeesRun(shown'[r], inbox'[r], wire'[HomeOf[r]], HomeOf[r])
    <3>1. CASE HomeOf[r] = p
      <4>1. Begun(x, HomeOf[r]) BY <1>8, <3>1 DEF Begun
      <4>2. SeesRun(shown[r], inbox[r], wire[HomeOf[r]], HomeOf[r]) BY <2>3, <2>5, <4>1 DEF Sees
      <4>3. CASE wire'[HomeOf[r]] = wire[HomeOf[r]] BY <1>4, <4>2, <4>3
      <4>4. CASE wire'[HomeOf[r]] = Append(wire[HomeOf[r]], e)
        BY <1>3, <1>4, <1>5, <2>3, <2>4, <3>1, <4>2, <4>4, FollowedSend DEF SeesRun
      <4>5. QED BY <1>11, <2>3, <4>3, <4>4
    <3>2. CASE HomeOf[r] # p
      <4>1. r \in holders[HomeOf[r]] /\ r \notin lossy'
        BY <1>13, <2>2 DEF ViewInv, Seated, Faithful
      <4>2. wire'[HomeOf[r]] = Append(wire[HomeOf[r]], e) BY <1>4, <2>3, <3>2, <4>1
      <4>3. Foreign(HomeOf[r], e) BY <1>6, <3>2
      <4>4. /\ Followed(inbox[r], wire'[HomeOf[r]], HomeOf[r], Terminal, Opening)
            /\ Comes(inbox[r], wire'[HomeOf[r]], HomeOf[r], Opening)
        BY <1>3, <2>3, <2>4, <4>2, <4>3, FollowedSend
      <4>5. QED BY <1>4, <4>4 DEF SeesRun
    <3>3. QED BY <3>1, <3>2
  <2>6. QED BY <1>4, <2>1, <2>5 DEF Sees
<1>14. QED BY <1>4, <1>9, <1>12, <1>13 DEF ViewInv

(* A publication of a turn: as nothing was overtaken, its run goes on, and *)
(* no frame of another process is on the way to the readers of its own.    *)
LEMMA PublishView ==
  ASSUME ViewInv, FrameInv, TurnInv, NEW x \in Run, NEW t \in DOMAIN turns[x],
         turns[x][t].pc \notin Silent,
         NEW name \in Telling \cup Terminal, name # "run_submitted",
         NEW s \in {"active", "ended"}, run[x].state = "active" => (s = "ended" <=> name \in Terminal),
         PublishFrom(Event(x, t, name)), Published(x, s), UNCHANGED watching
  PROVE  ViewInv'
<1> DEFINE p == turns[x][t].by
           e == Event(x, t, name)
           mine == IF p \in Api THEN holders[p] ELSE {}
<1>0. /\ run[x].state \in {"active", "ended"} /\ t \in 1 .. Len(turns[x]) /\ t # 0 /\ t \in Nat
      /\ turns[x][t] \in Turn
  BY Executing DEF FrameInv, TurnInv
<1>1. /\ p \in Process /\ run[x].n \in Nat /\ run'[x].state = s
      /\ \A y \in Run : y # x => run'[y] = run[y]
  BY <1>0, Counts DEF FrameInv, Turn
<1>2. e \in Frame /\ e.run = x /\ e.name = name /\ e.origin = p
  BY <1>0, <1>1 DEF Frame, Event, By
<1>3. PICK sent :
        /\ wire' = [q \in Api |-> IF sent /\ bound[q] THEN Append(wire[q], e) ELSE wire[q]]
        /\ lossy' = lossy \cup {r \in mine : Full(r)}
             \cup {r \in Reader : /\ HomeOf[r] # p /\ r \in holders[HomeOf[r]]
                                  /\ ~sent \/ ~bound[HomeOf[r]]}
  BY <1>2 DEF PublishFrom
<1>4. /\ inbox' = [r \in Reader |-> IF r \in mine /\ ~Full(r) THEN Append(inbox[r], e)
                                    ELSE inbox[r]]
      /\ UNCHANGED <<holders, place, shown, midway, late, tangled, muted, overtaken>>
  BY <1>2 DEF PublishFrom, bus, watching
<1>5. \A q : Foreign(q, e) <=> q # p BY <1>2 DEF Foreign
<1> HIDE DEF e
<1>6. \A r \in Reader : Seated(r)'
  <2>1. \A r \in Reader : inbox'[r] = inbox[r] \/ (p \in Api /\ r \in holders[p]) BY <1>4
  <2>2. QED BY <1>4, <2>1, RunsSeated
<1>7. Straight' <=> Straight BY <1>4 DEF Straight
<1>8. Straight => /\ run[x].state = "active" /\ Active(x)
                  /\ \A y \in Run : Active(y) => y = x
                  /\ FramesOf(x, wire)
                  /\ p \in Api => Cleared(x, p, wire)
  <2>1. Straight => run[x].state = "active" BY <1>0 DEF TurnInv, Told, Straight
  <2>2. run[x].state = "active" => Active(x) BY DEF Active
  <2>3. Straight => Clear(x, turns, wire) BY DEF TurnInv, AllClear, Straight
  <2>4. QED BY <1>0, <2>1, <2>2, <2>3 DEF ViewInv, OneByOne, Clear
<1>9. Straight => \A y \in Run : Active(y)' => y = x /\ s = "active"
  BY <1>1, <1>8 DEF Active
<1>10. wire \in [Api -> Seq(Frame)] BY DEF FrameInv
<1>11. \A q \in Api : wire'[q] = wire[q] \/ wire'[q] = Append(wire[q], e) BY <1>3
<1>12. OneByOne'
  <2>1. ASSUME FramesOf(x, wire) PROVE FramesOf(x, wire')
    BY <1>2, <1>10, <1>11, <2>1, FramesOfStay
  <2>2. QED BY <1>7, <1>8, <1>9, <2>1 DEF OneByOne
<1>13. ASSUME NEW r \in Reader, Faithful(r)' PROVE Sees(r)'
  <2> DEFINE q == HomeOf[r]
             u == inbox[r]
             v == wire[q]
  <2>1. Faithful(r) /\ r \notin lossy' /\ Straight
    BY <1>3, <1>4, <1>7, <1>13 DEF Faithful, Watches
  <2>2. /\ Sees(r) /\ q \in Api /\ u \in Seq(Frame) /\ v \in Seq(Frame) /\ r \in holders[q]
        /\ inbox'[r] \in Seq(Frame)
    <3>1. inbox'[r] = u \/ inbox'[r] = Append(u, e) BY <1>4
    <3>2. u \in Seq(Frame) BY DEF FrameInv
    <3>3. inbox'[r] \in Seq(Frame) BY <1>2, <3>1, <3>2
    <3>4. QED BY <2>1, <3>2, <3>3, BusAssumption DEF ViewInv, FrameInv, Faithful, Seated
  <2> HIDE DEF q, u, v
  <2>3. CASE q = p
    <3>1. inbox'[r] = Append(u, e) BY <1>3, <1>4, <2>1, <2>2, <2>3 DEF u
    <3>2. wire'[q] = v \/ wire'[q] = Append(v, e) BY <1>11, <2>2 DEF v
    <3>3. CASE name \in Terminal
      <4>1. \A i \in 1 .. Len(v) : ~Foreign(q, v[i])
        BY <1>8, <2>1, <2>2, <2>3 DEF FramesOf, Cleared, v
      <4>2. e.name \notin Telling /\ e.name \in Terminal BY <1>2, <3>3 DEF Telling, Terminal
      <4>3. /\ Followed(Append(u, e), v, q, Telling, Terminal)
            /\ Comes(Append(u, e), v, q, Terminal)
        BY <1>2, <2>2, <4>1, <4>2, FollowedPut
      <4>4. /\ Followed(Append(u, e), Append(v, e), q, Telling, Terminal)
            /\ Comes(Append(u, e), Append(v, e), q, Terminal)
        BY <1>2, <2>2, <4>2, <4>3, FollowedSend
      <4>5. SeesEnd(shown'[r], inbox'[r], wire'[q], q) BY <3>1, <3>2, <4>3, <4>4 DEF SeesEnd
      <4>6. \A y \in Run : ~Active(y)' BY <1>8, <1>9, <2>1, <3>3
      <4>7. QED BY <4>5, <4>6 DEF Sees, Begun, q
    <3>4. CASE name \notin Terminal
      <4>1. ASSUME r \notin midway PROVE SeesRun(shown'[r], inbox'[r], wire'[q], q)
        <5>1. Begun(x, q) BY <1>8, <2>1 DEF Begun
        <5>2. SeesRun(shown[r], u, v, q) BY <2>2, <4>1, <5>1 DEF Sees, q, u, v
        <5>3. e.name \notin Terminal BY <1>2, <3>4
        <5>4. /\ Followed(Append(u, e), v, q, Terminal, Opening)
              /\ Comes(u, v, q, Opening) => Comes(Append(u, e), v, q, Opening)
          BY <1>2, <2>2, <5>2, <5>3, FollowedPut DEF SeesRun
        <5>5. /\ Followed(Append(u, e), Append(v, e), q, Terminal, Opening)
              /\ Comes(Append(u, e), v, q, Opening) => Comes(Append(u, e), Append(v, e), q, Opening)
          BY <1>2, <2>2, <5>3, <5>4, FollowedSend
        <5>6. QED BY <1>4, <3>1, <3>2, <5>2, <5>4, <5>5 DEF SeesRun
      <4>2. ~Quiet'
        <5>1. s = "active" BY <1>8, <2>1, <3>4
        <5>2. Active(x)' BY <1>1, <5>1 DEF Active
        <5>3. QED BY <5>2 DEF Quiet
      <4>3. QED BY <1>4, <4>1, <4>2 DEF Sees, q
    <3>5. QED BY <3>3, <3>4
  <2>4. CASE q # p
    <3>1. r \notin mine
      <4>1. p \in Api => r \notin holders[p] BY <2>4 DEF FrameInv, AtHome, q
      <4>2. QED BY <4>1
    <3>2. inbox'[r] = u BY <1>4, <3>1 DEF u
    <3>3. wire'[q] = Append(v, e) BY <1>3, <2>1, <2>2, <2>4 DEF q, v
    <3>4. Foreign(q, e) BY <1>5, <2>4
    <3>5. CASE name \in Terminal
      <4>1. e.name \notin Telling /\ e.name \in Terminal BY <1>2, <3>5 DEF Telling, Terminal
      <4>2. /\ Followed(u, Append(v, e), q, Telling, Terminal)
            /\ Comes(u, Append(v, e), q, Terminal)
        BY <1>2, <2>2, <3>4, <4>1, FollowedSend
      <4>3. SeesEnd(shown'[r], inbox'[r], wire'[q], q) BY <3>2, <3>3, <4>2 DEF SeesEnd
      <4>4. \A y \in Run : ~Active(y)' BY <1>8, <1>9, <2>1, <3>5
      <4>5. QED BY <4>3, <4>4 DEF Sees, Begun, q
    <3>6. CASE name \notin Terminal
      <4>1. ASSUME r \notin midway PROVE SeesRun(shown'[r], inbox'[r], wire'[q], q)
        <5>1. Begun(x, q) BY <1>8, <2>1 DEF Begun
        <5>2. SeesRun(shown[r], u, v, q) BY <2>2, <4>1, <5>1 DEF Sees, q, u, v
        <5>3. e.name \notin Terminal BY <1>2, <3>6
        <5>4. /\ Followed(u, Append(v, e), q, Terminal, Opening)
              /\ Comes(u, v, q, Opening) => Comes(u, Append(v, e), q, Opening)
          BY <1>2, <2>2, <5>2, <5>3, FollowedSend DEF SeesRun
        <5>5. QED BY <1>4, <3>2, <3>3, <5>2, <5>4 DEF SeesRun
      <4>2. ~Quiet'
        <5>1. s = "active" BY <1>8, <2>1, <3>6
        <5>2. Active(x)' BY <1>1, <5>1 DEF Active
        <5>3. QED BY <5>2 DEF Quiet
      <4>3. QED BY <1>4, <4>1, <4>2 DEF Sees, q
    <3>7. QED BY <3>5, <3>6
  <2>5. QED BY <2>3, <2>4
<1>14. QED BY <1>4, <1>6, <1>12, <1>13 DEF ViewInv

(* A turn begins with no frame; the run was going on, or is overtaken.     *)
LEMMA BeginView ==
  ASSUME ViewInv, FrameInv, TurnInv, NEW x \in Run, NEW w \in Process, Begin(x, w) PROVE ViewInv'
<1>1. /\ Envelope(x, w) /\ run' = [run EXCEPT ![x].state = "active"]
      /\ UNCHANGED <<wire, inbox, holders, place, shown, lossy, midway, late, tangled, muted>>
      /\ overtaken' = IF run[x].state = "ended" \/ Publishing(x) \/ OnTheWay(x, w)
                      THEN overtaken \cup {x} ELSE overtaken
  BY DEF Begin, busVars
<1>2. run[x].state \notin {"new", "submitting"}
  BY <1>1 DEF Envelope, TurnInv, TurnsTyped
<1>3. run'[x].state = "active" /\ \A y \in Run : y # x => run'[y] = run[y]
  <2>1. "active" \in RunStates \ {"new"} BY DEF RunStates
  <2>2. QED BY <1>1, <1>2, <2>1, Becomes DEF FrameInv
<1>4. Straight' => Straight /\ run[x].state # "ended" BY <1>1 DEF Straight
<1>5. run[x].state # "ended" => Active(x)
  BY <1>2 DEF Active, FrameInv, RunsTyped, RunRecord, RunStates
<1>6. run[x].state # "ended" => SameRuns BY <1>2, <1>3, <1>5 DEF SameRuns, Active
<1>7. QED BY <1>1, <1>4, <1>6, ViewStays DEF Watches

LEMMA TurnView ==
  ASSUME ViewInv, FrameInv, TurnInv, NEW x \in Run, NEW t \in DOMAIN turns[x],
         \/ Delta(x, t) \/ Ask(x, t) \/ Interrupted(x, t) \/ Leave(x, t) \/ Settle(x, t)
         \/ Finish(x, t, "run_completed") \/ Finish(x, t, "run_failed") \/ Lost(x, t)
         \/ \E y \in Run : SpawnChild(y, x, t)
  PROVE  ViewInv'
<1>0. run[x].state \in {"active", "ended"} /\ t \in 1 .. Len(turns[x])
  BY Executing DEF FrameInv, TurnInv
<1>1. CASE Delta(x, t)
  <2>1. "speaking" \in Telling /\ "speaking" \notin Terminal BY DEF Telling, Terminal
  <2>2. turns[x][t].pc \notin Silent BY <1>1 DEF Delta, At, Silent
  <2>3. PublishFrom(Event(x, t, "speaking")) /\ Published(x, run[x].state) /\ UNCHANGED watching
    BY <1>1 DEF Delta
  <2>4. QED BY <1>0, <2>1, <2>2, <2>3, PublishView
<1>2. CASE Interrupted(x, t)
  <2>1. "run_interrupted" \in Telling /\ "run_interrupted" \notin Terminal BY DEF Telling, Terminal
  <2>2. turns[x][t].pc \notin Silent BY <1>2 DEF Interrupted, At, Silent
  <2>3. /\ PublishFrom(Event(x, t, "run_interrupted")) /\ Published(x, run[x].state)
        /\ UNCHANGED watching
    BY <1>2 DEF Interrupted
  <2>4. QED BY <1>0, <2>1, <2>2, <2>3, PublishView
<1>3. CASE Finish(x, t, "run_completed") \/ Finish(x, t, "run_failed")
  <2>1. PICK name \in Terminal : Finish(x, t, name) BY <1>3 DEF Terminal
  <2>2. turns[x][t].pc \notin Silent /\ name # "run_submitted"
    BY <2>1 DEF Finish, At, Silent, Terminal
  <2>3. PublishFrom(Event(x, t, name)) /\ Published(x, "ended") /\ UNCHANGED watching
    BY <2>1 DEF Finish
  <2>4. QED BY <2>2, <2>3, PublishView
<1>4. CASE Ask(x, t)
  <2>1. /\ run' = [run EXCEPT ![x].state = "active"] /\ turns[x][t].pc \notin Silent
        /\ UNCHANGED <<wire, inbox, holders, place, shown, lossy, midway, late, tangled, muted, overtaken>>
    BY <1>4 DEF Ask, At, Silent, busVars, watching
  <2>2. run'[x].state = "active" /\ \A y \in Run : y # x => run'[y] = run[y]
    <3>1. "active" \in RunStates \ {"new"} BY DEF RunStates
    <3>2. QED BY <1>0, <2>1, <3>1, Becomes DEF FrameInv
  <2>3. Straight' => Straight /\ run[x].state = "active"
    BY <1>0, <2>1 DEF Straight, TurnInv, Told
  <2>4. run[x].state = "active" => SameRuns BY <2>2 DEF SameRuns, Active
  <2>5. QED BY <2>1, <2>3, <2>4, ViewStays DEF Watches
<1>5. CASE Leave(x, t) \/ Settle(x, t)
  <2>1. UNCHANGED <<run, wire, inbox, holders, place, shown, lossy, midway, late, tangled, muted, overtaken>>
    BY <1>5 DEF Leave, Settle, busVars, watching
  <2>2. QED BY <2>1, RunsSame, ViewStays DEF Watches
<1>6. CASE Lost(x, t)
  <2>1. UNCHANGED <<wire, inbox, holders, place, shown, lossy, midway, late, tangled, overtaken>>
    BY <1>6 DEF Lost, busVars
  <2>2. CASE muted' = TRUE BY <2>1, <2>2, Unseen DEF Straight
  <2>3. CASE UNCHANGED <<muted, run>> BY <2>1, <2>3, RunsSame, ViewStays DEF Watches
  <2>4. QED BY <1>6, <2>2, <2>3 DEF Lost
<1>7. ASSUME NEW y \in Run, SpawnChild(y, x, t) PROVE ViewInv'
  <2>1. tangled' = TRUE /\ UNCHANGED <<inbox, place, holders, shown>>
    BY <1>7 DEF SpawnChild, busVars
  <2>2. QED BY <2>1, Unseen DEF Straight
<1>8. QED BY <1>1, <1>2, <1>3, <1>4, <1>5, <1>6, <1>7

LEMMA ViewAtFirst == ASSUME StreamInit PROVE ViewInv
<1>1. /\ run = [x \in Run |-> [state |-> "new", n |-> 0]]
      /\ inbox = [r \in Reader |-> <<>>] /\ holders = [p \in Api |-> {}]
      /\ place = [r \in Reader |-> "away"] /\ shown = [r \in Reader |-> "idle"]
  BY DEF StreamInit, BusInit
<1>2. \A r \in Reader : Seated(r) /\ ~Watches(r)
  BY <1>1, BusAssumption DEF Seated, Watches
<1>3. \A x \in Run : ~Active(x) BY <1>1 DEF Active
<1>4. shown \in [Reader -> MachineStates] BY <1>1 DEF MachineStates
<1>5. QED BY <1>2, <1>3, <1>4 DEF ViewInv, OneByOne, Faithful

LEMMA ViewInductive ==
  ViewInv /\ FrameInv /\ TurnInv /\ BindInv /\ [StreamNext]_streamVars => ViewInv'
<1> SUFFICES ASSUME ViewInv, FrameInv, TurnInv, BindInv, [StreamNext]_streamVars PROVE ViewInv'
  OBVIOUS
<1>1. ASSUME UNCHANGED <<run, wire, inbox, holders, shown, lossy, midway, late, tangled, muted,
                         overtaken, place>>
      PROVE  ViewInv'
  BY <1>1, RunsSame, ViewStays DEF Watches
<1>2. CASE UNCHANGED streamVars BY <1>1, <1>2 DEF streamVars, busVars
<1>3. ASSUME NEW x \in Run, EndSilently(x) PROVE ViewInv'
  <2>1. muted' = TRUE /\ UNCHANGED <<inbox, place, holders, shown>>
    BY <1>3 DEF EndSilently, busVars
  <2>2. QED BY <2>1, Unseen DEF Straight
<1>4. CASE \/ \E x \in Run : SubmitRun(x) \/ SendSubmitted(x) \/ EndSilently(x)
           \/ \E x \in Run, w \in Process : Begin(x, w)
  BY <1>3, <1>4, SubmitRunView, SendSubmittedView, BeginView
<1>5. CASE \E x \in Run : \E t \in DOMAIN turns[x] :
             \/ Delta(x, t) \/ Ask(x, t) \/ Interrupted(x, t) \/ Leave(x, t) \/ Settle(x, t)
             \/ Finish(x, t, "run_completed") \/ Finish(x, t, "run_failed") \/ Lost(x, t)
             \/ \E y \in Run : SpawnChild(y, x, t)
  BY <1>5, TurnView
<1>6. ASSUME NEW r \in Reader, Take(r) \/ Connected(r) \/ SubscribeTo(r) \/ UnsubscribeFrom(r)
      PROVE  ViewInv'
  BY <1>6, TakeView, ConnectedView, SubscribeView, UnsubscribeView
<1>7. ASSUME NEW r \in Reader, (Wake(r) \/ Cancel(r)) /\ Quietly PROVE ViewInv'
  BY <1>7, ReaderStepsView
<1>8. ASSUME NEW p \in Api, (Consume(p) \/ Build(p) \/ BuildFails(p) \/ BuildTimesOut(p)
                               \/ Answer(p)) /\ Quietly
      PROVE  ViewInv'
  BY <1>8, ConsumeView, BuilderView, AnswerView
<1>9. ASSUME NEW p \in Api, EnsureForPublish(p) PROVE ViewInv'
  <2>1. UNCHANGED <<run, wire, inbox, holders, shown, lossy, midway, late, tangled, muted,
                    overtaken, place>>
    BY <1>9 DEF EnsureForPublish, watching
  <2>2. QED BY <1>1, <2>1
<1>10. CASE \/ \E r \in Reader : Take(r) \/ Connected(r) \/ SubscribeTo(r) \/ UnsubscribeFrom(r)
            \/ \E r \in Reader : (Wake(r) \/ Cancel(r)) /\ Quietly
  BY <1>6, <1>7, <1>10
<1>11. CASE \/ \E p \in Api : EnsureForPublish(p)
            \/ \E p \in Api : (Consume(p) \/ Build(p) \/ BuildFails(p) \/ BuildTimesOut(p)
                                \/ Answer(p)) /\ Quietly
  BY <1>8, <1>9, <1>11
<1>12. QED BY <1>2, <1>4, <1>5, <1>10, <1>11 DEF StreamNext

(* What a reader is shown is what goes on: a reader that has taken all its *)
(* frames shows a run exactly while one goes on, however many processes,   *)
(* readers, runs and turns of runs there are, and however their steps and  *)
(* deliveries interleave, unless a frame was lost, runs overlapped, a turn *)
(* overtook another of its run, a run ended without a frame, or the reader *)
(* came late.                                                              *)
THEOREM ReadersSeeTheRun == StreamSpec => []ShownAsIs
<1>1. ViewInv => ShownAsIs
  <2> SUFFICES ASSUME ViewInv, NEW r \in Reader, place[r] = "on", shown[r] # "idle",
                      inbox[r] = <<>>, wire[HomeOf[r]] = <<>>,
                      r \notin lossy \cup late, ~tangled, ~muted, overtaken = {},
                      \A x \in Run : run[x].state # "submitting"
               PROVE  /\ shown[r] = "run_active" => \E x \in Run : Active(x)
                      /\ r \notin midway /\ (\E x \in Run : Active(x)) => shown[r] = "run_active"
    BY DEF ShownAsIs
  <2>1. Sees(r) BY DEF ViewInv, Faithful, Watches, Straight
  <2>2. \A good : ~Comes(<<>>, <<>>, HomeOf[r], good)
    <3>1. Len(<<>>) = 0 OBVIOUS
    <3>2. QED BY <3>1 DEF Comes
  <2>3. Quiet => shown[r] # "run_active" BY <2>1, <2>2 DEF Sees, SeesEnd
  <2>4. ASSUME r \notin midway, NEW x \in Run, Active(x) PROVE shown[r] = "run_active"
    <3>1. Begun(x, HomeOf[r]) BY <2>4 DEF Begun
    <3>2. QED BY <2>1, <2>2, <2>4, <3>1 DEF Sees, SeesRun
  <2>5. QED BY <2>3, <2>4 DEF Quiet
<1>2. StreamInit => BindInv /\ FrameInv /\ TurnInv /\ ViewInv
  BY Initially, FramesAtFirst, TurnsAtFirst, ViewAtFirst
<1>3. BindInv /\ FrameInv /\ TurnInv /\ ViewInv /\ [StreamNext]_streamVars =>
        (BindInv /\ FrameInv /\ TurnInv /\ ViewInv)'
  BY Inductive, FramesInductive, TurnsInductive, ViewInductive
<1>4. QED BY <1>1, <1>2, <1>3, PTL DEF StreamSpec
=============================================================================

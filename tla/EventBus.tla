------------------------------ MODULE EventBus ------------------------------
(***************************************************************************)
(* The stream bus of one conversation.  Every API process has a queue at   *)
(* the broker, bound to the conversation while the process has readers; a  *)
(* publisher puts an event into the queues of its own readers at once and  *)
(* sends it to the exchange.  The connection is set up by whoever needs it *)
(* first, step by step, under a lock that others wait for; a client that   *)
(* goes away cancels its handler at whatever it awaits.  The broker itself *)
(* is external: a topic exchange that copies an event to bound queues and  *)
(* serves the calls of a channel one after the other.                      *)
(***************************************************************************)
EXTENDS Naturals, Sequences, FiniteSets

CONSTANTS Api,       \* API processes
          Worker,    \* Celery worker processes: they publish, and never subscribe
          Reader,    \* SSE connections
          HomeOf,    \* [Reader -> Api]
          MaxInbox   \* stream_queue_maxsize

ASSUME BusAssumption ==
  /\ HomeOf \in [Reader -> Api] /\ MaxInbox \in Nat \ {0}
  /\ {"nobody", "publisher"} \cap Reader = {} /\ Api \cap Worker = {}

VARIABLES link,      \* [Api -> how far _ensure came: exchange, queue, consumer]
          builder,   \* [Api -> who is inside _ensure]
          holders,   \* [Api -> SUBSET Reader], _subs
          bound,     \* [Api -> the broker has the binding]
          calls,     \* [Api -> bind and unbind calls on the channel, in order]
          wire,      \* [Api -> events the broker has for the process]
          inbox,     \* [Reader -> events], the bounded asyncio.Queue
          place      \* [Reader -> where its handler is]

VARIABLES early,     \* history: processes where a subscription met a connection
                     \* under construction, or was cancelled
          lossy      \* history: readers an event was not delivered to

busVars == <<link, builder, holders, bound, calls, wire, inbox, place, early, lossy>>

Process == Api \cup Worker
NoOne == "nobody"
Publisher == "publisher"
Links == {"none", "exchange", "queue", "ready"}
Places == {"away", "building", "waiting", "binding", "on", "leaving", "gone"}

BusInit ==
  /\ link = [p \in Api |-> "none"]
  /\ builder = [p \in Api |-> NoOne]
  /\ holders = [p \in Api |-> {}]
  /\ bound = [p \in Api |-> FALSE]
  /\ calls = [p \in Api |-> <<>>]
  /\ wire = [p \in Api |-> <<>>]
  /\ inbox = [r \in Reader |-> <<>>]
  /\ place = [r \in Reader |-> "away"]
  /\ early = {} /\ lossy = {}

-----------------------------------------------------------------------------
(* Events.                                                                 *)

(* A queue holds MaxInbox events.                                          *)
Full(r) == Len(inbox[r]) >= MaxInbox

(* _fanout_local: a full queue drops the event.                            *)
Fanout(p, e) ==
  /\ inbox' = [r \in Reader |-> IF r \in holders[p] /\ ~Full(r)
                                THEN Append(inbox[r], e) ELSE inbox[r]]
  /\ lossy' = lossy \cup {r \in holders[p] : Full(r)}

(* exchange.publish: a copy for every bound queue, one's own included.     *)
Route(e) ==
  /\ wire' = [p \in Api |-> IF bound[p] THEN Append(wire[p], e) ELSE wire[p]]
  /\ lossy' = lossy \cup {r \in Reader : /\ HomeOf[r] # e.origin
                                         /\ r \in holders[HomeOf[r]]
                                         /\ ~bound[HomeOf[r]]}

(* A publish that times out or finds no connection.                        *)
Lose(e) ==
  /\ lossy' = lossy \cup {r \in Reader : HomeOf[r] # e.origin /\ r \in holders[HomeOf[r]]}
  /\ UNCHANGED wire

(* _on_message: what this process published its readers have already.      *)
(* FromAnywhere takes its own events back from the broker.                 *)
FromAnywhere(p, e) == TRUE
Foreign(p, e) == e.origin # p
Consume(p) ==
  /\ wire[p] # <<>> /\ link[p] = "ready"
  /\ wire' = [wire EXCEPT ![p] = Tail(@)]
  /\ IF Foreign(p, Head(wire[p])) THEN Fanout(p, Head(wire[p]))
     ELSE UNCHANGED <<inbox, lossy>>
  /\ UNCHANGED <<link, builder, holders, bound, calls, place, early>>

-----------------------------------------------------------------------------
(* Subscribing.                                                            *)

(* After _ensure: the first holder binds.  WhenUnbound asks the binding    *)
(* instead of the holders, while an unbind may be on its way.              *)
WhenUnbound(p, hs) == ~bound[p]
MustBind(p, hs) == Cardinality(hs) = 1
BindOrNot(r, p, hs, l) ==
  IF l \in {"queue", "ready"} /\ MustBind(p, hs)
  THEN /\ calls' = [calls EXCEPT ![p] = Append(@, [do |-> "bind", for |-> r])]
       /\ place' = [place EXCEPT ![r] = "binding"]
  ELSE /\ place' = [place EXCEPT ![r] = "on"]
       /\ UNCHANGED calls

(* subscribe, up to its first suspension.                                  *)
Subscribe(r) ==
  LET p == HomeOf[r] hs == holders[p] \cup {r} IN
  /\ place[r] = "away"
  /\ holders' = [holders EXCEPT ![p] = hs]
  /\ early' = IF link[p] \in {"exchange", "queue"} \/ builder[p] # NoOne
                 \/ (link[p] = "none" /\ holders[p] # {})
              THEN early \cup {p} ELSE early
  /\ IF link[p] # "none"
     THEN BindOrNot(r, p, hs, link[p]) /\ UNCHANGED builder
     ELSE IF builder[p] = NoOne
     THEN /\ builder' = [builder EXCEPT ![p] = r]
          /\ place' = [place EXCEPT ![r] = "building"]
          /\ UNCHANGED calls
     ELSE place' = [place EXCEPT ![r] = "waiting"] /\ UNCHANGED <<builder, calls>>
  /\ UNCHANGED <<link, bound, wire, inbox, lossy>>

(* The lock is free again: the connection is there, or has to be built.    *)
Wake(r) ==
  LET p == HomeOf[r] IN
  /\ place[r] = "waiting" /\ builder[p] = NoOne
  /\ IF link[p] # "none"
     THEN BindOrNot(r, p, holders[p], link[p]) /\ UNCHANGED builder
     ELSE /\ builder' = [builder EXCEPT ![p] = r]
          /\ place' = [place EXCEPT ![r] = "building"]
          /\ UNCHANGED calls
  /\ UNCHANGED <<link, holders, bound, wire, inbox, early, lossy>>

(* One await of _ensure: connection, channel and exchange; the queue; the  *)
(* consumer.  The last one releases the lock and returns.                  *)
After(l) == CASE l = "none" -> "exchange" [] l = "exchange" -> "queue" [] OTHER -> "ready"
Build(p) ==
  LET l == After(link[p]) r == builder[p] IN
  /\ r # NoOne
  /\ link' = [link EXCEPT ![p] = l]
  /\ IF l # "ready" THEN UNCHANGED <<builder, place, calls>>
     ELSE /\ builder' = [builder EXCEPT ![p] = NoOne]
          /\ IF r = Publisher THEN UNCHANGED <<place, calls>>
             ELSE BindOrNot(r, p, holders[p], l)
  /\ UNCHANGED <<holders, bound, wire, inbox, early, lossy>>

(* Any failure takes everything back; a subscriber stays without a binding.*)
BuildFails(p) ==
  LET r == builder[p] IN
  /\ r # NoOne
  /\ link' = [link EXCEPT ![p] = "none"]
  /\ builder' = [builder EXCEPT ![p] = NoOne]
  /\ place' = IF r = Publisher THEN place ELSE [place EXCEPT ![r] = "on"]
  /\ early' = IF r = Publisher THEN early ELSE early \cup {p}
  /\ UNCHANGED <<holders, bound, calls, wire, inbox, lossy>>

(* The publisher's wait_for cancels _ensure where it is: what was declared *)
(* so far stays, and the exchange alone counts as a connection.            *)
BuildTimesOut(p) ==
  /\ builder[p] = Publisher
  /\ builder' = [builder EXCEPT ![p] = NoOne]
  /\ UNCHANGED <<link, holders, bound, calls, wire, inbox, place, early, lossy>>

(* Nobody completes such a connection: every later caller takes it as is.  *)
HalfBuilt(p) == link[p] \in {"exchange", "queue"} /\ builder[p] = NoOne

(* The broker answers the first call of the channel.                       *)
Answer(p) ==
  /\ calls[p] # <<>>
  /\ LET c == Head(calls[p]) IN
     /\ bound' = [bound EXCEPT ![p] = c.do = "bind"]
     /\ place' = IF place[c.for] = "binding" /\ c.do = "bind"
                 THEN [place EXCEPT ![c.for] = "on"]
                 ELSE IF place[c.for] = "leaving" THEN [place EXCEPT ![c.for] = "gone"]
                 ELSE place
  /\ calls' = [calls EXCEPT ![p] = Tail(@)]
  /\ UNCHANGED <<link, builder, holders, wire, inbox, early, lossy>>

-----------------------------------------------------------------------------
(* Leaving.                                                                *)

(* The client goes away: unsubscribe, from the finally of the iterator.    *)
(* The reader is out of the list before anything is awaited.               *)
Unsubscribe(r) ==
  LET p == HomeOf[r] hs == holders[p] \ {r} IN
  /\ place[r] = "on"
  /\ holders' = [holders EXCEPT ![p] = hs]
  /\ inbox' = [inbox EXCEPT ![r] = <<>>]
  /\ IF hs = {} /\ link[p] \in {"queue", "ready"}
     THEN /\ calls' = [calls EXCEPT ![p] = Append(@, [do |-> "unbind", for |-> r])]
          /\ place' = [place EXCEPT ![r] = "leaving"]
     ELSE place' = [place EXCEPT ![r] = "gone"] /\ UNCHANGED calls
  /\ UNCHANGED <<link, builder, bound, wire, early, lossy>>

(* The client goes away while its handler still subscribes: the iterator   *)
(* has not entered its try, nobody unsubscribes.  A call that waits for    *)
(* the channel is not made; a reader has one call at most.                 *)
Waits(s, r) == {i \in 2 .. Len(s) : s[i].for = r}
WithoutCall(s, r) ==
  IF Waits(s, r) = {} THEN s
  ELSE LET i == CHOOSE i \in Waits(s, r) : TRUE
       IN [j \in 1 .. Len(s) - 1 |-> IF j < i THEN s[j] ELSE s[j + 1]]
Cancel(r) ==
  LET p == HomeOf[r] IN
  /\ place[r] \in {"building", "waiting", "binding", "leaving"}
  /\ place' = [place EXCEPT ![r] = "gone"]
  /\ builder' = IF builder[p] = r THEN [builder EXCEPT ![p] = NoOne] ELSE builder
  /\ calls' = [calls EXCEPT ![p] = WithoutCall(@, r)]
  /\ early' = IF place[r] = "leaving" THEN early ELSE early \cup {p}
  /\ UNCHANGED <<link, holders, bound, wire, inbox, lossy>>

BusStep ==
  \/ \E p \in Api : Consume(p) \/ Build(p) \/ BuildFails(p) \/ BuildTimesOut(p) \/ Answer(p)
  \/ \E r \in Reader : Subscribe(r) \/ Wake(r) \/ Unsubscribe(r) \/ Cancel(r)

-----------------------------------------------------------------------------
(* Every process with readers is bound once its calls are answered, in     *)
(* whatever order readers come and go: provided they came when the         *)
(* connection was complete and none was cancelled while it subscribed.     *)
BoundWhileRead ==
  \A p \in Api \ early :
    holders[p] # {} /\ calls[p] = <<>> /\ builder[p] = NoOne => bound[p]

(* The documents let every API process with a reader be bound, so that the *)
(* reader gets what other processes publish.                               *)
ReadersAreBound ==
  \A r \in Reader : /\ place[r] = "on" /\ link[HomeOf[r]] = "ready"
                    /\ calls[HomeOf[r]] = <<>>
                    => bound[HomeOf[r]]
=============================================================================

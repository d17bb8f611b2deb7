---------------------------- MODULE Graph_proofs ----------------------------
(***************************************************************************)
(* What a compiled graph does with its state, for any documents, tools,    *)
(* rules, texts and words: the history of the planner, the counters of the *)
(* branches, the rules the guard loads and what they mask, the conditions  *)
(* and assignments of a flow.                                              *)
(***************************************************************************)
EXTENDS PlannerLoop, GraphRouting, Guardrails, Expressions, WellFoundedInduction,
        SequenceTheorems, TLAPS

Message == [role : {"assistant", "tool"}, calls : Seq(Call)]
Typed == messages \in Seq(Message) /\ pending \in Seq(Call) /\ results \in Seq(Message)

(* The calls of message i are answered right after it, and nothing but a   *)
(* message of the model follows.                                           *)
AnsweredAt(i) ==
  LET calls == messages[i].calls IN
  /\ i + Len(calls) <= Len(messages)
  /\ \A k \in 1 .. Len(calls) : messages[i + k] = Answer(calls[k])
  /\ i + Len(calls) < Len(messages) => messages[i + Len(calls) + 1].role = "assistant"
Closed == \A i \in 1 .. Len(messages) : messages[i].role = "assistant" => AnsweredAt(i)

(* While tools run: the last message asked for what has been answered and  *)
(* for what is pending, in this order.                                     *)
OpenTurn ==
  LET n == Len(messages)
      calls == messages[n].calls
  IN /\ n > 0 /\ messages[n].role = "assistant"
     /\ Len(results) + Len(pending) = Len(calls)
     /\ \A k \in 1 .. Len(results) : results[k] = Answer(calls[k])
     /\ \A k \in 1 .. Len(pending) : pending[k] = calls[Len(results) + k]
     /\ \A i \in 1 .. n - 1 : messages[i].role = "assistant" => AnsweredAt(i)

(* The inductive invariant: the history is closed between turns and open   *)
(* at its last message while the tools run.                                *)
PlannerInv ==
  /\ Typed
  /\ turn \in {"planner", "done"} => Closed /\ pending = <<>> /\ results = <<>>
  /\ turn = "tools" => OpenTurn

-----------------------------------------------------------------------------
LEMMA PlannerInitially == PlannerInit => PlannerInv
BY DEF PlannerInit, PlannerInv, Typed, Closed

LEMMA TurnsAreCalls == \A t \in Turns : t \in Seq(Call)
<1>1. ASSUME NEW c \in Call, NEW d \in Call PROVE <<c>> \in Seq(Call) /\ <<c, d>> \in Seq(Call)
  OBVIOUS
<1>2. SUFFICES ASSUME NEW t \in Turns PROVE t \in Seq(Call) OBVIOUS
<1>3. CASE t \in {<<c>> : c \in Call} BY <1>1, <1>3
<1>4. CASE t \in {<<c, d>> : c \in Call, d \in Call}
  <2>1. PICK c \in Call, d \in Call : t = <<c, d>> BY <1>4
  <2>2. QED BY <1>1, <2>1
<1>5. QED BY <1>2, <1>3, <1>4 DEF Turns

(* The model speaks: what it asks for is open, what was asked is closed.   *)
LEMMA SayKeeps ==
  ASSUME PlannerInv, turn = "planner", NEW calls \in Seq(Call), NEW next,
         Say(calls, next), next \in {"tools", "done"}, next = "done" => calls = <<>>
  PROVE  PlannerInv'
<1>0. PICK n : n = Len(messages) OBVIOUS
<1>1. Typed /\ Closed /\ results = <<>> /\ n \in Nat BY <1>0 DEF PlannerInv, Typed
<1>2. Assistant(calls) \in Message BY DEF Assistant, Message
<1>3. /\ messages' = Append(messages, Assistant(calls)) /\ pending' = calls
      /\ turn' = next /\ results' = results
  BY DEF Say
<1>4. /\ messages' \in Seq(Message) /\ Len(messages') = n + 1
      /\ \A i \in 1 .. n : messages'[i] = messages[i]
      /\ messages'[n + 1] = Assistant(calls)
  BY <1>0, <1>1, <1>2, <1>3 DEF Typed
<1>5. Typed' BY <1>1, <1>3, <1>4 DEF Typed
<1>6. Assistant(calls).role = "assistant" /\ Assistant(calls).calls = calls BY DEF Assistant
<1>7. ASSUME NEW i \in 1 .. n, messages[i].role = "assistant" PROVE AnsweredAt(i)'
  <2>1. AnsweredAt(i) BY <1>0, <1>1, <1>7 DEF Closed
  <2>2. messages[i] \in Message BY <1>0, <1>1 DEF Typed
  <2>3. PICK own : own = messages[i].calls OBVIOUS
  <2>4. Len(own) \in Nat /\ messages'[i].calls = own BY <1>4, <2>2, <2>3 DEF Message
  <2>5. /\ i + Len(own) <= n
        /\ \A k \in 1 .. Len(own) : messages[i + k] = Answer(own[k])
        /\ i + Len(own) < n => messages[i + Len(own) + 1].role = "assistant"
    BY <1>0, <2>1, <2>3 DEF AnsweredAt
  <2>6. ASSUME NEW k \in 1 .. Len(own) PROVE messages'[i + k] = Answer(own[k])
    <3>1. i + k \in 1 .. n BY <1>1, <2>4, <2>5
    <3>2. QED BY <1>4, <2>5, <3>1
  <2>7. messages'[i + Len(own) + 1].role = "assistant"
    <3>1. CASE i + Len(own) < n BY <1>1, <1>4, <2>4, <2>5, <3>1
    <3>2. CASE i + Len(own) = n BY <1>4, <1>6, <3>2
    <3>3. i \in Nat /\ n \in Nat /\ Len(own) \in Nat BY <1>1, <2>4
    <3>4. i + Len(own) < n \/ i + Len(own) = n BY <2>5, <3>3
    <3>5. QED BY <3>1, <3>2, <3>4
  <2>8. QED BY <1>1, <1>4, <2>4, <2>5, <2>6, <2>7 DEF AnsweredAt
<1>8. CASE next = "tools"
  <2>1. OpenTurn' BY <1>1, <1>3, <1>4, <1>6, <1>7, <1>8 DEF OpenTurn, Typed
  <2>2. QED BY <1>3, <1>5, <1>8, <2>1 DEF PlannerInv
<1>9. CASE next = "done" /\ calls = <<>>
  <2>0. messages'[n + 1].calls = <<>> /\ Len(<<>>) = 0 BY <1>4, <1>6, <1>9
  <2>1. AnsweredAt(n + 1)'
    <3>1. Len(messages'[n + 1].calls) = 0 BY <2>0
    <3>2. 1 .. Len(messages'[n + 1].calls) = {} BY <3>1
    <3>3. /\ (n + 1) + Len(messages'[n + 1].calls) <= Len(messages')
          /\ ~((n + 1) + Len(messages'[n + 1].calls) < Len(messages'))
      BY <1>1, <1>4, <3>1
    <3>4. QED BY <3>2, <3>3 DEF AnsweredAt
  <2>2. Closed'
    <3> SUFFICES ASSUME NEW i \in 1 .. n + 1, messages'[i].role = "assistant"
                 PROVE  AnsweredAt(i)'
      BY <1>4 DEF Closed
    <3>1. CASE i \in 1 .. n BY <1>4, <1>7, <3>1
    <3>2. CASE i = n + 1 BY <2>1, <3>2
    <3>3. QED BY <1>1, <3>1, <3>2
  <2>3. QED BY <1>1, <1>3, <1>5, <1>9, <2>2 DEF PlannerInv
<1>10. QED BY <1>8, <1>9 DEF Say

LEMMA RunToolKeeps == ASSUME PlannerInv, RunTool PROVE PlannerInv'
<1>1. Typed /\ OpenTurn /\ pending # <<>> /\ turn = "tools" BY DEF PlannerInv, RunTool
<1>0. PICK c : c = Head(pending) OBVIOUS
<1>2. PICK outcome \in Outcome : results' = results \o ToolMessage(c, outcome)
  BY <1>0 DEF RunTool
<1>3. c \in Call /\ Answer(c) \in Message
  BY <1>0, <1>1 DEF Typed, Answer, Message
<1>4. results' = Append(results, Answer(c))
  BY <1>1, <1>2, <1>3, AppendIsConcat DEF ToolMessage, Typed
<1>5. /\ results' \in Seq(Message) /\ Len(results') = Len(results) + 1
      /\ \A k \in 1 .. Len(results) : results'[k] = results[k]
      /\ results'[Len(results) + 1] = Answer(c)
  BY <1>1, <1>3, <1>4 DEF Typed
<1>6. pending' = Tail(pending) /\ messages' = messages /\ turn' = turn BY DEF RunTool
<1>7. /\ pending' \in Seq(Call) /\ Len(pending') = Len(pending) - 1
      /\ \A k \in 1 .. Len(pending) - 1 : pending'[k] = pending[k + 1]
      /\ c = pending[1] /\ Len(pending) \in Nat \ {0}
  BY <1>0, <1>1, <1>6 DEF Typed
<1>8. Len(results) \in Nat /\ Len(messages) \in Nat BY <1>1 DEF Typed
<1>9. c = messages[Len(messages)].calls[Len(results) + 1] BY <1>1, <1>7 DEF OpenTurn
<1>10. \A i : AnsweredAt(i)' = AnsweredAt(i) BY <1>6 DEF AnsweredAt
<1>11. OpenTurn'
  <2>0. PICK calls : calls = messages[Len(messages)].calls OBVIOUS
  <2>1. /\ Len(results) + Len(pending) = Len(calls)
        /\ \A k \in 1 .. Len(results) : results[k] = Answer(calls[k])
        /\ \A k \in 1 .. Len(pending) : pending[k] = calls[Len(results) + k]
    BY <1>1, <2>0 DEF OpenTurn
  <2>2. Len(results') + Len(pending') = Len(calls)
    <3>1. (Len(results) + 1) + (Len(pending) - 1) = Len(results) + Len(pending)
      BY <1>7, <1>8
    <3>2. QED BY <1>5, <1>7, <2>1, <3>1
  <2>3. \A k \in 1 .. Len(results') : results'[k] = Answer(calls[k])
    BY <1>5, <1>8, <1>9, <2>0, <2>1
  <2>4. ASSUME NEW k \in 1 .. Len(pending')
        PROVE  pending'[k] = calls[Len(results') + k]
    <3>1. k + 1 \in 1 .. Len(pending) /\ pending'[k] = pending[k + 1] BY <1>7
    <3>2. Len(results) + (k + 1) = Len(results') + k BY <1>5, <1>7, <1>8
    <3>3. QED BY <2>1, <3>1, <3>2
  <2>5. QED BY <1>1, <1>6, <1>10, <2>0, <2>2, <2>3, <2>4 DEF OpenTurn
<1>12. QED BY <1>1, <1>5, <1>6, <1>7, <1>11 DEF PlannerInv, Typed

(* The node returns: the answers follow the message that asked for them.   *)
LEMMA ToolsDoneKeeps == ASSUME PlannerInv, ToolsDone PROVE PlannerInv'
<1>0. PICK n, calls : n = Len(messages) /\ calls = messages[n].calls OBVIOUS
<1>1. Typed /\ OpenTurn /\ pending = <<>> BY DEF PlannerInv, ToolsDone
<1>2. /\ messages' = messages \o results /\ results' = <<>> /\ pending' = pending
      /\ turn' = "planner"
  BY DEF ToolsDone
<1>3. n \in Nat \ {0} /\ Len(results) \in Nat /\ Len(results) = Len(calls)
  BY <1>0, <1>1 DEF Typed, OpenTurn
<1>4. /\ messages' \in Seq(Message) /\ Len(messages') = n + Len(results)
      /\ \A i \in 1 .. n : messages'[i] = messages[i]
      /\ \A k \in 1 .. Len(results) : messages'[n + k] = results[k]
  <2>1. /\ messages' \in Seq(Message) /\ Len(messages') = n + Len(results)
        /\ \A i \in 1 .. n + Len(results) : messages'[i] =
             IF i <= n THEN messages[i] ELSE results[i - n]
    BY <1>0, <1>1, <1>2, ConcatProperties, Zenon DEF Typed
  <2>2. \A i \in 1 .. n : messages'[i] = messages[i] BY <1>3, <2>1
  <2>3. ASSUME NEW k \in 1 .. Len(results) PROVE messages'[n + k] = results[k]
    <3>1. n + k \in 1 .. n + Len(results) /\ ~(n + k <= n) /\ (n + k) - n = k BY <1>3
    <3>2. QED BY <2>1, <3>1
  <2>4. QED BY <2>1, <2>2, <2>3
<1>5. \A k \in 1 .. Len(results) : results[k] = Answer(calls[k]) BY <1>0, <1>1 DEF OpenTurn
<1>6. AnsweredAt(n)'
  <2>1. messages'[n] = messages[n] /\ messages[n].calls = calls BY <1>0, <1>1, <1>3, <1>4
  <2>2. Len(messages') = n + Len(calls) BY <1>0, <1>1, <1>3, <1>4 DEF OpenTurn
  <2>3. \A k \in 1 .. Len(calls) : messages'[n + k] = Answer(calls[k])
    BY <1>0, <1>1, <1>3, <1>4, <1>5 DEF OpenTurn
  <2>4. QED BY <1>3, <2>1, <2>2, <2>3 DEF AnsweredAt
<1>7. ASSUME NEW i \in 1 .. n - 1, messages[i].role = "assistant" PROVE AnsweredAt(i)'
  <2>1. AnsweredAt(i) BY <1>0, <1>1, <1>7 DEF OpenTurn
  <2>2. messages[i] \in Message BY <1>0, <1>1, <1>3 DEF Typed
  <2>3. PICK own : own = messages[i].calls OBVIOUS
  <2>4. Len(own) \in Nat /\ messages'[i].calls = own
    BY <1>3, <1>4, <2>2, <2>3 DEF Message
  <2>5. i + Len(own) < n
    <3>1. i + Len(own) <= n BY <1>0, <2>1, <2>3 DEF AnsweredAt
    <3>2. SUFFICES ASSUME i + Len(own) = n PROVE FALSE BY <1>3, <2>4, <3>1
    <3>3. Len(own) \in 1 .. Len(own) BY <1>3, <2>4, <3>2
    <3>4. messages[n] = Answer(own[Len(own)]) BY <2>1, <2>3, <3>2, <3>3 DEF AnsweredAt
    <3>5. messages[n].role = "tool" BY <3>4 DEF Answer
    <3>6. QED BY <1>0, <1>1, <3>5 DEF OpenTurn
  <2>6. ASSUME NEW k \in 1 .. Len(own) PROVE messages'[i + k] = Answer(own[k])
    <3>1. i + k \in 1 .. n BY <1>3, <2>4, <2>5
    <3>2. messages[i + k] = Answer(own[k]) BY <2>1, <2>3 DEF AnsweredAt
    <3>3. QED BY <1>4, <3>1, <3>2
  <2>7. messages'[i + Len(own) + 1].role = "assistant"
    <3>1. i + Len(own) + 1 \in 1 .. n BY <1>3, <2>4, <2>5
    <3>2. messages[i + Len(own) + 1].role = "assistant"
      BY <1>0, <2>1, <2>3, <2>5 DEF AnsweredAt
    <3>3. QED BY <1>4, <3>1, <3>2
  <2>8. QED BY <1>3, <1>4, <2>4, <2>5, <2>6, <2>7 DEF AnsweredAt
<1>8. \A k \in 1 .. Len(results) : messages'[n + k].role = "tool"
  <2>1. \A c : Answer(c).role = "tool" BY DEF Answer
  <2>2. QED BY <1>4, <1>5, <2>1
<1>9. Closed'
  <2> SUFFICES ASSUME NEW i \in 1 .. n + Len(results), messages'[i].role = "assistant"
               PROVE  AnsweredAt(i)'
    BY <1>4 DEF Closed
  <2>1. CASE i \in 1 .. n - 1 BY <1>3, <1>4, <1>7, <2>1
  <2>2. CASE i = n BY <1>6, <2>2
  <2>3. CASE i > n
    <3>1. i - n \in 1 .. Len(results) /\ n + (i - n) = i BY <1>3, <2>3
    <3>2. messages'[i].role = "tool" BY <1>8, <3>1
    <3>3. QED BY <3>2
  <2>4. QED BY <1>3, <2>1, <2>2, <2>3
<1>10. QED BY <1>1, <1>2, <1>4, <1>9 DEF PlannerInv, Typed

LEMMA PlannerInductive == PlannerInv /\ [PlannerNext]_plannerVars => PlannerInv'
<1> SUFFICES ASSUME PlannerInv, [PlannerNext]_plannerVars PROVE PlannerInv' OBVIOUS
<1>1. CASE UNCHANGED plannerVars
  BY <1>1 DEF plannerVars, PlannerInv, Typed, Closed, OpenTurn, AnsweredAt
<1>2. CASE GiveUp
  <2>1. <<>> \in Seq(Call) OBVIOUS
  <2>2. QED BY <1>2, <2>1, SayKeeps DEF GiveUp
<1>3. CASE Plan
  <2>1. CASE Say(<<>>, "done")
    <3>1. <<>> \in Seq(Call) OBVIOUS
    <3>2. QED BY <1>3, <2>1, <3>1, SayKeeps DEF Plan
  <2>2. CASE \E calls \in Turns : Say(calls, "tools")
    <3>1. PICK calls \in Turns : Say(calls, "tools") BY <2>2
    <3>2. calls \in Seq(Call) /\ turn = "planner" BY <1>3, TurnsAreCalls DEF Plan
    <3>3. "tools" \in {"tools", "done"} /\ ("tools" = "done" => calls = <<>>) OBVIOUS
    <3>4. QED BY <3>1, <3>2, <3>3, SayKeeps
  <2>3. QED BY <1>3, <2>1, <2>2 DEF Plan
<1>4. CASE RunTool BY <1>4, RunToolKeeps
<1>5. CASE ToolsDone BY <1>5, ToolsDoneKeeps
<1>6. CASE Fail BY <1>6 DEF Fail, PlannerInv, Typed
<1>7. CASE PlannerRedeliver
  BY <1>7 DEF PlannerRedeliver, PlannerInv, Typed, Closed
<1>8. QED BY <1>1, <1>2, <1>3, <1>4, <1>5, <1>6, <1>7 DEF PlannerNext

(* Whatever the tools return and however often the run is started over,    *)
(* the model is never asked, and the run never ends, with a call that has  *)
(* no answer in its place.                                                 *)
THEOREM HistoryIsComplete == PlannerSpec => []ToolCallsAnswered
<1>1. PlannerInv => ToolCallsAnswered
  <2> SUFFICES ASSUME PlannerInv, turn \in {"planner", "done"},
                      NEW i \in DOMAIN messages, messages[i].role = "assistant"
               PROVE  LET calls == messages[i].calls IN
                      /\ i + Len(calls) <= Len(messages)
                      /\ \A k \in DOMAIN calls : messages[i + k] = Answer(calls[k])
                      /\ i + Len(calls) < Len(messages) =>
                           messages[i + Len(calls) + 1].role = "assistant"
    BY DEF ToolCallsAnswered, PlannerInv
  <2>1. messages \in Seq(Message) /\ i \in 1 .. Len(messages) BY DEF PlannerInv, Typed
  <2>2. AnsweredAt(i) BY <2>1 DEF PlannerInv, Closed
  <2>3. messages[i] \in Message BY <2>1
  <2>4. DOMAIN messages[i].calls = 1 .. Len(messages[i].calls) BY <2>3 DEF Message
  <2>5. QED BY <2>2, <2>4 DEF AnsweredAt
<1>2. PlannerSpec => []PlannerInv
  BY PlannerInitially, PlannerInductive, PTL DEF PlannerSpec
<1>3. QED BY <1>1, <1>2, PTL

-----------------------------------------------------------------------------
(* As long as the document has set no counter back, they count at least    *)
(* the cases that were taken.                                              *)
VisitsCover ==
  /\ doc \in Documents
  /\ visits \in [Node -> Int] /\ taken \in [Node -> Nat]
  /\ ~lowered => \A n \in Node :
       /\ taken[n] <= visits[n]
       /\ n \in Sources /\ doc.branch[n].bounded => taken[n] <= doc.branch[n].limit

LEMMA RoutingInitially == RoutingInit => VisitsCover
BY DocumentsAssumption DEF RoutingInit, VisitsCover, Zero, Sources, Lowers

(* Two nodes with a branch in one superstep would both write metadata.     *)
LEMMA OneBranch ==
  ASSUME ~Conflict, NEW m \in frontier \cap Sources, NEW n \in frontier \cap Sources
  PROVE  m = n
<1>1. "metadata" \in Channels(m) /\ "metadata" \in Channels(n) BY DEF Channels
<1>2. QED BY <1>1 DEF Conflict

LEMMA MetadataCounts ==
  ASSUME NEW base \in [Node -> Int], ~Conflict
  PROVE  /\ Metadata(base) \in [Node -> Int]
         /\ \A n \in Node : base[n] <= Metadata(base)[n]
         /\ \A n \in Node \cap frontier \cap Sources : Metadata(base)[n] = base[n] + 1
<1>1. PICK b : b = {n \in frontier : n \in Sources} OBVIOUS
<1>2. CASE b = {} BY <1>1, <1>2 DEF Metadata
<1>3. CASE b # {}
  <2>1. PICK m : m = CHOOSE n \in b : TRUE OBVIOUS
  <2>2. m \in b BY <1>3, <2>1
  <2>3. Metadata(base) = [base EXCEPT ![m] = @ + 1]
    BY <1>1, <1>3, <2>1 DEF Metadata, BumpVisits
  <2>4. \A n \in frontier \cap Sources : n = m BY <1>1, <2>2, OneBranch
  <2>5. PICK counts : counts = Metadata(base) OBVIOUS
  <2>6. counts = [n \in Node |-> IF n = m THEN base[n] + 1 ELSE base[n]] BY <2>3, <2>5
  <2>7. \A n \in Node : base[n] \in Int OBVIOUS
  <2>8. /\ counts \in [Node -> Int] /\ \A n \in Node : base[n] <= counts[n]
        /\ \A n \in Node \cap frontier \cap Sources : counts[n] = base[n] + 1
    BY <2>4, <2>6, <2>7
  <2>9. QED BY <2>5, <2>8
<1>4. QED BY <1>2, <1>3

(* A superstep over counters that cover what was taken.                    *)
LEMMA SuperstepKeeps ==
  ASSUME VisitsCover, NEW base \in [Node -> Int], Superstep(base), doc' = doc,
         ~lowered' => ~lowered /\ ~Lowers(visits, base)
  PROVE  VisitsCover'
<1>1. CASE Conflict BY <1>1 DEF Superstep, VisitsCover, Sources
<1>2. CASE ~Conflict /\ UNCHANGED <<visits, taken>> BY <1>2 DEF VisitsCover, Sources
<1>3. CASE ~Conflict /\ ~UNCHANGED <<visits, taken>>
  <2>0. PICK seen : seen = Metadata(base) OBVIOUS
  <2>1. PICK key \in Key :
          /\ visits' = seen
          /\ taken' = [n \in Node |->
               IF n \in frontier \cap Sources /\ TakesCase(n, key, seen)
               THEN taken[n] + 1 ELSE taken[n]]
    BY <1>3, <2>0 DEF Superstep
  <2>2. /\ seen \in [Node -> Int] /\ \A n \in Node : base[n] <= seen[n]
        /\ \A n \in Node \cap frontier \cap Sources : seen[n] = base[n] + 1
    BY <1>3, <2>0, MetadataCounts
  <2>3. visits' \in [Node -> Int] /\ taken' \in [Node -> Nat]
    BY <2>1, <2>2 DEF VisitsCover
  <2>4. ASSUME ~lowered', NEW n \in Node
        PROVE  /\ taken'[n] <= visits'[n]
               /\ n \in Sources /\ doc.branch[n].bounded => taken'[n] <= doc.branch[n].limit
    <3>1. /\ taken[n] <= base[n] /\ base[n] \in Int /\ taken[n] \in Nat /\ seen[n] \in Int
          /\ n \in Sources /\ doc.branch[n].bounded => taken[n] <= doc.branch[n].limit
      BY <2>2, <2>4 DEF VisitsCover, Lowers
    <3>2. n \in Sources => doc.branch[n].limit \in Nat
      BY DocumentsAssumption DEF VisitsCover, Sources
    <3>3. CASE n \in frontier \cap Sources /\ TakesCase(n, key, seen)
      <4>1. taken'[n] = taken[n] + 1 /\ seen[n] = base[n] + 1 BY <2>1, <2>2, <3>3
      <4>2. doc.branch[n].bounded => seen[n] <= doc.branch[n].limit
        BY <3>1, <3>2, <3>3 DEF TakesCase, Exhausted
      <4>3. QED BY <2>1, <3>1, <3>2, <4>1, <4>2
    <3>4. CASE ~(n \in frontier \cap Sources /\ TakesCase(n, key, seen))
      <4>1. taken'[n] = taken[n] BY <2>1, <3>4
      <4>2. QED BY <2>1, <2>2, <3>1, <4>1
    <3>5. QED BY <3>3, <3>4
  <2>5. QED BY <2>3, <2>4 DEF VisitsCover, Sources
<1>4. QED BY <1>1, <1>2, <1>3

LEMMA WritingKeeps ==
  ASSUME VisitsCover, WritingSuperstep, doc' = doc PROVE VisitsCover'
<1>1. PICK base \in Bases : Superstep(base) /\ lowered' = (lowered \/ Lowers(visits, base))
  BY DEF WritingSuperstep
<1>2. base \in [Node -> Int] BY CountersAssumption DEF Bases, VisitsCover
<1>3. ~lowered' => ~lowered /\ ~Lowers(visits, base) BY <1>1
<1>4. QED BY <1>1, <1>2, <1>3, SuperstepKeeps

LEMMA RoutingInductive == VisitsCover /\ [RoutingNext]_routingVars => VisitsCover'
<1> SUFFICES ASSUME VisitsCover, [RoutingNext]_routingVars PROVE VisitsCover' OBVIOUS
<1>1. CASE UNCHANGED routingVars BY <1>1 DEF routingVars, VisitsCover, Sources
<1>2. CASE Invoke BY <1>2 DEF Invoke, VisitsCover, Sources
<1>3. CASE Step BY <1>3, WritingKeeps DEF Step
<1>4. CASE Overrun BY <1>4 DEF Overrun, VisitsCover, Sources
<1>5. CASE Interrupt BY <1>5 DEF Interrupt, VisitsCover, Sources
<1>6. CASE Resume BY <1>6, WritingKeeps DEF Resume
<1>7. CASE Redeliver
  <2>1. /\ doc' = doc /\ visits' = doc.given /\ taken' = Zero
        /\ lowered' = Lowers(Zero, doc.given)
    BY <1>7 DEF Redeliver
  <2>2. QED BY <2>1, DocumentsAssumption DEF VisitsCover, Zero, Sources, Lowers
<1>8. QED BY <1>1, <1>2, <1>3, <1>4, <1>5, <1>6, <1>7 DEF RoutingNext

(* Through supersteps of many nodes, waits, resumes, redeliveries and      *)
(* writes of the metadata, a branch with max_visits never takes its cases  *)
(* more often than that, unless the document itself sets a counter back.   *)
THEOREM BranchesStop == RoutingSpec => []CasesWithinBudget
<1>1. VisitsCover => CasesWithinBudget
  BY DocumentsAssumption DEF VisitsCover, CasesWithinBudget, Sources
<1>2. RoutingSpec => []VisitsCover
  BY RoutingInitially, RoutingInductive, PTL DEF RoutingSpec
<1>3. QED BY <1>1, <1>2, PTL

-----------------------------------------------------------------------------
(* What each stage of loading knows of the table.                          *)
Knows(e) ==
  LET sure == \A c \in specs[e] : table[c] # "absent" IN
  /\ phase[e] = "read" =>
       /\ sure
       /\ \/ e \in overtaken \cup hidden
          \/ \A c \in BuiltinRule \ specs[e] : table[c] = "absent"
  /\ phase[e] = "added" => BuiltinRule \subseteq specs[e]
  /\ phase[e] = "ready" => sure /\ BuiltinRule \subseteq specs[e]
  /\ phase[e] = "failed" => e \in overtaken \cup hidden

LoadInv ==
  /\ table \in [Code -> {"absent", "on", "off"}]
  /\ phase \in [Execution -> {"start", "read", "added", "ready", "failed"}]
  /\ specs \in [Execution -> SUBSET Code]
  /\ overtaken \subseteq Execution /\ hidden \subseteq Execution
  /\ \A e \in Execution : Knows(e)

LEMMA GuardInitially == GuardInit => LoadInv
BY GuardAssumption DEF GuardInit, LoadInv, Knows

(* An execution none of whose facts have changed, and whose table grew     *)
(* only if that was noticed.                                               *)
LEMMA OthersKnow ==
  ASSUME LoadInv, NEW e \in Execution, phase'[e] = phase[e], specs'[e] = specs[e],
         overtaken \subseteq overtaken', hidden \subseteq hidden',
         table' \in [Code -> {"absent", "on", "off"}],
         \A c \in Code : table[c] # "absent" => table'[c] # "absent",
         \/ e \in overtaken'
         \/ phase[e] # "read"
         \/ \A c \in BuiltinRule : table[c] = "absent" => table'[c] = "absent"
  PROVE  Knows(e)'
<1>1. Knows(e) /\ specs[e] \subseteq Code BY DEF LoadInv
<1>2. QED BY <1>1 DEF Knows

LEMMA LoadInductive == LoadInv /\ [GuardNext]_guardVars => LoadInv'
<1> SUFFICES ASSUME LoadInv, [GuardNext]_guardVars PROVE LoadInv' OBVIOUS
<1>1. CASE UNCHANGED loadVars BY <1>1 DEF loadVars, LoadInv, Knows
<1>2. ASSUME NEW e \in Execution, ReadRules(e) PROVE LoadInv'
  <2>1. /\ phase' = [phase EXCEPT ![e] = "read"]
        /\ specs' = [specs EXCEPT ![e] = {c \in Code : table[c] = "on"}]
        /\ table' = table /\ overtaken' = overtaken
        /\ hidden' = IF \E c \in BuiltinRule : table[c] = "off" THEN hidden \cup {e} ELSE hidden
    BY <1>2 DEF ReadRules
  <2>2. /\ phase' \in [Execution -> {"start", "read", "added", "ready", "failed"}]
        /\ specs' \in [Execution -> SUBSET Code] /\ hidden' \subseteq Execution
        /\ hidden \subseteq hidden'
        /\ phase'[e] = "read" /\ specs'[e] = {c \in Code : table[c] = "on"}
        /\ \A d \in Execution \ {e} : phase'[d] = phase[d] /\ specs'[d] = specs[d]
    BY <2>1 DEF LoadInv
  <2>3. e \in hidden' \/ \A c \in BuiltinRule \ specs'[e] : table[c] = "absent"
    <3>1. \A c \in BuiltinRule : c \in Code /\ table[c] \in {"absent", "on", "off"}
      BY DEF LoadInv, Code
    <3>2. QED BY <2>1, <2>2, <3>1
  <2>4. Knows(e)' BY <2>1, <2>2, <2>3 DEF Knows
  <2>5. \A d \in Execution \ {e} : Knows(d)'
    <3> SUFFICES ASSUME NEW d \in Execution \ {e} PROVE Knows(d)' OBVIOUS
    <3>1. Knows(d) BY DEF LoadInv
    <3>2. QED BY <2>1, <2>2, <3>1 DEF Knows
  <2>6. QED BY <2>1, <2>2, <2>4, <2>5 DEF LoadInv
<1>3. ASSUME NEW e \in Execution, AddBuiltins(e) PROVE LoadInv'
  <2>1. /\ phase[e] = "read" /\ UNCHANGED <<table, overtaken, hidden>> /\ Knows(e)
        /\ specs[e] \subseteq Code
    BY <1>3 DEF AddBuiltins, LoadInv
  <2>2. \A d \in Execution \ {e} : phase'[d] = phase[d] /\ specs'[d] = specs[d] => Knows(d)'
    <3> SUFFICES ASSUME NEW d \in Execution \ {e}, phase'[d] = phase[d], specs'[d] = specs[d]
                 PROVE  Knows(d)'
      OBVIOUS
    <3>1. Knows(d) BY DEF LoadInv
    <3>2. QED BY <2>1, <3>1 DEF Knows
  <2>3. CASE \A c \in ToInsert(e) : table[c] = "absent"
    <3>1. PICK p \in {"ready", "added"} :
            /\ p = "ready" => ToInsert(e) = {}
            /\ phase' = [phase EXCEPT ![e] = p]
            /\ specs' = [specs EXCEPT ![e] = @ \cup BuiltinRule]
      BY <1>3, <2>3 DEF AddBuiltins
    <3>2. /\ phase' \in [Execution -> {"start", "read", "added", "ready", "failed"}]
          /\ specs' \in [Execution -> SUBSET Code]
          /\ phase'[e] = p /\ specs'[e] = specs[e] \cup BuiltinRule
          /\ \A d \in Execution \ {e} : phase'[d] = phase[d] /\ specs'[d] = specs[d]
      BY <3>1 DEF LoadInv, Code
    <3>3. p = "ready" => specs'[e] = specs[e] BY <3>1, <3>2 DEF ToInsert
    <3>4. Knows(e)' BY <2>1, <3>1, <3>2, <3>3 DEF Knows
    <3>5. QED BY <2>1, <2>2, <3>2, <3>4 DEF LoadInv
  <2>4. CASE ~(\A c \in ToInsert(e) : table[c] = "absent")
    <3>1. phase' = [phase EXCEPT ![e] = "failed"] /\ specs' = specs
      BY <1>3, <2>4 DEF AddBuiltins
    <3>2. /\ phase' \in [Execution -> {"start", "read", "added", "ready", "failed"}]
          /\ phase'[e] = "failed"
          /\ \A d \in Execution \ {e} : phase'[d] = phase[d] /\ specs'[d] = specs[d]
      BY <3>1 DEF LoadInv
    <3>3. e \in overtaken \cup hidden BY <2>1, <2>4 DEF Knows, ToInsert
    <3>4. Knows(e)' BY <2>1, <3>2, <3>3 DEF Knows
    <3>5. QED BY <2>1, <2>2, <3>1, <3>2, <3>4 DEF LoadInv
  <2>5. QED BY <2>3, <2>4
<1>4. ASSUME NEW e \in Execution, CommitRules(e) PROVE LoadInv'
  <2>1. /\ phase[e] = "added" /\ phase' = [phase EXCEPT ![e] = "ready"]
        /\ table' = [c \in Code |->
             IF table[c] = "absent" /\ c \in specs[e] THEN "on" ELSE table[c]]
        /\ overtaken' = overtaken \cup Reading /\ specs' = specs /\ hidden' = hidden
    BY <1>4 DEF CommitRules
  <2>2. /\ phase' \in [Execution -> {"start", "read", "added", "ready", "failed"}]
        /\ phase'[e] = "ready" /\ \A d \in Execution \ {e} : phase'[d] = phase[d]
        /\ Reading \subseteq Execution
    BY <2>1 DEF LoadInv, Reading
  <2>3. /\ table' \in [Code -> {"absent", "on", "off"}]
        /\ \A c \in Code : table[c] # "absent" => table'[c] # "absent"
        /\ \A c \in specs[e] : table'[c] # "absent"
    <3>1. specs[e] \subseteq Code BY DEF LoadInv
    <3>2. table \in [Code -> {"absent", "on", "off"}] BY DEF LoadInv
    <3>3. QED BY <2>1, <3>1, <3>2
  <2>4. Knows(e)'
    <3>1. BuiltinRule \subseteq specs[e] BY <2>1 DEF LoadInv, Knows
    <3>2. QED BY <2>1, <2>2, <2>3, <3>1 DEF Knows
  <2>5. ASSUME NEW d \in Execution \ {e} PROVE Knows(d)'
    <3>1. d \in overtaken' \/ phase[d] # "read" BY <2>1 DEF Reading
    <3>2. QED BY <2>1, <2>2, <2>3, <3>1, OthersKnow
  <2>6. QED BY <2>1, <2>2, <2>3, <2>4, <2>5 DEF LoadInv
<1>5. ASSUME NEW c \in Code, NEW status \in {"on", "off"}, SetRule(c, status) PROVE LoadInv'
  <2>1. /\ table' = [table EXCEPT ![c] = status]
        /\ overtaken' = IF table[c] = "absent" THEN overtaken \cup Reading ELSE overtaken
        /\ phase' = phase /\ specs' = specs /\ hidden' = hidden
    BY <1>5 DEF SetRule
  <2>2. /\ table' \in [Code -> {"absent", "on", "off"}]
        /\ \A d \in Code : table[d] # "absent" => table'[d] # "absent"
        /\ overtaken \subseteq overtaken' /\ overtaken' \subseteq Execution
    BY <2>1 DEF LoadInv, Reading
  <2>3. ASSUME NEW e \in Execution PROVE Knows(e)'
    <3>1. \/ e \in overtaken'
          \/ phase[e] # "read"
          \/ \A d \in BuiltinRule : table[d] = "absent" => table'[d] = "absent"
      <4>1. CASE table[c] = "absent" BY <2>1, <4>1 DEF Reading
      <4>2. CASE table[c] # "absent" BY <2>1, <4>2 DEF LoadInv, Code
      <4>3. QED BY <4>1, <4>2
    <3>2. QED BY <2>1, <2>2, <3>1, OthersKnow
  <2>4. QED BY <2>1, <2>2, <2>3 DEF LoadInv
<1>6. CASE BlockInput BY <1>1, <1>6 DEF BlockInput
<1>7. ASSUME NEW t \in Sayings, NEW args \in Arguments \cup {<<>>}, Respond(t, args)
      PROVE  LoadInv'
  BY <1>1, <1>7 DEF Respond
<1>8. ASSUME NEW t \in Findings, UseTools(t) PROVE LoadInv'
  BY <1>1, <1>8 DEF UseTools
<1>9. CASE UNCHANGED guardVars
  <2>1. UNCHANGED loadVars BY <1>9 DEF guardVars, loadVars
  <2>2. QED BY <1>1, <2>1
<1>10. QED BY <1>2, <1>3, <1>4, <1>5, <1>6, <1>7, <1>8, <1>9 DEF GuardNext

(* Whoever runs has the built-in rules and refers to rules that exist, and *)
(* loading fails only for the reasons the property names, for any number   *)
(* of executions, rules and edits.                                         *)
THEOREM RulesAreThere == GuardSpec => []RulesLoad
<1>1. LoadInv => RulesLoad BY DEF LoadInv, Knows, RulesLoad
<1>2. GuardSpec => []LoadInv
  BY GuardInitially, LoadInductive, PTL DEF GuardSpec
<1>3. QED BY <1>1, <1>2, PTL

-----------------------------------------------------------------------------
(* A set of numbers has a least one.                                       *)
LEMMA Least == ASSUME NEW S \in SUBSET Nat, S # {} PROVE \E x \in S : \A y \in S : x <= y
<1>1. \E R : R = {ss \in Nat \X Nat : ss[1] < ss[2]} /\ IsWellFoundedOn(R, Nat)
  BY NatLessThanWellFounded, Zenon DEF OpToRel
<1>2. PICK R : R = {ss \in Nat \X Nat : ss[1] < ss[2]} /\ IsWellFoundedOn(R, Nat) BY <1>1
<1>3. PICK x \in S : \A y \in S : ~(<<y, x>> \in R) BY <1>2, WFMin
<1>4. \A y \in S : ~(y < x) BY <1>2, <1>3
<1>5. QED BY <1>4

ChatMsg == [role : {"user", "assistant", "tool"}, text : Text, args : Arguments \cup {<<>>}]

(* Upto is what its definition says, message by message.                   *)
UptoIs(f, n) == f = [k \in 0 .. n |-> IF k = 0 THEN <<>> ELSE f[k - 1] \o chat[k].text]

LEMMA UptoDefined == ASSUME NEW n \in Nat PROVE \E f : UptoIs(f, n)
<1>1. PICK S : S = {k \in Nat : ~\E f : UptoIs(f, k)} OBVIOUS
<1>2. SUFFICES ASSUME S # {} PROVE FALSE BY <1>1
<1>3. PICK m \in S : \A k \in S : m <= k BY <1>1, <1>2, Least
<1>4. m \in Nat /\ ~\E f : UptoIs(f, m) BY <1>1, <1>3
<1>5. CASE m = 0
  <2>1. UptoIs([k \in 0 .. 0 |-> <<>>], 0) BY DEF UptoIs
  <2>2. QED BY <1>4, <1>5, <2>1
<1>6. CASE m # 0
  <2>1. m - 1 \in Nat /\ ~(m <= m - 1) BY <1>4, <1>6
  <2>2. PICK f : UptoIs(f, m - 1) BY <1>1, <1>3, <2>1
  <2>3. PICK g : g = [k \in 0 .. m |-> IF k = m THEN f[m - 1] \o chat[m].text ELSE f[k]] OBVIOUS
  <2>4. ASSUME NEW k \in 0 .. m
        PROVE  g[k] = IF k = 0 THEN <<>> ELSE g[k - 1] \o chat[k].text
    <3>1. CASE k = m
      <4>1. m \in 0 .. m /\ m - 1 \in 0 .. m /\ m - 1 # m BY <1>4, <2>1
      <4>2. g[m] = f[m - 1] \o chat[m].text BY <2>3, <4>1
      <4>3. g[m - 1] = f[m - 1] BY <2>3, <4>1
      <4>4. QED BY <1>6, <3>1, <4>2, <4>3
    <3>2. CASE k # m
      <4>1. k \in 0 .. m - 1 /\ k \in 0 .. m BY <1>4, <3>2
      <4>2. g[k] = f[k] BY <2>3, <3>2
      <4>3. f[k] = IF k = 0 THEN <<>> ELSE f[k - 1] \o chat[k].text BY <2>2, <4>1 DEF UptoIs
      <4>4. k # 0 => k - 1 \in 0 .. m /\ k - 1 # m BY <1>4, <4>1
      <4>5. k # 0 => g[k - 1] = f[k - 1] BY <2>3, <4>4
      <4>6. QED BY <4>2, <4>3, <4>5
    <3>3. QED BY <3>1, <3>2
  <2>5. g = [k \in 0 .. m |-> g[k]] BY <2>3
  <2>6. UptoIs(g, m) BY <2>4, <2>5 DEF UptoIs
  <2>7. QED BY <1>4, <2>6
<1>7. QED BY <1>5, <1>6

LEMMA UptoUnfolds ==
  ASSUME chat \in Seq(ChatMsg)
  PROVE  UptoIs(Upto, Len(chat))
<1>1. \E f : UptoIs(f, Len(chat)) BY UptoDefined
<1>2. QED BY <1>1, Zenon DEF UptoIs, Upto

(* What stands in a message stands in the whole.                           *)
LEMMA WholeHasAll ==
  ASSUME chat \in Seq(ChatMsg), NEW i \in DOMAIN chat
  PROVE  Whole \in Text /\ Within(chat[i].text) \subseteq Within(Whole)
<1>1. PICK u, n : u = Upto /\ n = Len(chat) OBVIOUS
<1>2. /\ n \in Nat /\ UptoIs(u, n) /\ i \in 1 .. n
      /\ \A k \in 1 .. n : chat[k].text \in Text
  <2>1. n \in Nat /\ DOMAIN chat = 1 .. n BY <1>1
  <2>2. \A k \in 1 .. n : chat[k] \in ChatMsg BY <1>1
  <2>3. UptoIs(u, n) BY <1>1, UptoUnfolds, Zenon
  <2>4. QED BY <2>1, <2>2, <2>3 DEF ChatMsg
<1>3. u[0] = <<>> /\ \A k \in 1 .. n : u[k] = u[k - 1] \o chat[k].text
  <2>1. 0 \in 0 .. n BY <1>2
  <2>2. \A k \in 1 .. n : k \in 0 .. n /\ k # 0 BY <1>2
  <2>3. QED BY <1>2, <2>1, <2>2 DEF UptoIs
<1>4. PICK Good : Good = [k \in 0 .. n |-> u[k] \in Text /\
                            \A j \in 1 .. k : Within(chat[j].text) \subseteq Within(u[k])]
  OBVIOUS
<1>5. PICK S : S = {k \in 0 .. n : ~Good[k]} OBVIOUS
<1>6. CASE S = {}
  <2>1. n \in 0 .. n BY <1>2
  <2>2. Good[n] BY <1>5, <1>6, <2>1
  <2>3. QED BY <1>1, <1>2, <1>4, <2>1, <2>2 DEF Whole
<1>7. CASE S # {}
  <2>1. S \in SUBSET Nat BY <1>2, <1>5
  <2>2. PICK m \in S : \A k \in S : m <= k BY <1>7, <2>1, Least
  <2>3. m \in 0 .. n /\ ~Good[m] BY <1>5, <2>2
  <2>4. m # 0
    <3>1. <<>> \in Text BY EmptySeq DEF Text
    <3>2. 0 \in 0 .. n /\ u[0] \in Text BY <1>2, <1>3, <3>1
    <3>3. \A j \in 1 .. 0 : FALSE OBVIOUS
    <3>4. Good[0] BY <1>4, <3>2, <3>3
    <3>5. QED BY <2>3, <3>4
  <2>5. m \in 1 .. n /\ m - 1 \in 0 .. n /\ m - 1 \notin S BY <1>2, <2>2, <2>3, <2>4
  <2>6. Good[m - 1] BY <1>5, <2>5
  <2>7. PICK a, b : a = u[m - 1] /\ b = chat[m].text OBVIOUS
  <2>8. /\ a \in Text /\ b \in Text /\ u[m] = a \o b
        /\ \A j \in 1 .. m - 1 : Within(chat[j].text) \subseteq Within(a)
    BY <1>2, <1>3, <1>4, <2>5, <2>6, <2>7
  <2>9. /\ a \o b \in Text /\ Within(a) \subseteq Within(a \o b) /\ Within(b) \subseteq Within(a \o b)
    <3>1. a \o b \in Seq(Thing) /\ Len(a \o b) = Len(a) + Len(b)
      BY <2>8, ConcatProperties, Zenon DEF Text
    <3>2. \A k \in 1 .. Len(a) + Len(b) : (a \o b)[k] = IF k <= Len(a) THEN a[k] ELSE b[k - Len(a)]
      BY <2>8, ConcatProperties, Zenon DEF Text
    <3>3. DOMAIN a = 1 .. Len(a) /\ DOMAIN b = 1 .. Len(b) /\ DOMAIN (a \o b) = 1 .. Len(a) + Len(b)
          /\ Len(a) \in Nat /\ Len(b) \in Nat
      BY <2>8, <3>1 DEF Text
    <3>4. ASSUME NEW k \in 1 .. Len(a) PROVE a[k] \in Within(a \o b)
      <4>1. k \in 1 .. Len(a) + Len(b) /\ k <= Len(a) BY <3>3
      <4>2. QED BY <3>2, <3>3, <4>1 DEF Within
    <3>5. ASSUME NEW k \in 1 .. Len(b) PROVE b[k] \in Within(a \o b)
      <4>1. /\ Len(a) + k \in 1 .. Len(a) + Len(b) /\ ~(Len(a) + k <= Len(a))
            /\ (Len(a) + k) - Len(a) = k
        BY <3>3
      <4>2. (a \o b)[Len(a) + k] = b[k] BY <3>2, <4>1
      <4>3. QED BY <3>3, <4>1, <4>2 DEF Within
    <3>6. QED BY <3>1, <3>3, <3>4, <3>5 DEF Within, Text
  <2>10. \A j \in 1 .. m : j \in 1 .. m - 1 \/ j = m BY <2>3
  <2>11. \A j \in 1 .. m : Within(chat[j].text) \subseteq Within(u[m])
    BY <2>7, <2>8, <2>9, <2>10
  <2>12. Good[m] BY <1>4, <2>3, <2>8, <2>9, <2>11
  <2>13. QED BY <2>3, <2>12
<1>8. QED BY <1>6, <1>7

-----------------------------------------------------------------------------
LEMMA StarredHides ==
  ASSUME NEW t \in Text, NEW S
  PROVE  /\ Starred(t, S) \in Text
         /\ Within(Starred(t, S)) \subseteq (Within(t) \ S) \cup {"masked"}
         /\ Starred(t, S) = t => Within(t) \cap S \subseteq {"masked"}
<1>1. PICK n : n = Len(t) OBVIOUS
<1>2. n \in Nat /\ DOMAIN t = 1 .. n /\ \A i \in 1 .. n : t[i] \in Thing BY <1>1 DEF Text
<1>3. PICK s : s = Starred(t, S) OBVIOUS
<1>4. s = [i \in 1 .. n |-> IF t[i] \in S THEN "masked" ELSE t[i]] BY <1>2, <1>3 DEF Starred
<1>5. \A i \in 1 .. n : s[i] \in Thing BY <1>2, <1>4 DEF Thing
<1>6. s \in Text BY <1>2, <1>4, <1>5 DEF Text
<1>7. Within(s) \subseteq (Within(t) \ S) \cup {"masked"} BY <1>2, <1>4 DEF Within
<1>8. s = t => Within(t) \cap S \subseteq {"masked"} BY <1>2, <1>4 DEF Within
<1>9. QED BY <1>3, <1>6, <1>7, <1>8

LEMMA KindsApart == "masked" \notin Spellings \cup Personal
BY DEF Spellings, Personal

LEMMA RuleKinds ==
  ASSUME NEW c \in Code
  PROVE  /\ RuleFor[c] \in RuleSpec
         /\ RuleFor[c].type = "pii" => Matches(c) = Personal \cup {"badge"} /\ Promised(c) = Personal
         /\ RuleFor[c].type = "keyword" => Matches(c) = Spellings /\ Promised(c) = Spellings
         /\ RuleFor[c].type \in {"jailbreak", "pii", "keyword"}
BY GuardAssumption DEF RuleSpec, Matches, Promised

LEMMA ExcerptIsSaid ==
  ASSUME NEW t \in Text, NEW c, Within(t) \cap Matches(c) # {}
  PROVE  Excerpt(c, t) \in Within(t) \cap Matches(c)
<1>1. PICK at : at = {i \in DOMAIN t : t[i] \in Matches(c)} OBVIOUS
<1>2. at \in SUBSET Nat /\ at # {} BY <1>1 DEF Text, Within
<1>3. \E k \in at : \A j \in at : k <= j BY <1>2, Least
<1>4. PICK i : i = CHOOSE k \in at : \A j \in at : k <= j OBVIOUS
<1>5. i \in at BY <1>3, <1>4
<1>6. Excerpt(c, t) = t[i] BY <1>1, <1>4 DEF Excerpt
<1>7. QED BY <1>1, <1>5, <1>6 DEF Within

(* A text that was checked and let pass, as it is written down.            *)
LEMMA PassedIsClean ==
  ASSUME NEW t \in Text, NEW c \in Masking("output"), Masking("output") \subseteq Code,
         ~(Spellings \subseteq Within(t)),
         ~Blocks(Hits("output", t))
  PROVE  Within(MessageText(t, t, Hits("output", t))) \cap Promised(c) = {}
<1>1. PICK hits : hits = Hits("output", t) OBVIOUS
<1>2. /\ c \in specs[Watched] /\ c \in Code /\ RuleFor[c].stage = "output"
      /\ RuleFor[c].action = "mask" /\ RuleFor[c].type \in {"pii", "keyword"}
      /\ Promised(c) \subseteq Matches(c) /\ "masked" \notin Promised(c)
  BY RuleKinds, KindsApart DEF Masking
<1>3. CASE c \notin hits
  <2>1. Within(t) \cap Promised(c) = {} BY <1>1, <1>2, <1>3 DEF Hits
  <2>2. Within(ApplyMasks(hits, t)) \subseteq Within(t) \cup {"masked"}
    BY StarredHides DEF ApplyMasks
  <2>3. QED BY <1>1, <1>2, <2>1, <2>2 DEF MessageText
<1>4. CASE c \in hits
  <2>1. Masks(hits) BY <1>1, <1>2, <1>4 DEF Masks, ActionsOf
  <2>2. PICK H : H = Hidden(hits, t) OBVIOUS
  <2>3. Within(ApplyMasks(hits, t)) \subseteq (Within(t) \ H) \cup {"masked"}
    BY <2>2, StarredHides DEF ApplyMasks
  <2>4. Within(t) \cap Promised(c) \subseteq H
    <3>1. CASE RuleFor[c].type = "pii"
      <4>1. Personal \subseteq H BY <1>2, <1>4, <2>2, <3>1 DEF Hidden
      <4>2. QED BY <1>2, <3>1, <4>1, RuleKinds
    <3>2. CASE RuleFor[c].type = "keyword"
      <4>1. Excerpt(c, t) \in H BY <1>2, <1>4, <2>2, <3>2 DEF Hidden
      <4>2. Matches(c) = Spellings /\ Promised(c) = Spellings BY <1>2, <3>2, RuleKinds
      <4>3. Excerpt(c, t) \in Within(t) \cap Spellings
        <5>1. Within(t) \cap Matches(c) # {} BY <1>1, <1>4 DEF Hits
        <5>2. QED BY <4>2, <5>1, ExcerptIsSaid
      <4>4. Within(t) \cap Spellings = {Excerpt(c, t)} BY <4>3 DEF Spellings
      <4>5. QED BY <4>1, <4>2, <4>4
    <3>3. QED BY <1>2, <3>1, <3>2
  <2>5. QED BY <1>1, <1>2, <2>1, <2>3, <2>4 DEF MessageText
<1>5. QED BY <1>3, <1>4

-----------------------------------------------------------------------------
(* What an entry node is given.                                            *)
LEMMA GivenFits ==
  ASSUME chat \in Seq(ChatMsg)
  PROVE  /\ Given \in Seq(ChatMsg) /\ Len(Given) = Len(chat)
         /\ \A i \in 1 .. Len(chat) :
              /\ Given[i].role = chat[i].role
              /\ Within(Given[i].text) \subseteq Within(chat[i].text) \cup {"masked"}
<1>1. PICK n, h, hits : n = Len(chat) /\ hits = InputHits /\ h = Hidden(hits, Whole) OBVIOUS
<1>2. n \in Nat /\ DOMAIN chat = 1 .. n /\ \A i \in 1 .. n : chat[i] \in ChatMsg BY <1>1
<1>3. CASE ~Masks(hits) BY <1>1, <1>3 DEF Given
<1>4. CASE Masks(hits)
  <2>1. PICK g : g = Given OBVIOUS
  <2>2. g = [i \in 1 .. n |-> [chat[i] EXCEPT !.text = OverlapMask(chat[i].text, h)]]
    BY <1>1, <1>2, <1>4, <2>1 DEF Given
  <2>3. ASSUME NEW i \in 1 .. n
        PROVE  /\ g[i] \in ChatMsg /\ g[i].role = chat[i].role
               /\ Within(g[i].text) \subseteq Within(chat[i].text) \cup {"masked"}
    <3>1. PICK t : t = chat[i].text OBVIOUS
    <3>2. t \in Text /\ chat[i].role \in {"user", "assistant", "tool"}
          /\ chat[i].args \in Arguments \cup {<<>>}
          /\ chat[i] = [role |-> chat[i].role, text |-> t, args |-> chat[i].args]
      BY <1>2, <3>1 DEF ChatMsg
    <3>3. g[i].role = chat[i].role /\ g[i].text = OverlapMask(t, h)
          /\ g[i] = [role |-> chat[i].role, text |-> OverlapMask(t, h), args |-> chat[i].args]
      BY <2>2, <3>1, <3>2
    <3>4. /\ OverlapMask(t, h) \in Text
          /\ Within(OverlapMask(t, h)) \subseteq Within(t) \cup {"masked"}
      BY <3>2, StarredHides DEF OverlapMask, RedactText
    <3>5. QED BY <3>1, <3>2, <3>3, <3>4 DEF ChatMsg
  <2>4. g \in Seq(ChatMsg) /\ Len(g) = n
    <3>1. \A i \in 1 .. n : g[i] \in ChatMsg BY <2>3
    <3>2. g = [i \in 1 .. n |-> g[i]] BY <2>2
    <3>3. g \in [1 .. n -> ChatMsg] BY <3>1, <3>2
    <3>4. QED BY <1>2, <3>3
  <2>5. QED BY <1>1, <2>1, <2>3, <2>4
<1>5. QED BY <1>3, <1>4

(* A masking rule for personal data leaves none in what an entry node gets.*)
LEMMA GivenIsClean ==
  ASSUME chat \in Seq(ChatMsg), NEW c \in Masking("input"), RuleFor[c].type = "pii",
         Masking("input") \subseteq Code, IsEntry, ~Blocks(InputHits),
         NEW i \in 1 .. Len(chat)
  PROVE  Within(Given[i].text) \cap Personal = {}
<1>1. PICK t : t = chat[i].text OBVIOUS
<1>2. /\ i \in DOMAIN chat /\ chat[i] \in ChatMsg /\ t \in Text
  <2>1. i \in DOMAIN chat /\ chat[i] \in ChatMsg OBVIOUS
  <2>2. QED BY <1>1, <2>1 DEF ChatMsg
<1>3. /\ c \in Code /\ c \in specs[Watched] /\ RuleFor[c].stage = "input"
      /\ RuleFor[c].action = "mask" /\ Personal \subseteq Matches(c) /\ "masked" \notin Personal
  BY RuleKinds, KindsApart DEF Masking
<1>4. InputHits = Hits("input", Whole) BY DEF InputHits
<1>5. CASE c \notin InputHits
  <2>1. Within(Whole) \cap Personal = {} BY <1>3, <1>4, <1>5 DEF Hits
  <2>2. Within(t) \cap Personal = {} BY <1>1, <1>2, <2>1, WholeHasAll
  <2>3. Within(Given[i].text) \subseteq Within(t) \cup {"masked"} BY <1>1, GivenFits
  <2>4. QED BY <1>3, <2>2, <2>3
<1>6. CASE c \in InputHits
  <2>1. Masks(InputHits) BY <1>3, <1>6 DEF Masks, ActionsOf
  <2>2. PICK h : h = Hidden(InputHits, Whole) OBVIOUS
  <2>3. Personal \subseteq h BY <1>3, <1>6, <2>2 DEF Hidden
  <2>4. Given[i].text = OverlapMask(t, h)
    <3>1. Given = [k \in DOMAIN chat |-> [chat[k] EXCEPT !.text = OverlapMask(chat[k].text, h)]]
      BY <2>1, <2>2 DEF Given
    <3>2. QED BY <1>1, <1>2, <3>1 DEF ChatMsg
  <2>5. Within(OverlapMask(t, h)) \cap Personal = {}
    <3>1. CASE Starred(t, h) = t
      <4>1. Within(t) \cap h \subseteq {"masked"} BY <1>2, <3>1, StarredHides
      <4>2. QED BY <1>3, <2>3, <3>1, <4>1 DEF OverlapMask
    <3>2. CASE Starred(t, h) # t
      <4>1. Within(RedactText(t)) \subseteq (Within(t) \ Personal) \cup {"masked"}
        BY <1>2, StarredHides DEF RedactText
      <4>2. QED BY <1>3, <3>2, <4>1 DEF OverlapMask
    <3>3. QED BY <3>1, <3>2
  <2>6. QED BY <2>4, <2>5
<1>7. QED BY <1>5, <1>6

-----------------------------------------------------------------------------
(* The inductive invariant: the chat and the texts have their types, who   *)
(* has not loaded its rules has not answered, and the property.            *)
MaskInv ==
  /\ chat \in Seq(ChatMsg) /\ Len(chat) > 0 /\ chat[1].role = "user"
  /\ lastOutput \in Text /\ shape \in {"planner", "flow"}
  /\ phase \in [Execution -> {"start", "read", "added", "ready", "failed"}]
  /\ specs \in [Execution -> SUBSET Code]
  /\ phase[Watched] # "ready" => Answers = {} /\ lastOutput = <<>>
  /\ MaskedIsGone

LEMMA MaskInitially == GuardInit => MaskInv
<1> SUFFICES ASSUME GuardInit PROVE MaskInv OBVIOUS
<1>1. PICK q \in Questions : chat = <<[role |-> "user", text |-> q, args |-> <<>>]>> BY DEF GuardInit
<1>2. [role |-> "user", text |-> q, args |-> <<>>] \in ChatMsg BY GuardAssumption DEF ChatMsg
<1>3. /\ chat \in Seq(ChatMsg) /\ Len(chat) = 1 /\ chat[1].role = "user"
      /\ DOMAIN chat = {1}
  BY <1>1, <1>2
<1>4. Answers = {} BY <1>3 DEF Answers
<1>5. Asked = {} BY <1>4 DEF Asked
<1>6. lastOutput = <<>> /\ <<>> \in Text /\ Within(<<>>) = {} BY DEF GuardInit, Text, Within
<1>7. MaskedIsGone BY <1>4, <1>5, <1>6 DEF MaskedIsGone
<1>8. /\ shape \in {"planner", "flow"} /\ specs \in [Execution -> SUBSET Code]
      /\ phase \in [Execution -> {"start", "read", "added", "ready", "failed"}]
  BY DEF GuardInit
<1>9. QED BY <1>3, <1>4, <1>6, <1>7, <1>8 DEF MaskInv

(* While rules are loaded the graph rests; only an execution that has not  *)
(* answered anything gets other rules.                                     *)
LEMMA LoadingKeepsMask ==
  ASSUME MaskInv, UNCHANGED graphVars, specs' \in [Execution -> SUBSET Code],
         phase' \in [Execution -> {"start", "read", "added", "ready", "failed"}],
         \/ specs'[Watched] = specs[Watched] /\ (phase'[Watched] # "ready" => phase[Watched] # "ready")
         \/ phase[Watched] # "ready"
  PROVE  MaskInv'
<1>1. /\ chat' = chat /\ lastOutput' = lastOutput /\ shape' = shape
      /\ unread' = unread /\ respelt' = respelt
  BY DEF graphVars
<1>2. Answers' = Answers /\ Asked' = Asked BY <1>1 DEF Answers, Asked
<1>3. CASE phase[Watched] # "ready"
  <2>1. Answers = {} /\ lastOutput = <<>> BY <1>3 DEF MaskInv
  <2>2. Asked = {} BY <2>1 DEF Asked
  <2>3. Within(<<>>) = {} BY DEF Within
  <2>4. MaskedIsGone' BY <1>1, <1>2, <2>1, <2>2, <2>3 DEF MaskedIsGone
  <2>5. QED BY <1>1, <1>2, <2>1, <2>4 DEF MaskInv
<1>4. CASE specs'[Watched] = specs[Watched] /\ (phase'[Watched] # "ready" => phase[Watched] # "ready")
  <2>1. \A stage : Masking(stage)' = Masking(stage) BY <1>4 DEF Masking
  <2>2. MaskedIsGone' BY <1>1, <1>2, <2>1 DEF MaskInv, MaskedIsGone
  <2>3. QED BY <1>1, <1>2, <1>4, <2>2 DEF MaskInv
<1>5. QED BY <1>3, <1>4

LEMMA RespondKeeps ==
  ASSUME MaskInv, NEW t \in Sayings, NEW args \in Arguments \cup {<<>>}, Respond(t, args)
  PROVE  MaskInv'
<1>0. PICK calls : calls = (args # <<>>) OBVIOUS
<1>1. PICK n, checked, hits : n = Len(chat) /\ checked = OutputText(t, calls)
                              /\ hits = Hits("output", checked)
  OBVIOUS
<1>2. /\ phase' = phase /\ specs' = specs /\ shape' = shape /\ phase[Watched] = "ready"
      /\ ~Blocks(InputHits)
  BY DEF Respond, InNode, loadVars
<1>3. /\ chat \in Seq(ChatMsg) /\ n \in Nat /\ n > 0 /\ lastOutput \in Text
      /\ DOMAIN chat = 1 .. n /\ chat[1].role = "user"
      /\ t \in Text /\ specs[Watched] \subseteq Code /\ MaskedIsGone
  BY <1>1, GuardAssumption DEF MaskInv
<1>4. CASE Blocks(hits)
  <2>1. UNCHANGED <<chat, lastOutput, unread, respelt>> BY <1>0, <1>1, <1>4 DEF Respond
  <2>2. Answers' = Answers /\ Asked' = Asked BY <1>2, <2>1 DEF Answers, Asked
  <2>3. \A stage : Masking(stage)' = Masking(stage) BY <1>2 DEF Masking
  <2>4. MaskedIsGone' BY <1>3, <2>1, <2>2, <2>3 DEF MaskedIsGone
  <2>5. QED BY <1>2, <2>1, <2>4 DEF MaskInv
<1>5. CASE ~Blocks(hits)
  <2>1. PICK said, g : said = MessageText(t, checked, hits) /\ g = Given OBVIOUS
  <2>2. /\ chat' = Append(g, [role |-> "assistant", text |-> said, args |-> args])
        /\ lastOutput' = IF Masks(hits) THEN ApplyMasks(hits, checked) ELSE LastOutput(t, calls)
        /\ unread' = IF checked = t THEN unread ELSE unread \cup {n + 1}
        /\ respelt' = (respelt \/ Spellings \subseteq Within(t))
    BY <1>0, <1>1, <1>5, <2>1 DEF Respond
  <2>3. /\ g \in Seq(ChatMsg) /\ Len(g) = n
        /\ \A i \in 1 .. n : /\ g[i].role = chat[i].role
                             /\ Within(g[i].text) \subseteq Within(chat[i].text) \cup {"masked"}
    BY <1>1, <1>3, <2>1, GivenFits
  <2>4. checked \in {t, lastOutput} /\ checked \in Text
    BY <1>1, <1>3 DEF OutputText, LastOutput
  <2>5. /\ said \in Text /\ ApplyMasks(hits, checked) \in Text
        /\ Within(ApplyMasks(hits, checked)) \subseteq Within(checked) \cup {"masked"}
    BY <1>3, <2>1, <2>4, StarredHides DEF MessageText, ApplyMasks
  <2>6. [role |-> "assistant", text |-> said, args |-> args] \in ChatMsg BY <2>5 DEF ChatMsg
  <2>7. /\ chat' \in Seq(ChatMsg) /\ Len(chat') = n + 1 /\ DOMAIN chat' = 1 .. n + 1
        /\ \A i \in 1 .. n : chat'[i] = g[i]
        /\ chat'[n + 1] = [role |-> "assistant", text |-> said, args |-> args]
    BY <1>3, <2>2, <2>3, <2>6
  <2>8. /\ lastOutput' \in Text /\ chat'[1].role = "user"
    BY <1>3, <2>2, <2>3, <2>5, <2>7 DEF LastOutput
  <2>9. Answers' = Answers \cup {n + 1}
    <3>1. chat'[n + 1].role = "assistant" BY <2>7
    <3>2. \A i \in 1 .. n : chat'[i].role = chat[i].role BY <2>3, <2>7
    <3>3. 1 .. n + 1 = (1 .. n) \cup {n + 1} BY <1>3
    <3>4. QED BY <1>3, <2>7, <3>1, <3>2, <3>3 DEF Answers
  <2>10. \A stage : Masking(stage)' = Masking(stage) /\ Masking(stage) \subseteq Code
    BY <1>2, <1>3 DEF Masking
  <2>11. ASSUME ~respelt', NEW c \in Masking("output")
         PROVE  /\ \A i \in Answers' \ unread' : Within(chat'[i].text) \cap Promised(c) = {}
                /\ Within(lastOutput') \cap Promised(c) = {}
    <3>1. /\ ~respelt /\ ~(Spellings \subseteq Within(t)) BY <2>2, <2>11
    <3>2. /\ \A i \in Answers \ unread : Within(chat[i].text) \cap Promised(c) = {}
          /\ Within(lastOutput) \cap Promised(c) = {}
      BY <1>3, <2>11, <3>1 DEF MaskedIsGone
    <3>3. "masked" \notin Promised(c) BY KindsApart DEF Promised
    <3>4. checked = t => Within(said) \cap Promised(c) = {}
      BY <1>1, <1>3, <1>5, <2>1, <2>10, <2>11, <3>1, PassedIsClean
    <3>5. ASSUME NEW i \in Answers' \ unread' PROVE Within(chat'[i].text) \cap Promised(c) = {}
      <4>1. CASE i = n + 1
        <5>1. checked = t BY <2>2, <3>5, <4>1
        <5>2. chat'[i].text = said BY <2>7, <4>1
        <5>3. QED BY <3>4, <5>1, <5>2
      <4>2. CASE i # n + 1
        <5>1. i \in Answers \ unread /\ i \in 1 .. n BY <1>3, <2>2, <2>9, <3>5, <4>2 DEF Answers
        <5>2. Within(chat'[i].text) \subseteq Within(chat[i].text) \cup {"masked"}
          BY <2>3, <2>7, <5>1
        <5>3. QED BY <3>2, <3>3, <5>1, <5>2
      <4>3. QED BY <4>1, <4>2
    <3>6. Within(lastOutput') \cap Promised(c) = {}
      <4>1. CASE checked = t
        <5>1. CASE Masks(hits) BY <2>1, <2>2, <3>4, <4>1, <5>1 DEF MessageText
        <5>2. CASE ~Masks(hits)
          <6>1. said = t /\ lastOutput' \in {t, lastOutput}
            BY <2>1, <2>2, <5>2 DEF MessageText, LastOutput
          <6>2. QED BY <3>2, <3>4, <4>1, <6>1
        <5>3. QED BY <5>1, <5>2
      <4>2. CASE checked # t
        <5>1. checked = lastOutput /\ LastOutput(t, calls) = lastOutput
          BY <1>1, <2>4, <4>2 DEF OutputText, LastOutput
        <5>2. Within(lastOutput') \subseteq Within(lastOutput) \cup {"masked"}
          BY <2>2, <2>5, <5>1
        <5>3. QED BY <3>2, <3>3, <5>2
      <4>3. QED BY <4>1, <4>2
    <3>7. QED BY <3>5, <3>6
  <2>12. ASSUME NEW c \in Masking("input"), RuleFor[c].type = "pii", NEW i \in Asked'
         PROVE  Within(chat'[i].text) \cap Personal = {}
    <3>1. i \in 1 .. n
      <4>1. CASE shape = "flow" BY <1>2, <1>3, <2>12, <4>1 DEF Asked
      <4>2. CASE shape # "flow"
        <5>1. PICK j \in Answers' : i < j /\ i \in DOMAIN chat' BY <1>2, <2>12, <4>2 DEF Asked
        <5>2. j \in 1 .. n + 1 /\ i \in 1 .. n + 1 BY <2>7, <5>1 DEF Answers
        <5>3. QED BY <1>3, <5>1, <5>2
      <4>3. QED BY <4>1, <4>2
    <3>2. CASE IsEntry
      <4>1. Within(g[i].text) \cap Personal = {}
        BY <1>1, <1>2, <1>3, <2>1, <2>10, <2>12, <3>1, <3>2, GivenIsClean
      <4>2. QED BY <2>7, <3>1, <4>1
    <3>3. CASE ~IsEntry
      <4>1. shape = "flow" /\ Answers # {} BY <3>3 DEF IsEntry, MaskInv
      <4>2. i = 1 /\ i \in Asked BY <1>2, <1>3, <2>12, <3>1, <4>1 DEF Asked
      <4>3. Within(chat[i].text) \cap Personal = {} BY <1>3, <2>12, <4>2 DEF MaskedIsGone
      <4>4. Within(chat'[i].text) \subseteq Within(chat[i].text) \cup {"masked"}
        BY <2>3, <2>7, <3>1
      <4>5. QED BY <4>3, <4>4, KindsApart
    <3>4. QED BY <3>2, <3>3
  <2>13. MaskedIsGone' BY <2>10, <2>11, <2>12 DEF MaskedIsGone
  <2>14. Len(chat') > 0 BY <1>3, <2>7
  <2>15. QED BY <1>2, <2>7, <2>8, <2>13, <2>14 DEF MaskInv
<1>6. QED BY <1>4, <1>5

LEMMA UseToolsKeeps == ASSUME MaskInv, NEW t \in Findings, UseTools(t) PROVE MaskInv'
<1>1. PICK n : n = Len(chat) OBVIOUS
<1>2. /\ chat' = Append(chat, [role |-> "tool", text |-> t, args |-> <<>>])
      /\ UNCHANGED <<shape, lastOutput, unread, respelt>> /\ phase' = phase /\ specs' = specs
  BY DEF UseTools, loadVars
<1>3. [role |-> "tool", text |-> t, args |-> <<>>] \in ChatMsg /\ chat \in Seq(ChatMsg)
  BY GuardAssumption DEF ChatMsg, MaskInv
<1>4. /\ n \in Nat /\ n > 0 /\ chat' \in Seq(ChatMsg) /\ Len(chat') = n + 1
      /\ DOMAIN chat' = 1 .. n + 1 /\ DOMAIN chat = 1 .. n
      /\ \A i \in 1 .. n : chat'[i] = chat[i]
      /\ chat'[n + 1] = [role |-> "tool", text |-> t, args |-> <<>>]
  BY <1>1, <1>2, <1>3 DEF MaskInv
<1>5. 1 .. n + 1 = (1 .. n) \cup {n + 1} /\ n + 1 \notin 1 .. n BY <1>4
<1>6. Answers' = Answers
  <2>1. chat'[n + 1].role = "tool" BY <1>4
  <2>2. QED BY <1>4, <1>5, <2>1 DEF Answers
<1>7. Asked' = Asked
  <2>1. \A j \in Answers : j \in 1 .. n BY <1>4 DEF Answers
  <2>2. \A j \in 1 .. n : ~(n + 1 < j) BY <1>4
  <2>3. CASE shape = "flow"
    <3>1. \A i : i \in 1 .. n + 1 /\ i = 1 <=> i \in 1 .. n /\ i = 1 BY <1>4
    <3>2. QED BY <1>2, <1>4, <1>6, <2>3, <3>1 DEF Asked
  <2>4. CASE shape # "flow"
    <3>1. PICK A : A = Answers OBVIOUS
    <3>2. Asked = {i \in 1 .. n : \E j \in A : i < j} BY <1>4, <2>4, <3>1 DEF Asked
    <3>3. Asked' = {i \in 1 .. n + 1 : \E j \in A : i < j}
      BY <1>2, <1>4, <1>6, <2>4, <3>1 DEF Asked
    <3>4. ~\E j \in A : n + 1 < j BY <2>1, <2>2, <3>1
    <3>5. QED BY <1>5, <3>2, <3>3, <3>4
  <2>5. QED BY <2>3, <2>4
<1>8. \A stage : Masking(stage)' = Masking(stage) BY <1>2 DEF Masking
<1>9. Asked \subseteq 1 .. n /\ Answers \subseteq 1 .. n BY <1>4 DEF Asked, Answers
<1>10. MaskedIsGone'
  <2>1. MaskedIsGone BY DEF MaskInv
  <2>2. \A i \in Asked \cup Answers : chat'[i] = chat[i] BY <1>4, <1>9
  <2>3. QED BY <1>2, <1>6, <1>7, <1>8, <2>1, <2>2 DEF MaskedIsGone
<1>11. chat'[1].role = "user" /\ Len(chat') > 0 BY <1>4 DEF MaskInv
<1>12. QED BY <1>2, <1>4, <1>6, <1>10, <1>11 DEF MaskInv

LEMMA MaskInductive == MaskInv /\ [GuardNext]_guardVars => MaskInv'
<1> SUFFICES ASSUME MaskInv, [GuardNext]_guardVars PROVE MaskInv' OBVIOUS
<1>0. /\ specs \in [Execution -> SUBSET Code] /\ Watched \in Execution
      /\ phase \in [Execution -> {"start", "read", "added", "ready", "failed"}]
  BY GuardAssumption DEF MaskInv
<1>1. CASE UNCHANGED graphVars /\ specs' = specs /\ phase' = phase
  BY <1>0, <1>1, LoadingKeepsMask
<1>2. ASSUME NEW e \in Execution, phase[e] \in {"start", "read"}, UNCHANGED graphVars,
             NEW p \in {"read", "added", "ready", "failed"}, phase' = [phase EXCEPT ![e] = p],
             NEW codes \in SUBSET Code, specs' = [specs EXCEPT ![e] = codes]
      PROVE  MaskInv'
  <2>1. /\ specs' \in [Execution -> SUBSET Code]
        /\ phase' \in [Execution -> {"start", "read", "added", "ready", "failed"}]
    BY <1>0, <1>2
  <2>2. CASE e = Watched BY <1>2, <2>1, <2>2, LoadingKeepsMask
  <2>3. CASE e # Watched
    <3>1. specs'[Watched] = specs[Watched] /\ phase'[Watched] = phase[Watched]
      BY <1>0, <1>2, <2>3
    <3>2. QED BY <1>2, <2>1, <3>1, LoadingKeepsMask
  <2>4. QED BY <2>2, <2>3
<1>3. ASSUME NEW e \in Execution, ReadRules(e) PROVE MaskInv'
  <2>1. /\ UNCHANGED graphVars /\ phase[e] = "start" /\ phase' = [phase EXCEPT ![e] = "read"]
        /\ specs' = [specs EXCEPT ![e] = {c \in Code : table[c] = "on"}]
    BY <1>3 DEF ReadRules
  <2>2. {c \in Code : table[c] = "on"} \in SUBSET Code OBVIOUS
  <2>3. QED BY <1>2, <2>1, <2>2
<1>4. ASSUME NEW e \in Execution, AddBuiltins(e) PROVE MaskInv'
  <2>1. UNCHANGED graphVars /\ phase[e] = "read" BY <1>4 DEF AddBuiltins
  <2>2. PICK p \in {"added", "ready", "failed"}, codes \in SUBSET Code :
          phase' = [phase EXCEPT ![e] = p] /\ specs' = [specs EXCEPT ![e] = codes]
    <3>1. CASE \A c \in ToInsert(e) : table[c] = "absent"
      <4>1. PICK p \in {"added", "ready"} : phase' = [phase EXCEPT ![e] = p]
        BY <1>4, <3>1 DEF AddBuiltins
      <4>2. specs' = [specs EXCEPT ![e] = specs[e] \cup BuiltinRule]
        BY <1>4, <3>1 DEF AddBuiltins
      <4>3. specs[e] \cup BuiltinRule \in SUBSET Code BY <1>0 DEF Code
      <4>4. QED BY <4>1, <4>2, <4>3
    <3>2. CASE ~(\A c \in ToInsert(e) : table[c] = "absent")
      <4>1. phase' = [phase EXCEPT ![e] = "failed"] /\ specs' = specs
        BY <1>4, <3>2 DEF AddBuiltins
      <4>2. specs' = [specs EXCEPT ![e] = specs[e]] /\ specs[e] \in SUBSET Code BY <1>0, <4>1
      <4>3. QED BY <4>1, <4>2
    <3>3. QED BY <3>1, <3>2
  <2>3. QED BY <1>2, <2>1, <2>2
<1>5. ASSUME NEW e \in Execution, CommitRules(e) PROVE MaskInv'
  <2>1. /\ UNCHANGED graphVars /\ specs' = specs /\ phase' = [phase EXCEPT ![e] = "ready"]
    BY <1>5 DEF CommitRules
  <2>2. /\ phase' \in [Execution -> {"start", "read", "added", "ready", "failed"}]
        /\ phase'[Watched] # "ready" => phase[Watched] # "ready"
    BY <1>0, <2>1
  <2>3. QED BY <1>0, <2>1, <2>2, LoadingKeepsMask
<1>6. ASSUME NEW c \in Code, NEW status \in {"on", "off"}, SetRule(c, status) PROVE MaskInv'
  BY <1>1, <1>6 DEF SetRule
<1>7. CASE BlockInput
  <2>1. specs' = specs /\ phase' = phase BY <1>7 DEF BlockInput, loadVars
  <2>2. UNCHANGED <<shape, chat, lastOutput, unread, respelt>> BY <1>7 DEF BlockInput
  <2>3. Answers' = Answers /\ Asked' = Asked /\ \A stage : Masking(stage)' = Masking(stage)
    BY <2>1, <2>2 DEF Answers, Asked, Masking
  <2>4. MaskedIsGone' BY <2>2, <2>3 DEF MaskedIsGone, MaskInv
  <2>5. QED BY <2>1, <2>2, <2>3, <2>4 DEF MaskInv
<1>8. ASSUME NEW t \in Sayings, NEW args \in Arguments \cup {<<>>}, Respond(t, args)
      PROVE  MaskInv'
  BY <1>8, RespondKeeps
<1>9. ASSUME NEW t \in Findings, UseTools(t) PROVE MaskInv'
  BY <1>9, UseToolsKeeps
<1>10. CASE UNCHANGED guardVars BY <1>1, <1>10 DEF guardVars, graphVars
<1>11. QED BY <1>3, <1>4, <1>5, <1>6, <1>7, <1>8, <1>9, <1>10 DEF GuardNext

(* Whatever rules there are, whatever is said in whatever turns, and       *)
(* however rules are edited meanwhile: what is masked does not stay in the *)
(* content of the messages.  It says nothing of the arguments of calls,    *)
(* which stay in the messages as they were said.                           *)
THEOREM MasksHold == GuardSpec => []MaskedIsGone
<1>1. MaskInv => MaskedIsGone BY DEF MaskInv
<1>2. GuardSpec => []MaskInv
  BY MaskInitially, MaskInductive, PTL DEF GuardSpec
<1>3. QED BY <1>1, <1>2, PTL

-----------------------------------------------------------------------------
(* The recursive descent.  A level looks at a lower level of the same      *)
(* place, or at a later place: both weigh less.                            *)
LevelNo(l) == IF l = "atom" THEN 1 ELSE IF l = "compare" THEN 2 ELSE IF l = "not" THEN 3
              ELSE IF l = "and" THEN 4 ELSE 5
Place(n) == Levels \X (1 .. n + 1)
Weight(n, x) == 6 * (n + 1 - x[2]) + LevelNo(x[1])

LEMMA Ranks == \A l \in Levels : Rank(l) = LevelNo(l)
<1> SUFFICES ASSUME NEW l \in Levels PROVE Rank(l) = LevelNo(l) OBVIOUS
<1>1. \A i \in 1 .. 5 : Level[i] = l <=> i = LevelNo(l)
  BY DEF Level, Levels, LevelNo
<1>2. LevelNo(l) \in 1 .. 5 BY DEF LevelNo
<1>3. QED BY <1>1, <1>2 DEF Rank

LEMMA Operands ==
  \A l \in Levels \ {"atom"} : OperandOf(l) \in Levels /\ LevelNo(OperandOf(l)) = LevelNo(l) - 1
<1> SUFFICES ASSUME NEW l \in Levels \ {"atom"}
             PROVE  OperandOf(l) \in Levels /\ LevelNo(OperandOf(l)) = LevelNo(l) - 1
  OBVIOUS
<1>1. Rank(l) = LevelNo(l) BY Ranks
<1>2. OperandOf(l) = IF l = "compare" THEN "atom" ELSE IF l = "not" THEN "compare"
                     ELSE IF l = "and" THEN "not" ELSE "and"
  BY <1>1 DEF OperandOf, LevelNo, Level, Levels
<1>3. QED BY <1>2 DEF LevelNo, Levels

(* What was read ends behind where it began.                               *)
Ahead(n, r, i) == r.ok => r.next \in i + 1 .. n + 1
ReadsBelow(t, f, m) == \A x \in Place(Len(t)) :
  Weight(Len(t), x) < m => f[x] = Descend(t, f, x[1], x[2]) /\ Ahead(Len(t), f[x], x[2])
AlikeBelow(n, f, g, m) == \A x \in Place(n) : Weight(n, x) < m => g[x] = f[x]

LEMMA Weights ==
  ASSUME NEW n \in Nat, NEW l \in Levels, NEW i \in 1 .. n + 1
  PROVE  /\ Weight(n, <<l, i>>) \in Nat
         /\ \A k \in Levels, j \in i + 1 .. n + 1 : Weight(n, <<k, j>>) < Weight(n, <<l, i>>)
         /\ l # "atom" => Weight(n, <<OperandOf(l), i>>) < Weight(n, <<l, i>>)
<1>1. \A k \in Levels : LevelNo(k) \in 1 .. 5 BY DEF LevelNo
<1>2. PICK w : w = [x \in Place(n) |-> Weight(n, x)] OBVIOUS
<1>3. \A k \in Levels, j \in 1 .. n + 1 :
        /\ <<k, j>> \in Place(n) 
        /\ Weight(n, <<k, j>>) = 6 * (n + 1 - j) + LevelNo(k)
  BY DEF Weight, Place
<1>4. Weight(n, <<l, i>>) \in Nat BY <1>1, <1>3
<1>5. ASSUME NEW k \in Levels, NEW j \in i + 1 .. n + 1
      PROVE  Weight(n, <<k, j>>) < Weight(n, <<l, i>>)
  <2>1. LevelNo(k) \in 1 .. 5 /\ LevelNo(l) \in 1 .. 5 BY <1>1
  <2>2. j \in 1 .. n + 1 OBVIOUS
  <2>3. QED BY <1>3, <2>1, <2>2
<1>6. ASSUME l # "atom" PROVE Weight(n, <<OperandOf(l), i>>) < Weight(n, <<l, i>>)
  <2>1. /\ LevelNo(l) \in 1 .. 5 /\ OperandOf(l) \in Levels
        /\ LevelNo(OperandOf(l)) = LevelNo(l) - 1
    BY <1>1, <1>6, Operands
  <2>2. QED BY <1>3, <2>1
<1>7. QED BY <1>4, <1>5, <1>6

LEMMA AtomLooksAhead ==
  ASSUME NEW t, NEW n \in Nat, n = Len(t), NEW f, NEW g, NEW i \in 1 .. n + 1,
         ReadsBelow(t, f, Weight(n, <<"atom", i>>)),
         AlikeBelow(n, f, g, Weight(n, <<"atom", i>>))
  PROVE  ParseAtom(t, g, i) = ParseAtom(t, f, i) /\ Ahead(n, ParseAtom(t, f, i), i)
<1>1. CASE i > n
  <2>1. ParseAtom(t, f, i) = Raises /\ ParseAtom(t, g, i) = Raises BY <1>1 DEF ParseAtom
  <2>2. QED BY <2>1 DEF Raises, Ahead
<1>2. CASE i <= n /\ ~Says(t, i, {"("})
  <2>1. ParseAtom(t, f, i) = Atom(t[i], i) /\ ParseAtom(t, g, i) = Atom(t[i], i)
    BY <1>2 DEF ParseAtom
  <2>2. Ahead(n, Raises, i) BY DEF Raises, Ahead
  <2>3. \A v : Ahead(n, Gives(v, i + 1), i) BY <1>2 DEF Gives, Ahead
  <2>4. Ahead(n, Atom(t[i], i), i) BY <2>2, <2>3 DEF Atom
  <2>5. QED BY <2>1, <2>4
<1>3. CASE i <= n /\ Says(t, i, {"("})
  <2>1. /\ "or" \in Levels /\ "atom" \in Levels
        /\ i + 1 \in 1 .. n + 1 /\ i + 1 \in i + 1 .. n + 1
    BY <1>3 DEF Levels
  <2>2. <<"or", i + 1>> \in Place(n) BY <2>1 DEF Place
  <2>3. Weight(n, <<"or", i + 1>>) < Weight(n, <<"atom", i>>) BY <2>1, Weights
  <2>4. g[<<"or", i + 1>>] = f[<<"or", i + 1>>] BY <2>2, <2>3 DEF AlikeBelow
  <2>5. Ahead(n, f[<<"or", i + 1>>], i + 1) BY <2>2, <2>3 DEF ReadsBelow
  <2>6. PICK inner : inner = f[<<"or", i + 1>>] OBVIOUS
  <2>7. ParseAtom(t, f, i) = IF inner.ok /\ Says(t, inner.next, {")"})
                             THEN Gives(inner.value, inner.next + 1) ELSE Raises
    BY <1>3, <2>6 DEF ParseAtom
  <2>8. ParseAtom(t, g, i) = ParseAtom(t, f, i)
    BY <1>3, <2>4, <2>6, <2>7 DEF ParseAtom
  <2>9. CASE inner.ok /\ Says(t, inner.next, {")"})
    <3>1. inner.next \in i + 2 .. n + 1 /\ inner.next <= n BY <2>5, <2>6, <2>9 DEF Ahead, Says
    <3>2. QED BY <2>7, <2>8, <2>9, <3>1 DEF Gives, Ahead
  <2>10. CASE ~(inner.ok /\ Says(t, inner.next, {")"}))
    BY <2>7, <2>8, <2>10 DEF Raises, Ahead
  <2>11. QED BY <2>9, <2>10
<1>4. QED BY <1>1, <1>2, <1>3

LEMMA NotLooksAhead ==
  ASSUME NEW t, NEW n \in Nat, n = Len(t), NEW f, NEW g, NEW i \in 1 .. n,
         ReadsBelow(t, f, Weight(n, <<"not", i>>)),
         AlikeBelow(n, f, g, Weight(n, <<"not", i>>))
  PROVE  ParseNot(g, i) = ParseNot(f, i) /\ Ahead(n, ParseNot(f, i), i)
<1>1. /\ "not" \in Levels /\ i \in 1 .. n + 1
      /\ i + 1 \in 1 .. n + 1 /\ i + 1 \in i + 1 .. n + 1
  BY DEF Levels
<1>2. <<"not", i + 1>> \in Place(n) BY <1>1 DEF Place
<1>3. Weight(n, <<"not", i + 1>>) < Weight(n, <<"not", i>>) BY <1>1, Weights
<1>4. PICK arg : arg = f[<<"not", i + 1>>] OBVIOUS
<1>5. g[<<"not", i + 1>>] = arg BY <1>2, <1>3, <1>4 DEF AlikeBelow
<1>6. Ahead(n, arg, i + 1) BY <1>2, <1>3, <1>4 DEF ReadsBelow
<1>7. ParseNot(f, i) = IF arg.ok THEN Gives(Bool(~Truthy(arg.value)), arg.next) ELSE Raises
  BY <1>4 DEF ParseNot, Negated
<1>8. ParseNot(g, i) = ParseNot(f, i) BY <1>5, <1>7 DEF ParseNot, Negated
<1>9. CASE arg.ok BY <1>6, <1>7, <1>8, <1>9 DEF Gives, Ahead
<1>10. CASE ~arg.ok BY <1>7, <1>8, <1>10 DEF Raises, Ahead
<1>11. QED BY <1>9, <1>10

LEMMA OperandsLookAhead ==
  ASSUME NEW t, NEW n \in Nat, n = Len(t), NEW f, NEW g,
         NEW l \in Levels \ {"atom"}, NEW i \in 1 .. n + 1,
         ReadsBelow(t, f, Weight(n, <<l, i>>)),
         AlikeBelow(n, f, g, Weight(n, <<l, i>>))
  PROVE  /\ ParseOperands(t, g, l, i) = ParseOperands(t, f, l, i)
         /\ Ahead(n, ParseOperands(t, f, l, i), i)
<1>1. OperandOf(l) \in Levels BY Operands
<1>2. <<OperandOf(l), i>> \in Place(n) /\ Weight(n, <<OperandOf(l), i>>) < Weight(n, <<l, i>>)
  BY <1>1, Weights DEF Place
<1>3. PICK left : left = f[<<OperandOf(l), i>>] OBVIOUS
<1>4. g[<<OperandOf(l), i>>] = left BY <1>2, <1>3 DEF AlikeBelow
<1>5. Ahead(n, left, i) BY <1>2, <1>3 DEF ReadsBelow
<1>6. PICK k \in Levels : k = IF l = "compare" THEN "atom" ELSE l BY DEF Levels
<1>7. CASE ~left.ok \/ ~Says(t, left.next, OperatorsOf(l))
  BY <1>3, <1>4, <1>5, <1>7 DEF ParseOperands
<1>8. CASE left.ok /\ Says(t, left.next, OperatorsOf(l))
  <2>1. /\ left.next \in i + 1 .. n
        /\ left.next + 1 \in i + 1 .. n + 1 /\ left.next + 1 \in 1 .. n + 1
    BY <1>5, <1>8 DEF Ahead, Says
  <2>2. /\ <<k, left.next + 1>> \in Place(n)
        /\ Weight(n, <<k, left.next + 1>>) < Weight(n, <<l, i>>)
    BY <2>1, Weights DEF Place
  <2>3. PICK right : right = f[<<k, left.next + 1>>] OBVIOUS
  <2>4. g[<<k, left.next + 1>>] = right BY <2>2, <2>3 DEF AlikeBelow
  <2>5. Ahead(n, right, left.next + 1) BY <2>2, <2>3 DEF ReadsBelow
  <2>6. PICK v : v = Apply(t[left.next][2], Content(left.value), Content(right.value)) OBVIOUS
  <2>7. /\ ParseOperands(t, f, l, i) = IF ~right.ok THEN Raises ELSE Gives(v, right.next)
        /\ ParseOperands(t, g, l, i) = IF ~right.ok THEN Raises ELSE Gives(v, right.next)
    BY <1>3, <1>4, <1>6, <1>8, <2>3, <2>4, <2>6 DEF ParseOperands
  <2>8. CASE right.ok BY <2>1, <2>5, <2>7, <2>8 DEF Ahead, Gives
  <2>9. CASE ~right.ok BY <2>7, <2>9 DEF Ahead, Raises
  <2>10. QED BY <2>8, <2>9
<1>9. QED BY <1>7, <1>8

LEMMA DescentLooksAhead ==
  ASSUME NEW t, NEW n \in Nat, n = Len(t), NEW f, NEW g, NEW l \in Levels, NEW i \in 1 .. n + 1,
         ReadsBelow(t, f, Weight(n, <<l, i>>)),
         AlikeBelow(n, f, g, Weight(n, <<l, i>>))
  PROVE  Descend(t, g, l, i) = Descend(t, f, l, i) /\ Ahead(n, Descend(t, f, l, i), i)
<1>1. CASE l = "atom" BY <1>1, AtomLooksAhead DEF Descend
<1>2. CASE l = "not" /\ Says(t, i, {"not"})
  <2>1. i \in 1 .. n BY <1>2 DEF Says
  <2>2. QED BY <1>2, <2>1, NotLooksAhead DEF Descend
<1>3. CASE l # "atom" /\ ~(l = "not" /\ Says(t, i, {"not"}))
  BY <1>3, OperandsLookAhead DEF Descend
<1>4. QED BY <1>1, <1>2, <1>3

(* There is such a reading: one up to a weight makes one up to the next.   *)
LEMMA ReadingsGrow ==
  ASSUME NEW t, NEW n \in Nat, n = Len(t), NEW m \in Nat, NEW f,
         f = [x \in Place(n) |-> f[x]], ReadsBelow(t, f, m)
  PROVE  \E g : g = [x \in Place(n) |-> g[x]] /\ ReadsBelow(t, g, m + 1)
<1>1. PICK g : g = [x \in Place(n) |-> IF Weight(n, x) < m THEN f[x]
                                     ELSE Descend(t, f, x[1], x[2])]
  OBVIOUS
<1>2. g = [x \in Place(n) |-> g[x]] BY <1>1
<1>3. ASSUME NEW l \in Levels, NEW i \in 1 .. n + 1, Weight(n, <<l, i>>) < m + 1
      PROVE  /\ g[<<l, i>>] = Descend(t, g, l, i)
             /\ Ahead(n, g[<<l, i>>], i)
  <2>1. <<l, i>> \in Place(n) /\ Weight(n, <<l, i>>) \in Nat BY Weights DEF Place
  <2>2. Weight(n, <<l, i>>) <= m BY <1>3, <2>1
  <2>3. \A x \in Place(n) : Weight(n, x) \in Nat
    <3> SUFFICES ASSUME NEW k \in Levels, NEW j \in 1 .. n + 1 PROVE Weight(n, <<k, j>>) \in Nat
      BY DEF Place
    <3>1. QED BY Weights
  <2>4. PICK w \in Nat : w = Weight(n, <<l, i>>) BY <2>1
  <2>5. ReadsBelow(t, f, w) BY <2>2, <2>3, <2>4 DEF ReadsBelow
  <2>6. \A x \in Place(n) : Weight(n, x) < w => Weight(n, x) < m BY <2>2, <2>3, <2>4
  <2>7. AlikeBelow(n, f, g, w) BY <1>1, <2>6 DEF AlikeBelow
  <2>8. Descend(t, g, l, i) = Descend(t, f, l, i) /\ Ahead(n, Descend(t, f, l, i), i)
    BY <2>4, <2>5, <2>7, DescentLooksAhead
  <2>9. g[<<l, i>>] = Descend(t, f, l, i)
    <3>1. CASE w < m
      <4>1. g[<<l, i>>] = f[<<l, i>>] BY <1>1, <2>1, <2>4, <3>1
      <4>2. f[<<l, i>>] = Descend(t, f, l, i) BY <2>1, <2>4, <3>1 DEF ReadsBelow
      <4>3. QED BY <4>1, <4>2
    <3>2. CASE ~(w < m) BY <1>1, <2>1, <2>4, <3>2
    <3>3. QED BY <3>1, <3>2
  <2>10. QED BY <2>8, <2>9
<1>4. ReadsBelow(t, g, m + 1) BY <1>3 DEF ReadsBelow, Place
<1>5. QED BY <1>2, <1>4

LEMMA ReadingsExist ==
  ASSUME NEW t, NEW n \in Nat, n = Len(t), NEW m \in Nat
  PROVE  \E f : f = [x \in Place(n) |-> f[x]] /\ ReadsBelow(t, f, m)
<1>1. PICK S : S = {k \in Nat : ~\E f : f = [x \in Place(n) |-> f[x]] /\ ReadsBelow(t, f, k)}
  OBVIOUS
<1>2. SUFFICES ASSUME S # {} PROVE FALSE BY <1>1
<1>3. PICK k \in S : \A j \in S : k <= j BY <1>1, <1>2, Least
<1>4. k \in Nat BY <1>1, <1>3
<1>5. k # 0
  <2>1. \A x \in Place(n) : Weight(n, x) \in Nat
    <3> SUFFICES ASSUME NEW l \in Levels, NEW i \in 1 .. n + 1 PROVE Weight(n, <<l, i>>) \in Nat
      BY DEF Place
    <3>1. QED BY Weights
  <2>2. PICK f : f = [x \in Place(n) |-> Raises] OBVIOUS
  <2>3. ReadsBelow(t, f, 0) BY <2>1 DEF ReadsBelow
  <2>4. f = [x \in Place(n) |-> f[x]] BY <2>2
  <2>5. 0 \notin S BY <1>1, <2>3, <2>4
  <2>6. QED BY <1>3, <2>5
<1>6. k - 1 \in Nat /\ k - 1 \notin S /\ k - 1 + 1 = k BY <1>3, <1>4, <1>5
<1>7. PICK f : f = [x \in Place(n) |-> f[x]] /\ ReadsBelow(t, f, k - 1) BY <1>1, <1>6
<1>8. PICK g : g = [x \in Place(n) |-> g[x]] /\ ReadsBelow(t, g, k) BY <1>6, <1>7, ReadingsGrow
<1>9. QED BY <1>1, <1>3, <1>8

ReadsAll(t, f) == f = [x \in Levels \X (1 .. Len(t) + 1) |-> Descend(t, f, x[1], x[2])]

LEMMA WeightsEnd == \A n \in Nat : \A x \in Place(n) : Weight(n, x) \in Nat /\ Weight(n, x) < 6 * (n + 1)
<1> SUFFICES ASSUME NEW n \in Nat, NEW l \in Levels, NEW i \in 1 .. n + 1
             PROVE  Weight(n, <<l, i>>) \in Nat /\ Weight(n, <<l, i>>) < 6 * (n + 1)
  BY DEF Place
<1>1. Weight(n, <<l, i>>) = 6 * (n + 1 - i) + LevelNo(l) BY DEF Weight
<1>2. LevelNo(l) \in 1 .. 5 BY DEF LevelNo
<1>3. QED BY <1>1, <1>2

LEMMA ReadingsUnfold == ASSUME NEW t, Len(t) \in Nat PROVE ReadsAll(t, Readings(t))
<1>1. PICK n \in Nat : n = Len(t) OBVIOUS
<1>2. PICK m \in Nat : \A x \in Place(n) : Weight(n, x) < m
  <2>1. 6 * (n + 1) \in Nat OBVIOUS
  <2>2. QED BY <2>1, WeightsEnd
<1>3. PICK f : f = [x \in Place(n) |-> f[x]] /\ ReadsBelow(t, f, m) BY <1>1, ReadingsExist
<1>4. \A x \in Place(n) : f[x] = Descend(t, f, x[1], x[2]) BY <1>1, <1>2, <1>3 DEF ReadsBelow
<1>5. ReadsAll(t, f)
  <2>1. [x \in Place(n) |-> f[x]] = [x \in Place(n) |-> Descend(t, f, x[1], x[2])] BY <1>4
  <2>2. QED BY <1>1, <1>3, <2>1 DEF ReadsAll, Place
<1>6. QED BY <1>5, Zenon DEF ReadsAll, Readings

-----------------------------------------------------------------------------
(* Values: an object there is, or something that is not a dictionary.      *)
SignText == {"or", "and", "==", "!=", "not", "(", ")"}
Word == (UNION {v.leaves : v \in Vocabularies}) \cup {Sign(s) : s \in SignText}
Plain(v) == v[1] \notin {"obj", "dict", "error"}
Value(v) == v[1] \notin {"dict", "error"} /\ (IsDict(v) => v \in {"obj"} \X Obj)
Memory == (\A n \in Name : Value(slots[n])) /\ (\A o \in Obj : Plain(heap[o]))

(* A word is a sign, quoted, a constant, or a path.                        *)
LEMMA Words ==
  ASSUME NEW w \in Word
  PROVE  \/ w[1] \in {"sign", "quoted"} /\ Token(w) = <<"str", w[2]>>
         \/ w[1] \in {"bool", "num", "none"} /\ Token(w) = <<"literal", w>>
         \/ w[1] = "path" /\ Token(w) = w /\ (LegalPath(w[2]) => w[2] \in VariablePath)
<1>1. CASE \E s \in SignText : w = Sign(s) BY <1>1 DEF Sign, Token
<1>2. CASE \E v \in Vocabularies : w \in v.leaves
  <2>1. Writable(w) BY <1>2, VocabulariesAssumption
  <2>2. CASE w \in ({"bool"} \X BOOLEAN) \cup ({"num"} \X Int) \cup {Null}
    BY <2>2 DEF Token, Null
  <2>3. CASE w \in {"quoted"} \X STRING BY <2>3 DEF Token
  <2>4. CASE w[1] = "path" /\ (LegalPath(w[2]) => w[2] \in VariablePath) BY <2>4 DEF Token
  <2>5. QED BY <2>1, <2>2, <2>3, <2>4 DEF Writable
<1>3. QED BY <1>1, <1>2 DEF Word

LEMMA PathsGiveValues ==
  ASSUME Memory, NEW p \in VariablePath PROVE Value(GetPath(p))
<1>1. Value(Null) BY DEF Value, Null, IsDict
<1>2. \A o \in Obj : Value(heap[o]) BY DEF Memory, Plain, Value, IsDict
<1>3. p[2] \in Name BY DEF VariablePath
<1>4. Value(slots[p[2]]) BY <1>3 DEF Memory
<1>5. QED BY <1>1, <1>2, <1>4 DEF GetPath, Value

LEMMA AtomsGiveValues ==
  ASSUME Memory, NEW w \in Word, NEW i, Atom(Token(w), i).ok
  PROVE  Value(Atom(Token(w), i).value)
<1>1. CASE w[1] \in {"sign", "quoted"} /\ Token(w) = <<"str", w[2]>>
  BY <1>1 DEF Atom, Gives, Value, IsDict
<1>2. CASE w[1] \in {"bool", "num", "none"} /\ Token(w) = <<"literal", w>>
  BY <1>2 DEF Atom, Gives, Value, IsDict
<1>3. CASE w[1] = "path" /\ Token(w) = w /\ (LegalPath(w[2]) => w[2] \in VariablePath)
  <2>1. LegalPath(w[2]) /\ Atom(Token(w), i) = Gives(GetPath(w[2]), i + 1)
    BY <1>3 DEF Atom, Raises
  <2>2. QED BY <1>3, <2>1, PathsGiveValues DEF Gives
<1>4. QED BY <1>1, <1>2, <1>3, Words

LEMMA Truths ==
  /\ \A b : Value(Bool(b)) /\ Content(Bool(b)) = Bool(b)
  /\ \A l \in Levels : \A op \in OperatorsOf(l) : \A a, b : \E c \in BOOLEAN : Apply(op, a, b) = Bool(c)
<1>1. \A b : Value(Bool(b)) /\ Content(Bool(b)) = Bool(b) BY DEF Value, Bool, Content, IsDict
<1>2. ASSUME NEW l \in Levels, NEW op \in OperatorsOf(l), NEW a, NEW b
      PROVE  \E c \in BOOLEAN : Apply(op, a, b) = Bool(c)
  <2>1. op \in {"or", "and", "==", "!="} BY DEF OperatorsOf
  <2>2. CASE op = "or"
    <3>1. Apply(op, a, b) = Bool(Truthy(a) \/ Truthy(b)) BY <2>2 DEF Apply
    <3>2. (Truthy(a) \/ Truthy(b)) \in BOOLEAN OBVIOUS
    <3>3. QED BY <3>1, <3>2, Zenon
  <2>3. CASE op = "and"
    <3>1. Apply(op, a, b) = Bool(Truthy(a) /\ Truthy(b)) BY <2>3 DEF Apply
    <3>2. (Truthy(a) /\ Truthy(b)) \in BOOLEAN BY Zenon
    <3>3. QED BY <3>1, <3>2, Zenon
  <2>4. CASE op = "=="
    <3>1. Apply(op, a, b) = Bool(Equal(a, b)) BY <2>4 DEF Apply
    <3>2. (Equal(a, b)) \in BOOLEAN BY DEF Equal, Alike
    <3>3. QED BY <3>1, <3>2, Zenon
  <2>5. CASE op = "!="
    <3>1. Apply(op, a, b) = Bool(~Equal(a, b)) BY <2>5 DEF Apply
    <3>2. (~Equal(a, b)) \in BOOLEAN BY DEF Equal, Alike
    <3>3. QED BY <3>1, <3>2, Zenon
  <2>6. QED BY <2>1, <2>2, <2>3, <2>4, <2>5
<1>3. QED BY <1>1, <1>2

-----------------------------------------------------------------------------
(* What the descents return.                                               *)
Fine(n, r, i) == Ahead(n, r, i) /\ (r.ok => Value(r.value))
DescentOf(ws, l, i) == Readings(Tokens(ws))[<<l, i>>]

LEMMA TokensAre ==
  ASSUME NEW ws \in Seq(Word)
  PROVE  /\ Len(Tokens(ws)) = Len(ws) /\ Len(ws) \in Nat
         /\ \A i \in 1 .. Len(ws) : ws[i] \in Word /\ Tokens(ws)[i] = Token(ws[i])
<1>1. DOMAIN ws = 1 .. Len(ws) /\ Len(ws) \in Nat OBVIOUS
<1>2. \A i \in 1 .. Len(ws) : Tokens(ws)[i] = Token(ws[i]) BY <1>1 DEF Tokens
<1>3. PICK T : T = {Token(ws[i]) : i \in 1 .. Len(ws)} OBVIOUS
<1>4. Tokens(ws) \in [1 .. Len(ws) -> T] BY <1>1, <1>3 DEF Tokens
<1>5. Tokens(ws) \in Seq(T) /\ Len(Tokens(ws)) = Len(ws) BY <1>1, <1>4, IsASeq, LenProperties
<1>6. QED BY <1>1, <1>2, <1>5

LEMMA ReadingsDescend ==
  ASSUME NEW ws \in Seq(Word), NEW l \in Levels, NEW i \in 1 .. Len(ws) + 1
  PROVE  DescentOf(ws, l, i) = Descend(Tokens(ws), Readings(Tokens(ws)), l, i)
<1>1. Len(Tokens(ws)) = Len(ws) /\ Len(ws) \in Nat BY TokensAre
<1>2. ReadsAll(Tokens(ws), Readings(Tokens(ws))) BY <1>1, ReadingsUnfold
<1>3. PICK f : f = Readings(Tokens(ws)) OBVIOUS
<1>4. f = [x \in Levels \X (1 .. Len(ws) + 1) |-> Descend(Tokens(ws), f, x[1], x[2])]
  BY <1>1, <1>2, <1>3 DEF ReadsAll
<1>5. f[<<l, i>>] = Descend(Tokens(ws), f, l, i) BY <1>1, <1>4
<1>6. QED BY <1>3, <1>5 DEF DescentOf

LEMMA DescentGivesValues ==
  ASSUME Memory, NEW ws \in Seq(Word), NEW l \in Levels, NEW i \in 1 .. Len(ws) + 1,
         \A x \in Place(Len(ws)) : Weight(Len(ws), x) < Weight(Len(ws), <<l, i>>)
                                     => Fine(Len(ws), DescentOf(ws, x[1], x[2]), x[2])
  PROVE  Fine(Len(ws), DescentOf(ws, l, i), i)
<1>1. PICK n \in Nat : n = Len(ws) OBVIOUS
<1>2. PICK t, f : t = Tokens(ws) /\ f = Readings(t) OBVIOUS
<1>3. n = Len(t) /\ \A k \in 1 .. n : ws[k] \in Word /\ t[k] = Token(ws[k])
  BY <1>1, <1>2, TokensAre
<1>4. \A k \in Levels, j \in 1 .. n + 1 : f[<<k, j>>] = Descend(t, f, k, j)
  BY <1>1, <1>2, ReadingsDescend DEF DescentOf
<1>5. \A x \in Place(n) : /\ x[1] \in Levels /\ x[2] \in 1 .. n + 1
                          /\ x = <<x[1], x[2]>>
  BY DEF Place
<1>6. \A x \in Place(n) : Weight(n, x) < Weight(n, <<l, i>>) => Fine(n, f[x], x[2])
  BY <1>1, <1>2, <1>5 DEF DescentOf
<1>7. ReadsBelow(t, f, Weight(n, <<l, i>>)) BY <1>3, <1>4, <1>5, <1>6 DEF ReadsBelow, Fine
<1>8. AlikeBelow(n, f, f, Weight(n, <<l, i>>)) BY DEF AlikeBelow
<1>9. DescentOf(ws, l, i) = Descend(t, f, l, i) BY <1>1, <1>2, ReadingsDescend
<1>10. Ahead(n, Descend(t, f, l, i), i) BY <1>1, <1>3, <1>7, <1>8, DescentLooksAhead
<1>11. \A k \in Levels : \A j \in i + 1 .. n + 1 : f[<<k, j>>].ok => Value(f[<<k, j>>].value)
  <2> SUFFICES ASSUME NEW k \in Levels, NEW j \in i + 1 .. n + 1, f[<<k, j>>].ok
               PROVE  Value(f[<<k, j>>].value)
    OBVIOUS
  <2>1. j \in 1 .. n + 1 BY <1>1
  <2>2. <<k, j>> \in Place(n) BY <2>1 DEF Place
  <2>3. Weight(n, <<k, j>>) < Weight(n, <<l, i>>) BY <1>1, Weights
  <2>4. QED BY <1>6, <2>2, <2>3 DEF Fine
<1>12. ~Raises.ok BY DEF Raises
<1>13. ASSUME Descend(t, f, l, i).ok PROVE Value(Descend(t, f, l, i).value)
  <2>1. CASE l = "atom"
    <3>1. Descend(t, f, l, i) = ParseAtom(t, f, i) /\ i <= n BY <1>3, <1>12, <1>13, <2>1 DEF Descend, ParseAtom
    <3>2. CASE Says(t, i, {"("})
      <4>1. /\ f[<<"or", i + 1>>].ok
            /\ ParseAtom(t, f, i).value = f[<<"or", i + 1>>].value
        BY <1>3, <1>12, <1>13, <3>1, <3>2 DEF ParseAtom, Gives
      <4>2. "or" \in Levels /\ i + 1 \in i + 1 .. n + 1 BY <1>1, <3>1 DEF Levels
      <4>3. QED BY <1>11, <3>1, <4>1, <4>2
    <3>3. CASE ~Says(t, i, {"("})
      <4>1. ParseAtom(t, f, i) = Atom(Token(ws[i]), i) /\ ws[i] \in Word
        BY <1>1, <1>3, <3>1, <3>3 DEF ParseAtom
      <4>2. QED BY <1>13, <3>1, <4>1, AtomsGiveValues
    <3>4. QED BY <3>2, <3>3
  <2>2. CASE l = "not" /\ Says(t, i, {"not"})
    <3>1. Descend(t, f, l, i) = ParseNot(f, i) BY <2>2 DEF Descend
    <3>2. \E b : ParseNot(f, i).value = Bool(b) BY <1>12, <1>13, <3>1 DEF ParseNot, Gives
    <3>3. QED BY <3>1, <3>2, Truths
  <2>3. CASE l # "atom" /\ ~(l = "not" /\ Says(t, i, {"not"}))
    <3>1. Descend(t, f, l, i) = ParseOperands(t, f, l, i) BY <2>3 DEF Descend
    <3>2. PICK left : left = f[<<OperandOf(l), i>>] OBVIOUS
    <3>3. CASE ~left.ok \/ ~Says(t, left.next, OperatorsOf(l))
      <4>1. Descend(t, f, l, i) = left BY <3>1, <3>2, <3>3 DEF ParseOperands
      <4>2. OperandOf(l) \in Levels BY <2>3, Operands
      <4>3. <<OperandOf(l), i>> \in Place(n) /\ Weight(n, <<OperandOf(l), i>>) < Weight(n, <<l, i>>)
        BY <1>1, <2>3, <4>2, Weights DEF Place
      <4>4. QED BY <1>6, <1>13, <3>2, <4>1, <4>3 DEF Fine
    <3>4. CASE left.ok /\ Says(t, left.next, OperatorsOf(l))
      <4>1. PICK op \in OperatorsOf(l) : op = t[left.next][2] BY <3>4 DEF Says
      <4>2. \E a, b : Descend(t, f, l, i).value = Apply(op, a, b)
        BY <1>12, <1>13, <3>1, <3>2, <3>4, <4>1 DEF ParseOperands, Gives
      <4>3. QED BY <4>2, Truths
    <3>5. QED BY <3>3, <3>4
  <2>4. QED BY <2>1, <2>2, <2>3
<1>14. QED BY <1>1, <1>9, <1>10, <1>13 DEF Fine

LEMMA ReadingsAreFine ==
  ASSUME Memory, NEW ws \in Seq(Word), NEW l \in Levels, NEW i \in 1 .. Len(ws) + 1
  PROVE  Fine(Len(ws), DescentOf(ws, l, i), i)
<1>1. PICK n \in Nat : n = Len(ws) OBVIOUS
<1>2. PICK S : S = {m \in Nat : \E x \in Place(n) :
                      m = Weight(n, x) /\ ~Fine(n, DescentOf(ws, x[1], x[2]), x[2])}
  OBVIOUS
<1>3. CASE S # {}
  <2>1. PICK m \in S : \A k \in S : m <= k BY <1>2, <1>3, Least
  <2>2. PICK x \in Place(n) : m = Weight(n, x) /\ ~Fine(n, DescentOf(ws, x[1], x[2]), x[2])
    BY <1>2, <2>1
  <2>3. PICK k \in Levels, j \in 1 .. n + 1 : x = <<k, j>> BY DEF Place
  <2>4. m = Weight(n, <<k, j>>) /\ ~Fine(n, DescentOf(ws, k, j), j) BY <2>2, <2>3
  <2>5. \A y \in Place(n) : Weight(n, y) < m => Fine(n, DescentOf(ws, y[1], y[2]), y[2])
    <3>1. \A y \in Place(n) : Weight(n, y) \in Nat BY <1>1, WeightsEnd
    <3>2. m \in Nat BY <1>2, <2>1
    <3>3. QED BY <1>2, <2>1, <3>1, <3>2
  <2>6. Fine(n, DescentOf(ws, k, j), j) BY <1>1, <2>4, <2>5, DescentGivesValues
  <2>7. QED BY <2>4, <2>6
<1>4. CASE S = {}
  <2>1. <<l, i>> \in Place(n) /\ Weight(n, <<l, i>>) \in Nat BY <1>1, Weights DEF Place
  <2>2. QED BY <1>1, <1>2, <1>4, <2>1
<1>5. QED BY <1>3, <1>4

-----------------------------------------------------------------------------
(* A phrase stands somewhere in what is written.  What the descents make   *)
(* of it depends on the operator behind it only: with none of the level of *)
(* the descent, or tighter, they return the meaning and stop behind it; a  *)
(* chain of the level goes on and combines the meaning with the rest.      *)
Saying(ws, i, texts) == Says(Tokens(ws), i, texts)
UpToLevel(l) == IF l = "atom" THEN {} ELSE IF l \in {"compare", "not"} THEN {"==", "!="}
           ELSE IF l = "and" THEN {"==", "!=", "and"} ELSE {"==", "!=", "and", "or"}
Stands(words, ws, i) ==
  /\ i \in 1 .. Len(ws) /\ i + Len(words) <= Len(ws) + 1
  /\ \A k \in 1 .. Len(words) : ws[i + k - 1] = words[k]
Behind(q, i) == i + Len(q.words)
Yields(r, m, e) == IF m = Missing THEN ~r.ok ELSE r.ok /\ Content(r.value) = m /\ r.next = e
Combines(r, m, op, rest) ==
  IF rest.ok THEN r.ok /\ r.value = Apply(op, m, Content(rest.value)) /\ r.next = rest.next
  ELSE ~r.ok
Continues(r, m, op, rest) == IF m = Missing THEN ~r.ok ELSE Combines(r, m, op, rest)
ReadAt(q, l, ws, i) ==
  LET e == Behind(q, i) IN
  /\ ~Saying(ws, e, UpToLevel(l)) => Yields(DescentOf(ws, l, i), q.means, e)
  /\ l \in {"and", "or"} /\ Saying(ws, e, {l})
       => Continues(DescentOf(ws, l, i), q.means, l, DescentOf(ws, l, e + 1))
Formed(q) ==
  /\ q.words \in Seq(Word) /\ Len(q.words) > 0 /\ q.level \in Levels
  /\ LevelNo(q.level) < 3 => Token(q.words[1]) # <<"str", "not">>
Reads(q) == \A ws \in Seq(Word) : \A i \in 1 .. Len(ws) : Stands(q.words, ws, i) => ReadAt(q, q.level, ws, i)

LEMMA LevelOperators ==
  /\ \A l \in Levels \ {"atom"} : UpToLevel(l) = UpToLevel(OperandOf(l)) \cup OperatorsOf(l)
  /\ \A l \in {"and", "or"} : OperatorsOf(l) = {l} /\ l \notin UpToLevel(OperandOf(l)) /\ l \in Levels
<1>1. /\ OperandOf("compare") = "atom" /\ OperandOf("not") = "compare"
      /\ OperandOf("and") = "not" /\ OperandOf("or") = "and"
  BY Ranks DEF OperandOf, Levels, Level, LevelNo
<1>2. /\ UpToLevel("compare") = UpToLevel("atom") \cup OperatorsOf("compare")
      /\ UpToLevel("not") = UpToLevel("compare") \cup OperatorsOf("not")
      /\ UpToLevel("and") = UpToLevel("not") \cup OperatorsOf("and")
      /\ UpToLevel("or") = UpToLevel("and") \cup OperatorsOf("or")
  BY DEF UpToLevel, OperatorsOf
<1>3. /\ OperatorsOf("and") = {"and"} /\ OperatorsOf("or") = {"or"}
      /\ "and" \notin UpToLevel("not") /\ "or" \notin UpToLevel("and")
  BY DEF UpToLevel, OperatorsOf
<1>4. QED BY <1>1, <1>2, <1>3 DEF Levels

(* What a level of operators does, once it has read its first operand.     *)
LEMMA OperandsRead ==
  ASSUME NEW ws \in Seq(Word), NEW i \in 1 .. Len(ws), NEW l \in Levels \ {"atom"},
         ~(l = "not" /\ Saying(ws, i, {"not"})),
         NEW left, left = DescentOf(ws, OperandOf(l), i),
         NEW right, right = DescentOf(ws, IF l = "compare" THEN "atom" ELSE l, left.next + 1)
  PROVE  /\ ~left.ok \/ ~Saying(ws, left.next, OperatorsOf(l)) => DescentOf(ws, l, i) = left
         /\ left.ok /\ Saying(ws, left.next, OperatorsOf(l)) =>
              Combines(DescentOf(ws, l, i), Content(left.value), Tokens(ws)[left.next][2], right)
<1>1. i \in 1 .. Len(ws) + 1 BY TokensAre
<1>2. PICK t, f : t = Tokens(ws) /\ f = Readings(t) OBVIOUS
<1>3. DescentOf(ws, l, i) = ParseOperands(t, f, l, i)
  BY <1>1, <1>2, ReadingsDescend DEF Descend, Saying
<1>4. /\ left = f[<<OperandOf(l), i>>]
      /\ right = f[<<IF l = "compare" THEN "atom" ELSE l, left.next + 1>>]
  BY <1>2 DEF DescentOf
<1>5. ASSUME ~left.ok \/ ~Says(t, left.next, OperatorsOf(l)) PROVE DescentOf(ws, l, i) = left
  BY <1>3, <1>4, <1>5 DEF ParseOperands
<1>6. ASSUME left.ok, Says(t, left.next, OperatorsOf(l))
      PROVE  Combines(DescentOf(ws, l, i), Content(left.value), t[left.next][2], right)
  <2>1. PICK v : v = Apply(t[left.next][2], Content(left.value), Content(right.value)) OBVIOUS
  <2>2. DescentOf(ws, l, i) = IF ~right.ok THEN Raises ELSE Gives(v, right.next)
    BY <1>3, <1>4, <1>6, <2>1 DEF ParseOperands
  <2>3. CASE right.ok BY <2>1, <2>2, <2>3 DEF Gives, Combines
  <2>4. CASE ~right.ok BY <2>2, <2>4 DEF Raises, Combines
  <2>5. QED BY <2>3, <2>4
<1>7. QED BY <1>2, <1>5, <1>6 DEF Saying

LEMMA SaysLess ==
  ASSUME NEW ws, NEW e, NEW A, NEW B, A \subseteq B, ~Saying(ws, e, B) PROVE ~Saying(ws, e, A)
BY DEF Saying, Says

(* From one level to the next.                                             *)
LEMMA ClimbOne ==
  ASSUME NEW q, NEW ws \in Seq(Word), NEW i \in 1 .. Len(ws), NEW l \in Levels \ {"atom"},
         ~(l = "not" /\ Saying(ws, i, {"not"})),
         ReadAt(q, OperandOf(l), ws, i)
  PROVE  ReadAt(q, l, ws, i)
<1>1. PICK e : e = Behind(q, i) OBVIOUS
<1>2. PICK left : left = DescentOf(ws, OperandOf(l), i) OBVIOUS
<1>3. UpToLevel(OperandOf(l)) \subseteq UpToLevel(l) /\ OperatorsOf(l) \subseteq UpToLevel(l) BY LevelOperators
<1>4. ASSUME ~Saying(ws, e, UpToLevel(l)) PROVE Yields(DescentOf(ws, l, i), q.means, e)
  <2>1. ~Saying(ws, e, UpToLevel(OperandOf(l))) /\ ~Saying(ws, e, OperatorsOf(l))
    BY <1>3, <1>4, SaysLess
  <2>2. Yields(left, q.means, e) BY <1>1, <1>2, <2>1 DEF ReadAt
  <2>3. ~left.ok \/ ~Saying(ws, left.next, OperatorsOf(l)) BY <2>1, <2>2 DEF Yields
  <2>4. DescentOf(ws, l, i) = left BY <1>2, <2>3, OperandsRead
  <2>5. QED BY <2>2, <2>4
<1>5. ASSUME l \in {"and", "or"}, Saying(ws, e, {l})
      PROVE  Continues(DescentOf(ws, l, i), q.means, l, DescentOf(ws, l, e + 1))
  <2>1. ~Saying(ws, e, UpToLevel(OperandOf(l))) /\ OperatorsOf(l) = {l} /\ l # "compare"
    BY <1>5, LevelOperators DEF Saying, Says
  <2>2. Yields(left, q.means, e) BY <1>1, <1>2, <2>1 DEF ReadAt
  <2>3. CASE q.means = Missing
    <3>1. DescentOf(ws, l, i) = left BY <1>2, <2>2, <2>3, OperandsRead DEF Yields
    <3>2. QED BY <2>2, <2>3, <3>1 DEF Yields, Continues
  <2>4. CASE q.means # Missing
    <3>1. left.ok /\ left.next = e /\ Content(left.value) = q.means BY <2>2, <2>4 DEF Yields
    <3>2. Tokens(ws)[e][2] = l BY <1>5 DEF Saying, Says
    <3>3. Combines(DescentOf(ws, l, i), Content(left.value), Tokens(ws)[left.next][2],
                   DescentOf(ws, l, e + 1))
      <4>1. left.ok /\ Saying(ws, left.next, OperatorsOf(l)) BY <1>5, <2>1, <3>1
      <4>2. PICK right : right = DescentOf(ws, IF l = "compare" THEN "atom" ELSE l, left.next + 1)
        OBVIOUS
      <4>3. right = DescentOf(ws, l, e + 1) BY <2>1, <3>1, <4>2
      <4>4. QED BY <1>2, <4>1, <4>2, <4>3, OperandsRead
    <3>4. QED BY <2>4, <3>1, <3>2, <3>3 DEF Continues
  <2>5. QED BY <2>3, <2>4
<1>6. QED BY <1>1, <1>4, <1>5 DEF ReadAt

(* From the level of a phrase to any other above it.                       *)
LEMMA Climb ==
  ASSUME NEW q, Formed(q), Reads(q), NEW ws \in Seq(Word), NEW i \in 1 .. Len(ws), Stands(q.words, ws, i),
         NEW l \in Levels, LevelNo(q.level) <= LevelNo(l)
  PROVE  ReadAt(q, l, ws, i)
<1>1. ReadAt(q, q.level, ws, i) BY DEF Reads
<1>2. LevelNo(q.level) < 3 => ~Saying(ws, i, {"not"})
  <2>1. Len(q.words) \in Nat /\ 1 \in 1 .. Len(q.words) BY DEF Formed
  <2>2. ws[i + 1 - 1] = q.words[1] BY <2>1 DEF Stands
  <2>3. ws[i] = q.words[1] BY <2>2, TokensAre
  <2>4. Tokens(ws)[i] = Token(q.words[1]) /\ ws[i] \in Word BY <2>3, TokensAre
  <2>5. ASSUME Saying(ws, i, {"not"}) PROVE Token(ws[i]) = <<"str", "not">>
    <3>1. Token(ws[i])[1] = "str" /\ Token(ws[i])[2] = "not" BY <2>3, <2>4, <2>5 DEF Saying, Says
    <3>2. QED BY <2>4, <3>1, Words
  <2>6. QED BY <2>3, <2>5 DEF Formed
<1>3. /\ OperandOf("compare") = "atom" /\ OperandOf("not") = "compare"
      /\ OperandOf("and") = "not" /\ OperandOf("or") = "and"
  BY Ranks DEF OperandOf, Levels, Level, LevelNo
<1>4. \A k \in Levels \ {"atom"} :
        /\ ~(k = "not" /\ Saying(ws, i, {"not"}))
        /\ ReadAt(q, OperandOf(k), ws, i)
        => ReadAt(q, k, ws, i)
  BY ClimbOne
<1>5. q.level \in Levels BY DEF Formed
<1>6. QED BY <1>1, <1>2, <1>3, <1>4, <1>5 DEF Levels, LevelNo

-----------------------------------------------------------------------------
(* How phrases are put together.                                           *)
LEMMA StandsApart ==
  ASSUME NEW x \in Seq(Word), NEW y \in Seq(Word), NEW ws \in Seq(Word), NEW i,
         Len(x) > 0, Len(y) > 0, Stands(x \o y, ws, i)
  PROVE  Stands(x, ws, i) /\ Stands(y, ws, i + Len(x))
<1>1. PICK a \in Nat, b \in Nat, n \in Nat : a = Len(x) /\ b = Len(y) /\ n = Len(ws)
  BY LenProperties
<1>2. PICK z : z = x \o y /\ Len(z) = a + b
  <2>1. Len(x \o y) = a + b BY <1>1
  <2>2. QED BY <2>1
<1>3. i \in 1 .. n /\ i + a + b <= n + 1 /\ \A k \in 1 .. a + b : ws[i + k - 1] = z[k]
  <2>1. Stands(z, ws, i) BY <1>2
  <2>2. i \in 1 .. n /\ i + (a + b) <= n + 1 BY <1>1, <1>2, <2>1 DEF Stands
  <2>3. \A k \in 1 .. a + b : ws[i + k - 1] = z[k] BY <1>2, <2>1 DEF Stands
  <2>4. QED BY <1>1, <2>2, <2>3
<1>4. \A k \in 1 .. a : z[k] = x[k] /\ k \in 1 .. a + b BY <1>1, <1>2
<1>5. \A k \in 1 .. b : z[a + k] = y[k] /\ a + k \in 1 .. a + b BY <1>1, <1>2
<1>6. Stands(x, ws, i) BY <1>1, <1>3, <1>4 DEF Stands
<1>7. ASSUME NEW k \in 1 .. b PROVE ws[i + a + k - 1] = y[k]
  <2>1. ws[i + (a + k) - 1] = y[k] BY <1>3, <1>5
  <2>2. QED BY <1>1, <1>3, <2>1
<1>8. i + a \in 1 .. n BY <1>1, <1>3
<1>9. QED BY <1>1, <1>3, <1>6, <1>7, <1>8 DEF Stands

Mirrors == \A n \in Name : store[n] = Content(slots[n])
Leaves == UNION {v.leaves : v \in Vocabularies}

LEMMA PathsMean ==
  ASSUME Memory, Mirrors, NEW p \in VariablePath
  PROVE  LegalPath(p) /\ Stored(p) = Content(GetPath(p)) /\ Stored(p) # Missing
<1>1. LegalPath(p) /\ p[2] \in Name BY DEF VariablePath, LegalPath
<1>2. PICK v : v = slots[p[2]] OBVIOUS
<1>3. Value(v) /\ store[p[2]] = Content(v) BY <1>1, <1>2 DEF Memory, Mirrors
<1>4. Content(v) # Missing BY <1>3 DEF Content, Missing, Value
<1>5. CASE Len(p) = 2 BY <1>1, <1>2, <1>3, <1>4, <1>5 DEF GetPath, Stored
<1>6. CASE Len(p) # 2 /\ IsDict(v)
  <2>1. Plain(heap[v[2]]) BY <1>3, <1>6 DEF Memory, Value
  <2>2. Content(v) = <<"dict", heap[v[2]]>> BY <1>6 DEF Content
  <2>3. Content(heap[v[2]]) = heap[v[2]] /\ heap[v[2]] # Missing
    BY <2>1 DEF Plain, Content, IsDict, Missing
  <2>4. GetPath(p) = heap[v[2]] BY <1>2, <1>6 DEF GetPath
  <2>5. Stored(p) = heap[v[2]] BY <1>1, <1>3, <1>6, <2>2 DEF Stored
  <2>6. QED BY <1>1, <2>3, <2>4, <2>5
<1>7. CASE Len(p) # 2 /\ ~IsDict(v)
  <2>1. Content(v) = v /\ v[1] # "dict" BY <1>3, <1>7 DEF Content, Value
  <2>2. GetPath(p) = Null BY <1>2, <1>7 DEF GetPath
  <2>3. Stored(p) = Null BY <1>1, <1>3, <1>7, <2>1 DEF Stored
  <2>4. Content(Null) = Null /\ Null # Missing BY DEF Content, Null, IsDict, Missing
  <2>5. QED BY <1>1, <2>2, <2>3, <2>4
<1>8. QED BY <1>5, <1>6, <1>7

LEMMA AtomsMean ==
  ASSUME Memory, Mirrors, NEW w \in Leaves, NEW i
  PROVE  Yields(Atom(Token(w), i), LeafMeans(w), i + 1)
<1>1. Writable(w) BY VocabulariesAssumption DEF Leaves
<1>2. CASE w \in ({"bool"} \X BOOLEAN) \cup ({"num"} \X Int) \cup {Null}
  <2>1. w[1] \in {"bool", "num", "none"} BY <1>2 DEF Null
  <2>2. Token(w) = <<"literal", w>> /\ LeafMeans(w) = w BY <2>1 DEF Token, LeafMeans
  <2>3. Atom(Token(w), i) = Gives(w, i + 1) BY <2>2 DEF Atom
  <2>4. Content(w) = w /\ w # Missing BY <2>1 DEF Content, IsDict, Missing
  <2>5. QED BY <2>2, <2>3, <2>4 DEF Gives, Yields
<1>3. CASE w \in {"quoted"} \X STRING
  <2>1. w[1] = "quoted" BY <1>3
  <2>2. Token(w) = <<"str", w[2]>> /\ LeafMeans(w) = <<"str", w[2]>>
    BY <2>1 DEF Token, LeafMeans
  <2>3. Atom(Token(w), i) = Gives(Token(w), i + 1) BY <2>2 DEF Atom
  <2>4. Content(Token(w)) = Token(w) /\ Token(w) # Missing BY <2>2 DEF Content, IsDict, Missing
  <2>5. QED BY <2>2, <2>3, <2>4 DEF Gives, Yields
<1>4. CASE w[1] = "path" /\ (LegalPath(w[2]) => w[2] \in VariablePath)
  <2>1. Token(w) = w /\ LeafMeans(w) = Stored(w[2]) BY <1>4 DEF Token, LeafMeans
  <2>2. Atom(w, i) = IF LegalPath(w[2]) THEN Gives(GetPath(w[2]), i + 1) ELSE Raises
    BY <1>4 DEF Atom
  <2>3. CASE LegalPath(w[2])
    BY <1>4, <2>1, <2>2, <2>3, PathsMean DEF Gives, Yields
  <2>4. CASE ~LegalPath(w[2]) BY <2>1, <2>2, <2>4 DEF Stored, Raises, Yields
  <2>5. QED BY <2>3, <2>4
<1>5. QED BY <1>1, <1>2, <1>3, <1>4 DEF Writable

LEMMA LeavesRead ==
  ASSUME Memory, Mirrors, NEW w \in Leaves,
         w # <<"quoted", "not">>, w # <<"quoted", "(">>
  PROVE  Formed(Leaf(w)) /\ Reads(Leaf(w))
<1>1. PICK q : q = Leaf(w) OBVIOUS
<1>2. q.level = "atom" /\ q.words = <<w>> /\ q.means = LeafMeans(w) BY <1>1 DEF Leaf
<1>3. w \in Word BY DEF Leaves, Word
<1>4. q.words \in Seq(Word) /\ Len(q.words) = 1 /\ q.words[1] = w BY <1>2, <1>3
<1>5. Writable(w) BY VocabulariesAssumption DEF Leaves
<1>6. w[1] = "quoted" => w = <<"quoted", w[2]>>
  BY <1>5 DEF Writable, Null
<1>7. w[1] # "sign" BY <1>5 DEF Writable, Null
<1>8. Token(w)[1] = "str" => Token(w)[2] \notin {"not", "("}
  BY <1>6, <1>7 DEF Token
<1>9. Formed(q) BY <1>2, <1>4, <1>8 DEF Formed, Levels
<1>10. ASSUME NEW ws \in Seq(Word), NEW i \in 1 .. Len(ws), Stands(q.words, ws, i)
       PROVE  ReadAt(q, "atom", ws, i)
  <2>1. 1 \in 1 .. Len(q.words) BY <1>4
  <2>2. ws[i + 1 - 1] = w BY <1>4, <1>10, <2>1 DEF Stands
  <2>3. Len(ws) \in Nat /\ Len(Tokens(ws)) = Len(ws) /\ Tokens(ws)[i] = Token(ws[i])
    BY TokensAre
  <2>4. i \in 1 .. Len(ws) + 1 /\ ws[i] = w /\ "atom" \in Levels BY <2>2, <2>3 DEF Levels
  <2>5. ~Says(Tokens(ws), i, {"("}) BY <1>8, <2>3, <2>4 DEF Says
  <2>6. DescentOf(ws, "atom", i) = ParseAtom(Tokens(ws), Readings(Tokens(ws)), i)
    BY <2>4, ReadingsDescend DEF Descend
  <2>7. DescentOf(ws, "atom", i) = Atom(Token(w), i) BY <2>3, <2>4, <2>5, <2>6 DEF ParseAtom
  <2>8. Behind(q, i) = i + 1 BY <1>4 DEF Behind
  <2>9. QED BY <1>2, <2>7, <2>8, AtomsMean DEF ReadAt
<1>11. QED BY <1>1, <1>2, <1>9, <1>10 DEF Reads

LEMMA Shifts == \A i \in Int, n \in Nat : i + (1 + n) = i + 1 + n /\ i + (n + 2) = i + 1 + n + 1
OBVIOUS

LEMMA Adding ==
  /\ \A i \in Int, n \in Nat : i + (n + 1) = i + n + 1
  /\ \A i \in Int, n \in Nat, m \in Nat : i + (n + m) = i + n + m
  /\ \A n \in Nat, m \in Nat : n > 0 => n + m > 0
OBVIOUS

LEMMA Joining ==
  ASSUME NEW x \in Seq(Word), NEW y \in Seq(Word)
  PROVE  /\ x \o y \in Seq(Word) /\ Len(x \o y) = Len(x) + Len(y)
         /\ Len(x) \in Nat /\ Len(y) \in Nat
         /\ Len(x) > 0 => (x \o y)[1] = x[1]
OBVIOUS

LEMMA SignsSay ==
  ASSUME NEW ws \in Seq(Word), NEW i \in 1 .. Len(ws), NEW s \in SignText, ws[i] = Sign(s)
  PROVE  Tokens(ws)[i] = <<"str", s>> /\ \A T : Saying(ws, i, T) <=> s \in T
<1>1. Tokens(ws)[i] = Token(ws[i]) /\ Len(Tokens(ws)) = Len(ws) /\ Len(ws) \in Nat BY TokensAre
<1>2. Tokens(ws)[i] = <<"str", s>> BY <1>1 DEF Sign, Token
<1>3. QED BY <1>1, <1>2 DEF Saying, Says

LEMMA SignsAreWords ==
  /\ \A s \in SignText : <<Sign(s)>> \in Seq(Word) /\ Len(<<Sign(s)>>) = 1
  /\ \A s \in SignText : Token(Sign(s)) = <<"str", s>>
<1>1. \A s \in SignText : Sign(s) \in Word BY DEF Word
<1>2. \A s \in SignText : Token(Sign(s)) = <<"str", s>> BY DEF Token, Sign
<1>3. QED BY <1>1, <1>2

(* A sign before a phrase.                                                 *)
LEMMA SignBefore ==
  ASSUME NEW s \in SignText, NEW y \in Seq(Word), Len(y) > 0
  PROVE  /\ (<<Sign(s)>> \o y) \in Seq(Word) /\ Len(<<Sign(s)>> \o y) = 1 + Len(y)
         /\ (<<Sign(s)>> \o y)[1] = Sign(s)
         /\ \A ws \in Seq(Word) : \A i \in 1 .. Len(ws) : Stands(<<Sign(s)>> \o y, ws, i)
              => ws[i] = Sign(s) /\ Stands(y, ws, i + 1)
<1>1. PICK x : x = <<Sign(s)>> OBVIOUS
<1>2. x \in Seq(Word) /\ Len(x) = 1 /\ x[1] = Sign(s) BY <1>1, SignsAreWords
<1>3. x \o y \in Seq(Word) /\ Len(x \o y) = 1 + Len(y) /\ (x \o y)[1] = Sign(s)
  <2>1. Len(x) > 0 BY <1>2
  <2>2. /\ x \o y \in Seq(Word) /\ Len(x \o y) = Len(x) + Len(y)
        /\ (x \o y)[1] = x[1]
    BY <1>2, <2>1, Joining, Zenon
  <2>3. QED BY <1>2, <2>2, Zenon
<1>4. ASSUME NEW ws \in Seq(Word), NEW i \in 1 .. Len(ws), Stands(x \o y, ws, i)
      PROVE  ws[i] = Sign(s) /\ Stands(y, ws, i + 1)
  <2>1. Stands(x, ws, i) /\ Stands(y, ws, i + Len(x))
    <3>1. Len(x) > 0 BY <1>2
    <3>2. QED BY <1>2, <1>4, <3>1, StandsApart, Zenon
  <2>2. ws[i + 1 - 1] = x[1] BY <1>2, <2>1 DEF Stands
  <2>3. i + 1 - 1 = i BY TokensAre
  <2>4. QED BY <1>2, <2>1, <2>2, <2>3
<1>5. QED BY <1>1, <1>3, <1>4

LEMMA TruthOfContent == \A v : Truthy(Content(v)) = Truthy(v)
<1> SUFFICES ASSUME NEW v PROVE Truthy(Content(v)) = Truthy(v) OBVIOUS
<1>1. CASE IsDict(v)
  <2>1. Content(v)[1] = "dict" /\ v[1] = "obj" BY <1>1 DEF Content, IsDict
  <2>2. QED BY <2>1 DEF Truthy
<1>2. CASE ~IsDict(v) BY <1>2 DEF Content
<1>3. QED BY <1>1, <1>2

LEMMA BoolsAreKnown == \A b : Bool(b) # Missing BY DEF Bool, Missing

LEMMA NegationsRead ==
  ASSUME NEW q, Formed(q), Reads(q), LevelNo(q.level) <= 3,
         NEW r, r.level = "not", r.words = <<Sign("not")>> \o q.words,
         r.means = IF q.means = Missing THEN Missing ELSE Bool(~Truthy(q.means))
  PROVE  Formed(r) /\ Reads(r)
<1>1. /\ "not" \in SignText /\ "not" \in Levels /\ LevelNo("not") = 3
      /\ q.words \in Seq(Word) /\ Len(q.words) > 0 /\ Len(q.words) \in Nat
  BY DEF SignText, Levels, LevelNo, Formed
<1>2. r.words \in Seq(Word) /\ Len(r.words) = 1 + Len(q.words) BY <1>1, SignBefore
<1>3. Formed(r) BY <1>1, <1>2 DEF Formed
<1>4. ASSUME NEW ws \in Seq(Word), NEW i \in 1 .. Len(ws), Stands(r.words, ws, i)
      PROVE  ReadAt(r, "not", ws, i)
  <2>1. ws[i] = Sign("not") /\ Stands(q.words, ws, i + 1) BY <1>1, <1>4, SignBefore
  <2>2. Saying(ws, i, {"not"}) BY <1>1, <2>1, SignsSay
  <2>3. i + 1 \in 1 .. Len(ws) /\ i \in 1 .. Len(ws) + 1 BY <2>1, TokensAre DEF Stands
  <2>4. ReadAt(q, "not", ws, i + 1) BY <1>1, <2>1, <2>3, Climb
  <2>5. PICK e : e = Behind(r, i) OBVIOUS
  <2>6. e = Behind(q, i + 1)
    <3>1. PICK n \in Nat : n = Len(q.words) /\ Len(r.words) = 1 + n BY <1>1, <1>2
    <3>2. i \in Int
      <4>1. Len(ws) \in Nat BY TokensAre
      <4>2. QED BY <4>1
    <3>3. i + (1 + n) = i + 1 + n BY <3>1, <3>2, Shifts, Zenon
    <3>4. QED BY <2>5, <3>1, <3>3 DEF Behind
  <2>7. PICK arg : arg = DescentOf(ws, "not", i + 1) OBVIOUS
  <2>8. DescentOf(ws, "not", i) = ParseNot(Readings(Tokens(ws)), i)
    BY <1>1, <2>2, <2>3, ReadingsDescend DEF Descend, Saying
  <2>9. DescentOf(ws, "not", i) = IF arg.ok THEN Gives(Bool(~Truthy(arg.value)), arg.next) ELSE Raises
    BY <2>7, <2>8 DEF ParseNot, Negated, DescentOf
  <2>10. ASSUME ~Saying(ws, e, UpToLevel("not")) PROVE Yields(DescentOf(ws, "not", i), r.means, e)
    <3>1. Yields(arg, q.means, e) BY <2>4, <2>6, <2>7, <2>10 DEF ReadAt
    <3>2. CASE q.means = Missing BY <2>9, <3>1, <3>2 DEF Yields, Raises
    <3>3. CASE q.means # Missing
      <4>1. arg.ok /\ Content(arg.value) = q.means /\ arg.next = e BY <3>1, <3>3 DEF Yields
      <4>2. Truthy(q.means) = Truthy(arg.value) BY <4>1, TruthOfContent
      <4>3. PICK b : b = Bool(~Truthy(arg.value)) /\ b = Bool(~Truthy(q.means)) BY <4>2
      <4>4. DescentOf(ws, "not", i) = Gives(b, e) /\ r.means = b BY <2>9, <3>3, <4>1, <4>3
      <4>5. b # Missing /\ Content(b) = b BY <4>3, BoolsAreKnown, Truths
      <4>6. QED BY <4>4, <4>5 DEF Yields, Gives
    <3>4. QED BY <3>2, <3>3
  <2>11. QED BY <2>5, <2>10 DEF ReadAt
<1>5. QED BY <1>3, <1>4 DEF Reads

LEMMA EnclosedRead ==
  ASSUME NEW q, Formed(q), Reads(q),
         NEW r, r.level = "atom", r.means = q.means,
         r.words = <<Sign("(")>> \o q.words \o <<Sign(")")>>
  PROVE  Formed(r) /\ Reads(r)
<1>1. /\ "(" \in SignText /\ ")" \in SignText /\ "atom" \in Levels /\ "or" \in Levels
      /\ q.words \in Seq(Word) /\ Len(q.words) > 0 /\ Len(q.words) \in Nat
      /\ LevelNo(q.level) <= LevelNo("or")
  BY DEF SignText, Levels, LevelNo, Formed
<1>2. PICK close : close = <<Sign(")")>> OBVIOUS
<1>3. close \in Seq(Word) /\ Len(close) = 1 /\ close[1] = Sign(")") BY <1>1, <1>2, SignsAreWords
<1>4. PICK inside : inside = q.words \o close OBVIOUS
<1>5. inside \in Seq(Word) /\ Len(inside) = Len(q.words) + 1 /\ Len(inside) > 0
  <2>1. inside \in Seq(Word) /\ Len(inside) = Len(q.words) + Len(close)
    BY <1>1, <1>3, <1>4, Joining, Zenon
  <2>2. QED BY <1>1, <1>3, <2>1
<1>6. r.words = <<Sign("(")>> \o inside
  <2>1. <<Sign("(")>> \in Seq(Word) BY <1>1, SignsAreWords
  <2>2. \A x \in Seq(Word), y \in Seq(Word), z \in Seq(Word) : (x \o y) \o z = x \o (y \o z)
    BY ConcatAssociative
  <2>3. (<<Sign("(")>> \o q.words) \o close = <<Sign("(")>> \o (q.words \o close)
    BY <1>1, <1>3, <2>1, <2>2, Zenon
  <2>4. QED BY <1>2, <1>4, <2>3
<1>7. /\ r.words \in Seq(Word) /\ Len(r.words) = Len(q.words) + 2 /\ r.words[1] = Sign("(")
  <2>1. Len(r.words) = 1 + Len(inside) BY <1>1, <1>5, <1>6, SignBefore
  <2>2. QED BY <1>1, <1>5, <1>6, <2>1, SignBefore
<1>8. Formed(r)
  <2>1. Token(r.words[1]) = <<"str", "(">> BY <1>1, <1>7, SignsAreWords
  <2>2. Len(r.words) > 0 BY <1>1, <1>7
  <2>3. QED BY <1>1, <1>7, <2>1, <2>2 DEF Formed
<1>9. ASSUME NEW ws \in Seq(Word), NEW i \in 1 .. Len(ws), Stands(r.words, ws, i)
      PROVE  ReadAt(r, "atom", ws, i)
  <2>1. ws[i] = Sign("(") /\ Stands(inside, ws, i + 1) BY <1>1, <1>5, <1>6, <1>9, SignBefore
  <2>2. PICK c : c = i + 1 + Len(q.words) OBVIOUS
  <2>3. Stands(q.words, ws, i + 1) /\ Stands(close, ws, c)
    <3>1. Len(close) > 0 /\ Stands(q.words \o close, ws, i + 1) BY <1>3, <1>4, <2>1
    <3>2. QED BY <1>1, <1>3, <2>2, <3>1, StandsApart
  <2>4. c \in 1 .. Len(ws) /\ ws[c] = Sign(")")
    <3>1. c \in 1 .. Len(ws) /\ ws[c + 1 - 1] = close[1] BY <1>3, <2>3 DEF Stands
    <3>2. QED BY <1>3, <3>1, TokensAre
  <2>5. i + 1 \in 1 .. Len(ws) /\ i \in 1 .. Len(ws) + 1 BY <2>3, TokensAre DEF Stands
  <2>6. ReadAt(q, "or", ws, i + 1) BY <1>1, <2>3, <2>5, Climb
  <2>7. ~Saying(ws, c, UpToLevel("or")) /\ Saying(ws, c, {")"})
    BY <1>1, <2>4, SignsSay DEF UpToLevel
  <2>8. PICK inner : inner = DescentOf(ws, "or", i + 1) OBVIOUS
  <2>9. Yields(inner, q.means, c) BY <2>2, <2>6, <2>7, <2>8 DEF ReadAt, Behind
  <2>10. Saying(ws, i, {"("}) BY <1>1, <2>1, SignsSay
  <2>11. DescentOf(ws, "atom", i) = ParseAtom(Tokens(ws), Readings(Tokens(ws)), i)
    BY <1>1, <2>5, ReadingsDescend DEF Descend
  <2>12. DescentOf(ws, "atom", i) =
           IF inner.ok /\ Saying(ws, inner.next, {")"}) THEN Gives(inner.value, inner.next + 1)
           ELSE Raises
    <3>1. ~(i > Len(Tokens(ws))) BY TokensAre
    <3>2. QED BY <2>8, <2>10, <2>11, <3>1 DEF ParseAtom, DescentOf, Saying
  <2>13. Behind(r, i) = c + 1
    <3>1. PICK n \in Nat : n = Len(q.words) /\ Len(r.words) = n + 2 BY <1>1, <1>7
    <3>2. i \in Int
      <4>1. Len(ws) \in Nat BY TokensAre
      <4>2. QED BY <4>1
    <3>3. i + (n + 2) = (i + 1 + n) + 1 BY <3>1, <3>2, Shifts, Zenon
    <3>4. QED BY <2>2, <3>1, <3>3 DEF Behind
  <2>14. Yields(DescentOf(ws, "atom", i), q.means, c + 1)
    <3>1. CASE q.means = Missing BY <2>9, <2>12, <3>1 DEF Yields, Raises
    <3>2. CASE q.means # Missing BY <2>7, <2>9, <2>12, <3>2 DEF Yields, Gives
    <3>3. QED BY <3>1, <3>2
  <2>15. QED BY <2>13, <2>14 DEF ReadAt
<1>10. QED BY <1>8, <1>9 DEF Reads

(* A chain of one operator may be read from either end.                    *)
LEMMA Chains ==
  \A op \in {"and", "or"} : \A a, b, c :
    Apply(op, a, Content(Apply(op, b, c))) = Apply(op, Apply(op, a, b), c)
<1> SUFFICES ASSUME NEW op \in {"and", "or"}, NEW a, NEW b, NEW c
             PROVE  Apply(op, a, Content(Apply(op, b, c))) = Apply(op, Apply(op, a, b), c)
  OBVIOUS
<1>1. \A x \in BOOLEAN : Content(Bool(x)) = Bool(x) /\ Truthy(Bool(x)) = x
  BY DEF Content, Bool, Truthy, IsDict
<1>2. PICK x \in BOOLEAN, y \in BOOLEAN, z \in BOOLEAN :
        x = (Truthy(a) = TRUE) /\ y = (Truthy(b) = TRUE) /\ z = (Truthy(c) = TRUE)
  OBVIOUS
<1>3. CASE op = "or"
  <2>1. \A v, w : Apply(op, v, w) = Bool(Truthy(v) \/ Truthy(w)) BY <1>3 DEF Apply
  <2>2. PICK p \in BOOLEAN, q \in BOOLEAN : p = (y \/ z) /\ q = (x \/ y) OBVIOUS
  <2>3. (x \/ p) = (q \/ z) BY <2>2
  <2>4. Apply(op, b, c) = Bool(p) /\ Apply(op, a, b) = Bool(q) BY <1>2, <2>1, <2>2
  <2>5. Content(Bool(p)) = Bool(p) /\ Truthy(Bool(p)) = p /\ Truthy(Bool(q)) = q BY <1>1
  <2>6. Apply(op, a, Bool(p)) = Bool(x \/ p)
    <3>1. (Truthy(a) \/ Truthy(Bool(p))) = (x \/ p) BY <1>2, <2>5
    <3>2. QED BY <2>1, <3>1
  <2>7. Apply(op, Bool(q), c) = Bool(q \/ z)
    <3>1. (Truthy(Bool(q)) \/ Truthy(c)) = (q \/ z) BY <1>2, <2>5
    <3>2. QED BY <2>1, <3>1
  <2>8. QED BY <2>3, <2>4, <2>5, <2>6, <2>7
<1>4. CASE op = "and"
  <2>1. \A v, w : Apply(op, v, w) = Bool(Truthy(v) /\ Truthy(w)) BY <1>4 DEF Apply
  <2>2. PICK p \in BOOLEAN, q \in BOOLEAN : p = (y /\ z) /\ q = (x /\ y) OBVIOUS
  <2>3. (x /\ p) = (q /\ z) BY <2>2
  <2>4. Apply(op, b, c) = Bool(p) /\ Apply(op, a, b) = Bool(q) BY <1>2, <2>1, <2>2
  <2>5. Content(Bool(p)) = Bool(p) /\ Truthy(Bool(p)) = p /\ Truthy(Bool(q)) = q BY <1>1
  <2>6. Apply(op, a, Bool(p)) = Bool(x /\ p)
    <3>1. (Truthy(a) /\ Truthy(Bool(p))) = (x /\ p) BY <1>2, <2>5
    <3>2. QED BY <2>1, <3>1
  <2>7. Apply(op, Bool(q), c) = Bool(q /\ z)
    <3>1. (Truthy(Bool(q)) /\ Truthy(c)) = (q /\ z) BY <1>2, <2>5
    <3>2. QED BY <2>1, <3>1
  <2>8. QED BY <2>3, <2>4, <2>5, <2>6, <2>7
<1>5. QED BY <1>3, <1>4

Both(op, a, b) == IF Missing \in {a, b} THEN Missing ELSE Apply(op, a, b)

LEMMA JoinsYield ==
  ASSUME NEW L \in Levels, NEW op \in OperatorsOf(L), NEW r, NEW right, NEW a, NEW b, NEW e,
         Continues(r, a, op, right), Yields(right, b, e)
  PROVE  Yields(r, Both(op, a, b), e)
<1>1. Apply(op, a, b) # Missing /\ Content(Apply(op, a, b)) = Apply(op, a, b)
  BY Truths, BoolsAreKnown
<1>2. CASE a = Missing BY <1>2 DEF Continues, Yields, Both
<1>3. CASE a # Missing /\ b = Missing BY <1>3 DEF Continues, Combines, Yields, Both
<1>4. CASE a # Missing /\ b # Missing
  <2>1. right.ok /\ Content(right.value) = b /\ right.next = e BY <1>4 DEF Yields
  <2>2. r.ok /\ r.value = Apply(op, a, b) /\ r.next = e BY <1>4, <2>1 DEF Continues, Combines
  <2>3. Both(op, a, b) = Apply(op, a, b) BY <1>4 DEF Both
  <2>4. QED BY <1>1, <2>2, <2>3 DEF Yields
<1>5. QED BY <1>2, <1>3, <1>4

LEMMA JoinsContinue ==
  ASSUME NEW op \in {"and", "or"}, NEW r, NEW right, NEW rest, NEW a, NEW b,
         Continues(r, a, op, right), Continues(right, b, op, rest)
  PROVE  Continues(r, Both(op, a, b), op, rest)
<1>1. CASE a = Missing BY <1>1 DEF Continues, Both
<1>2. CASE a # Missing /\ b = Missing BY <1>2 DEF Continues, Combines, Both
<1>3. CASE a # Missing /\ b # Missing
  <2>1. Both(op, a, b) = Apply(op, a, b) BY <1>3 DEF Both
  <2>2. op \in OperatorsOf(op) /\ op \in Levels BY DEF OperatorsOf, Levels
  <2>3. Apply(op, a, b) # Missing BY <2>2, Truths, BoolsAreKnown
  <2>4. CASE rest.ok
    <3>1. right.ok /\ right.value = Apply(op, b, Content(rest.value)) /\ right.next = rest.next
      BY <1>3, <2>4 DEF Continues, Combines
    <3>2. r.ok /\ r.value = Apply(op, a, Content(right.value)) /\ r.next = rest.next
      BY <1>3, <3>1 DEF Continues, Combines
    <3>3. r.value = Apply(op, Apply(op, a, b), Content(rest.value)) BY <3>1, <3>2, Chains
    <3>4. QED BY <2>1, <2>3, <2>4, <3>2, <3>3 DEF Continues, Combines
  <2>5. CASE ~rest.ok
    <3>1. ~right.ok BY <1>3, <2>5 DEF Continues, Combines
    <3>2. ~r.ok BY <1>3, <3>1 DEF Continues, Combines
    <3>3. QED BY <2>1, <2>3, <2>5, <3>2 DEF Continues, Combines
  <2>6. QED BY <2>4, <2>5
<1>4. QED BY <1>1, <1>2, <1>3

LEMMA JoinsRead ==
  ASSUME NEW l, Formed(l), Reads(l), NEW r, Formed(r), Reads(r),
         NEW L \in {"compare", "and", "or"}, NEW op \in OperatorsOf(L),
         LevelNo(r.level) < LevelNo(L),
         LevelNo(l.level) < LevelNo(L) \/ (l.level = L /\ L # "compare"),
         NEW q, q.level = L, q.words = l.words \o <<Sign(op)>> \o r.words,
         q.means = Both(op, l.means, r.means)
  PROVE  Formed(q) /\ Reads(q)
<1>1. /\ L \in Levels \ {"atom"} /\ op \in SignText
      /\ l.words \in Seq(Word) /\ Len(l.words) > 0 /\ Len(l.words) \in Nat
      /\ r.words \in Seq(Word) /\ Len(r.words) > 0 /\ Len(r.words) \in Nat
      /\ l.level \in Levels /\ r.level \in Levels
  BY DEF Levels, OperatorsOf, SignText, Formed
<1>2. PICK s : s = <<Sign(op)>> OBVIOUS
<1>3. s \in Seq(Word) /\ Len(s) = 1 /\ s[1] = Sign(op) BY <1>1, <1>2, SignsAreWords
<1>4. PICK head : head = l.words \o s OBVIOUS
<1>5. /\ head \in Seq(Word) /\ Len(head) = Len(l.words) + 1 /\ Len(head) > 0
      /\ head[1] = l.words[1]
  <2>1. head \in Seq(Word) /\ Len(head) = Len(l.words) + Len(s) /\ head[1] = l.words[1]
    BY <1>1, <1>3, <1>4, Joining, Zenon
  <2>2. QED BY <1>1, <1>3, <2>1
<1>6. q.words = head \o r.words BY <1>2, <1>4
<1>7. /\ q.words \in Seq(Word) /\ Len(q.words) = Len(head) + Len(r.words)
      /\ q.words[1] = l.words[1] /\ Len(head) \in Nat
  <2>1. /\ head \o r.words \in Seq(Word) /\ Len(head \o r.words) = Len(head) + Len(r.words)
        /\ (head \o r.words)[1] = head[1] /\ Len(head) \in Nat
    BY <1>1, <1>5, Joining, Zenon
  <2>2. QED BY <1>5, <1>6, <2>1, Zenon
<1>8. Formed(q)
  <2>1. Len(q.words) > 0
    <3>1. PICK n \in Nat, m \in Nat : n = Len(head) /\ m = Len(r.words) BY <1>1, <1>7
    <3>2. n > 0 BY <1>5, <3>1, Zenon
    <3>3. n + m > 0 BY <3>1, <3>2, Adding, Zenon
    <3>4. QED BY <1>7, <3>1, <3>3, Zenon
  <2>2. LevelNo(L) < 3 => LevelNo(l.level) < 3 BY DEF LevelNo
  <2>3. LevelNo(L) < 3 => Token(q.words[1]) # <<"str", "not">> BY <1>7, <2>2 DEF Formed
  <2>4. QED BY <1>1, <1>7, <2>1, <2>3 DEF Formed
<1>9. ASSUME NEW ws \in Seq(Word), NEW i \in 1 .. Len(ws), Stands(q.words, ws, i)
      PROVE  ReadAt(q, L, ws, i)
  <2>1. PICK c : c = i + Len(l.words) OBVIOUS
  <2>2. Stands(head, ws, i) /\ Stands(r.words, ws, i + Len(head))
    BY <1>1, <1>5, <1>6, <1>9, StandsApart, Zenon
  <2>3. Stands(l.words, ws, i) /\ Stands(s, ws, c)
    <3>1. Len(s) > 0 /\ Stands(l.words \o s, ws, i) BY <1>3, <1>4, <2>2
    <3>2. QED BY <1>1, <1>3, <2>1, <3>1, StandsApart, Zenon
  <2>4. i \in Int /\ c \in Int
    <3>1. Len(ws) \in Nat BY TokensAre
    <3>2. QED BY <1>1, <2>1, <3>1
  <2>5. c \in 1 .. Len(ws) /\ ws[c] = Sign(op)
    <3>1. c \in 1 .. Len(ws) /\ ws[c + 1 - 1] = s[1] BY <1>3, <2>3 DEF Stands
    <3>2. c + 1 - 1 = c BY <2>4
    <3>3. QED BY <1>3, <3>1, <3>2
  <2>6. Tokens(ws)[c] = <<"str", op>> /\ \A T : Saying(ws, c, T) <=> op \in T
    BY <1>1, <2>5, SignsSay
  <2>7. i + Len(head) = c + 1
    <3>1. PICK n \in Nat : n = Len(l.words) BY <1>1
    <3>2. i + (n + 1) = i + n + 1 BY <2>4, <3>1, Adding, Zenon
    <3>3. QED BY <1>5, <2>1, <3>1, <3>2
  <2>8. c + 1 \in 1 .. Len(ws) /\ Stands(r.words, ws, c + 1) BY <2>2, <2>7 DEF Stands
  <2>9. PICK e : e = Behind(q, i) OBVIOUS
  <2>10. e = Behind(r, c + 1) /\ c = Behind(l, i)
    <3>1. PICK n \in Nat, m \in Nat : n = Len(head) /\ m = Len(r.words) BY <1>1, <1>7
    <3>2. i + (n + m) = i + n + m BY <2>4, <3>1, Adding, Zenon
    <3>3. QED BY <1>7, <2>1, <2>7, <2>9, <3>1, <3>2 DEF Behind
  <2>11. PICK K \in Levels : K = IF L = "compare" THEN "atom" ELSE L BY <1>1 DEF Levels
  <2>12. PICK right : right = DescentOf(ws, K, c + 1) OBVIOUS
  <2>13. LevelNo(r.level) <= LevelNo(K) BY <1>1, <2>11 DEF LevelNo, Levels
  <2>14. ReadAt(r, K, ws, c + 1) BY <1>1, <2>8, <2>13, Climb
  <2>15. Continues(DescentOf(ws, L, i), l.means, op, right)
    <3>1. CASE L = "compare"
      <4>1. l.level = "atom" /\ OperandOf(L) = "atom" /\ K = "atom"
        BY <1>1, <2>11, <3>1, Ranks DEF LevelNo, Levels, OperandOf, Level
      <4>2. ReadAt(l, "atom", ws, i) BY <2>3, <4>1 DEF Reads
      <4>3. PICK left : left = DescentOf(ws, "atom", i) OBVIOUS
      <4>4. ~Saying(ws, c, UpToLevel("atom")) BY <2>6 DEF UpToLevel
      <4>5. Yields(left, l.means, c) BY <2>10, <4>2, <4>3, <4>4 DEF ReadAt
      <4>6. left = DescentOf(ws, OperandOf(L), i) /\ ~(L = "not" /\ Saying(ws, i, {"not"}))
        BY <3>1, <4>1, <4>3
      <4>7. CASE l.means = Missing
        <5>1. ~left.ok BY <4>5, <4>7 DEF Yields
        <5>2. DescentOf(ws, L, i) = left BY <1>1, <4>6, <5>1, OperandsRead
        <5>3. QED BY <4>7, <5>1, <5>2 DEF Continues
      <4>8. CASE l.means # Missing
        <5>1. left.ok /\ left.next = c /\ Content(left.value) = l.means BY <4>5, <4>8 DEF Yields
        <5>2. Saying(ws, left.next, OperatorsOf(L)) BY <2>6, <5>1
        <5>3. right = DescentOf(ws, IF L = "compare" THEN "atom" ELSE L, left.next + 1)
          BY <2>11, <2>12, <5>1
        <5>4. Combines(DescentOf(ws, L, i), Content(left.value), Tokens(ws)[left.next][2], right)
          BY <1>1, <4>6, <5>1, <5>2, <5>3, OperandsRead
        <5>5. QED BY <2>6, <4>8, <5>1, <5>4 DEF Continues
      <4>9. QED BY <4>7, <4>8
    <3>2. CASE L # "compare"
      <4>1. K = L /\ L \in {"and", "or"} /\ LevelNo(l.level) <= LevelNo(L) BY <2>11, <3>2 DEF LevelNo
      <4>2. op = L BY <4>1, LevelOperators
      <4>3. ReadAt(l, L, ws, i) BY <1>1, <2>3, <4>1, Climb
      <4>4. Saying(ws, c, {L}) BY <2>6, <4>2
      <4>5. QED BY <2>10, <2>12, <4>1, <4>2, <4>3, <4>4 DEF ReadAt
    <3>3. QED BY <3>1, <3>2
  <2>16. ASSUME ~Saying(ws, e, UpToLevel(L)) PROVE Yields(DescentOf(ws, L, i), q.means, e)
    <3>1. UpToLevel(K) \subseteq UpToLevel(L) BY <2>11 DEF UpToLevel
    <3>2. ~Saying(ws, e, UpToLevel(K)) BY <2>16, <3>1, SaysLess
    <3>3. Yields(right, r.means, e) BY <2>10, <2>12, <2>14, <3>2 DEF ReadAt
    <3>4. QED BY <1>1, <2>15, <3>3, JoinsYield
  <2>17. ASSUME L \in {"and", "or"}, Saying(ws, e, {L})
         PROVE  Continues(DescentOf(ws, L, i), q.means, L, DescentOf(ws, L, e + 1))
    <3>1. K = L /\ op = L BY <2>11, <2>17, LevelOperators
    <3>2. Continues(right, r.means, L, DescentOf(ws, L, e + 1))
      BY <2>10, <2>12, <2>14, <2>17, <3>1 DEF ReadAt
    <3>3. QED BY <2>15, <2>17, <3>1, <3>2, JoinsContinue
  <2>18. QED BY <2>9, <2>16, <2>17 DEF ReadAt
<1>10. QED BY <1>8, <1>9 DEF Reads

(* A phrase that stands alone is read to its last word.                    *)
LEMMA PhrasesMean ==
  ASSUME NEW q, Formed(q), Reads(q)
  PROVE  LET r == EvalExpr(q.words) IN
         IF q.means = Missing THEN ~r.ok ELSE r.ok /\ Content(r.value) = q.means
<1>1. PICK ws \in Seq(Word) : ws = q.words BY DEF Formed
<1>2. PICK n \in Nat : n = Len(ws) BY TokensAre
<1>3. n > 0 /\ 1 \in 1 .. n BY <1>1, <1>2 DEF Formed
<1>4. \A k \in 1 .. n : 1 + k - 1 = k BY <1>2
<1>5. Stands(q.words, ws, 1) BY <1>1, <1>2, <1>3, <1>4 DEF Stands
<1>6. "or" \in Levels /\ LevelNo(q.level) <= LevelNo("or") BY DEF Levels, LevelNo
<1>7. ReadAt(q, "or", ws, 1) BY <1>2, <1>3, <1>5, <1>6, Climb
<1>8. Behind(q, 1) = n + 1 BY <1>1, <1>2 DEF Behind
<1>9. Len(Tokens(ws)) = n BY <1>2, TokensAre
<1>10. ~Saying(ws, n + 1, UpToLevel("or")) BY <1>2, <1>9 DEF Saying, Says
<1>11. PICK r : r = DescentOf(ws, "or", 1) OBVIOUS
<1>12. Yields(r, q.means, n + 1) BY <1>7, <1>8, <1>10, <1>11 DEF ReadAt
<1>13. EvalExpr(q.words) = IF r.ok /\ r.next = n + 1 THEN r ELSE Raises
  BY <1>1, <1>2, <1>11 DEF EvalExpr, DescentOf
<1>14. QED BY <1>12, <1>13 DEF Yields, Raises

-----------------------------------------------------------------------------
(* What is read depends on the channel and its objects only.               *)
LEMMA ReadingsStay ==
  ASSUME UNCHANGED <<slots, heap>>, NEW t
  PROVE  Readings(t)' = Readings(t)
<1>1. \A v : Content(v)' = Content(v) BY DEF Content
<1>2. \A p : GetPath(p)' = GetPath(p) BY DEF GetPath
<1>3. \A u, i : Atom(u, i)' = Atom(u, i) BY <1>2 DEF Atom
<1>4. \A f, l, i : Descend(t, f, l, i)' = Descend(t, f, l, i)
  <2> SUFFICES ASSUME NEW f, NEW l, NEW i PROVE Descend(t, f, l, i)' = Descend(t, f, l, i)
    OBVIOUS
  <2>1. ParseAtom(t, f, i)' = ParseAtom(t, f, i) BY <1>3 DEF ParseAtom
  <2>2. ParseNot(f, i)' = ParseNot(f, i) BY DEF ParseNot
  <2>3. ParseOperands(t, f, l, i)' = ParseOperands(t, f, l, i) BY <1>1 DEF ParseOperands
  <2>4. QED BY <2>1, <2>2, <2>3 DEF Descend
<1>5. \A f : ReadsAll(t, f)' <=> ReadsAll(t, f) BY <1>4 DEF ReadsAll
<1>6. (CHOOSE f : ReadsAll(t, f)') = (CHOOSE f : ReadsAll(t, f)) BY <1>5, Zenon
<1>7. QED BY <1>6, Zenon DEF ReadsAll, Readings

LEMMA ReadsStay ==
  ASSUME UNCHANGED <<slots, heap>>, NEW q
  PROVE  Reads(q)' = Reads(q)
<1>1. \A ws, l, i : DescentOf(ws, l, i)' = DescentOf(ws, l, i) BY ReadingsStay DEF DescentOf
<1>2. \A v : Content(v)' = Content(v) BY DEF Content
<1>3. \A r, m, e : Yields(r, m, e)' = Yields(r, m, e) BY <1>2 DEF Yields
<1>4. \A r, m, op, rest : Continues(r, m, op, rest)' = Continues(r, m, op, rest)
  BY <1>2 DEF Continues, Combines
<1>5. \A ws, i : ReadAt(q, q.level, ws, i)' = ReadAt(q, q.level, ws, i)
  BY <1>1, <1>3, <1>4 DEF ReadAt
<1>6. QED BY <1>5 DEF Reads

(* Both phrases are read as they mean wherever they stand, unless they     *)
(* quote what the code takes for an operator, and the dictionaries agree   *)
(* with the copies as long as none has two names.                          *)
Quotes(words) == \E i \in DOMAIN words : words[i] \in {<<"quoted", "not">>, <<"quoted", "(">>}
PhraseRead(q) ==
  q # NoPhrase =>
    /\ q.words \in Seq(Word) /\ Len(q.words) > 0 /\ q.level \in Levels
    /\ ~shared /\ ~Quotes(q.words) => Formed(q) /\ Reads(q)
Forms ==
  /\ slots = [n \in Name |-> slots[n]] /\ store = [n \in Name |-> store[n]]
  /\ heap = [o \in Obj |-> heap[o]]
Remembers == shared \in BOOLEAN /\ Forms /\ Memory /\ (~shared => Mirrors)
Shaped(q) == q = [level |-> q.level, words |-> q.words, means |-> q.means]
ExprInv ==
  /\ vocabulary \in Vocabularies /\ spent \in 0 .. vocabulary.words
  /\ Remembers
  /\ \A q \in {phrase, aside} : Shaped(q) /\ PhraseRead(q)

LEMMA PhrasesStay ==
  ASSUME UNCHANGED <<slots, heap, shared>>, NEW q
  PROVE  PhraseRead(q)' = PhraseRead(q)
BY ReadsStay DEF PhraseRead

LEMMA QuotesApart ==
  ASSUME NEW x \in Seq(Word), NEW y \in Seq(Word), ~Quotes(x \o y)
  PROVE  ~Quotes(x) /\ ~Quotes(y)
<1>1. PICK z : z = x \o y OBVIOUS
<1>2. PICK a \in Nat, b \in Nat : a = Len(x) /\ b = Len(y) BY LenProperties
<1>3. /\ DOMAIN x = 1 .. a /\ DOMAIN y = 1 .. b /\ DOMAIN z = 1 .. a + b
      /\ \A k \in 1 .. a : z[k] = x[k]
      /\ \A k \in 1 .. b : z[a + k] = y[k]
  BY <1>1, <1>2
<1>4. \A k \in 1 .. a : k \in 1 .. a + b BY <1>2
<1>5. \A k \in 1 .. b : a + k \in 1 .. a + b BY <1>2
<1>6. ~Quotes(z) BY <1>1
<1>7. QED BY <1>3, <1>4, <1>5, <1>6 DEF Quotes

(* What a step does to a phrase.                                           *)
LEMMA LeafRead ==
  ASSUME ExprInv, NEW w \in vocabulary.leaves
  PROVE  PhraseRead(Leaf(w)) /\ Len(Leaf(w).words) = 1
<1>1. w \in Leaves /\ w \in Word BY DEF ExprInv, Leaves, Word
<1>2. PICK q : q = Leaf(w) OBVIOUS
<1>3. q.level = "atom" /\ q.words = <<w>> BY <1>2 DEF Leaf
<1>4. q.words \in Seq(Word) /\ Len(q.words) = 1 /\ q.level \in Levels
  BY <1>1, <1>3 DEF Levels
<1>5. ASSUME ~shared, ~Quotes(q.words) PROVE Formed(q) /\ Reads(q)
  <2>1. 1 \in DOMAIN q.words /\ q.words[1] = w BY <1>3
  <2>2. w # <<"quoted", "not">> /\ w # <<"quoted", "(">> BY <1>5, <2>1 DEF Quotes
  <2>3. QED BY <1>1, <1>2, <1>5, <2>2, LeavesRead DEF ExprInv, Remembers
<1>6. QED BY <1>2, <1>4, <1>5 DEF PhraseRead

LEMMA NegateRead ==
  ASSUME NEW q, q # NoPhrase, PhraseRead(q), Rank(q.level) <= Rank("not"),
         NEW r, r.level = "not", r.words = <<Sign("not")>> \o q.words,
         r.means = IF q.means = Missing THEN Missing ELSE Bool(~Truthy(q.means))
  PROVE  PhraseRead(r)
<1>1. /\ q.words \in Seq(Word) /\ Len(q.words) > 0 /\ q.level \in Levels
      /\ ~shared /\ ~Quotes(q.words) => Formed(q) /\ Reads(q)
  BY DEF PhraseRead
<1>2. "not" \in SignText /\ "not" \in Levels /\ LevelNo("not") = 3 BY DEF SignText, Levels, LevelNo
<1>3. LevelNo(q.level) <= 3 BY <1>1, <1>2, Ranks
<1>4. r.words \in Seq(Word) /\ Len(r.words) = 1 + Len(q.words)
  BY <1>1, <1>2, SignBefore, Zenon
<1>5. Len(r.words) > 0
  <2>1. PICK n \in Nat : n = Len(q.words) BY <1>1, LenProperties
  <2>2. 1 + n > 0 BY <2>1, Adding
  <2>3. QED BY <1>4, <2>1, <2>2, Zenon
<1>6. ASSUME ~shared, ~Quotes(r.words) PROVE Formed(r) /\ Reads(r)
  <2>1. <<Sign("not")>> \in Seq(Word) BY <1>2, SignsAreWords
  <2>2. ~Quotes(q.words) BY <1>1, <1>6, <2>1, QuotesApart, Zenon
  <2>3. QED BY <1>1, <1>3, <1>6, <2>2, NegationsRead, Zenon
<1>7. QED BY <1>2, <1>4, <1>5, <1>6 DEF PhraseRead

LEMMA EncloseRead ==
  ASSUME NEW q, q # NoPhrase, PhraseRead(q),
         NEW r, r.level = "atom", r.means = q.means,
         r.words = <<Sign("(")>> \o q.words \o <<Sign(")")>>
  PROVE  PhraseRead(r)
<1>1. /\ q.words \in Seq(Word) /\ Len(q.words) > 0 /\ q.level \in Levels
      /\ ~shared /\ ~Quotes(q.words) => Formed(q) /\ Reads(q)
  BY DEF PhraseRead
<1>2. /\ "(" \in SignText /\ ")" \in SignText /\ "atom" \in Levels
  BY DEF SignText, Levels
<1>3. PICK open, close : open = <<Sign("(")>> /\ close = <<Sign(")")>> OBVIOUS
<1>4. /\ open \in Seq(Word) /\ Len(open) = 1 /\ close \in Seq(Word) /\ Len(close) = 1
  BY <1>2, <1>3, SignsAreWords
<1>5. PICK head : head = open \o q.words OBVIOUS
<1>6. head \in Seq(Word) /\ Len(head) = 1 + Len(q.words) /\ r.words = head \o close
  <2>1. head \in Seq(Word) /\ Len(head) = Len(open) + Len(q.words)
    BY <1>1, <1>4, <1>5, Joining, Zenon
  <2>2. QED BY <1>3, <1>4, <1>5, <2>1
<1>7. r.words \in Seq(Word) /\ Len(r.words) > 0
  <2>1. r.words \in Seq(Word) /\ Len(r.words) = Len(head) + Len(close)
    BY <1>4, <1>6, Joining, Zenon
  <2>2. PICK n \in Nat : n = Len(q.words) BY <1>1, LenProperties
  <2>3. 1 + n + 1 > 0 BY <2>2, Adding
  <2>4. QED BY <1>4, <1>6, <2>1, <2>2, <2>3, Zenon
<1>8. ASSUME ~shared, ~Quotes(r.words) PROVE Formed(r) /\ Reads(r)
  <2>1. ~Quotes(head) BY <1>4, <1>6, <1>8, QuotesApart, Zenon
  <2>2. ~Quotes(q.words) BY <1>1, <1>4, <1>5, <2>1, QuotesApart, Zenon
  <2>3. QED BY <1>1, <1>8, <2>2, EnclosedRead, Zenon
<1>9. QED BY <1>2, <1>7, <1>8 DEF PhraseRead

LEMMA JoinRead ==
  ASSUME NEW l, l # NoPhrase, PhraseRead(l), NEW r, r # NoPhrase, PhraseRead(r),
         NEW op \in {"or", "and", "==", "!="}, Fits(l, op, r)
  PROVE  PhraseRead(Joined(l, op, r))
<1>1. /\ l.words \in Seq(Word) /\ Len(l.words) > 0 /\ l.level \in Levels
      /\ r.words \in Seq(Word) /\ Len(r.words) > 0 /\ r.level \in Levels
      /\ ~shared /\ ~Quotes(l.words) => Formed(l) /\ Reads(l)
      /\ ~shared /\ ~Quotes(r.words) => Formed(r) /\ Reads(r)
  BY DEF PhraseRead
<1>2. PICK L \in {"compare", "and", "or"} : L = LevelOf(op) /\ op \in OperatorsOf(L)
  <2>1. \E L \in {"compare", "and", "or"} : op \in OperatorsOf(L) BY DEF OperatorsOf
  <2>2. QED BY <2>1 DEF LevelOf
<1>3. L \in Levels /\ op \in SignText BY <1>2 DEF Levels, SignText
<1>4. /\ LevelNo(r.level) < LevelNo(L)
      /\ LevelNo(l.level) < LevelNo(L) \/ (l.level = L /\ L # "compare")
  BY <1>1, <1>2, <1>3, Ranks DEF Fits
<1>5. PICK q : q = Joined(l, op, r) OBVIOUS
<1>6. /\ q.level = L /\ q.words = l.words \o <<Sign(op)>> \o r.words
      /\ q.means = Both(op, l.means, r.means)
  BY <1>2, <1>5 DEF Joined, Both
<1>7. PICK s, head : s = <<Sign(op)>> /\ head = l.words \o s OBVIOUS
<1>8. s \in Seq(Word) /\ Len(s) = 1 BY <1>3, <1>7, SignsAreWords
<1>9. head \in Seq(Word) /\ Len(head) = Len(l.words) + Len(s) BY <1>1, <1>7, <1>8, Joining, Zenon
<1>10. q.words = head \o r.words BY <1>6, <1>7
<1>11. q.words \in Seq(Word) /\ Len(q.words) = Len(head) + Len(r.words)
  BY <1>1, <1>9, <1>10, Joining, Zenon
<1>12. Len(q.words) > 0
  <2>1. \A n, m \in Nat : n + 1 + m > 0 OBVIOUS
  <2>2. Len(l.words) \in Nat /\ Len(r.words) \in Nat BY <1>1, LenProperties
  <2>3. QED BY <1>8, <1>9, <1>11, <2>1, <2>2, Zenon
<1>13. ASSUME ~shared, ~Quotes(q.words) PROVE Formed(q) /\ Reads(q)
  <2>1. ~Quotes(head) /\ ~Quotes(r.words) BY <1>1, <1>9, <1>10, <1>13, QuotesApart, Zenon
  <2>2. ~Quotes(l.words) BY <1>1, <1>7, <1>8, <2>1, QuotesApart, Zenon
  <2>3. Formed(l) /\ Reads(l) /\ Formed(r) /\ Reads(r) BY <1>1, <1>13, <2>1, <2>2
  <2>4. QED BY <1>2, <1>4, <1>6, <2>3, JoinsRead, Zenon
<1>14. QED BY <1>3, <1>5, <1>6, <1>11, <1>12, <1>13 DEF PhraseRead

-----------------------------------------------------------------------------
(* What an assignment does to the channel: below a name it writes one      *)
(* object, which no other name has unless the write is one through a       *)
(* shared object.                                                          *)
LEMMA BelowWritesOne ==
  ASSUME Forms, Memory, shared \in BOOLEAN, NEW n \in Name, NEW v, SetBelow(n, v)
  PROVE  \E o \in Obj : /\ heap' = [heap EXCEPT ![o] = v]
                        /\ slots' = [slots EXCEPT ![n] = <<"obj", o>>]
                        /\ shared' \in BOOLEAN
                        /\ ~shared' => ~shared /\ \A m \in Name \ {n} : slots[m] # <<"obj", o>>
<1>1. CASE IsDict(slots[n])
  <2>1. PICK o \in Obj : slots[n] = <<"obj", o>> BY <1>1 DEF Memory, Value
  <2>2. /\ heap' = [heap EXCEPT ![o] = v] /\ slots' = slots
        /\ shared' = (shared \/ Owners(o) # {n})
    BY <1>1, <2>1 DEF SetBelow
  <2>3. slots = [slots EXCEPT ![n] = <<"obj", o>>] BY <2>1 DEF Forms
  <2>4. shared' \in BOOLEAN BY <2>2, Zenon
  <2>5. ASSUME ~shared' PROVE ~shared /\ \A m \in Name \ {n} : slots[m] # <<"obj", o>>
    <3>1. ~shared /\ Owners(o) = {n} BY <2>2, <2>5, Zenon
    <3>2. QED BY <3>1 DEF Owners
  <2>6. QED BY <2>2, <2>3, <2>4, <2>5
<1>2. CASE ~IsDict(slots[n])
  <2>1. PICK o : o = CHOOSE q \in Fresh : TRUE OBVIOUS
  <2>2. /\ Fresh # {} /\ heap' = [heap EXCEPT ![o] = v]
        /\ slots' = [slots EXCEPT ![n] = <<"obj", o>>] /\ shared' = shared
    BY <1>2, <2>1 DEF SetBelow
  <2>3. o \in Fresh BY <2>1, <2>2
  <2>4. o \in Obj /\ \A m \in Name : slots[m] # <<"obj", o>> BY <2>3 DEF Fresh, Owners
  <2>5. QED BY <2>2, <2>4
<1>3. QED BY <1>1, <1>2

LEMMA BelowRemembers ==
  ASSUME Remembers, NEW n \in Name, NEW v, Plain(v), SetBelow(n, v),
         store' = [store EXCEPT ![n] = <<"dict", v>>]
  PROVE  Remembers'
<1>1. PICK o \in Obj : /\ heap' = [heap EXCEPT ![o] = v]
                       /\ slots' = [slots EXCEPT ![n] = <<"obj", o>>]
                       /\ shared' \in BOOLEAN
                       /\ ~shared' => ~shared /\ \A m \in Name \ {n} : slots[m] # <<"obj", o>>
  BY BelowWritesOne DEF Remembers
<1>2. Forms /\ Memory /\ (~shared => Mirrors) BY DEF Remembers
<1>3. Forms' BY <1>1, <1>2 DEF Forms
<1>4. /\ heap'[o] = v /\ \A q \in Obj \ {o} : heap'[q] = heap[q]
      /\ slots'[n] = <<"obj", o>> /\ \A m \in Name \ {n} : slots'[m] = slots[m]
      /\ store'[n] = <<"dict", v>> /\ \A m \in Name \ {n} : store'[m] = store[m]
  BY <1>1, <1>2 DEF Forms
<1>5. Memory'
  <2>1. \A q \in Obj : Plain(heap'[q]) BY <1>2, <1>4 DEF Memory
  <2>2. Value(<<"obj", o>>) BY DEF Value, IsDict
  <2>3. \A m \in Name : Value(slots'[m]) BY <1>2, <1>4, <2>2 DEF Memory
  <2>4. QED BY <2>1, <2>3 DEF Memory, Plain, Value, IsDict
<1>6. ASSUME ~shared' PROVE Mirrors'
  <2>1. Mirrors /\ \A m \in Name \ {n} : slots[m] # <<"obj", o>> BY <1>1, <1>2, <1>6
  <2>2. ASSUME NEW m \in Name PROVE store'[m] = Content(slots[m])'
    <3>1. CASE m = n BY <1>4, <3>1 DEF Content, IsDict
    <3>2. CASE m # n
      <4>1. store'[m] = Content(slots[m]) /\ slots'[m] = slots[m] BY <1>4, <2>1, <3>2 DEF Mirrors
      <4>2. CASE IsDict(slots[m])
        <5>1. PICK q \in Obj : slots[m] = <<"obj", q>> BY <1>2, <4>2 DEF Memory, Value
        <5>2. q # o BY <2>1, <3>2, <5>1
        <5>3. heap'[q] = heap[q] BY <1>4, <5>2
        <5>4. QED BY <4>1, <5>1, <5>3 DEF Content
      <4>3. CASE ~IsDict(slots[m]) BY <4>1, <4>3 DEF Content, IsDict
      <4>4. QED BY <4>2, <4>3
    <3>3. QED BY <3>1, <3>2
  <2>3. QED BY <2>2 DEF Mirrors
<1>7. QED BY <1>1, <1>3, <1>5, <1>6 DEF Remembers

LEMMA NameRemembers ==
  ASSUME Remembers, NEW n \in Name, NEW v, Value(v),
         slots' = [slots EXCEPT ![n] = v], UNCHANGED <<heap, shared>>,
         store' = [store EXCEPT ![n] = Content(v)]
  PROVE  Remembers'
<1>1. Forms /\ Memory /\ (~shared => Mirrors) BY DEF Remembers
<1>2. Forms' BY <1>1 DEF Forms
<1>3. /\ slots'[n] = v /\ \A m \in Name \ {n} : slots'[m] = slots[m]
      /\ store'[n] = Content(v) /\ \A m \in Name \ {n} : store'[m] = store[m]
  BY <1>1 DEF Forms
<1>4. Memory'
  <2>1. \A q \in Obj : Plain(heap'[q]) BY <1>1 DEF Memory
  <2>2. \A m \in Name : Value(slots'[m]) BY <1>1, <1>3 DEF Memory
  <2>3. QED BY <2>1, <2>2 DEF Memory, Plain, Value, IsDict
<1>5. ASSUME ~shared' PROVE Mirrors'
  <2>1. Mirrors BY <1>1, <1>5
  <2>2. \A u : Content(u)' = Content(u) BY DEF Content
  <2>3. \A m \in Name : store'[m] = Content(slots'[m]) BY <1>3, <2>1 DEF Mirrors
  <2>4. QED BY <2>2, <2>3 DEF Mirrors, Content
<1>6. QED BY <1>1, <1>2, <1>4, <1>5 DEF Remembers

-----------------------------------------------------------------------------
(* The steps.                                                              *)
LEMMA ExprInvInit == ExprInit => ExprInv
<1> SUFFICES ASSUME ExprInit PROVE ExprInv OBVIOUS
<1>1. Null[1] = "none" BY DEF Null
<1>2. vocabulary \in Vocabularies /\ spent \in 0 .. vocabulary.words
  BY VocabulariesAssumption DEF ExprInit
<1>3. shared = FALSE /\ Forms BY DEF ExprInit, Forms
<1>4. /\ \A n \in Name : slots[n] = Null /\ store[n] = Null
      /\ \A o \in Obj : heap[o] = Null
  BY DEF ExprInit
<1>5. Memory /\ Mirrors BY <1>1, <1>4 DEF Memory, Value, Plain, Mirrors, Content, IsDict
<1>6. \A q \in {phrase, aside} : Shaped(q) /\ PhraseRead(q)
  BY DEF ExprInit, PhraseRead, Shaped, NoPhrase
<1>7. QED BY <1>2, <1>3, <1>5, <1>6 DEF ExprInv, Remembers

(* A step that writes a phrase and leaves the channel alone.               *)
LEMMA WritesAPhrase ==
  ASSUME ExprInv, UNCHANGED <<vocabulary, slots, heap, store, shared>>,
         spent' \in 0 .. vocabulary.words,
         NEW q, Shaped(q), PhraseRead(q), phrase' = q,
         NEW a, Shaped(a), PhraseRead(a), aside' = a
  PROVE  ExprInv'
<1>1. vocabulary' \in Vocabularies /\ spent' \in 0 .. vocabulary'.words BY DEF ExprInv
<1>2. Remembers'
  <2>1. Remembers BY DEF ExprInv
  <2>2. QED BY <2>1 DEF Remembers, Forms, Memory, Mirrors, Value, Plain, Content, IsDict
<1>3. PhraseRead(q)' /\ PhraseRead(a)'
  <2>1. PhraseRead(q)' = PhraseRead(q) BY PhrasesStay
  <2>2. PhraseRead(a)' = PhraseRead(a) BY PhrasesStay
  <2>3. QED BY <2>1, <2>2
<1>4. \A p \in {phrase', aside'} : Shaped(p)' /\ PhraseRead(p)' BY <1>3, Zenon DEF Shaped
<1>5. QED BY <1>1, <1>2, <1>4 DEF ExprInv

LEMMA ExprInvBegin == ExprInv /\ Begin => ExprInv'
<1> SUFFICES ASSUME ExprInv, Begin PROVE ExprInv' OBVIOUS
<1>1. PICK w \in vocabulary.leaves : phrase' = Leaf(w) BY DEF Begin
<1>2. PhraseRead(Leaf(w)) /\ Shaped(Leaf(w)) BY LeafRead DEF Leaf, Shaped
<1>3. PhraseRead(aside) /\ Shaped(aside) BY DEF ExprInv
<1>4. spent' \in 0 .. vocabulary.words BY VocabulariesAssumption DEF Begin, ExprInv
<1>5. QED BY <1>1, <1>2, <1>3, <1>4, WritesAPhrase DEF Begin

LEMMA ExprInvJoin == ExprInv /\ Join => ExprInv'
<1> SUFFICES ASSUME ExprInv, Join PROVE ExprInv' OBVIOUS
<1>1. PICK op \in {"or", "and", "==", "!="}, r \in {Leaf(w) : w \in vocabulary.leaves} \cup {aside} :
        /\ r # NoPhrase /\ Fits(phrase, op, r)
        /\ spent + 1 + Len(r.words) <= vocabulary.words
        /\ phrase' = Joined(phrase, op, r) /\ spent' = spent + 1 + Len(r.words)
  BY DEF Join
<1>2. PhraseRead(r)
  <2>1. CASE r = aside BY <2>1 DEF ExprInv
  <2>2. CASE r # aside
    <3>1. PICK w \in vocabulary.leaves : r = Leaf(w) BY <1>1, <2>2
    <3>2. QED BY <3>1, LeafRead
  <2>3. QED BY <2>1, <2>2
<1>3. phrase # NoPhrase /\ PhraseRead(phrase) /\ PhraseRead(aside) /\ Shaped(aside)
  BY DEF ExprInv, Join
<1>4. PhraseRead(Joined(phrase, op, r)) /\ Shaped(Joined(phrase, op, r))
  <2>1. PhraseRead(Joined(phrase, op, r)) BY <1>1, <1>2, <1>3, JoinRead, Zenon
  <2>2. Shaped(Joined(phrase, op, r)) BY DEF Joined, Shaped
  <2>3. QED BY <2>1, <2>2
<1>5. spent' \in 0 .. vocabulary.words
  <2>1. r.words \in Seq(Word) BY <1>1, <1>2 DEF PhraseRead
  <2>2. PICK k \in Nat : k = Len(r.words) BY <2>1, LenProperties
  <2>3. vocabulary.words \in Nat /\ spent \in 0 .. vocabulary.words
    BY VocabulariesAssumption DEF ExprInv
  <2>4. spent + 1 + k <= vocabulary.words /\ spent' = spent + 1 + k BY <1>1, <2>2
  <2>5. QED BY <2>3, <2>4
<1>6. QED BY <1>1, <1>3, <1>4, <1>5, WritesAPhrase DEF Join

LEMMA ExprInvNegate == ExprInv /\ Negate => ExprInv'
<1> SUFFICES ASSUME ExprInv, Negate PROVE ExprInv' OBVIOUS
<1>1. /\ phrase # NoPhrase /\ PhraseRead(phrase) /\ Shaped(phrase)
      /\ PhraseRead(aside) /\ Shaped(aside)
  BY DEF ExprInv, Negate
<1>2. PICK q : q = [level |-> "not", words |-> <<Sign("not")>> \o phrase.words,
                    means |-> IF phrase.means = Missing THEN Missing
                              ELSE Bool(~Truthy(phrase.means))]
  OBVIOUS
<1>3. /\ q.level = "not" /\ q.words = <<Sign("not")>> \o phrase.words
      /\ q.means = IF phrase.means = Missing THEN Missing ELSE Bool(~Truthy(phrase.means))
  BY <1>2
<1>4. phrase' = q /\ Rank(phrase.level) <= Rank("not") BY <1>2 DEF Negate
<1>5. PhraseRead(q) /\ Shaped(q)
  <2>1. PhraseRead(q) BY <1>1, <1>3, <1>4, NegateRead, Zenon
  <2>2. Shaped(q) BY <1>2 DEF Shaped
  <2>3. QED BY <2>1, <2>2
<1>6. spent' \in 0 .. vocabulary.words BY VocabulariesAssumption DEF Negate, ExprInv
<1>7. QED BY <1>1, <1>4, <1>5, <1>6, WritesAPhrase DEF Negate

LEMMA ExprInvEnclose == ExprInv /\ Enclose => ExprInv'
<1> SUFFICES ASSUME ExprInv, Enclose PROVE ExprInv' OBVIOUS
<1>1. /\ phrase # NoPhrase /\ PhraseRead(phrase) /\ Shaped(phrase)
      /\ PhraseRead(aside) /\ Shaped(aside)
  BY DEF ExprInv, Enclose
<1>2. PICK q : q = [level |-> "atom",
                    words |-> <<Sign("(")>> \o phrase.words \o <<Sign(")")>>,
                    means |-> phrase.means]
  OBVIOUS
<1>3. /\ q.level = "atom" /\ q.words = <<Sign("(")>> \o phrase.words \o <<Sign(")")>>
      /\ q.means = phrase.means
  BY <1>2
<1>4. phrase' = q
  <2>1. PICK w : w = <<Sign("(")>> \o phrase.words \o <<Sign(")")>> OBVIOUS
  <2>2. [phrase EXCEPT !.level = "atom", !.words = w]
          = [level |-> "atom", words |-> w, means |-> phrase.means]
    <3>1. DOMAIN phrase = {"level", "words", "means"} BY <1>1 DEF Shaped
    <3>2. PICK p : p = [phrase EXCEPT !.level = "atom", !.words = w] OBVIOUS
    <3>3. /\ DOMAIN p = {"level", "words", "means"} /\ p = [k \in DOMAIN p |-> p[k]]
          /\ p.level = "atom" /\ p.words = w /\ p.means = phrase.means
      BY <3>1, <3>2
    <3>4. p = [level |-> "atom", words |-> w, means |-> phrase.means] BY <3>3
    <3>5. QED BY <3>2, <3>4
  <2>3. QED BY <1>2, <2>1, <2>2 DEF Enclose
<1>5. PhraseRead(q) /\ Shaped(q)
  <2>1. PhraseRead(q) BY <1>1, <1>3, EncloseRead, Zenon
  <2>2. Shaped(q) BY <1>2 DEF Shaped
  <2>3. QED BY <2>1, <2>2
<1>6. spent' \in 0 .. vocabulary.words BY VocabulariesAssumption DEF Enclose, ExprInv
<1>7. QED BY <1>1, <1>4, <1>5, <1>6, WritesAPhrase DEF Enclose

LEMMA ExprInvSetAside == ExprInv /\ SetAside => ExprInv'
<1> SUFFICES ASSUME ExprInv, SetAside PROVE ExprInv' OBVIOUS
<1>1. PhraseRead(phrase) /\ Shaped(phrase) BY DEF ExprInv
<1>2. PhraseRead(NoPhrase) /\ Shaped(NoPhrase) BY DEF PhraseRead, Shaped, NoPhrase
<1>3. spent' \in 0 .. vocabulary.words BY DEF ExprInv, SetAside
<1>4. QED BY <1>1, <1>2, <1>3, WritesAPhrase DEF SetAside

LEMMA PhrasesGiveValues ==
  ASSUME Memory, NEW ws \in Seq(Word), EvalExpr(ws).ok
  PROVE  Value(EvalExpr(ws).value)
<1>1. PICK n \in Nat : n = Len(ws) BY TokensAre
<1>2. "or" \in Levels /\ 1 \in 1 .. n + 1 BY DEF Levels
<1>3. PICK r : r = DescentOf(ws, "or", 1) OBVIOUS
<1>4. Fine(n, r, 1) BY <1>1, <1>2, <1>3, ReadingsAreFine
<1>5. EvalExpr(ws) = IF r.ok /\ r.next = n + 1 THEN r ELSE Raises
  BY <1>1, <1>3 DEF EvalExpr, DescentOf
<1>6. r.ok /\ EvalExpr(ws) = r BY <1>5 DEF Raises
<1>7. QED BY <1>4, <1>6 DEF Fine

LEMMA ExprInvAssign ==
  ASSUME ExprInv, NEW n \in Name, NEW below \in BOOLEAN, Assign(n, below)
  PROVE  ExprInv'
<1>1. PICK r : r = EvalExpr(phrase.words) OBVIOUS
<1>2. /\ phrase # NoPhrase /\ aside = NoPhrase /\ r.ok
      /\ below => ~IsDict(r.value)
      /\ below => SetBelow(n, r.value) /\ store' = [store EXCEPT ![n] = <<"dict", r.value>>]
      /\ ~below => /\ slots' = [slots EXCEPT ![n] = r.value] /\ UNCHANGED <<heap, shared>>
                   /\ store' = [store EXCEPT ![n] = Content(r.value)]
      /\ phrase' = NoPhrase /\ UNCHANGED <<vocabulary, aside, spent>>
  BY <1>1 DEF Assign
<1>3. Remembers BY DEF ExprInv
<1>4. Value(r.value)
  <2>1. phrase.words \in Seq(Word) BY <1>2 DEF ExprInv, PhraseRead
  <2>2. QED BY <1>1, <1>2, <1>3, <2>1, PhrasesGiveValues DEF Remembers
<1>5. Remembers'
  <2>1. CASE below
    <3>1. Plain(r.value) BY <1>2, <1>4, <2>1 DEF Value, Plain, IsDict
    <3>2. QED BY <1>2, <1>3, <2>1, <3>1, BelowRemembers
  <2>2. CASE ~below BY <1>2, <1>3, <1>4, <2>2, NameRemembers
  <2>3. QED BY <2>1, <2>2
<1>6. vocabulary' \in Vocabularies /\ spent' \in 0 .. vocabulary'.words BY <1>2 DEF ExprInv
<1>7. phrase' = NoPhrase /\ aside' = NoPhrase BY <1>2
<1>8. \A q \in {phrase', aside'} : Shaped(q)' /\ PhraseRead(q)'
  BY <1>7 DEF PhraseRead, Shaped, NoPhrase
<1>9. QED BY <1>5, <1>6, <1>8 DEF ExprInv

LEMMA ExprInvHolds == ExprSpec => []ExprInv
<1>1. ExprInv /\ [ExprNext]_exprVars => ExprInv'
  <2> SUFFICES ASSUME ExprInv, [ExprNext]_exprVars PROVE ExprInv' OBVIOUS
  <2>1. CASE Begin BY <2>1, ExprInvBegin
  <2>2. CASE Join BY <2>2, ExprInvJoin
  <2>3. CASE Negate BY <2>3, ExprInvNegate
  <2>4. CASE Enclose BY <2>4, ExprInvEnclose
  <2>5. CASE SetAside BY <2>5, ExprInvSetAside
  <2>6. ASSUME NEW n \in vocabulary.names, NEW below \in BOOLEAN, Assign(n, below) PROVE ExprInv'
    <3>1. n \in Name BY VocabulariesAssumption DEF ExprInv
    <3>2. QED BY <2>6, <3>1, ExprInvAssign
  <2>7. CASE UNCHANGED exprVars
    <3>1. PICK q, a : q = phrase /\ a = aside OBVIOUS
    <3>2. Shaped(q) /\ PhraseRead(q) /\ Shaped(a) /\ PhraseRead(a) BY <3>1 DEF ExprInv
    <3>3. spent' \in 0 .. vocabulary.words BY <2>7 DEF ExprInv, exprVars
    <3>4. QED BY <2>7, <3>1, <3>2, <3>3, WritesAPhrase DEF exprVars
  <2>8. QED BY <2>1, <2>2, <2>3, <2>4, <2>5, <2>6, <2>7 DEF ExprNext
<1>2. QED BY <1>1, ExprInvInit, PTL DEF ExprSpec

(* A condition means what the grammar gives it, over any state that        *)
(* assignments have built, whatever its words, its length and the objects  *)
(* of the channel: the recursive descent of expr.py and the meaning of the *)
(* phrase it is made of agree, unless a quoted operator or a shared object *)
(* stands between them.                                                    *)
THEOREM ConditionsMean == ExprSpec => []ExpressionsMean
<1>1. ExprInv => ExpressionsMean
  <2> SUFFICES ASSUME ExprInv, phrase # NoPhrase, ~QuotesOperator, ~shared
               PROVE  LET r == EvalExpr(phrase.words) IN
                      IF phrase.means = Missing THEN ~r.ok
                      ELSE r.ok /\ Content(r.value) = phrase.means
    BY DEF ExpressionsMean
  <2>1. ~Quotes(phrase.words) BY DEF Quotes, QuotesOperator
  <2>2. Formed(phrase) /\ Reads(phrase) BY <2>1 DEF ExprInv, PhraseRead
  <2>3. QED BY <2>2, PhrasesMean
<1>2. QED BY <1>1, ExprInvHolds, PTL

-----------------------------------------------------------------------------
LEMMA RoutingTypesHold == RoutingSpec => []RoutingTypeOK
<1> DEFINE Inv ==
      /\ frontier \subseteq DOMAIN doc.type /\ (graph \in {"running", "waiting"} => Valid(doc))
      /\ graph \in {"new", "running", "waiting", "completed", "failed"}
      /\ steps \in Nat /\ resumes \in 0 .. MaxResumes /\ lowered \in BOOLEAN
<1>1. RoutingInit => Inv
  <2> SUFFICES ASSUME RoutingInit PROVE Inv OBVIOUS
  <2>1. 0 \in 0 .. MaxResumes BY ResumesAssumption
  <2>2. graph = "new" /\ frontier = {} /\ resumes = 0 /\ steps = 0 /\ lowered \in BOOLEAN
    BY DEF RoutingInit, Lowers
  <2>3. QED BY <2>1, <2>2
<1>2. VisitsCover /\ Inv /\ [RoutingNext]_routingVars => Inv'
  <2> SUFFICES ASSUME VisitsCover, Inv, [RoutingNext]_routingVars PROVE Inv' OBVIOUS
  <2>1. CASE UNCHANGED routingVars BY <2>1 DEF routingVars, Valid, Origins, Targets
  <2>2. CASE Invoke
    <3>1. StartNodes \subseteq DOMAIN doc.type BY DEF StartNodes
    <3>2. doc' = doc BY <2>2 DEF Invoke
    <3>3. Valid(doc)' = Valid(doc) BY <3>2
    <3>4. QED BY <2>2, <3>1, <3>3 DEF Invoke
  <2>3. ASSUME NEW base, Superstep(base), doc' = doc, graph \in {"running", "waiting"}
        PROVE  /\ frontier' \subseteq DOMAIN doc'.type
               /\ graph' \in {"running", "completed", "failed"} /\ Valid(doc')
    <3>1. Valid(doc) BY <2>3
    <3>2. Valid(doc') BY <2>3, <3>1
    <3>3. CASE UNCHANGED frontier /\ graph' = "failed" BY <2>3, <3>2, <3>3
    <3>4. CASE ~(UNCHANGED frontier /\ graph' = "failed")
      <4>1. PICK key \in Key : LET seen == Metadata(base)
                                  routed == frontier \cap Sources
                                  went == {Route(n, key, seen) : n \in routed}
                                  next == (went \cup UNION {EdgeTargets(n) : n \in frontier}) \ {End}
                              IN None \notin went /\ frontier' = next
                                 /\ graph' = IF next = {} THEN "completed" ELSE "running"
        BY <2>3, <3>4 DEF Superstep
      <4>2. PICK seen : seen = Metadata(base) OBVIOUS
      <4>3. /\ \A n \in frontier \cap Sources : Route(n, key, seen) # None
            /\ frontier' \subseteq ({Route(n, key, seen) : n \in frontier \cap Sources}
                                      \cup UNION {EdgeTargets(n) : n \in frontier}) \ {End}
            /\ graph' \in {"running", "completed"}
        BY <4>1, <4>2
      <4>4. ASSUME NEW n \in frontier \cap Sources PROVE Route(n, key, seen) \in Targets(doc)
        <5>1. n \in DOMAIN doc.branch /\ Route(n, key, seen) # None BY <4>3, <4>4 DEF Sources
        <5>2. CASE ~Exhausted(n, seen) /\ key \in DOMAIN doc.branch[n].to
          BY <5>1, <5>2 DEF Route, Targets
        <5>3. CASE ~(~Exhausted(n, seen) /\ key \in DOMAIN doc.branch[n].to)
          BY <5>1, <5>3 DEF Route, Targets
        <5>4. QED BY <5>2, <5>3
      <4>5. \A n : EdgeTargets(n) \subseteq Targets(doc) BY DEF EdgeTargets, Targets
      <4>6. frontier' \subseteq Targets(doc) \ {End} BY <4>3, <4>4, <4>5
      <4>7. frontier' \subseteq DOMAIN doc'.type BY <2>3, <3>1, <4>6 DEF Valid
      <4>8. QED BY <3>2, <4>3, <4>7
    <3>5. QED BY <3>3, <3>4
  <2>w. ASSUME WritingSuperstep, doc' = doc, graph \in {"running", "waiting"}
        PROVE  /\ frontier' \subseteq DOMAIN doc'.type /\ lowered' \in BOOLEAN
               /\ graph' \in {"running", "completed", "failed"} /\ Valid(doc')
    <3>1. PICK base \in Bases : Superstep(base) /\ lowered' = (lowered \/ Lowers(visits, base))
      BY <2>w DEF WritingSuperstep
    <3>2. lowered' \in BOOLEAN BY <3>1 DEF Lowers
    <3>3. QED BY <2>w, <2>3, <3>1, <3>2
  <2>4. CASE Step
    <3>1. WritingSuperstep /\ doc' = doc /\ graph \in {"running", "waiting"} BY <2>4 DEF Step
    <3>2. steps' \in Nat /\ UNCHANGED resumes BY <2>4 DEF Step
    <3>3. QED BY <2>w, <3>1, <3>2
  <2>5. CASE Overrun BY <2>5 DEF Overrun
  <2>6. CASE Interrupt
    <3>1. Valid(doc)' = Valid(doc) BY <2>6 DEF Interrupt
    <3>2. QED BY <2>6, <3>1 DEF Interrupt
  <2>7. CASE Resume
    <3>1. doc' = doc /\ graph \in {"running", "waiting"} /\ steps' \in Nat BY <2>7 DEF Resume
    <3>2. resumes' \in 0 .. MaxResumes BY <2>7, ResumesAssumption DEF Resume
    <3>3. WritingSuperstep BY <2>7 DEF Resume
    <3>4. QED BY <2>w, <3>1, <3>2, <3>3
  <2>8. CASE Redeliver
    <3>1. doc' = doc /\ graph' = graph /\ frontier' = StartNodes /\ steps' = 0 /\ lowered' \in BOOLEAN
      BY <2>8 DEF Redeliver, Lowers
    <3>2. resumes' \in 0 .. MaxResumes BY <2>8, ResumesAssumption DEF Redeliver
    <3>3. Valid(doc)' = Valid(doc) /\ StartNodes \subseteq DOMAIN doc.type
      BY <3>1 DEF StartNodes
    <3>4. QED BY <3>1, <3>2, <3>3
  <2>9. QED BY <2>1, <2>2, <2>4, <2>5, <2>6, <2>7, <2>8 DEF RoutingNext
<1>3. VisitsCover /\ Inv => RoutingTypeOK BY DEF VisitsCover, RoutingTypeOK
<1>4. QED BY <1>1, <1>2, <1>3, RoutingInitially, RoutingInductive, PTL DEF RoutingSpec

-----------------------------------------------------------------------------
(* A turn past the last step is the closing one.                           *)
StepsTyped ==
  /\ equipped \in BOOLEAN /\ turn \in {"planner", "tools", "done", "failed"}
  /\ step \in 0 .. MaxSteps + 1 /\ asked \in 0 .. MaxSteps /\ asked <= step
  /\ turn \in {"planner", "tools"} => step <= MaxSteps
  /\ deliveries \in 1 .. MaxDeliveries

LEMMA PlannerTypesHold == PlannerSpec => []PlannerTypeOK
<1>1. PlannerInit => StepsTyped BY PlannerAssumption DEF PlannerInit, StepsTyped
<1>2. StepsTyped /\ [PlannerNext]_plannerVars => StepsTyped'
  <2> SUFFICES ASSUME StepsTyped, [PlannerNext]_plannerVars PROVE StepsTyped' OBVIOUS
  <2>1. CASE UNCHANGED plannerVars BY <2>1 DEF plannerVars, StepsTyped
  <2>2. CASE GiveUp BY <2>2, PlannerAssumption DEF GiveUp, Say, StepsTyped
  <2>3. CASE Plan
    <3>0. step + 1 <= MaxSteps BY <2>3, PlannerAssumption DEF Plan, StepLimit, StepsTyped
    <3>1. /\ step' = step + 1 /\ asked' = asked + 1
          /\ turn' \in {"done", "tools"} /\ UNCHANGED <<equipped, deliveries>>
      BY <2>3 DEF Plan, Say
    <3>2. QED BY <3>0, <3>1, PlannerAssumption DEF StepsTyped
  <2>4. CASE RunTool BY <2>4 DEF RunTool, StepsTyped
  <2>5. CASE ToolsDone BY <2>5 DEF ToolsDone, StepsTyped
  <2>6. CASE Fail BY <2>6 DEF Fail, StepsTyped
  <2>7. CASE PlannerRedeliver BY <2>7, PlannerAssumption DEF PlannerRedeliver, StepsTyped
  <2>8. QED BY <2>1, <2>2, <2>3, <2>4, <2>5, <2>6, <2>7 DEF PlannerNext
<1>3. ASSUME PlannerInv, StepsTyped PROVE PlannerTypeOK
  <2>1. messages \in Seq(Message) /\ pending \in Seq(Call) BY <1>3 DEF PlannerInv, Typed
  <2>2. ASSUME NEW i \in DOMAIN messages PROVE messages[i].role \in {"assistant", "tool"}
    <3>1. messages[i] \in Message BY <2>1, <2>2
    <3>2. QED BY <3>1 DEF Message
  <2>3. \A i \in DOMAIN pending : pending[i] \in Call BY <2>1
  <2>4. QED BY <1>3, <2>2, <2>3 DEF StepsTyped, PlannerTypeOK
<1>4. QED BY <1>1, <1>2, <1>3, PlannerInitially, PlannerInductive, PTL DEF PlannerSpec

LEMMA ExprTypesHold == ExprSpec => []ExprTypeOK
<1>1. ASSUME ExprInv PROVE ExprTypeOK
  <2>1. Memory /\ shared \in BOOLEAN BY <1>1 DEF ExprInv, Remembers
  <2>2. ASSUME NEW n \in Name, IsDict(slots[n]) PROVE slots[n][2] \in Obj
    BY <2>1, <2>2 DEF Memory, Value
  <2>3. \A o \in Obj : ~IsDict(heap[o]) BY <2>1 DEF Memory, Plain, IsDict
  <2>4. QED BY <1>1, <2>1, <2>2, <2>3 DEF ExprInv, ExprTypeOK
<1>2. QED BY <1>1, ExprInvHolds, PTL

CheckTyped ==
  /\ doing \in {"node", "tools", "over", "blocked"} /\ edits \in 0 .. MaxEdits
  /\ unread \subseteq DOMAIN chat /\ respelt \in BOOLEAN

LEMMA GuardTypesHold == GuardSpec => []GuardTypeOK
<1>1. GuardInit => CheckTyped
  <2>1. 0 \in 0 .. MaxEdits BY GuardAssumption
  <2>2. GuardInit => doing = "node" /\ edits = 0 /\ unread = {} /\ respelt = FALSE
    BY DEF GuardInit
  <2>3. QED BY <2>1, <2>2 DEF CheckTyped
<1>2. MaskInv /\ CheckTyped /\ [GuardNext]_guardVars => CheckTyped'
  <2> SUFFICES ASSUME MaskInv, CheckTyped, [GuardNext]_guardVars PROVE CheckTyped' OBVIOUS
  <2>1. CASE UNCHANGED <<doing, edits, unread, chat, respelt>> BY <2>1 DEF CheckTyped
  <2>2. ASSUME NEW c \in Code, NEW status \in {"on", "off"}, SetRule(c, status)
        PROVE  CheckTyped'
    <3>1. edits' = edits + 1 /\ edits < MaxEdits /\ UNCHANGED <<doing, unread, chat, respelt>>
      BY <2>2 DEF SetRule, graphVars
    <3>2. QED BY <3>1, GuardAssumption DEF CheckTyped
  <2>3. CASE BlockInput BY <2>3 DEF BlockInput, loadVars, CheckTyped
  <2>4. ASSUME NEW t \in Sayings, NEW args \in Arguments \cup {<<>>}, Respond(t, args)
        PROVE  CheckTyped'
    <3>1. edits' = edits BY <2>4 DEF Respond, loadVars
    <3>2. CASE doing' = "blocked" /\ UNCHANGED <<chat, unread, respelt>>
      BY <3>1, <3>2 DEF CheckTyped
    <3>3. CASE ~(doing' = "blocked" /\ UNCHANGED <<chat, unread, respelt>>)
      <4>1. PICK n, g, said : n = Len(chat) /\ g = Given /\ chat' =
              Append(g, [role |-> "assistant", text |-> said, args |-> args])
        BY <2>4, <3>3 DEF Respond
      <4>2. /\ unread' \subseteq unread \cup {Len(chat) + 1} /\ doing' = AfterAnswer(args # <<>>)
            /\ respelt' = (respelt \/ Spellings \subseteq Within(t))
        BY <2>4, <3>3 DEF Respond
      <4>3. chat \in Seq(ChatMsg) /\ unread \subseteq DOMAIN chat BY DEF MaskInv, CheckTyped
      <4>4. g \in Seq(ChatMsg) /\ Len(g) = n /\ n \in Nat BY <4>1, <4>3, GivenFits
      <4>5. DOMAIN chat' = 1 .. n + 1 /\ DOMAIN chat = 1 .. n BY <4>1, <4>3, <4>4
      <4>6. unread' \subseteq DOMAIN chat' BY <4>1, <4>2, <4>3, <4>4, <4>5
      <4>7. doing' \in {"tools", "over", "node"} BY <4>2 DEF AfterAnswer
      <4>8. respelt' \in BOOLEAN BY <4>2, Zenon DEF CheckTyped
      <4>9. QED BY <3>1, <4>6, <4>7, <4>8 DEF CheckTyped
    <3>4. QED BY <3>2, <3>3
  <2>5. ASSUME NEW t \in Findings, UseTools(t) PROVE CheckTyped'
    <3>1. PICK n, m : n = Len(chat) /\ m = [role |-> "tool", text |-> t, args |-> <<>>] OBVIOUS
    <3>2. /\ doing' = "node" /\ chat' = Append(chat, m) /\ edits' = edits
          /\ UNCHANGED <<unread, respelt>>
      BY <2>5, <3>1 DEF UseTools, loadVars
    <3>3. chat \in Seq(ChatMsg) /\ unread \subseteq DOMAIN chat BY DEF MaskInv, CheckTyped
    <3>4. n \in Nat /\ DOMAIN chat = 1 .. n /\ DOMAIN chat' = 1 .. n + 1 BY <3>1, <3>2, <3>3
    <3>5. QED BY <3>2, <3>3, <3>4 DEF CheckTyped
  <2>6. QED
    BY <2>1, <2>2, <2>3, <2>4, <2>5
    DEF GuardNext, guardVars, graphVars, ReadRules, AddBuiltins, CommitRules
<1>3. ASSUME LoadInv, MaskInv, CheckTyped PROVE GuardTypeOK
  <2>1. chat \in Seq(ChatMsg) /\ shape \in {"planner", "flow"} BY <1>3 DEF MaskInv
  <2>2. ASSUME NEW i \in DOMAIN chat
        PROVE  /\ chat[i].role \in {"user", "assistant", "tool"}
               /\ chat[i].args \in Arguments \cup {<<>>}
    <3>1. chat[i] \in ChatMsg BY <2>1, <2>2
    <3>2. QED BY <3>1 DEF ChatMsg
  <2>3. QED BY <1>3, <2>1, <2>2 DEF LoadInv, CheckTyped, GuardTypeOK
<1>4. QED
  BY <1>1, <1>2, <1>3, GuardInitially, LoadInductive, MaskInitially, MaskInductive, PTL
  DEF GuardSpec
=============================================================================

----------------------------- MODULE MCWorkers -----------------------------
(***************************************************************************)
(* What a worker computes besides driving a run: beat ticks, ingestion     *)
(* jobs, the graphs of a flow and of the planner, the conditions of a      *)
(* flow, the splitting of a model's stream and of a document, the traces,  *)
(* the guardrail around the nodes of a graph.                              *)
(* They share no state in the model, so a behaviour moves the one that     *)
(* Init chose.                                                             *)
(***************************************************************************)
EXTENDS BeatDispatch, KnowledgeIngestion, GraphRouting, PlannerLoop, ThinkTags, Chunker,
        RunTrace, Expressions, Guardrails, TLC

VARIABLE part

Parts == {"beat", "ingest", "routing", "planner", "think", "chunk", "trace", "expr",
          "guard"}

(* A part that is not explored begins in one of its initial states.        *)
WorkersInit ==
  /\ part \in Parts
  /\ ChunkInit
  /\ part # "chunk" => text = <<>> /\ strategy = "fixed" /\ size = Min(Sizes) /\ overlap = 0
  /\ RoutingInit
  /\ part # "routing" => doc = CHOOSE d \in Documents : TRUE
  /\ PlannerInit
  /\ part # "planner" => equipped
  /\ RunInit
  /\ part # "trace" => eager
  /\ ExprInit
  /\ part # "expr" => vocabulary = CHOOSE v \in Vocabularies : TRUE
  /\ GuardInit
  /\ part # "guard" => /\ table = CHOOSE t \in Tables : TRUE
                       /\ shape = "flow" /\ chat[1].text = CHOOSE q \in Questions : TRUE
  /\ BeatInit /\ IngestInit /\ ThinkInit

WorkersNext ==
  \/ /\ part = "beat" /\ BeatNext
     /\ UNCHANGED <<part, ingestVars, routingVars, plannerVars,
                    thinkVars, chunkVars, traceVars, exprVars, guardVars>>
  \/ /\ part = "ingest" /\ IngestNext
     /\ UNCHANGED <<part, beatVars, routingVars, plannerVars,
                    thinkVars, chunkVars, traceVars, exprVars, guardVars>>
  \/ /\ part = "routing" /\ RoutingNext
     /\ UNCHANGED <<part, beatVars, ingestVars, plannerVars, thinkVars,
                    chunkVars, traceVars, exprVars, guardVars>>
  \/ /\ part = "planner" /\ PlannerNext
     /\ UNCHANGED <<part, beatVars, ingestVars, routingVars, thinkVars,
                    chunkVars, traceVars, exprVars, guardVars>>
  \/ /\ part = "think" /\ ThinkNext
     /\ UNCHANGED <<part, beatVars, ingestVars, routingVars, plannerVars,
                    chunkVars, traceVars, exprVars, guardVars>>
  \/ /\ part = "chunk" /\ ChunkNext
     /\ UNCHANGED <<part, beatVars, ingestVars, routingVars, plannerVars,
                    thinkVars, traceVars, exprVars, guardVars>>
  \/ /\ part = "trace" /\ TraceNext
     /\ UNCHANGED <<part, beatVars, ingestVars, routingVars, plannerVars,
                    thinkVars, chunkVars, exprVars, guardVars>>
  \/ /\ part = "expr" /\ ExprNext
     /\ UNCHANGED <<part, beatVars, ingestVars, routingVars, plannerVars,
                    thinkVars, chunkVars, traceVars, guardVars>>
  \/ /\ part = "guard" /\ GuardNext
     /\ UNCHANGED <<part, beatVars, ingestVars, routingVars, plannerVars,
                    thinkVars, chunkVars, traceVars, exprVars>>

WorkersSpec ==
  WorkersInit /\ [][WorkersNext]_<<part, beatVars, ingestVars, routingVars, plannerVars,
                                   thinkVars, chunkVars, traceVars, exprVars, guardVars>>

(* Every variable of the nine modules has its type.                       *)
WorkersTypeOK ==
  /\ BeatTypeOK /\ IngestTypeOK /\ RoutingTypeOK /\ PlannerTypeOK
  /\ ThinkTypeOK /\ ChunkTypeOK /\ TraceTypeOK /\ ExprTypeOK
  /\ GuardTypeOK

-----------------------------------------------------------------------------
(* Every short text, and the long ones with up to two characters that are  *)
(* not letters: a size of 12 refuses a cut in the first quarter of a chunk.*)
ShortTexts == UNION {[1 .. n -> Character] : n \in 0 .. 4}
LongTexts == {[i \in 1 .. 14 |-> IF i = p THEN c ELSE IF i = q THEN d ELSE "x"] :
                p \in 1 .. 14, q \in 1 .. 14, c \in Character, d \in Character}
SomeTexts == ShortTexts \cup LongTexts

EveryFour == [t \in BeatTask |-> 4]

Flow(type, edges, branch, writes) ==
  [type |-> type, edges |-> edges, branch |-> branch, writes |-> writes,
   given |-> [n \in Node |-> 0]]
Case(to, default, bounded, limit) ==
  [to |-> to, default |-> default, bounded |-> bounded, limit |-> limit]
Two(a, b) == ("again" :> a @@ "done" :> b)
NoBranch == [n \in {} |-> {}]
Line(kind) == ("s" :> "start" @@ "w" :> kind @@ "e" :> "end")

(* A retry with a default and an edge its branch overrides; one without a  *)
(* default; one nothing bounds; a review that sends back to the author; a  *)
(* child flow that is repeated; parallel nodes, with and without a channel *)
(* in common; a document that names a node it does not have; a loop that   *)
(* assigns its own counters, and one that begins with counters.            *)
SmallDocuments == {
  Flow(Line("llm"), {<<"s", "w">>, <<"w", "e">>},
       "w" :> Case(Two("w", "e"), "e", TRUE, 2), {}),
  Flow(Line("assign"), {<<"s", "w">>}, "w" :> Case(Two("w", "e"), "none", TRUE, 2), {}),
  Flow(Line("llm"), {<<"s", "w">>}, "w" :> Case(Two("w", "e"), "__end__", FALSE, 0), {}),
  Flow(Line("llm") @@ ("h" :> "hitl"), {<<"s", "h">>, <<"w", "h">>},
       "h" :> Case(Two("w", "e"), "__end__", TRUE, 1), {}),
  Flow(Line("subgraph"), {<<"s", "w">>}, "w" :> Case(Two("s", "e"), "e", TRUE, 1), {"w"}),
  Flow(Line("tool") @@ ("v" :> "custom"), {<<"s", "w">>, <<"s", "v">>, <<"w", "e">>},
       "v" :> Case(Two("v", "e"), "e", TRUE, 1), {}),
  Flow(Line("tool") @@ ("v" :> "llm"), {<<"s", "w">>, <<"s", "v">>}, NoBranch, {}),
  Flow(Line("tool"), {<<"s", "w">>, <<"w", "gone">>}, NoBranch, {}),
  Flow(Line("assign"), {<<"s", "w">>}, "w" :> Case(Two("w", "e"), "e", TRUE, 2), {"w"}),
  [Flow(Line("llm"), {<<"s", "w">>}, "w" :> Case(Two("w", "e"), "e", TRUE, 2), {})
     EXCEPT !.given = [n \in Node |-> 1]] }
SomeCounters == {[n \in Node |-> k] : k \in {-1, 0, 2}}

(* All operators over literals, a quoted operator and a channel that does  *)
(* not exist; then assignments to names and below them; then assignments   *)
(* of conditions that quote parentheses or nothing.                        *)
Variable(n) == <<"path", <<"variables", n>>>>
SmallVocabularies == {
  [leaves |-> {<<"bool", TRUE>>, <<"num", 1>>, <<"quoted", "and">>, <<"quoted", "not">>,
               <<"path", <<"elsewhere", "x">>>>}, names |-> {}, words |-> 6],
  [leaves |-> {<<"num", 1>>, Variable("x"), Variable("d"),
               <<"path", <<"variables", "d", "a">>>>}, names |-> Name, words |-> 5],
  [leaves |-> {<<"quoted", "">>, <<"quoted", "(">>, <<"quoted", ")">>, Variable("x")},
   names |-> {"x"}, words |-> 6] }

(* The built-in rules that do something, and what operators may add.       *)
Rule(at, type, action) == [stage |-> at, type |-> type, action |-> action]
RuleBook ==
  "jailbreak" :> Rule("input", "jailbreak", "block") @@ "pii" :> Rule("output", "pii", "mask")
    @@ "words" :> Rule("output", "keyword", "mask") @@ "ids" :> Rule("input", "pii", "mask")
    @@ "bans" :> Rule("output", "keyword", "block")
Loaded(on, off) ==
  [c \in Code |-> IF c \in on THEN "on" ELSE IF c \in off THEN "off" ELSE "absent"]
SomeTables == {Loaded({}, {}), Loaded(Code \ {"bans"}, {"bans"}),
               Loaded({"bans", "pii"}, {"jailbreak", "words", "ids"})}
SomeQuestions == {<<"mail", "word">>, <<"inject">>}
SomeSayings == {<<>>, <<"mail">>, <<"WORD">>, <<"word", "WORD">>, <<"badge">>}
SomeArguments == {<<"mail">>}
SomeFindings == {<<"mail">>, <<"inject">>}
=============================================================================

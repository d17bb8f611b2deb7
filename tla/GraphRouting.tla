---------------------------- MODULE GraphRouting ----------------------------
(***************************************************************************)
(* The graph a v1 flow document compiles to, executed one superstep at a   *)
(* time: what the nodes of a superstep write, where edges and branches     *)
(* lead, and how often a branch with max_visits takes one of its cases.    *)
(* The superstep engine is LangGraph, modelled from what compile_v1 and    *)
(* the worker rely on.  State is abstracted to the visit counters; the     *)
(* value a router reads is any key.                                        *)
(***************************************************************************)
EXTENDS Integers, FiniteSets

CONSTANTS Node,            \* node ids
          Key,             \* values a router can compute
          Documents,       \* the documents a run may be given
          Counters,        \* visit counters a document's own writes may leave
          RecursionLimit,  \* supersteps of one invocation
          MaxResumes       \* bound: resumes and redeliveries of a run

(* _graph_invariants: a branch is at a node; max_visits, where there is    *)
(* one, is a number of visits.  given are the counters in the metadata of  *)
(* the input, which an input_map may fill; writes are the nodes with an    *)
(* assignment or output_map onto the metadata's counters or all of it.     *)
ASSUME DocumentsAssumption ==
  \A d \in Documents : /\ DOMAIN d.branch \subseteq Node
                       /\ \A n \in DOMAIN d.branch : d.branch[n].limit \in Nat
                       /\ d.given \in [Node -> Int]
ASSUME CountersAssumption == Counters \subseteq [Node -> Int]
ASSUME ResumesAssumption == MaxResumes \in Nat

VARIABLES doc,       \* the document of the run
          frontier,  \* nodes of the next superstep
          visits,    \* metadata.__branch_visits__, by source of the branch
          graph,     \* "new", "running", "waiting", "completed", "failed"
          steps,     \* supersteps of this invocation
          resumes,
          taken,     \* history: cases taken at each branch, default excluded
          lowered    \* history: the document has set a counter back

routingVars == <<doc, frontier, visits, graph, steps, resumes, taken, lowered>>

None == "none"
End == "__end__"
Sources == DOMAIN doc.branch
Zero == [n \in Node |-> 0]
Lowers(before, after) == \E n \in Node : after[n] < before[n]

(* FlowDefinitionV1._graph_invariants and _index_branches: one start, an   *)
(* end, endpoints that exist.  A branch per source is its representation.  *)
Origins(d) == {e[1] : e \in d.edges} \cup DOMAIN d.branch
Targets(d) ==
  {e[2] : e \in d.edges} \cup
  UNION {{d.branch[s].to[k] : k \in DOMAIN d.branch[s].to} \cup ({d.branch[s].default} \ {None}) :
           s \in DOMAIN d.branch}
Valid(d) ==
  /\ Cardinality({n \in DOMAIN d.type : d.type[n] = "start"}) = 1
  /\ \E n \in DOMAIN d.type : d.type[n] = "end"
  /\ Origins(d) \cup (Targets(d) \ {End}) \subseteq DOMAIN d.type

RoutingInit ==
  /\ doc \in Documents
  /\ frontier = {}
  /\ visits = doc.given
  /\ graph = "new"
  /\ steps = 0
  /\ resumes = 0
  /\ taken = Zero
  /\ lowered = Lowers(Zero, doc.given)

StartNodes == {n \in DOMAIN doc.type : doc.type[n] = "start"}

(* compile_v1_builder and the invocation with a fresh input.               *)
Invoke ==
  /\ graph = "new"
  /\ IF Valid(doc)
     THEN graph' = "running" /\ frontier' = StartNodes
     ELSE graph' = "failed" /\ UNCHANGED frontier
  /\ UNCHANGED <<doc, visits, steps, resumes, taken, lowered>>

-----------------------------------------------------------------------------
(* The channels a node returns; a branch at the node adds its metadata.    *)
Channels(n) ==
  LET own == CASE doc.type[n] = "llm"      -> {"messages", "variables"}
               [] doc.type[n] = "tool"     -> {"variables"}
               [] doc.type[n] = "hitl"     -> {"variables"}
               [] doc.type[n] = "assign"   -> {"variables", "metadata"}
               [] doc.type[n] = "subgraph" -> {"messages", "variables", "metadata"}
               [] OTHER                    -> {}
  IN own \cup IF n \in Sources THEN {"metadata"} ELSE {}

(* A channel keeps the last value: two writers in a superstep are refused. *)
Conflict == \E m, n \in frontier : m # n /\ Channels(m) \cap Channels(n) # {}

Interrupting == {n \in frontier : doc.type[n] \in {"hitl", "subgraph"}}

(* What an assignment, which may target the metadata, or an output_map     *)
(* leaves of the counters in this superstep: any of Counters, or, when its *)
(* target is elsewhere or the child left it empty, what there was.  A      *)
(* value that is no number counts as none, and is 0 here.                  *)
Writers == {n \in frontier : doc.type[n] \in {"assign", "subgraph"} /\ n \in doc.writes}
Bases == {visits} \cup (IF Writers = {} THEN {} ELSE Counters)

(* _bump_visits, over the metadata the node returned.                      *)
BumpVisits(n, base) == [base EXCEPT ![n] = @ + 1]

Metadata(base) ==
  LET b == {n \in frontier : n \in Sources} IN
  IF b = {} THEN base ELSE BumpVisits(CHOOSE n \in b : TRUE, base)

(* _router: exhausted, a case, the default, or an error.  AllowsOneMore    *)
(* counts the visits before this one.                                      *)
AllowsOneMore(n, seen) == doc.branch[n].bounded /\ seen[n] > doc.branch[n].limit + 1
Exhausted(n, seen) == doc.branch[n].bounded /\ seen[n] > doc.branch[n].limit
Route(n, key, seen) ==
  LET b == doc.branch[n] IN
  IF ~Exhausted(n, seen) /\ key \in DOMAIN b.to THEN b.to[key] ELSE b.default
TakesCase(n, key, seen) == ~Exhausted(n, seen) /\ key \in DOMAIN doc.branch[n].to

(* Edges of a node that has a branch are left out of the graph.            *)
EdgeTargets(n) == {e[2] : e \in {x \in doc.edges : x[1] = n /\ n \notin Sources}}

(* A superstep whose nodes all return: its writes are applied together.    *)
Superstep(base) ==
  /\ IF Conflict
     THEN /\ graph' = "failed"
          /\ UNCHANGED <<frontier, visits, taken>>
     ELSE \E key \in Key :
          LET seen == Metadata(base)
              routed == frontier \cap Sources
              went == {Route(n, key, seen) : n \in routed}
              next == (went \cup UNION {EdgeTargets(n) : n \in frontier}) \ {End}
          IN IF None \in went
             THEN /\ graph' = "failed"
                  /\ UNCHANGED <<frontier, visits, taken>>
             ELSE /\ visits' = seen
                  /\ taken' = [n \in Node |->
                       IF n \in routed /\ TakesCase(n, key, seen) THEN taken[n] + 1 ELSE taken[n]]
                  /\ frontier' = next
                  /\ graph' = IF next = {} THEN "completed" ELSE "running"

WritingSuperstep ==
  \E base \in Bases : /\ Superstep(base)
                      /\ lowered' = (lowered \/ Lowers(visits, base))

Step ==
  /\ graph = "running" /\ Interrupting = {} /\ steps < RecursionLimit
  /\ WritingSuperstep
  /\ steps' = steps + 1
  /\ UNCHANGED <<doc, resumes>>

(* A loop that nothing ends: the engine's limit does.                      *)
Overrun ==
  /\ graph = "running" /\ steps >= RecursionLimit
  /\ graph' = "failed"
  /\ UNCHANGED <<doc, frontier, visits, steps, resumes, taken, lowered>>

(* A HITL or subgraph node interrupts; its superstep waits for it.         *)
Interrupt ==
  /\ graph = "running" /\ Interrupting # {} /\ steps < RecursionLimit
  /\ graph' = "waiting"
  /\ UNCHANGED <<doc, frontier, visits, steps, resumes, taken, lowered>>

(* Command(resume): the superstep completes, in a new invocation.          *)
Resume ==
  /\ graph = "waiting" /\ resumes < MaxResumes
  /\ resumes' = resumes + 1
  /\ steps' = 1
  /\ WritingSuperstep
  /\ UNCHANGED doc

(* A start envelope delivered again: the fresh input replaces every        *)
(* channel of the checkpoint and the graph begins at its entry.            *)
Redeliver ==
  /\ graph = "running" /\ resumes < MaxResumes
  /\ resumes' = resumes + 1
  /\ frontier' = StartNodes
  /\ visits' = doc.given /\ taken' = Zero /\ steps' = 0
  /\ lowered' = Lowers(Zero, doc.given)
  /\ UNCHANGED <<doc, graph>>

RoutingNext == Invoke \/ Step \/ Overrun \/ Interrupt \/ Resume \/ Redeliver

RoutingSpec == RoutingInit /\ [][RoutingNext]_routingVars

-----------------------------------------------------------------------------
RoutingTypeOK ==
  /\ doc \in Documents
  /\ frontier \subseteq DOMAIN doc.type
  /\ visits \in [Node -> Int] /\ taken \in [Node -> Nat]
  /\ graph \in {"new", "running", "waiting", "completed", "failed"}
  /\ steps \in Nat /\ resumes \in 0 .. MaxResumes /\ lowered \in BOOLEAN

(* In one execution a branch with max_visits takes its cases at most that  *)
(* many times, through waits, resumes, supersteps of several nodes and     *)
(* writes of the document's own.  Exempt is a run whose counters the       *)
(* document itself has set back: the counters lie in the metadata, which   *)
(* an assign node, an output_map and the input of a child flow may write.  *)
CasesWithinBudget ==
  ~lowered => \A n \in Sources : doc.branch[n].bounded => taken[n] <= doc.branch[n].limit
=============================================================================

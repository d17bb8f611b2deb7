----------------------------- MODULE Guardrails -----------------------------
(***************************************************************************)
(* The content guardrail.  Every execution loads its rules, those of the   *)
(* table and the built-in ones, which the first execution inserts.  Around *)
(* the nodes of the graph, wrap_guardrail_node checks what an entry node   *)
(* is given and what an LLM node returns.  A text is the sequence of the   *)
(* things in it that some rule may match, or "plain".                      *)
(***************************************************************************)
EXTENDS Naturals, Sequences, FiniteSets

CONSTANTS Execution,    \* executions that load their rules at the same time
          Watched,      \* the one whose graph is followed
          BuiltinRule,  \* codes of builtin_specs
          OwnRule,      \* other codes of sec_guardrail_rule
          RuleFor,      \* [Code -> [stage, type, action]]
          Tables,       \* contents of the table at the beginning
          MaxEdits,     \* bound: changes of the table by operators
          Questions,    \* what a user may ask,
          Sayings,      \* a model answer,
          Arguments,    \* the arguments of its tool calls say,
          Findings,     \* and a tool return
          MaxSaid       \* bound: answers of the model in a run

Code == BuiltinRule \cup OwnRule
RuleSpec == [stage : {"input", "output"}, type : {"jailbreak", "keyword", "pii"},
             action : {"block", "mask", "log"}]

(* What a text is made of; "badge" is what only the extra_patterns of a    *)
(* rule find.                                                              *)
Thing == {"plain", "inject", "word", "WORD", "mail", "badge", "masked"}
Text == Seq(Thing)

ASSUME GuardAssumption ==
  /\ Watched \in Execution /\ MaxSaid \in Nat /\ MaxEdits \in Nat
  /\ RuleFor \in [Code -> RuleSpec]
  /\ Tables \subseteq [Code -> {"absent", "on", "off"}]
  /\ Questions \cup Sayings \cup Findings \subseteq Text
  /\ Arguments \subseteq Text \ {<<>>}

VARIABLES table,     \* [Code -> "absent", "on", "off"]: sec_guardrail_rule, is_enabled
          phase,     \* [Execution -> "start", "read", "added", "ready", "failed"]
          specs,     \* [Execution -> SUBSET Code]: what load_rule_specs has so far
          shape,     \* "planner": planner and tools in turn; "flow": LLM nodes in a row
          chat,      \* messages of the graph's state: a role, the content (text) and,
                     \* of an answer that calls tools, the arguments of the calls
          lastOutput,      \* variables.last_output; <<>> is the empty string
          doing,     \* "node", "tools", "over" or "blocked"
          edits

VARIABLES overtaken, \* history: executions between whose reading and inserting the
                     \* table got new rows
          hidden,    \* history: executions that began while a built-in rule was off
          unread,    \* history: messages for which the check looked at another text
          respelt    \* history: a keyword was said in two spellings at once

guardVars == <<table, phase, specs, shape, chat, lastOutput, doing, edits,
               overtaken, hidden, unread, respelt>>
loadVars == <<table, phase, specs, edits, overtaken, hidden>>
graphVars == <<shape, chat, lastOutput, doing, unread, respelt>>

GuardInit ==
  /\ table \in Tables
  /\ phase = [e \in Execution |-> "start"]
  /\ specs = [e \in Execution |-> {}]
  /\ shape \in {"planner", "flow"}
  /\ \E q \in Questions : chat = <<[role |-> "user", text |-> q, args |-> <<>>]>>
  /\ lastOutput = <<>> /\ doing = "node"
  /\ edits = 0
  /\ overtaken = {} /\ hidden = {} /\ unread = {} /\ respelt = FALSE

-----------------------------------------------------------------------------
(* load_rule_specs, in a transaction of its own: the enabled rows, then an *)
(* insert for every built-in code that is not among them.                  *)

ReadRules(e) ==
  /\ phase[e] = "start"
  /\ phase' = [phase EXCEPT ![e] = "read"]
  /\ specs' = [specs EXCEPT ![e] = {c \in Code : table[c] = "on"}]
  /\ hidden' = IF \E c \in BuiltinRule : table[c] = "off" THEN hidden \cup {e} ELSE hidden
  /\ UNCHANGED <<table, edits, overtaken>> /\ UNCHANGED graphVars

(* What it inserts; AllBuiltins does not skip the codes it has read.       *)
AllBuiltins(e) == BuiltinRule
ToInsert(e) == BuiltinRule \ specs[e]

(* Rows of a transaction that is still open; an insert of the same unique  *)
(* code waits for them.                                                    *)
Inserting == {e \in Execution : phase[e] = "added"}

AddBuiltins(e) ==
  /\ phase[e] = "read"
  /\ ToInsert(e) = {} \/ Inserting = {}
  /\ IF \A c \in ToInsert(e) : table[c] = "absent"
     THEN /\ phase' = [phase EXCEPT ![e] = IF ToInsert(e) = {} THEN "ready" ELSE "added"]
          /\ specs' = [specs EXCEPT ![e] = @ \cup BuiltinRule]
     ELSE phase' = [phase EXCEPT ![e] = "failed"] /\ UNCHANGED specs
  /\ UNCHANGED <<table, edits, overtaken, hidden>> /\ UNCHANGED graphVars

Reading == {e \in Execution : phase[e] = "read"}

CommitRules(e) ==
  /\ phase[e] = "added"
  /\ phase' = [phase EXCEPT ![e] = "ready"]
  /\ table' = [c \in Code |-> IF table[c] = "absent" /\ c \in specs[e] THEN "on" ELSE table[c]]
  /\ overtaken' = overtaken \cup Reading
  /\ UNCHANGED <<specs, edits, hidden>> /\ UNCHANGED graphVars

(* Rules have no endpoint: operators add rows and set is_enabled.  It      *)
(* matters only while somebody has still to load.                          *)
SetRule(c, status) ==
  /\ edits < MaxEdits /\ \E e \in Execution : phase[e] # "ready"
  /\ table[c] # status
  /\ c \in BuiltinRule => Inserting = {}
  /\ table' = [table EXCEPT ![c] = status]
  /\ edits' = edits + 1
  /\ overtaken' = IF table[c] = "absent" THEN overtaken \cup Reading ELSE overtaken
  /\ UNCHANGED <<phase, specs, hidden>> /\ UNCHANGED graphVars

-----------------------------------------------------------------------------
(* The evaluator: which rules match a text, and what is done to it.        *)

Spellings == {"word", "WORD"}
(* What the patterns of redact_text match.                                 *)
Personal == {"mail"}

Within(t) == {t[i] : i \in DOMAIN t}
Matches(c) == CASE RuleFor[c].type = "jailbreak" -> {"inject"}
                [] RuleFor[c].type = "keyword" -> Spellings
                [] RuleFor[c].type = "pii" -> Personal \cup {"badge"}

Hits(stage, t) == {c \in specs[Watched] : RuleFor[c].stage = stage
                                            /\ Within(t) \cap Matches(c) # {}}
ActionsOf(hits) == {RuleFor[c].action : c \in hits}
Blocks(hits) == "block" \in ActionsOf(hits)
Masks(hits) == ~Blocks(hits) /\ "mask" \in ActionsOf(hits)

Starred(t, things) == [i \in DOMAIN t |-> IF t[i] \in things THEN "masked" ELSE t[i]]
RedactText(t) == Starred(t, Personal)

(* The excerpt is the first occurrence, as it is spelled.                  *)
Excerpt(c, t) == LET at == {i \in DOMAIN t : t[i] \in Matches(c)}
                 IN t[CHOOSE i \in at : \A j \in at : i <= j]

(* apply_masks: redact_text for a hit of type pii, else the excerpt        *)
(* wherever it is found in that spelling.                                  *)
Hidden(hits, t) ==
  UNION {IF RuleFor[c].type = "pii" THEN Personal ELSE {Excerpt(c, t)} :
           c \in {h \in hits : RuleFor[h].action = "mask"}}
ApplyMasks(hits, t) == Starred(t, Hidden(hits, t))

(* _input_text: all messages at once.                                      *)
Upto[n \in 0 .. Len(chat)] == IF n = 0 THEN <<>> ELSE Upto[n - 1] \o chat[n].text
Whole == Upto[Len(chat)]

(* _overlap_mask: a message in which nothing was masked is found in the    *)
(* masked whole and stays; any other is given to redact_text instead.      *)
OverlapMask(t, hidings) == IF Starred(t, hidings) = t THEN t ELSE RedactText(t)

-----------------------------------------------------------------------------
(* The graph, with its nodes wrapped.                                      *)

Ready == \A e \in Execution : phase[e] \in {"ready", "failed"}
Answers == {i \in DOMAIN chat : chat[i].role = "assistant"}
Said(n) == Cardinality(Answers) = n

(* The planner is an entry node every time; of LLM nodes in a row, the     *)
(* first is.                                                               *)
IsEntry == shape = "planner" \/ Answers = {}
InputHits == IF IsEntry THEN Hits("input", Whole) ELSE {}

(* _mask_input_state: what the node is given, and returns with its answer. *)
(* It writes the content; the arguments of earlier calls go along.         *)
Given ==
  IF ~Masks(InputHits) THEN chat
  ELSE [i \in DOMAIN chat |->
          [chat[i] EXCEPT !.text = OverlapMask(@, Hidden(InputHits, Whole))]]

InNode == Ready /\ phase[Watched] = "ready" /\ doing = "node"

(* check_input raises: the run fails before the model is asked.            *)
BlockInput ==
  /\ InNode /\ Blocks(InputHits)
  /\ doing' = "blocked"
  /\ UNCHANGED <<shape, chat, lastOutput, unread, respelt>> /\ UNCHANGED loadVars

(* What the node returns as last_output: a turn that calls tools does not  *)
(* set it.  _output_text prefers it to the message.                        *)
LastOutput(t, calls) == IF calls THEN lastOutput ELSE t
OutputText(t, calls) == IF LastOutput(t, calls) # <<>> THEN LastOutput(t, calls) ELSE t

(* _mask_output_state writes the masked text to both; MaskLastOnly forgets *)
(* the message.                                                            *)
MaskLastOnly(t, checked, hits) == t
MessageText(t, checked, hits) == IF Masks(hits) THEN ApplyMasks(hits, checked) ELSE t

AfterAnswer(calls) ==
  IF calls THEN "tools"
  ELSE IF shape = "planner" \/ Said(MaxSaid - 1) THEN "over" ELSE "node"

(* An LLM node answers t, in the planner perhaps with calls of tools whose *)
(* arguments say args, and check_output looks at the text.  The arguments  *)
(* are a field of the message that nothing checks and nothing masks.       *)
Respond(t, args) ==
  LET calls == args # <<>>
      checked == OutputText(t, calls)
      hits == Hits("output", checked)
  IN
  /\ InNode /\ ~Blocks(InputHits)
  /\ Cardinality(Answers) < MaxSaid /\ (calls => shape = "planner")
  /\ IF Blocks(hits)
     THEN doing' = "blocked" /\ UNCHANGED <<chat, lastOutput, unread, respelt>>
     ELSE /\ chat' = Append(Given, [role |-> "assistant",
                                     text |-> MessageText(t, checked, hits), args |-> args])
          /\ lastOutput' = IF Masks(hits) THEN ApplyMasks(hits, checked) ELSE LastOutput(t, calls)
          /\ doing' = AfterAnswer(calls)
          /\ unread' = IF checked = t THEN unread ELSE unread \cup {Len(chat) + 1}
          /\ respelt' = (respelt \/ Spellings \subseteq Within(t))
  /\ UNCHANGED shape /\ UNCHANGED loadVars

(* tools_node is neither an entry nor an LLM node: nothing is checked.     *)
UseTools(t) ==
  /\ doing = "tools"
  /\ chat' = Append(chat, [role |-> "tool", text |-> t, args |-> <<>>])
  /\ doing' = "node"
  /\ UNCHANGED <<shape, lastOutput, unread, respelt>> /\ UNCHANGED loadVars

GuardNext ==
  \/ \E e \in Execution : ReadRules(e) \/ AddBuiltins(e) \/ CommitRules(e)
  \/ \E c \in Code, status \in {"on", "off"} : SetRule(c, status)
  \/ BlockInput
  \/ \E t \in Sayings, args \in Arguments \cup {<<>>} : Respond(t, args)
  \/ \E t \in Findings : UseTools(t)

GuardSpec == GuardInit /\ [][GuardNext]_guardVars

-----------------------------------------------------------------------------
GuardTypeOK ==
  /\ table \in [Code -> {"absent", "on", "off"}]
  /\ phase \in [Execution -> {"start", "read", "added", "ready", "failed"}]
  /\ specs \in [Execution -> SUBSET Code]
  /\ shape \in {"planner", "flow"} /\ doing \in {"node", "tools", "over", "blocked"}
  /\ \A i \in DOMAIN chat : /\ chat[i].role \in {"user", "assistant", "tool"}
                            /\ chat[i].args \in Arguments \cup {<<>>}
  /\ edits \in 0 .. MaxEdits
  /\ overtaken \subseteq Execution /\ hidden \subseteq Execution
  /\ unread \subseteq DOMAIN chat /\ respelt \in BOOLEAN

(* Whoever runs has every built-in rule and rules that violations may      *)
(* refer to; and loading them fails a run only when the table got rows     *)
(* between its reading and its inserting, or when a built-in rule was      *)
(* switched off, which the code takes for a rule that is missing.          *)
RulesLoad ==
  \A e \in Execution :
    /\ phase[e] = "ready" => /\ BuiltinRule \subseteq specs[e]
                             /\ \A c \in specs[e] : table[c] # "absent"
    /\ phase[e] = "failed" => e \in overtaken \cup hidden

Promised(c) == IF RuleFor[c].type = "pii" THEN Personal ELSE Spellings
Masking(stage) == {c \in specs[Watched] : RuleFor[c].stage = stage /\ RuleFor[c].action = "mask"
                                            /\ RuleFor[c].type # "jailbreak"}
(* Messages an entry node was given.                                       *)
Asked == IF shape = "flow" THEN {i \in DOMAIN chat : i = 1 /\ Answers # {}}
         ELSE {i \in DOMAIN chat : \E j \in Answers : i < j}

(* What a masking rule matches is gone from the content of every answer in *)
(* the graph's state, however many turns it takes, and from the text the   *)
(* conversation ends with; personal data also from the contents the model  *)
(* was asked with, tool results included.  Excepted by name: an answer     *)
(* beside an earlier last_output (unread), a keyword in two spellings      *)
(* (respelt), and whatever the arguments of tool calls say: they stay in   *)
(* the messages as the model said them, and it is asked with them again.   *)
MaskedIsGone ==
  /\ ~respelt => \A c \in Masking("output") :
       /\ \A i \in Answers \ unread : Within(chat[i].text) \cap Promised(c) = {}
       /\ Within(lastOutput) \cap Promised(c) = {}
  /\ (\E c \in Masking("input") : RuleFor[c].type = "pii") =>
       \A i \in Asked : Within(chat[i].text) \cap Personal = {}
=============================================================================

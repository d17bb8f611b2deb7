---------------------------- MODULE Expressions ----------------------------
(***************************************************************************)
(* The conditions of a flow (expr.py) and the state they read and assign   *)
(* (state_path.py).  Phrases are built by the grammar, one operator at a   *)
(* time, together with what they mean; the code sees only their words.     *)
(* Nested dictionaries are objects: set_path copies the channels and       *)
(* shares what is below them.                                              *)
(***************************************************************************)
EXTENDS Integers, Sequences

CONSTANTS Obj,        \* bound: nested dictionaries
          Vocabularies  \* bounds: leaves, names assigned to, words of a behaviour

VARIABLES vocabulary,      \* the one this behaviour writes with
          phrase, aside,   \* a phrase being built and one kept for its right side
          spent,           \* words written so far
          slots, heap,     \* the channel "variables" and the objects below it
          store,           \* history: the same, had every value been copied
          shared           \* history: an object with two names was written to

exprVars == <<vocabulary, phrase, aside, spent, slots, heap, store, shared>>

Name == {"x", "d"}
Null == <<"none">>
Bool(b) == <<"bool", b>>
IsDict(v) == v[1] = "obj"

(* parse_path: only three channels exist, and messages has nothing inside. *)
LegalPath(p) == p[1] \in {"variables", "metadata"} \/ p = <<"messages">>

(* Writers quote, write numbers, constants and paths; those of channels    *)
(* that exist are of variables, the channel kept here.                     *)
VariablePath == ({"variables"} \X Name) \cup ({"variables"} \X Name \X STRING)
Writable(w) ==
  \/ w \in ({"bool"} \X BOOLEAN) \cup ({"num"} \X Int) \cup {Null} \cup ({"quoted"} \X STRING)
  \/ w[1] = "path" /\ (LegalPath(w[2]) => w[2] \in VariablePath)
ASSUME VocabulariesAssumption ==
  \A v \in Vocabularies : /\ \A w \in v.leaves : Writable(w)
                          /\ v.names \subseteq Name /\ v.words \in Nat

(* get_path; what is not there, or below something else, is null.          *)
GetPath(p) ==
  LET v == slots[p[2]] IN
  IF Len(p) = 2 THEN v ELSE IF IsDict(v) THEN heap[v[2]] ELSE Null

(* How a written word reads: a quoted word and an operator of that name    *)
(* become the same token.                                                  *)
Token(w) == CASE w[1] \in {"quoted", "sign"} -> <<"str", w[2]>>
              [] w[1] = "path" -> w
              [] OTHER -> <<"literal", w>>

-----------------------------------------------------------------------------
Truthy(v) ==
  CASE v[1] = "bool" -> v[2] [] v[1] = "num" -> v[2] # 0 [] v[1] = "str" -> v[2] # ""
    [] v[1] = "none" -> FALSE
    [] OTHER -> TRUE
Number(v) == IF v[1] = "bool" THEN (IF v[2] THEN 1 ELSE 0) ELSE v[2]
IsNumber(v) == v[1] \in {"bool", "num"}

(* A value without its identity.                                           *)
Content(v) == IF IsDict(v) THEN <<"dict", heap[v[2]]>> ELSE v
Alike(a, b) == IF IsNumber(a) /\ IsNumber(b) THEN Number(a) = Number(b) ELSE a = b
Equal(a, b) ==
  IF a[1] = "dict" /\ b[1] = "dict" THEN Alike(a[2], b[2]) ELSE Alike(a, b)

Apply(op, a, b) ==
  CASE op = "or" -> Bool(Truthy(a) \/ Truthy(b))
    [] op = "and" -> Bool(Truthy(a) /\ Truthy(b))
    [] op = "==" -> Bool(Equal(a, b))
    [] op = "!=" -> Bool(~Equal(a, b))

Level == <<"atom", "compare", "not", "and", "or">>
Rank(level) == CHOOSE i \in 1 .. 5 : Level[i] = level
OperatorsOf(level) == CASE level = "or" -> {"or"} [] level = "and" -> {"and"}
                        [] level = "compare" -> {"==", "!="} [] OTHER -> {}

(* The level at which each descent reads its operands.                     *)
OperandOf(level) == Level[Rank(level) - 1]

(* What "not" negates: a comparison, or another negation; TightNot would   *)
(* bind it to the next atom.                                               *)
TightNot == "atom"
Negated == "not"

Raises == [ok |-> FALSE, value |-> Null, next |-> 0]
Gives(v, i) == [ok |-> TRUE, value |-> v, next |-> i]

(* _parse_atom, parentheses aside.                                         *)
Atom(token, i) ==
  CASE token[1] = "path" -> IF LegalPath(token[2]) THEN Gives(GetPath(token[2]), i + 1) ELSE Raises
    [] token[1] = "literal" -> Gives(token[2], i + 1)
    [] OTHER -> Gives(token, i + 1)

Levels == {"atom", "compare", "not", "and", "or"}
Says(tokens, i, texts) == i <= Len(tokens) /\ tokens[i][1] = "str" /\ tokens[i][2] \in texts

(* What each descent makes of the tokens from i on, by what p makes of     *)
(* them at other levels and places.                                        *)
ParseAtom(tokens, p, i) ==
  IF i > Len(tokens) THEN Raises
  ELSE IF Says(tokens, i, {"("}) THEN
    LET inner == p[<<"or", i + 1>>] IN
    IF inner.ok /\ Says(tokens, inner.next, {")"}) THEN Gives(inner.value, inner.next + 1)
    ELSE Raises
  ELSE Atom(tokens[i], i)

ParseNot(p, i) ==
  LET arg == p[<<Negated, i + 1>>] IN
  IF arg.ok THEN Gives(Bool(~Truthy(arg.value)), arg.next) ELSE Raises

(* A chain of "or" folds to a Boolean, so reading it from the right is the *)
(* same; a comparison takes one operand on each side.                      *)
ParseOperands(tokens, p, level, i) ==
  LET left == p[<<OperandOf(level), i>>]
      right == p[<<IF level = "compare" THEN "atom" ELSE level, left.next + 1>>]
  IN IF ~left.ok \/ ~Says(tokens, left.next, OperatorsOf(level)) THEN left
     ELSE IF ~right.ok THEN Raises
     ELSE Gives(Apply(tokens[left.next][2], Content(left.value), Content(right.value)),
                right.next)

Descend(tokens, p, level, i) ==
  IF level = "atom" THEN ParseAtom(tokens, p, i)
  ELSE IF level = "not" /\ Says(tokens, i, {"not"}) THEN ParseNot(p, i)
  ELSE ParseOperands(tokens, p, level, i)

(* _parse_or, _parse_and, _parse_not, _parse_compare and _parse_atom, at   *)
(* every place.                                                            *)
Readings(tokens) ==
  LET p[x \in Levels \X (1 .. Len(tokens) + 1)] == Descend(tokens, p, x[1], x[2]) IN p

(* eval_expr: a phrase is read to its last word or refused.                *)
Tokens(words) == [i \in DOMAIN words |-> Token(words[i])]
EvalExpr(words) ==
  LET r == Readings(Tokens(words))[<<"or", 1>>]
  IN IF r.ok /\ r.next = Len(words) + 1 THEN r ELSE Raises

-----------------------------------------------------------------------------
Sign(t) == <<"sign", t>>
Missing == <<"error">>

Stored(p) ==
  IF ~LegalPath(p) THEN Missing
  ELSE IF Len(p) = 2 THEN store[p[2]]
  ELSE IF store[p[2]][1] = "dict" THEN store[p[2]][2] ELSE Null

LeafMeans(w) == CASE w[1] = "path" -> Stored(w[2]) [] w[1] = "quoted" -> <<"str", w[2]>>
                  [] OTHER -> w
Leaf(w) == [level |-> "atom", words |-> <<w>>, means |-> LeafMeans(w)]
NoPhrase == [level |-> "blank", words |-> <<>>, means |-> Null]

Begin ==
  /\ phrase = NoPhrase /\ spent < vocabulary.words
  /\ \E w \in vocabulary.leaves : phrase' = Leaf(w)
  /\ spent' = spent + 1
  /\ UNCHANGED <<vocabulary, aside, slots, heap, store, shared>>

LevelOf(op) == CHOOSE l \in {"compare", "and", "or"} : op \in OperatorsOf(l)

(* A right side binds tighter than its operator; so does the left side of  *)
(* a comparison.                                                           *)
Fits(l, op, r) ==
  /\ Rank(r.level) < Rank(LevelOf(op))
  /\ Rank(l.level) < Rank(LevelOf(op)) \/ (l.level = LevelOf(op) /\ LevelOf(op) # "compare")
Joined(l, op, r) ==
  [level |-> LevelOf(op), words |-> l.words \o <<Sign(op)>> \o r.words,
   means |-> IF Missing \in {l.means, r.means} THEN Missing ELSE Apply(op, l.means, r.means)]

Join ==
  /\ phrase # NoPhrase
  /\ \E op \in {"or", "and", "==", "!="}, r \in {Leaf(w) : w \in vocabulary.leaves} \cup {aside} :
       /\ r # NoPhrase /\ Fits(phrase, op, r)
       /\ spent + 1 + Len(r.words) <= vocabulary.words
       /\ phrase' = Joined(phrase, op, r)
       /\ spent' = spent + 1 + Len(r.words)
  /\ UNCHANGED <<vocabulary, aside, slots, heap, store, shared>>

Negate ==
  /\ phrase # NoPhrase /\ Rank(phrase.level) <= Rank("not") /\ spent < vocabulary.words
  /\ phrase' = [level |-> "not", words |-> <<Sign("not")>> \o phrase.words,
                means |-> IF phrase.means = Missing THEN Missing
                          ELSE Bool(~Truthy(phrase.means))]
  /\ spent' = spent + 1
  /\ UNCHANGED <<vocabulary, aside, slots, heap, store, shared>>

Enclose ==
  /\ phrase # NoPhrase /\ phrase.level # "atom" /\ spent + 2 <= vocabulary.words
  /\ phrase' = [phrase EXCEPT !.level = "atom",
                              !.words = <<Sign("(")>> \o phrase.words \o <<Sign(")")>>]
  /\ spent' = spent + 2
  /\ UNCHANGED <<vocabulary, aside, slots, heap, store, shared>>

SetAside ==
  /\ phrase # NoPhrase /\ aside = NoPhrase /\ phrase.level # "atom"
  /\ aside' = phrase /\ phrase' = NoPhrase
  /\ UNCHANGED <<vocabulary, spent, slots, heap, store, shared>>

-----------------------------------------------------------------------------
Owners(o) == {n \in Name : slots[n] = <<"obj", o>>}
Fresh == {o \in Obj : Owners(o) = {}}

(* set_path below a name: an object found there is written in place, and   *)
(* anything else is replaced by a new one.                                 *)
SetBelow(n, v) ==
  IF IsDict(slots[n])
  THEN /\ heap' = [heap EXCEPT ![slots[n][2]] = v]
       /\ shared' = (shared \/ Owners(slots[n][2]) # {n})
       /\ UNCHANGED slots
  ELSE LET o == CHOOSE o \in Fresh : TRUE IN
       /\ Fresh # {}
       /\ heap' = [heap EXCEPT ![o] = v]
       /\ slots' = [slots EXCEPT ![n] = <<"obj", o>>]
       /\ UNCHANGED shared

(* One assignment of an assign node: its expression is evaluated over the  *)
(* state the assignments before it have left; what cannot be evaluated     *)
(* ends the node.  An object is only assigned to a name of the channel.    *)
Assign(n, below) ==
  LET r == EvalExpr(phrase.words) IN
  /\ phrase # NoPhrase /\ aside = NoPhrase
  /\ r.ok
  /\ below => ~IsDict(r.value)
  /\ IF below THEN SetBelow(n, r.value)
     ELSE slots' = [slots EXCEPT ![n] = r.value] /\ UNCHANGED <<heap, shared>>
  /\ store' = [store EXCEPT ![n] = IF below THEN <<"dict", r.value>> ELSE Content(r.value)]
  /\ phrase' = NoPhrase
  /\ UNCHANGED <<vocabulary, aside, spent>>

ExprInit ==
  /\ vocabulary \in Vocabularies
  /\ phrase = NoPhrase /\ aside = NoPhrase /\ spent = 0 /\ shared = FALSE
  /\ slots = [n \in Name |-> Null] /\ store = slots
  /\ heap = [o \in Obj |-> Null]

ExprNext ==
  \/ Begin \/ Join \/ Negate \/ Enclose \/ SetAside
  \/ \E n \in vocabulary.names, below \in BOOLEAN : Assign(n, below)

ExprSpec == ExprInit /\ [][ExprNext]_exprVars

-----------------------------------------------------------------------------
ExprTypeOK ==
  /\ spent \in 0 .. vocabulary.words /\ shared \in BOOLEAN
  /\ \A n \in Name : IsDict(slots[n]) => slots[n][2] \in Obj
  /\ \A o \in Obj : ~IsDict(heap[o])

QuotesOperator == \E i \in DOMAIN phrase.words :
                    phrase.words[i] \in {<<"quoted", "not">>, <<"quoted", "(">>}

(* The recursive descent gives a phrase the meaning the grammar gives it,  *)
(* over a state that earlier assignments have built: precedence, chains,   *)
(* parentheses, comparison of unlike values and missing paths; a phrase is *)
(* refused exactly when it names a channel that does not exist.  Two       *)
(* things the code does break it and are set apart: a quoted "not" or "("  *)
(* is read as if it were not quoted, and a nested assignment through one   *)
(* name of an object is seen through its other name.                       *)
ExpressionsMean ==
  (phrase # NoPhrase /\ ~QuotesOperator /\ ~shared) =>
    LET r == EvalExpr(phrase.words) IN
    IF phrase.means = Missing THEN ~r.ok ELSE r.ok /\ Content(r.value) = phrase.means
=============================================================================

----------------------------- MODULE ThinkTags -----------------------------
(***************************************************************************)
(* ThinkTagSplitter: the text of a model arrives in pieces that may end in *)
(* the middle of a tag; what is inside a leading think element goes out as *)
(* reasoning and the rest as speech.  The tags are shortened, keeping what *)
(* matters for a cut: they begin alike and differ in the second symbol.    *)
(***************************************************************************)
EXTENDS Naturals, Sequences, SequencesExt

CONSTANTS MaxAnswer,   \* bound: symbols of an answer
          MaxPiece   \* bound: symbols of a piece
ASSUME ThinkAssumption == MaxAnswer \in Nat

VARIABLES arrived,     \* history: what has arrived
          buf, mode,   \* _buf; _in_think: "unknown", "think" or "speak"
          speaking, reasoning   \* what has gone out, of each kind

thinkVars == <<arrived, buf, mode, speaking, reasoning>>

Symbol == {"<", "t", "/", ">"}
Open == <<"<", "t", ">">>
Close == <<"<", "/", ">">>
Pieces == UNION {[1 .. n -> Symbol] : n \in 1 .. MaxPiece}

ThinkInit ==
  /\ arrived = <<>> /\ buf = <<>> /\ mode = "unknown"
  /\ speaking = <<>> /\ reasoning = <<>>

From(s, i) == SubSeq(s, i, Len(s))
EndsAt(s) == {i \in 0 .. Len(s) : \E j \in 1 .. i : SubSeq(s, j, i) = Close}
FirstEnd(s) == CHOOSE i \in EndsAt(s) : \A j \in EndsAt(s) : i <= j

(* _prefix_overlap: the longest end of the buffer that may begin the tag;  *)
(* ShortOverlap forgets the longest one.                                   *)
ShortOverlap(s) == IF IsSuffix(SubSeq(Close, 1, 1), s) THEN 1 ELSE 0
PrefixOverlap(s) ==
  LET held == {n \in 0 .. Len(Close) - 1 : IsSuffix(SubSeq(Close, 1, n), s)}
  IN CHOOSE n \in held : \A m \in held : m <= n

(* The loop of feed, for a buffer and a mode: what goes out and what stays.*)
Spoken(s, thought) == [mode |-> "speak", buf |-> <<>>, say |-> s, think |-> thought]
Thinking(s) ==
  IF EndsAt(s) # {}
  THEN Spoken(From(s, FirstEnd(s) + 1), SubSeq(s, 1, FirstEnd(s) - Len(Close)))
  ELSE LET hold == PrefixOverlap(s) IN
       [mode |-> "think", buf |-> From(s, Len(s) - hold + 1), say |-> <<>>,
        think |-> SubSeq(s, 1, Len(s) - hold)]
Fed(s, m) ==
  IF m = "think" \/ (m = "unknown" /\ IsPrefix(Open, s))
  THEN Thinking(IF m = "think" THEN s ELSE From(s, Len(Open) + 1))
  ELSE IF m = "unknown" /\ IsPrefix(s, Open)
  THEN [mode |-> m, buf |-> s, say |-> <<>>, think |-> <<>>]
  ELSE Spoken(s, <<>>)

Feed(piece) ==
  LET f == Fed(buf \o piece, mode) IN
  /\ Len(arrived) + Len(piece) <= MaxAnswer
  /\ arrived' = arrived \o piece
  /\ buf' = f.buf /\ mode' = f.mode
  /\ speaking' = speaking \o f.say
  /\ reasoning' = reasoning \o f.think

(* flush, at the end of the stream.                                        *)
FlushedSpeech == IF mode = "think" THEN speaking ELSE speaking \o buf
FlushedThought == IF mode = "think" THEN reasoning \o buf ELSE reasoning

ThinkNext == \E piece \in Pieces : Feed(piece)

ThinkSpec == ThinkInit /\ [][ThinkNext]_thinkVars

-----------------------------------------------------------------------------
(* _split_think_content of the answer as a whole.                          *)
Thought(s) ==
  IF ~IsPrefix(Open, s) THEN <<>>
  ELSE LET r == From(s, Len(Open) + 1) IN
       IF EndsAt(r) = {} THEN r ELSE SubSeq(r, 1, FirstEnd(r) - Len(Close))
Speech(s) ==
  IF ~IsPrefix(Open, s) THEN s
  ELSE LET r == From(s, Len(Open) + 1) IN
       IF EndsAt(r) = {} THEN <<>> ELSE From(r, FirstEnd(r) + 1)

ThinkTypeOK ==
  /\ mode \in {"unknown", "think", "speak"}
  /\ Len(buf) < Len(Open) /\ Len(arrived) <= MaxAnswer

(* However the answer was cut into pieces, the stream flushed now shows    *)
(* what splitting the whole answer shows: no symbol of a tag is shown, no  *)
(* thought is spoken, nothing is lost, doubled or moved.                   *)
SplitAsWhole == FlushedSpeech = Speech(arrived) /\ FlushedThought = Thought(arrived)
=============================================================================

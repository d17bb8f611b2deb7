------------------------------ MODULE Chunker ------------------------------
(***************************************************************************)
(* Cutting a document into sections and the sections into overlapping      *)
(* chunks.  A text is a sequence of letters, sentence ends, blanks and     *)
(* marks; a mark stands for the first character of a heading or for a form *)
(* feed, whichever the strategy cuts at.  Positions are those of the code: *)
(* from 0, the end excluded.                                               *)
(***************************************************************************)
EXTENDS Integers, Sequences, FiniteSets, FiniteSetsExt

CONSTANTS Texts,       \* sequences of Character
          Sizes,       \* chunk_size
          Overlaps     \* chunk_overlap

Character == {"x", ".", " ", "|"}
Strategy == {"fixed", "recursive", "markdown", "page"}
ASSUME ChunkAssumption == /\ Texts \subseteq Seq(Character)
                          /\ Sizes \subseteq Nat \ {0} /\ Overlaps \subseteq Nat

VARIABLES text, strategy, size, overlap,   \* what parse_text is given
          todo,        \* sections not cut yet
          start,       \* where the next chunk of the first of them begins
          chunks       \* the chunks made: where the content of each lies in the
                       \* text, and the char_start recorded of it

chunkVars == <<text, strategy, size, overlap, todo, start, chunks>>

At(i) == text[i + 1]
Blank(c) == c = " " \/ (c = "|" /\ strategy = "page")
Ink(lo, hi) == {i \in lo .. hi - 1 : ~Blank(At(i))}
Strip(lo, hi) == <<Min(Ink(lo, hi)), Max(Ink(lo, hi)) + 1>>

-----------------------------------------------------------------------------
(* split_markdown_sections: from a heading to the next; the text before    *)
(* the first one when there is any.  split_page_sections: a page with its  *)
(* form feed, the first one and those that are not blank.                  *)
Marks == {i \in 0 .. Len(text) - 1 : At(i) = "|"}
Ends(lo, cuts) == Min({c \in cuts \cup {Len(text)} : c > lo} \cup {Len(text)})
HeadingSections ==
  {<<m, Ends(m, Marks)>> : m \in Marks} \cup
  {<<0, e>> : e \in {e \in {Ends(0, Marks)} : 0 \notin Marks /\ (Marks = {} \/ Ink(0, e) # {})}}
PageSections ==
  LET feeds == {m + 1 : m \in Marks} IN
  {<<s, Ends(s, feeds)>> : s \in {s \in feeds \cup {0} : s = 0 \/ Ink(s, Ends(s, feeds)) # {}}}
Sections ==
  CASE strategy = "fixed" -> {<<0, Len(text)>>}
    [] strategy = "page"  -> PageSections
    [] OTHER              -> HeadingSections

First == CHOOSE s \in todo : \A t \in todo : s[1] <= t[1]

(* resolve_chunker_options and the sections.                               *)
ChunkInit ==
  /\ text \in Texts /\ strategy \in Strategy /\ size \in Sizes /\ overlap \in Overlaps
  /\ todo = Sections
  /\ start = Min({s[1] : s \in todo})
  /\ chunks = <<>>

(* The next section, its first chunk at its beginning.                     *)
Advance ==
  LET rest == todo \ {First} IN
  /\ todo' = rest
  /\ start' = IF rest = {} THEN Len(text) ELSE Min({s[1] : s \in rest})
  /\ UNCHANGED <<text, strategy, size, overlap>>

(* _draft: the content is stripped, and its place recorded as char_start   *)
(* and char_start plus the length of the content.                          *)
Draft(lo, hi, char_start) ==
  [from |-> Strip(lo, hi)[1], to |-> Strip(lo, hi)[2], char_start |-> char_start]
Put(lo, hi, char_start) ==
  chunks' = IF Ink(lo, hi) = {} THEN chunks ELSE Append(chunks, Draft(lo, hi, char_start))

(* one_chunk_if_short: the place recorded begins where the section does,   *)
(* whatever was stripped.                                                  *)
Short(s) ==
  /\ strategy \in {"markdown", "page"}
  /\ Ink(s[1], s[2]) # {} => Strip(s[1], s[2])[2] - Strip(s[1], s[2])[1] <= size
WholeSection ==
  /\ todo # {} /\ start = First[1] /\ Short(First)
  /\ Put(First[1], First[2], First[1])
  /\ Advance

-----------------------------------------------------------------------------
(* split_with_overlap.                                                     *)
ClipOverlap == IF overlap >= size THEN size \div 4 ELSE overlap

(* _last_separator: the last sentence end of the window, or else the last  *)
(* blank, if not its first character; otherwise the whole window.          *)
Seps(c, lo, hi) == {i \in lo + 1 .. hi - 1 : At(i) = c}
LastSeparator(lo, hi) ==
  IF Seps(".", lo, hi) # {} THEN Max(Seps(".", lo, hi)) + 1
  ELSE IF Seps(" ", lo, hi) # {} THEN Max(Seps(" ", lo, hi)) + 1
  ELSE hi

CutAt(lo, hi) ==
  LET end == IF lo + size < hi THEN lo + size ELSE hi
      sep == LastSeparator(lo, end)
  IN IF end < hi /\ sep - lo >= size \div 4 THEN sep ELSE end

(* Where the next chunk begins; SkipsOne drops the character at the cut.   *)
SkipsOne(lo, end) == Max({end + 1 - ClipOverlap, lo + 1})
NextStart(lo, end) == Max({end - ClipOverlap, lo + 1})

Piece ==
  LET hi == First[2] end == CutAt(start, hi) IN
  /\ todo # {} /\ start < First[2]
  /\ start = First[1] => ~Short(First)
  /\ Put(start, end, Strip(start, end)[1])
  /\ IF end >= hi THEN Advance
     ELSE /\ start' = NextStart(start, end)
          /\ UNCHANGED <<text, strategy, size, overlap, todo>>

(* An empty text has nothing to cut.                                       *)
EmptySection ==
  /\ todo # {} /\ start >= First[2] /\ ~Short(First)
  /\ UNCHANGED chunks
  /\ Advance

ChunkNext == WholeSection \/ Piece \/ EmptySection

ChunkSpec == ChunkInit /\ [][ChunkNext]_chunkVars

-----------------------------------------------------------------------------
ChunkTypeOK ==
  /\ start \in 0 .. Len(text)
  /\ todo \subseteq (0 .. Len(text)) \X (0 .. Len(text))
  /\ \A k \in DOMAIN chunks : chunks[k].from < chunks[k].to

(* A section kept whole: all of it but blanks, recorded from its beginning.*)
KeptWhole(c) ==
  /\ strategy \in {"markdown", "page"}
  /\ \E s \in Sections : /\ c.char_start = s[1] /\ s[1] <= c.from
                         /\ Ink(s[1], c.from) = {} /\ Ink(c.to, s[2]) = {}

(* When the text is cut, every character that is not blank is in the       *)
(* content of a chunk, no content is longer than the size, and no chunk    *)
(* begins before an earlier one.  The recorded place is that of the        *)
(* content, but for a short section kept whole: that one is recorded from  *)
(* where the section begins, too early by the blanks it begins with.       *)
ChunksCover ==
  /\ \A k \in DOMAIN chunks :
       /\ chunks[k].to - chunks[k].from <= size
       /\ chunks[k].char_start = chunks[k].from \/ KeptWhole(chunks[k])
  /\ \A k, m \in DOMAIN chunks : k < m => chunks[k].from <= chunks[m].from
  /\ todo = {} => \A i \in Ink(0, Len(text)) :
       \E k \in DOMAIN chunks : chunks[k].from <= i /\ i < chunks[k].to
=============================================================================

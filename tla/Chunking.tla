------------------------------ MODULE Chunking ------------------------------
(***************************************************************************)
(* ai/rag/chunking.py: how a section that is too long is cut.  A text is a *)
(* sequence of characters of five kinds; Dash is a marker of a list item.  *)
(* An offset o of t lies after its first o characters.                     *)
(***************************************************************************)
EXTENDS Integers, SequencesExt, FiniteSetsExt

CONSTANTS MaxChars, OverlapChars, MinFill   \* ChunkConfig

ASSUME ChunkAssumption ==
  /\ MaxChars \in Nat /\ OverlapChars \in Nat /\ MinFill \in Nat
  /\ 2 * OverlapChars < MaxChars /\ MinFill < MaxChars
  /\ MaxChars >= 4   \* 200 in the code; so a prefix never fills a chunk

Letter == "a"
Stop == "."
Dash == "-"
Blank == " "
NewLine == "n"
White == {Blank, NewLine}
Characters == {Letter, Stop, Dash} \cup White

OVERLAP_SEPARATOR == <<NewLine, NewLine>>

Slice(t, from, to) == SubSeq(t, from + 1, to)
Rest(t, from) == Slice(t, from, Len(t))
All(t, from, to, kinds) == \A k \in (from + 1)..to : t[k] \in kinds

\* str.strip, of what lies between two offsets.
Stripped(t, from, to) ==
  LET solid == {k \in (from + 1)..to : t[k] \notin White}
  IN IF solid = {} THEN << >> ELSE SubSeq(t, Min(solid), Max(solid))

Strip(t) == Stripped(t, 0, Len(t))
-----------------------------------------------------------------------------
(* _boundaries: the offsets at which a chunk may start, by rank.           *)

\* After an empty line; matches do not overlap, so of the ends of line that
\* only blanks separate it is every second.
ParagraphBreaks(t) ==
  {p \in DOMAIN t : /\ t[p] = NewLine
                    /\ Cardinality({q \in 1..p : t[q] = NewLine /\ All(t, q, p, White)}) % 2 = 0}

\* At the start of a line that begins with a marker.
ListItemStarts(t) ==
  {o \in 0..Len(t) :
     /\ o = 0 \/ t[o] = NewLine
     /\ \E k \in (o + 1)..(Len(t) - 1) :
          All(t, o, k - 1, {Blank}) /\ t[k] = Dash /\ t[k + 1] \in White}

\* After the blanks, and the end of line, that follow a full stop.
SentenceEnds(t) ==
  {e \in DOMAIN t :
     /\ \E i \in 1..(e - 1) : t[i] = Stop /\ All(t, i, e - 1, {Blank})
     /\ \/ t[e] = NewLine
        \/ t[e] = Blank /\ (e = Len(t) \/ t[e + 1] \notin White)}

\* PARAGRAPH, LIST_ITEM and SENTENCE; the stronger rank wins an offset.
Boundaries(t) ==
  LET paragraphs == ParagraphBreaks(t)
      items == ListItemStarts(t)
  IN <<paragraphs, items \ paragraphs, SentenceEnds(t) \ (paragraphs \cup items)>>

(* _best_cut: the strongest rank that fills the chunk, else the strongest  *)
(* there is; within a rank, the last offset.  None is the empty set.       *)
BestCuts(t, start, limit) ==
  LET boundaries == Boundaries(t)
      Within(from) == [r \in 1..3 |-> {o \in boundaries[r] : from <= o /\ o <= limit /\ o < Len(t)}]
      Strongest(w) == {Max(w[r]) : r \in {r \in 1..3 : w[r] # {} /\ \A q \in 1..(r - 1) : w[q] = {}}}
      filled == Strongest(Within(Max({start + 1, start + MinFill})))
  IN IF filled # {} THEN filled ELSE Strongest(Within(start + 1))

\* _hard_cut: after the last whitespace of the window, if there is any.
HardCut(t, start, limit) ==
  LET white == {k \in (start + 1)..limit : t[k] \in White}
  IN IF white = {} THEN limit ELSE Max(white)

CutAt(t, start, limit) ==
  LET best == BestCuts(t, start, limit)
  IN IF best # {} THEN Max(best) ELSE HardCut(t, start, limit)

(* _overlap_tail: what is repeated of the previous chunk; at most half of  *)
(* it, from the start of a sentence or of a word if there is one.          *)
OverlapTail(previous) ==
  LET allowance == Min({OverlapChars, Len(previous) \div 2})
      floor == Len(previous) - allowance
      sentences == {e \in SentenceEnds(previous) : e >= floor}
      words == {k \in (floor + 1)..Len(previous) :
                  previous[k] \in White
                    /\ (k = Len(previous) \/ previous[k + 1] \notin White)}
  IN IF allowance = 0 THEN << >>
     ELSE IF sentences # {} THEN Stripped(previous, Min(sentences), Len(previous))
     ELSE IF words # {} THEN Stripped(previous, Min(words), Len(previous))
     ELSE Rest(previous, floor)

Piece(text, overlap) == [text |-> text, overlap |-> overlap]

Prefix(pieces) ==
  LET tail == IF pieces = << >> THEN << >> ELSE OverlapTail(Last(pieces).text)
  IN IF tail = << >> THEN << >> ELSE tail \o OVERLAP_SEPARATOR

\* KnowledgeChunk.body.
BodyOf(piece) ==
  IF piece.overlap = 0 THEN piece.text
  ELSE Rest(piece.text, piece.overlap + Len(OVERLAP_SEPARATOR))

(* One turn of the loop of _split_section: where the piece that starts at  *)
(* an offset ends, and the piece.  A section that fits is one piece.       *)
PieceEnd(body, start, budget) ==
  LET end == IF Len(body) - start <= budget THEN Len(body)
             ELSE CutAt(body, start, start + budget)
  IN IF end <= start THEN start + budget ELSE end

WithPieceAllPrefix(pieces, prefix, piece) ==                    \* mutant
  IF piece = << >> THEN pieces ELSE Append(pieces, Piece(prefix \o piece, Len(prefix)))

WithPiece(pieces, prefix, piece) ==
  IF piece = << >> THEN pieces
  ELSE Append(pieces,
    Piece(prefix \o piece,
          IF prefix = << >> THEN 0 ELSE Len(prefix) - Len(OVERLAP_SEPARATOR)))
=============================================================================

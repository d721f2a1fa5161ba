-------------------------- MODULE MCKnowledgeIndex --------------------------
(***************************************************************************)
(* By hand: three ids, two models; two plane vectors, one in space and one *)
(* without direction.  Loaded: one document with every edit of one of its  *)
(* lines, one with each of many texts to cut, and small sets of documents  *)
(* in and out of their place.                                              *)
(***************************************************************************)
EXTENDS KnowledgeIndex

CONSTANTS bge, other, north, east, space, zero

MCWidth == [v \in Vectors |-> IF v = space THEN 3 ELSE 2]
MCSimilarity == [p \in Vectors \X Vectors |->
                   IF zero \in {p[1], p[2]} THEN 0 ELSE IF p[1] = p[2] THEN 2 ELSE 1]
MCOffered == [chunk_id : 1..3, model_name : Models, vector : Vectors]

MCSections == <<"Summary", "References">>
MCSlugs == <<"x", "y">>
MCCategories == <<"protocols", "glossary">>
MCValues == {"", "[]", "[inline]", "x", "y", "protocols", "glossary", "scan", "dns", "T1071"}
MCFields ==
  [f \in {"id", "category", "applies_to", "mitre"} |->
     [required |-> f # "mitre",
      list |-> f \in {"applies_to", "mitre"},
      distinct |-> f = "applies_to",
      least |-> IF f = "mitre" THEN 0 ELSE 1,
      allowed |-> CASE f = "id" -> {"x", "y"}
                    [] f = "category" -> {"protocols", "glossary"}
                    [] f = "applies_to" -> {"scan", "dns"}
                    [] f = "mitre" -> {"T1071"}]]

MCChunkId(document, section, k) ==
  100 * Rank(MCSlugs, document) + 20 * section + k

\* A text points north or east; one marked by a dash has no direction.
MCEncode(input) ==
  IF input[3][1] = Dash /\ Len(input[3]) = 1 THEN zero
  ELSE IF (Len(input[3]) + input[2]) % 2 = 0 THEN north ELSE east
-----------------------------------------------------------------------------
Line(kind, key, value, chars) == [kind |-> kind, key |-> key, value |-> value, chars |-> chars]
Fence == Line("fence", "", "", <<Dash, Dash, Dash>>)
Entry(key, value) == Line("scalar", key, value, <<Letter>>)
ItemLine(value) == Line("item", "", value, <<Dash, Blank, Letter>>)
Heading(name) == Line("heading", "", name, << >>)
Text(chars) == Line("text", "", "", chars)
EmptyLine == Line("skip", "", "", << >>)
Tab == Line("tab", "", "", <<Blank>>)

DocumentLines(id, category, text) ==
  <<Fence, Entry("id", id), Entry("category", category), Entry("applies_to", ""),
    ItemLine("scan"), Fence,
    Heading("Summary"), Text(text), Heading("References"), Text(<<Letter>>)>>

File(directory, stem, lines) ==
  [directory |-> directory, stem |-> stem, readable |-> TRUE, lines |-> lines]

Plain(directory, stem, id, category) ==
  File(directory, stem, DocumentLines(id, category, <<Letter>>))

Odd == {Fence, Entry("mitre", "[]"), Entry("applies_to", "[inline]"), Entry("mitre", "T1071"),
        Entry("note", ""), ItemLine("dns"), ItemLine("T1071"), Heading("Summary"),
        Heading("References"), EmptyLine, Tab}

Base == DocumentLines("x", "glossary", <<Letter>>)
Edits ==
  {SubSeq(Base, 1, i - 1) \o SubSeq(Base, i + 1, Len(Base)) : i \in DOMAIN Base}
    \cup UNION {{SubSeq(Base, 1, i) \o <<line>> \o SubSeq(Base, i + 1, Len(Base)) :
                   line \in Odd \cup ToSet(Base)} : i \in 0..Len(Base)}
    \cup UNION {{SubSeq(Base, 1, i) \o <<Entry("mitre", ""), line>> \o SubSeq(Base, i + 1, Len(Base)) :
                   line \in Odd} : i \in {1, 3, 5}}

Words == {<<Letter>>, <<Letter, Stop>>, <<Dash, Blank, Letter>>,
          <<Letter, Letter, Letter, Letter, Letter>>}
Gaps == {<<Blank>>, <<NewLine>>, <<NewLine, Blank, NewLine>>}
Texts ==
  {w[1] \o g[1] \o w[2] \o g[2] \o w[3] \o g[3] \o <<Letter, Letter, Letter, Letter, Letter>> :
     w \in Words \X Words \X Words, g \in Gaps \X Gaps \X Gaps}

Shelf == {Plain("glossary", "x", "x", "glossary"), Plain("protocols", "x", "x", "protocols"),
          Plain("protocols", "y", "y", "protocols"), Plain("glossary", "y", "y", "protocols"),
          Plain("glossary", "y", "x", "glossary"), Plain("notes", "y", "y", "glossary"),
          [Plain("glossary", "y", "y", "glossary") EXCEPT !.readable = FALSE],
          File("protocols", "y", DocumentLines("y", "protocols", <<Dash>>))}

MCCorpora ==
  {{File("glossary", "x", lines)} : lines \in Edits}
    \cup {{File("glossary", "x", DocumentLines("x", "glossary", text))} : text \in Texts}
    \cup {s \in SUBSET Shelf : Cardinality(s) <= 2
            /\ \A f, g \in s : f # g => <<f.directory, f.stem>> # <<g.directory, g.stem>>}
=============================================================================

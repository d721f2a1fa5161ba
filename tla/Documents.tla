----------------------------- MODULE Documents -----------------------------
(***************************************************************************)
(* ai/rag/documents.py: a corpus is loaded and validated, completely or    *)
(* not at all.  A line is known by what the front matter sees in it, its   *)
(* kind, key and value, and by its characters, which are what a section    *)
(* keeps of it; to the front matter a heading is a comment.  The field     *)
(* types of KnowledgeMetadata are a schema: which fields there are and     *)
(* which values each of them takes.                                        *)
(***************************************************************************)
EXTENDS Chunking

CONSTANTS
  Categories,         \* Category, in its order
  REQUIRED_SECTIONS,  \* headings, in their order
  Fields,             \* KnowledgeMetadata: field -> its constraints
  Values,             \* values of front matter that occur
  Slugs               \* the ids of documents, as they sort

ASSUME DocumentsAssumption ==
  /\ Categories \in Seq(STRING) /\ Slugs \in Seq(STRING)
  /\ REQUIRED_SECTIONS \in Seq(STRING) /\ REQUIRED_SECTIONS # << >>
  /\ {"id", "category"} \subseteq DOMAIN Fields
  /\ Fields["id"].allowed \subseteq ToSet(Slugs)
  /\ \A f \in DOMAIN Fields :
       Fields[f] \in [required : BOOLEAN, list : BOOLEAN, distinct : BOOLEAN,
                      least : Nat, allowed : SUBSET Values]

\* A scalar is a list of one item that was not written as a list.
Scalar(v) == [list |-> FALSE, items |-> <<v>>]
List(s) == [list |-> TRUE, items |-> s]

IsFence(line) == line.kind = "fence"

(* The body of the loop of parse_front_matter.  An item belongs to the key *)
(* that opened a list; any key after it closes the list.                   *)
FrontLine(front, line) ==
  IF line.kind \in {"skip", "heading"} THEN front
  ELSE IF line.kind = "item" /\ front.open # "" THEN
    [front EXCEPT !.mapping[front.open].items = Append(@, line.value)]
  ELSE IF line.kind = "scalar" /\ line.key \notin DOMAIN front.mapping
          /\ line.value # "[inline]" THEN
    [bad |-> front.bad, open |-> IF line.value = "" THEN line.key ELSE "",
     mapping |-> front.mapping @@
       (line.key :> IF line.value \in {"", "[]"} THEN List(<< >>) ELSE Scalar(line.value))]
  ELSE [front EXCEPT !.bad = TRUE]

Closings(lines) == {i \in DOMAIN lines : i > 1 /\ IsFence(lines[i])}

FrontMatter(lines) ==
  FoldLeft(FrontLine, [bad |-> FALSE, open |-> "", mapping |-> << >>],
           SubSeq(lines, 2, Min(Closings(lines)) - 1))

HasFrontMatter(lines) ==
  /\ lines # << >> /\ IsFence(lines[1]) /\ Closings(lines) # {}
  /\ ~FrontMatter(lines).bad
  /\ DOMAIN FrontMatter(lines).mapping # {}

\* KnowledgeMetadata(**mapping); no extra key is accepted.
ValidMetadata(mapping) ==
  /\ DOMAIN mapping \subseteq DOMAIN Fields
  /\ \A f \in DOMAIN Fields : Fields[f].required => f \in DOMAIN mapping
  /\ \A f \in DOMAIN mapping :
       LET items == mapping[f].items
       IN /\ mapping[f].list = Fields[f].list
          /\ Len(items) >= Fields[f].least
          /\ ToSet(items) \subseteq Fields[f].allowed
          /\ Fields[f].distinct => IsInjective(items)
-----------------------------------------------------------------------------
(* split_sections: a heading opens a section, anything before the first    *)
(* one is dropped.                                                         *)
BodyLine(split, line) ==
  IF line.kind = "heading"
  THEN [found |-> Append(split.found, line.value), bodies |-> Append(split.bodies, << >>)]
  ELSE IF split.found = << >> THEN split
  ELSE [split EXCEPT !.bodies[Len(split.found)] = @ \o line.chars \o <<NewLine>>]

Sections(lines) ==
  FoldLeft(BodyLine, [found |-> << >>, bodies |-> << >>],
           SubSeq(lines, Min(Closings(lines)) + 1, Len(lines)))

Contents(lines) == [k \in DOMAIN REQUIRED_SECTIONS |-> Strip(Sections(lines).bodies[k])]

ValidSections(lines) ==
  /\ Sections(lines).found = REQUIRED_SECTIONS
  /\ \A k \in DOMAIN REQUIRED_SECTIONS : Contents(lines)[k] # << >>
-----------------------------------------------------------------------------
(* load_document: the file's directory is its category, its name its id.   *)
Metadata(file) == FrontMatter(file.lines).mapping
IdOf(file) == Metadata(file)["id"].items[1]

Accepted(file) ==
  /\ file.readable
  /\ HasFrontMatter(file.lines)
  /\ ValidMetadata(Metadata(file))
  /\ ValidSections(file.lines)
  /\ Metadata(file)["category"].items[1] = file.directory
  /\ file.stem = IdOf(file)

Document(file) ==
  [id |-> IdOf(file), category |-> file.directory, sections |-> Contents(file.lines)]

\* discover_documents: what lies outside the category directories is no document.
Discovered(files) == {file \in files : file.directory \in ToSet(Categories)}

DistinctPaths(files) ==                                         \* mutant
  \A f, g \in Discovered(files) :
    f # g => <<f.directory, IdOf(f)>> # <<g.directory, IdOf(g)>>

DistinctIds(files) ==
  \A f, g \in Discovered(files) : f # g => IdOf(f) # IdOf(g)

Rank(order, x) == CHOOSE k \in DOMAIN order : order[k] = x

\* load_corpus: the first KnowledgeError ends it.
Loads(files) ==
  /\ \A file \in Discovered(files) : Accepted(file)
  /\ DistinctIds(files)

\* In the order of the categories and, within one, of the ids.
Before(d, e) ==
  \/ Rank(Categories, d.category) < Rank(Categories, e.category)
  \/ d.category = e.category /\ Rank(Slugs, d.id) < Rank(Slugs, e.id)

Corpus(files) ==
  LET all == {Document(file) : file \in Discovered(files)}
  IN [k \in 1..Cardinality(all) |->
        CHOOSE d \in all : Cardinality({e \in all : Before(e, d)}) = k - 1]
=============================================================================

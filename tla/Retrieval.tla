----------------------------- MODULE Retrieval -----------------------------
(***************************************************************************)
(* ai/rag/retrieval.py, affinity.py and context.py: from the signals of a  *)
(* capture to the numbered excerpts of the prompt.  One query per signal   *)
(* and one for the whole capture are searched separately; their hits are   *)
(* merged, ranked by tier, similarity and id, capped per document and cut  *)
(* to final_top_k; then the excerpts are taken in rank order as long as    *)
(* they fit the budget of the prompt.                                      *)
(*                                                                         *)
(* A turn of one of the loops is one action.  Texts are known by their     *)
(* rendered size; similarities are natural numbers.  Signals are asked in  *)
(* the order of their severity; confidence, which orders signals of one    *)
(* severity, is left out, so their order is open.                          *)
(***************************************************************************)
EXTENDS Naturals, Sequences, FiniteSets, FiniteSetsExt

CONSTANTS Chunks,       \* chunks of the index, numbered as their ids sort
          Document,     \* the document of a chunk
          AppliesTo,    \* the signals that document declares
          Size,         \* characters of a chunk's rendered excerpt
          SignalTypes,  \* SignalType
          Capture,      \* the label of the query about the whole capture
          Overhead,     \* characters of the block's delimiters
          Separator     \* and of the blank line between excerpts

ASSUME RetrievalAssumption ==
  /\ Chunks \subseteq Nat /\ IsFiniteSet(Chunks)
  /\ Capture \notin SignalTypes
  /\ AppliesTo \in [Chunks -> SUBSET SignalTypes]
  /\ Size \in [Chunks -> Nat \ {0}]
  /\ {Overhead, Separator} \subseteq Nat

\* RetrievalConfig and KnowledgeContextConfig, each with what its
\* __post_init__ demands; None is a number the run does not reach.
RetrievalConfigs ==
  [per_query_top_k : Nat, final_top_k : Nat, min_similarity : Nat,
   max_per_document : Nat \ {0}, include_capture_query : BOOLEAN, affinity : BOOLEAN]
KnowledgeContextConfigs == [max_items : Nat, max_chars : Nat, max_total_tokens : Nat]

VARIABLES
  fired,      \* the signals of the report, each with its severity
  flowCount,  \* its flow_count
  cfg,        \* the RetrievalConfig
  budget,     \* the KnowledgeContextConfig
  score,      \* what the index answers each query with, for each chunk
  asked,      \* queries searched so far
  best,       \* best similarity of each chunk found
  perQuery,   \* per_query: of each chunk found, the queries and their scores
  phase,      \* which loop is running
  waiting,    \* chunks found that are still to be ranked
  selected,   \* the chunks of the retrieval report, in rank order
  pos,        \* how many of them the budget has looked at
  items,      \* the chunks in the prompt, each with its label and its rank
  excluded,   \* the others, each with the limit that kept it out
  used        \* characters of the block so far

inputs == <<fired, flowCount, cfg, budget, score>>
search == <<asked, best, perQuery>>
block == <<pos, items, excluded, used>>

\* Everything a retrieval builds: before it begins, and for the next one.
Clean ==
  /\ asked = {} /\ best = << >> /\ perQuery = << >>
  /\ waiting = {} /\ selected = << >>
  /\ pos = 0 /\ items = << >> /\ excluded = << >> /\ used = 0

CleanAgain ==
  /\ asked' = {} /\ best' = << >> /\ perQuery' = << >>
  /\ waiting' = {} /\ selected' = << >>
  /\ pos' = 0 /\ items' = << >> /\ excluded' = << >> /\ used' = 0
-----------------------------------------------------------------------------
\* build_queries.
Queries == DOMAIN fired \cup
           (IF cfg.include_capture_query /\ flowCount > 0 THEN {Capture} ELSE {})

\* VectorStore.search, as its answer is ranked and cut.
Closer(s, c, d) ==
  \/ s[c] > s[d]
  \/ s[c] = s[d] /\ c < d

Hits(q) ==
  {c \in Chunks : /\ score[q][c] >= cfg.min_similarity
                  /\ Cardinality({d \in Chunks : Closer(score[q], d, c)})
                       < cfg.per_query_top_k}

\* The order of build_queries: severity first, the whole capture last.
IsNext(q) ==
  /\ q \in Queries \ asked
  /\ IF q = Capture THEN DOMAIN fired \subseteq asked
     ELSE \A r \in DOMAIN fired \ asked : fired[r] <= fired[q]

BestScore(c, q) ==
  IF c \notin DOMAIN best \/ score[q][c] > best[c] THEN score[q][c] ELSE best[c]

SearchQuery(q) ==
  /\ phase = "search" /\ IsNext(q)
  /\ asked' = asked \cup {q}
  /\ best' = [c \in DOMAIN best \cup Hits(q) |->
                IF c \in Hits(q) THEN BestScore(c, q) ELSE best[c]]
  /\ perQuery' = [c \in DOMAIN best' |->
                    (IF c \in DOMAIN best THEN perQuery[c] ELSE {})
                      \cup (IF c \in Hits(q) THEN {<<q, score[q][c]>>} ELSE {})]
  /\ UNCHANGED <<inputs, phase, waiting, selected, block>>

Merge ==
  /\ phase = "search" /\ asked = Queries
  /\ phase' = "rank" /\ waiting' = DOMAIN best
  /\ UNCHANGED <<inputs, search, selected, block>>
-----------------------------------------------------------------------------
(* assess: a note that declares a fired signal comes before one that       *)
(* declares none at all, and that before one that declares only others.    *)
Tier(c) ==
  IF ~cfg.affinity \/ fired = << >> \/ AppliesTo[c] = {} THEN 1
  ELSE IF AppliesTo[c] \cap DOMAIN fired # {} THEN 0 ELSE 2

Precedes(c, d) ==
  \/ Tier(c) < Tier(d)
  \/ Tier(c) = Tier(d) /\ Closer(best, c, d)

FirstWaiting(c) == c \in waiting /\ \A d \in waiting \ {c} : Precedes(c, d)

OfDocument(doc) == {i \in DOMAIN selected : Document[selected[i]] = doc}

CappedOnlyAhead(c) ==                                           \* mutant
  selected # << >> /\ Document[selected[Len(selected)]] = Document[c]

Capped(c) == Cardinality(OfDocument(Document[c])) >= cfg.max_per_document

Select(c) ==
  /\ phase = "rank" /\ Len(selected) < cfg.final_top_k
  /\ FirstWaiting(c)
  /\ waiting' = waiting \ {c}
  /\ selected' = IF Capped(c) THEN selected ELSE Append(selected, c)
  /\ UNCHANGED <<inputs, search, phase, block>>

(* RetrievedChunk._merge_is_coherent and RetrievalReport._consistent: what *)
(* the report demands of itself.                                           *)
MergeIsCoherent(c) ==
  /\ perQuery[c] # {}
  /\ \A p, q \in perQuery[c] : p[1] = q[1] => p = q
  /\ best[c] = Max({p[2] : p \in perQuery[c]})

ReportConsistent ==
  /\ \A i \in DOMAIN selected : /\ MergeIsCoherent(selected[i])
                                /\ {p[1] : p \in perQuery[selected[i]]} \subseteq Queries
  /\ \A i, j \in DOMAIN selected : i < j => Precedes(selected[i], selected[j])

Report ==
  /\ phase = "rank" /\ (waiting = {} \/ Len(selected) >= cfg.final_top_k)
  /\ phase' = IF ReportConsistent THEN "budget" ELSE "raised"
  /\ used' = IF selected = << >> THEN 0 ELSE Overhead
  /\ UNCHANGED <<inputs, search, waiting, selected, pos, items, excluded>>
-----------------------------------------------------------------------------
\* _tokens_for: a token for 3.5 characters, rounded up.
Tokens(chars) == (2 * chars + 6) \div 7

SizeAlone(c) == Size[c]                                         \* mutant

\* The excerpt as rendered, with the blank line before it.
Rendered(c) == Size[c] + IF items = << >> THEN 0 ELSE Separator

\* _rejection: the first limit the candidate would break.
Rejection(c) ==
  CASE Len(items) >= budget.max_items -> "max_items"
    [] Len(items) < budget.max_items /\ used + Rendered(c) > budget.max_chars ->
         "max_chars"
    [] /\ Len(items) < budget.max_items /\ used + Rendered(c) <= budget.max_chars
       /\ Tokens(used + Rendered(c)) > budget.max_total_tokens -> "max_total_tokens"
    [] OTHER -> "fits"

\* _renumbered: the rank of an excerpt is its place in the block.
Renumbered(c, place) == [ref |-> place + 1, rank |-> place, chunk |-> c]

\* build_knowledge_context: a misfit does not end the loop.
Consider ==
  /\ phase = "budget" /\ pos < Len(selected)
  /\ LET c == selected[pos + 1]
         fits == Rejection(c) = "fits"
     IN /\ items' = IF fits THEN Append(items, Renumbered(c, Len(items))) ELSE items
        /\ used' = IF fits THEN used + Rendered(c) ELSE used
        /\ excluded' = IF fits THEN excluded
                       ELSE Append(excluded, [chunk |-> c, rank |-> pos,
                                              reason |-> Rejection(c)])
  /\ pos' = pos + 1
  /\ UNCHANGED <<inputs, search, phase, waiting, selected>>

\* KnowledgeItem._label_matches_rank and KnowledgeContext._consistent.
ContextConsistent ==
  /\ \A i \in DOMAIN items : items[i].ref = i /\ items[i].ref = items[i].rank + 1
  /\ \A i, j \in DOMAIN items : items[i].chunk = items[j].chunk => i = j
  /\ \A i \in DOMAIN items, j \in DOMAIN excluded : items[i].chunk # excluded[j].chunk

Finish ==
  /\ phase = "budget" /\ pos = Len(selected)
  /\ phase' = IF ContextConsistent THEN "done" ELSE "raised"
  /\ used' = IF items = << >> THEN 0 ELSE used
  /\ UNCHANGED <<inputs, search, waiting, selected, pos, items, excluded>>

RetrievalStep ==
  \/ \E q \in SignalTypes \cup {Capture} : SearchQuery(q)
  \/ \E c \in Chunks : Select(c)
  \/ Merge \/ Report \/ Consider \/ Finish
-----------------------------------------------------------------------------
Supplied == {items[i].chunk : i \in DOMAIN items}
Dropped == {excluded[i].chunk : i \in DOMAIN excluded}
Chosen == {selected[i] : i \in DOMAIN selected}

(* The merged score of a chunk is the best of the queries that returned    *)
(* it, and every one of those is on record, in whatever order they ran.    *)
MergeSound ==
  phase \in {"rank", "budget", "done"} =>
    \A c \in Chunks :
      LET finders == {q \in Queries : c \in Hits(q)}
      IN /\ c \in DOMAIN best <=> finders # {}
         /\ finders # {} =>
              /\ perQuery[c] = {<<q, score[q][c]>> : q \in finders}
              /\ \A q \in finders : best[c] >= score[q][c]
              /\ \E q \in finders : best[c] = score[q][c]

(* The report is in rank order and within its limits; what was found and   *)
(* is not in it comes after a full report, or after as many chunks of its  *)
(* own document as may be there.                                           *)
SelectionRight ==
  phase \in {"rank", "budget", "done"} =>
    /\ \A i, j \in DOMAIN selected : i < j => Precedes(selected[i], selected[j])
    /\ \A c \in Chunks : Cardinality(OfDocument(Document[c])) <= cfg.max_per_document
    /\ phase # "rank" =>
         \A c \in DOMAIN best \ Chosen :
           \/ /\ Len(selected) = cfg.final_top_k
              /\ \A i \in DOMAIN selected : Precedes(selected[i], c)
           \/ Cardinality({i \in OfDocument(Document[c]) : Precedes(selected[i], c)})
                = cfg.max_per_document

(* The rendered size of a block of the first n excerpts of a list: their   *)
(* texts, the delimiters, and a blank line between two of them.            *)
Texts(list) ==
  LET chars[n \in 0..Len(list)] ==
        IF n = 0 THEN 0 ELSE chars[n - 1] + Size[list[n].chunk]
  IN chars

BlockSize(list, n) ==
  Overhead + Texts(list)[n] + Separator * (IF n = 0 THEN 0 ELSE n - 1)

(* The prompt carries the report's chunks in its order, within every limit *)
(* of the budget; each one left out would have broken the limit named,     *)
(* together with the excerpts that are ranked before it.                   *)
RankedBefore(c) == {selected[i] : i \in {i \in DOMAIN selected :
                      \E j \in DOMAIN selected : i < j /\ selected[j] = c}}

BudgetRight ==
  phase = "done" =>
    /\ \A i, j \in DOMAIN items : i < j => items[i].chunk \in RankedBefore(items[j].chunk)
    /\ Chosen = Supplied \cup Dropped
    /\ Len(selected) = Len(items) + Len(excluded)
    /\ items # << >> => /\ used = BlockSize(items, Len(items))
                        /\ used <= budget.max_chars
                        /\ Tokens(used) <= budget.max_total_tokens
                        /\ Len(items) <= budget.max_items
    /\ \A i \in DOMAIN excluded :
         LET e == excluded[i]
             before == Cardinality(RankedBefore(e.chunk) \cap Supplied)
             full == BlockSize(items, before) + Size[e.chunk]
                       + IF before = 0 THEN 0 ELSE Separator
         IN CASE e.reason = "max_items" -> before = budget.max_items
              [] e.reason = "max_chars" -> full > budget.max_chars
              [] e.reason = "max_total_tokens" -> Tokens(full) > budget.max_total_tokens

(* No report is turned down by its own validators: what the merge, the     *)
(* ranking and the budget build is what the models of them demand.         *)
NothingRejected == phase # "raised"

RetrievalSound == MergeSound /\ SelectionRight /\ NothingRejected
=============================================================================

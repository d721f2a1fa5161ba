------------------------------ MODULE Analysis ------------------------------
(***************************************************************************)
(* ai/analyzer.py, ai/rag/pipeline.py and ai/llm_client.py: one capture    *)
(* after the other is analysed with one knowledge pipeline.  A capture's   *)
(* request may carry excerpts labelled 1, 2, ...; the provider is called   *)
(* until it answers or the failure is not worth a retry; the labels the    *)
(* answer cites are checked against those supplied.                        *)
(*                                                                         *)
(* What a library or the provider does is a choice.  Texts, the back-off's *)
(* length and the choice of structured-output tier are left out; Retrieval *)
(* models what happens within Retrieve.                                    *)
(***************************************************************************)
EXTENDS Naturals, Sequences

CONSTANTS MaxItems,     \* excerpts a request may carry
          MaxRetries,   \* max_retries
          MaxCaptures,  \* bound: captures analysed
          Nothing       \* Python's None

ASSUME AnalysisAssumption ==
  /\ MaxItems \in Nat /\ MaxRetries \in Nat /\ MaxCaptures \in Nat

VARIABLES
  ready,       \* the pipeline has its embedder and its store
  remembered,  \* _status: the failure prepare remembers
  loads,       \* how often the embedding model was loaded or failed to
  escapes,     \* analyses that ended with an exception
  captures,    \* analyses begun
  phase,       \* where the current one is
  rag,         \* its RAGOutcome: status and number of excerpts
  answers,     \* the provider's answers to its request, one per attempt
  outcome      \* the AnalysisOutcome of the last one

pipeline == <<ready, remembered, loads>>
vars == <<pipeline, escapes, captures, phase, rag, answers, outcome>>

Labels == 1..MaxItems
Retryable == {"rate_limited", "timeout", "connection", "server_error", "malformed"}
Fatal == {"auth", "rejected", "too_large", "refused", "empty"}
Answer == [kind : Retryable \cup Fatal, cited : {{}}]
            \cup [kind : {"parsed"}, cited : SUBSET Labels]

(* _classify, and the other failures complete_structured reports.          *)
ReasonOf(kind) ==
  CASE kind = "auth" -> "auth_failed"
    [] kind = "rate_limited" -> "rate_limited"
    [] kind = "timeout" -> "timeout"
    [] kind = "connection" -> "provider_unavailable"
    [] kind = "too_large" -> "request_too_large"
    [] kind \in {"rejected", "server_error"} -> "api_error"
    [] kind \in {"malformed", "empty"} -> "invalid_response"
    [] kind = "refused" -> "refused"

Unprepared == {"dependency_missing", "corpus_unavailable", "model_unavailable",
               "index_failed"}
ASSUME NoneAssumption == Nothing \notin Unprepared

Statuses == Unprepared \cup {"used", "disabled", "no_knowledge", "retrieval_failed"}
Knowledge(status, supplied) == [status |-> status, supplied |-> supplied]

Init ==
  /\ ready = FALSE /\ remembered = Nothing /\ loads = 0
  /\ escapes = 0 /\ captures = 0 /\ phase = "idle"
  /\ rag = Knowledge("disabled", 0) /\ answers = << >> /\ outcome = Nothing
-----------------------------------------------------------------------------
(* analyze_capture, with a pipeline or without.                            *)
Begin ==
  /\ phase = "idle" /\ captures < MaxCaptures
  /\ captures' = captures + 1
  /\ phase' \in {"signals", "client"}
  /\ rag' = Knowledge("disabled", 0) /\ answers' = << >> /\ outcome' = Nothing
  /\ UNCHANGED <<pipeline, escapes>>

WithKnowledge(status, supplied) ==
  /\ rag' = Knowledge(status, supplied) /\ phase' = "client"
  /\ UNCHANGED <<captures, answers, outcome, escapes>>

\* build_context: the signals come first, whatever the state of the index.
ExtractSignals ==
  /\ phase = "signals"
  /\ \/ /\ WithKnowledge("retrieval_failed", 0)
        /\ UNCHANGED pipeline
     \/ /\ phase' = "prepare"
        /\ UNCHANGED <<pipeline, escapes, captures, rag, answers, outcome>>

ForgetsFailure(status) ==                                       \* mutant
  UNCHANGED remembered /\ WithKnowledge(status, 0)

\* _fail
Fail(status) == remembered' = status /\ WithKnowledge(status, 0)

(* prepare: what it has done before is not done again.                     *)
Prepared ==
  /\ phase = "prepare"
  /\ \/ /\ ready /\ phase' = "retrieve"
        /\ UNCHANGED <<pipeline, escapes, captures, rag, answers, outcome>>
     \/ /\ ~ready /\ remembered # Nothing
        /\ WithKnowledge(remembered, 0)
        /\ UNCHANGED pipeline

PrepareCorpus ==
  /\ phase = "prepare" /\ ~ready /\ remembered = Nothing
  /\ \/ /\ \E status \in {"dependency_missing", "corpus_unavailable"} : Fail(status)
        /\ UNCHANGED <<ready, loads>>
     \/ /\ phase' = "load"
        /\ UNCHANGED <<pipeline, escapes, captures, rag, answers, outcome>>

(* embedder.load() turns a failure to find the library, or to load the     *)
(* model, into ModelUnavailableError.  Any other failure to import the     *)
(* library, as with a broken install, passes through all its callers.      *)
PrepareModel ==
  /\ phase = "load" /\ loads' = loads + 1
  /\ UNCHANGED ready
  /\ \/ Fail("model_unavailable")
     \/ /\ phase' = "index"
        /\ UNCHANGED <<remembered, escapes, captures, rag, answers, outcome>>
     \/ /\ phase' = "idle" /\ escapes' = escapes + 1
        /\ UNCHANGED <<remembered, captures, rag, answers, outcome>>

PrepareIndex ==
  /\ phase = "index"
  /\ UNCHANGED loads
  /\ \/ /\ Fail("index_failed")
        /\ UNCHANGED ready
     \/ /\ ready' = TRUE /\ remembered' = Nothing /\ phase' = "retrieve"
        /\ UNCHANGED <<escapes, captures, rag, answers, outcome>>

\* build_context after prepare: what fits may be nothing.
Retrieve ==
  /\ phase = "retrieve"
  /\ UNCHANGED pipeline
  /\ \/ WithKnowledge("retrieval_failed", 0)
     \/ WithKnowledge("no_knowledge", 0)
     \/ \E n \in Labels : WithKnowledge("used", n)
-----------------------------------------------------------------------------
Finish(result) ==
  /\ outcome' = result /\ phase' = "idle"
  /\ UNCHANGED <<pipeline, escapes, captures, rag>>

Failed(reason, attempts) ==
  [ok |-> FALSE, failure |-> reason, cited |-> {}, attempts |-> attempts, rag |-> rag]

Unsendable == {"invalid_provider", "no_api_key", "sdk_missing", "request_too_large"}

(* No client, or a request beyond the provider's ceiling: nothing is sent. *)
Unsent ==
  /\ phase = "client"
  /\ \E reason \in Unsendable : Finish(Failed(reason, 0))
  /\ UNCHANGED answers

Send ==
  /\ phase = "client" /\ phase' = "call"
  /\ UNCHANGED <<pipeline, escapes, captures, rag, answers, outcome>>

UnknownIfSupplied(cited) ==                                     \* mutant
  IF rag.supplied = 0 THEN {} ELSE cited \ (1..rag.supplied)

\* The labels that validate_knowledge_references does not know.
Unknown(cited) == cited \ (1..rag.supplied)

RetriesAnything(kind) == Len(answers) < MaxRetries              \* mutant

\* Whether the loop of complete_structured goes on after a failed attempt.
Retries(kind) == kind \in Retryable /\ Len(answers) < MaxRetries

(* One attempt, and what analyze_capture makes of the last.                *)
Attempt(answer) ==
  /\ phase = "call"
  /\ answers' = Append(answers, answer)
  /\ IF answer.kind = "parsed"
     THEN Finish(IF Unknown(answer.cited) # {}
                 THEN Failed("invalid_response", Len(answers'))
                 ELSE [ok |-> TRUE, failure |-> Nothing, cited |-> answer.cited,
                       attempts |-> Len(answers'), rag |-> rag])
     ELSE IF Retries(answer.kind)
     THEN UNCHANGED <<pipeline, escapes, captures, phase, rag, outcome>>
     ELSE Finish(Failed(ReasonOf(answer.kind), Len(answers')))

Next ==
  \/ Begin \/ ExtractSignals \/ Prepared \/ PrepareCorpus \/ PrepareModel \/ PrepareIndex
  \/ Retrieve \/ Unsent \/ Send
  \/ \E answer \in Answer : Attempt(answer)

Spec == Init /\ [][Next]_vars
-----------------------------------------------------------------------------
Reasons == {"auth_failed", "rate_limited", "timeout", "provider_unavailable",
            "request_too_large", "api_error", "invalid_response", "refused",
            "invalid_provider", "no_api_key", "sdk_missing"}
RagOutcome == [status : Statuses, supplied : 0..MaxItems]
Outcome == [ok : BOOLEAN, failure : Reasons \cup {Nothing}, cited : SUBSET Labels,
            attempts : 0..(MaxRetries + 1), rag : RagOutcome]

(* The variables keep their types; no request is sent more often than      *)
(* max_retries allows.                                                     *)
TypeOK ==
  /\ ready \in BOOLEAN /\ remembered \in Unprepared \cup {Nothing}
  /\ loads \in Nat /\ escapes \in Nat /\ captures \in 0..MaxCaptures
  /\ phase \in {"idle", "signals", "prepare", "load", "index", "retrieve", "client", "call"}
  /\ rag \in RagOutcome
  /\ answers \in Seq(Answer) /\ Len(answers) <= MaxRetries + 1
  /\ outcome \in Outcome \cup {Nothing}

(* An analysis that is shown to the user cites nothing but excerpts that   *)
(* its own request carried: not those of an earlier capture, and none at   *)
(* all when knowledge was off, failed to load, or did not fit.             *)
CitationsSupplied ==
  outcome # Nothing /\ outcome.ok =>
    /\ outcome.cited \subseteq 1..outcome.rag.supplied
    /\ outcome.rag.status # "used" => outcome.cited = {}
    /\ outcome.rag = rag

(* Every answer but the last was one worth a retry, and the outcome is     *)
(* that of the last: the analysis, or why that very attempt failed.  A     *)
(* request that was never sent has a reason of its own.                    *)
RetriesSound ==
  /\ \A i \in DOMAIN answers :
       i < Len(answers) \/ phase = "call" => answers[i].kind \in Retryable
  /\ outcome # Nothing =>
       LET n == Len(answers)
       IN /\ outcome.attempts = n
          /\ n = 0 => ~outcome.ok /\ outcome.failure \in Unsendable
          /\ n > 0 /\ answers[n].kind = "parsed" =>
               IF outcome.ok THEN outcome.cited = answers[n].cited
               ELSE outcome.failure = "invalid_response" /\ answers[n].cited # {}
          /\ n > 0 /\ answers[n].kind # "parsed" =>
               ~outcome.ok /\ outcome.failure = ReasonOf(answers[n].kind)
          /\ n > 0 /\ n <= MaxRetries => answers[n].kind \notin Retryable

(* The model is loaded, or fails to load, once for all captures together;  *)
(* only an attempt that ended in an exception is made again.               *)
PreparedOnce ==
  /\ loads <= escapes + 1
  /\ ready => remembered = Nothing /\ loads = escapes + 1

(* "every failure becomes a RAGStatus rather than an exception" (docstring *)
(* of KnowledgePipeline.prepare).  A library that is installed but broken  *)
(* does not.                                                               *)
NeverRaises == escapes = 0
=============================================================================

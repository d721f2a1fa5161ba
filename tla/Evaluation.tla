----------------------------- MODULE Evaluation -----------------------------
(***************************************************************************)
(* From the snapshot of a capture to the configuration worth adopting.     *)
(* A report is built, its signals are extracted and, where reference notes *)
(* are wanted, retrieved and cut to the budget (Retrieval).                *)
(* evaluate_candidates of run_rag_evaluation.py does so for every          *)
(* candidate configuration and every labelled case, counts what reached    *)
(* the prompt and what it costs (evaluation/candidates.py, metrics.py),    *)
(* and names the best candidate that may replace the baseline, if any.     *)
(*                                                                         *)
(* An analysis without notes is a data set of one case and no candidate.   *)
(* A mean is the pair of a sum and a count, a share a number of Scale-ths. *)
(***************************************************************************)
EXTENDS Retrieval, Integers

CONSTANTS
  Internal, Alphabet, NoName, Blank, Folded,   \* see CaptureReport
  Config, CommonPorts, Irregular,              \* see Signals
  Programs,     \* what is run: a data set of cases (a snapshot, the labelled
                \* documents, the characters of its report in the prompt), a
                \* plan of candidates (the baseline first) or of the values
                \* of a sweep, which of these studies, ip_mode, max_flows
  Answers(_),   \* what the index may answer in each case of a program
  PromptChars,  \* characters of the instructions
  RulesChars,   \* of the rules that come with reference notes
  ReminderChars, \* and of the reminder put before those
  SchemaTokens, \* tokens of the response schema, sent alongside
  RiskTokens,   \* OBSERVED_FAILING_PROMPT_TOKENS
  Scale         \* a multiple of every number a share is of

ASSUME ReportAssumption ==
  /\ Internal \subseteq Nat
  /\ Alphabet \in Nat \ {0}
  /\ NoName \notin DOMAIN Folded /\ Blank \subseteq DOMAIN Folded

CR == INSTANCE CaptureReport
S == INSTANCE Signals WITH Absent <- NoName

ASSUME ConfigAssumption == Config \in S!SignalConfigs

ASSUME CostAssumption ==
  /\ {PromptChars, RulesChars, ReminderChars, SchemaTokens, RiskTokens} \subseteq Nat
  /\ Scale \in Nat \ {0}

\* The signals of a case, as extract_signals finds them in its report.
SignalsOf(p, case) ==
  S!Extract(CR!BuildCaptureReport(case.snapshot, p.mode, p.maxFlows))

PlanRow ==
  [name : Nat, retrieval : RetrievalConfigs, budget : KnowledgeContextConfigs,
   reference_only : BOOLEAN]

Connection ==
  [src : Nat, dst : Nat, proto : STRING, sport : Nat, dport : Nat,
   sni : DOMAIN Folded \cup {NoName}, known : BOOLEAN, state : STRING,
   verdict : STRING, out : Nat, in : Nat, syn : BOOLEAN, synack : BOOLEAN]

\* A tracker has one record of a connection, so a snapshot lists it once.
LabelledCase(case) ==
  /\ case.snapshot.connections \in Seq(Connection)
  /\ IsInjective(case.snapshot.connections)
  /\ case.snapshot.dropped \in Nat /\ case.chars \in Nat
  /\ IsFiniteSet(case.relevant)
  /\ case.relevant # {} => Scale % Cardinality(case.relevant) = 0

\* CASES is not empty, the candidates of a plan have names of their own,
\* configurations are what their validators let pass, and every query of a
\* case gets a score for each chunk of the index.
ASSUME ProgramAssumption ==
  \A p \in Programs :
    /\ p.mode \in {"full", "redact_private", "none"} /\ p.maxFlows \in Nat
    /\ p.study \in {"candidates", "variants", "budget", "shape", "min_similarity"}
    /\ DOMAIN p.dataset = 1..Len(p.dataset) /\ Len(p.dataset) \in Nat \ {0}
    /\ \A i \in DOMAIN p.dataset : LabelledCase(p.dataset[i])
    /\ p.plan \in Seq(PlanRow)
    /\ \A n, o \in DOMAIN p.plan : p.plan[n].name = p.plan[o].name => n = o
    /\ p.plan # << >> =>
         \A a \in Answers(p), i \in DOMAIN p.dataset :
           \A q \in SignalsOf(p, p.dataset[i]) \cup {Capture} :
             a[i][q] \in [Chunks -> Nat]

VARIABLES
  program,     \* what is run
  answers,     \* what the index answers, for each case
  m, k,        \* the candidate and the case in hand
  report,      \* the capture report of the case
  accounts,    \* for each candidate, the account of each case so far
  recommended  \* the candidate recommended, 0 for none

given == <<program, answers>>
progress == <<m, k, accounts, recommended>>
vars == <<inputs, search, phase, waiting, selected, block, given, progress, report>>

Case == program.dataset[k]
Candidate == program.plan[m]
NoReport == [flows |-> << >>, total |-> 0, dropped |-> 0]

Init ==
  /\ program \in Programs /\ answers \in Answers(program)
  /\ fired = << >> /\ flowCount = 0 /\ cfg = << >> /\ budget = << >> /\ score = << >>
  /\ Clean /\ phase = "report" /\ report = NoReport
  /\ m = 1 /\ k = 1 /\ recommended = 0
  /\ accounts = [n \in DOMAIN program.plan |-> << >>]
-----------------------------------------------------------------------------
BuildReport ==
  /\ phase = "report" /\ phase' = "signals"
  /\ report' = CR!BuildCaptureReport(Case.snapshot, program.mode, program.maxFlows)
  /\ UNCHANGED <<inputs, search, waiting, selected, block, given, progress>>

ExtractSignals ==
  /\ phase = "signals"
  /\ fired' = [t \in S!Extract(report) |-> S!Severity(t, report)]
  /\ flowCount' = Len(report.flows)
  /\ IF program.plan = << >>
     THEN phase' = "analysed" /\ UNCHANGED <<cfg, budget, score>>
     ELSE /\ phase' = "search" /\ score' = answers[k]
          /\ cfg' = Candidate.retrieval /\ budget' = Candidate.budget
  /\ UNCHANGED <<search, waiting, selected, block, given, progress, report>>

Retrieve == RetrievalStep /\ UNCHANGED <<given, progress, report>>
-----------------------------------------------------------------------------
\* estimate_request_tokens: each message has four tokens of framing.
MessageTokens(chars) == Tokens(chars) + 4

\* _prompt_sizes: the instructions are one message, the data the other.
PromptTokens ==
  LET withNotes(chars) == IF items = << >> THEN 0 ELSE chars
  IN MessageTokens(PromptChars + withNotes(RulesChars))
       + MessageTokens(Case.chars + withNotes(ReminderChars + used))

\* The response schema is metered as well (provider_schema_tokens).
RequestTokens == PromptTokens + SchemaTokens

Documents(cs) == {Document[c] : c \in cs}

CaseAccount ==
  [retrieved |-> Documents(Chosen), supplied |-> Documents(Supplied),
   request |-> RequestTokens]

\* _account_for: the next case, or the first case under the next candidate.
AccountCase ==
  /\ phase = "done"
  /\ accounts' = [accounts EXCEPT ![m] = Append(@, CaseAccount)]
  /\ IF k < Len(program.dataset) THEN k' = k + 1 /\ m' = m
                                 ELSE k' = 1 /\ m' = m + 1
  /\ phase' = IF m' > Len(program.plan) THEN "select" ELSE "report"
  /\ CleanAgain /\ report' = NoReport
  /\ fired' = << >> /\ flowCount' = 0 /\ cfg' = << >> /\ budget' = << >> /\ score' = << >>
  /\ UNCHANGED <<given, recommended>>
-----------------------------------------------------------------------------
(* metrics.py.  A case with no relevant document has no recall and no      *)
(* precision, and one where nothing was supplied has no precision; a mean  *)
(* is over the cases where the metric is defined.                          *)
Labelled == {i \in DOMAIN program.dataset : program.dataset[i].relevant # {}}
Found(n, i) == accounts[n][i].supplied \cap program.dataset[i].relevant
Wrong(n, i) == accounts[n][i].supplied \cap program.dataset[i].irrelevant

Total(counts) == MapThenSumSet(LAMBDA i : counts[i], DOMAIN counts)
Mean(share) == <<Total(share), Cardinality(DOMAIN share)>>

RecallAtK(n, i) ==
  (Scale * Cardinality(Found(n, i))) \div Cardinality(program.dataset[i].relevant)

PrecisionAtK(n, i) ==
  (Scale * Cardinality(Found(n, i))) \div Cardinality(accounts[n][i].supplied)

SuppliedRecall(n) == Mean([i \in Labelled |-> RecallAtK(n, i)])
SuppliedPrecision(n) ==
  Mean([i \in {j \in Labelled : accounts[n][j].supplied # {}} |-> PrecisionAtK(n, i)])

Defined(mean) == mean[2] > 0
Below(a, b) == a[1] * b[2] < b[1] * a[2]
-----------------------------------------------------------------------------
\* candidates.py: what a candidate did over all the cases, and the rule.
Cases == DOMAIN program.dataset
Candidates == DOMAIN program.plan

IrrelevantSupplied(n) == Total([i \in Cases |-> Cardinality(Wrong(n, i))])
MaxRequestTokens(n) == Max({accounts[n][i].request : i \in Cases})
AtRisk(n) == MaxRequestTokens(n) >= RiskTokens

\* evidence_per_1k_tokens: recall for each token of the largest request.
EvidencePerToken(n) ==
  <<SuppliedRecall(n)[1], SuppliedRecall(n)[2] * MaxRequestTokens(n)>>

\* assess: the baseline is the first of the plan.
Assess(n) ==
  /\ ~program.plan[n].reference_only
  /\ Defined(SuppliedRecall(n))
  /\ ~Below(SuppliedRecall(n), SuppliedRecall(1))
  /\ IrrelevantSupplied(n) <= IrrelevantSupplied(1)
  /\ ~(AtRisk(n) /\ ~AtRisk(1))

\* The key of rank; an undefined precision comes last, and names differ.
RankKey(n) ==
  LET precision == SuppliedPrecision(n)
  IN <<EvidencePerToken(n), IF Defined(precision) THEN precision ELSE <<-1, 1>>,
       <<-MaxRequestTokens(n), 1>>, <<program.plan[n].name, 1>>>>

RanksBelow(a, b) ==
  \E i \in 1..4 : /\ Below(RankKey(a)[i], RankKey(b)[i])
                  /\ \A j \in 1..i-1 : /\ ~Below(RankKey(a)[j], RankKey(b)[j])
                                       /\ ~Below(RankKey(b)[j], RankKey(a)[j])

BestAdmissible ==                                               \* mutant
  LET eligible == {n \in Candidates \ {1} : Assess(n)}
  IN IF eligible = {} THEN 0
     ELSE CHOOSE n \in eligible : \A o \in eligible \ {n} : RanksBelow(o, n)

\* rank: the best admissible candidate, if it beats the baseline.
Rank ==
  LET eligible == {n \in Candidates \ {1} : Assess(n)}
      winner == CHOOSE n \in eligible : \A o \in eligible \ {n} : RanksBelow(o, n)
  IN IF eligible # {} /\ Below(EvidencePerToken(1), EvidencePerToken(winner))
     THEN winner ELSE 0

-----------------------------------------------------------------------------
(* The other studies of run_rag_evaluation.py: one change against the      *)
(* baseline (_decide, on the last row of the plan), and sweeps of one      *)
(* parameter (recommend), a row of the plan for each value.                *)
Headline(n) ==
  [recall |-> SuppliedRecall(n), precision |-> SuppliedPrecision(n),
   irrelevant |-> IrrelevantSupplied(n)]

Decide ==
  LET before == Headline(1)
      after == Headline(Len(program.plan))
      falls == \/ Below(after.precision, before.precision)
               \/ after.irrelevant > before.irrelevant
      materially == 20 * (before.recall[1] - after.recall[1]) > Scale * before.recall[2]
      improves == \/ Below(before.recall, after.recall)
                  \/ Below(before.precision, after.precision)
                  \/ after.irrelevant # before.irrelevant
  IN IF /\ Defined(before.recall)
        /\ Defined(before.precision) /\ Defined(after.precision)
        /\ ~falls /\ ~materially /\ improves
     THEN Len(program.plan) ELSE 0

RetrievedRecall(n) ==
  LET share(i) == Cardinality(accounts[n][i].retrieved \cap program.dataset[i].relevant)
  IN Mean([i \in Labelled |->
             (Scale * share(i)) \div Cardinality(program.dataset[i].relevant)])

RelevantRetained(n) == Total([i \in Cases |-> Cardinality(Found(n, i))])
EmptyCases(n) == {i \in Cases : accounts[n][i].retrieved = {}}

Value(n) == program.plan[n].name
SmallestOf(rows) == CHOOSE n \in rows : \A o \in rows : Value(n) <= Value(o)

SmallestKeeping ==
  SmallestOf({n \in Candidates :
                \A o \in Candidates : RelevantRetained(o) <= RelevantRetained(n)})

FullRecall ==
  {n \in Candidates :
     \A o \in Candidates : ~Below(RetrievedRecall(n), RetrievedRecall(o))}

BestShape == IF Labelled = {} THEN 0 ELSE SmallestOf(FullRecall)

BestMinSimilarity ==
  LET qualifying == {n \in FullRecall : EmptyCases(n) = {}}
  IN IF Labelled = {} \/ qualifying = {} THEN 0
     ELSE CHOOSE n \in qualifying : \A o \in qualifying : Value(o) <= Value(n)

Recommend ==
  /\ phase = "select" /\ phase' = "selected"
  /\ recommended' = CASE program.study = "candidates"     -> Rank
                      [] program.study = "variants"       -> Decide
                      [] program.study = "budget"         -> SmallestKeeping
                      [] program.study = "shape"          -> BestShape
                      [] program.study = "min_similarity" -> BestMinSimilarity
  /\ UNCHANGED <<inputs, search, waiting, selected, block, given, m, k, accounts, report>>

Next == BuildReport \/ ExtractSignals \/ Retrieve \/ AccountCase \/ Recommend

Spec == Init /\ [][Next]_vars
-----------------------------------------------------------------------------
(* What the report leaves out.  A flow gives way to max_flows only where   *)
(* those kept are blocked or it is not, are named or it is not, and carry  *)
(* no less; and whatever is left out, blocked traffic is still observed    *)
(* when the engine dropped anything (extractor.py flow_sort_key,           *)
(* signals.py _detect_blocked_traffic).                                    *)
Kept == {report.flows[i].about : i \in DOMAIN report.flows}
Given == {Case.snapshot.connections[i] : i \in DOMAIN Case.snapshot.connections}

CapHidesNothing ==
  phase \in {"signals", "analysed", "search"} =>
    /\ Cardinality(Kept) = Min({Cardinality(Given), program.maxFlows})
    /\ \A c \in Kept, d \in Given \ Kept :
         \/ c.state = "BLOCKED" /\ d.state # "BLOCKED"
         \/ /\ c.state = "BLOCKED" <=> d.state = "BLOCKED"
            /\ \/ c.sni # NoName /\ d.sni = NoName
               \/ /\ c.sni # NoName <=> d.sni # NoName
                  /\ c.out + c.in >= d.out + d.in
    /\ phase # "signals" /\ Case.snapshot.dropped > 0 =>
         "blocked_traffic_present" \in DOMAIN fired

(* Redaction costs no observation: pseudonyms give the signals of the full *)
(* addresses, since two hosts never share a label, and with no address at  *)
(* all only the fan-out, then a property of the capture, may be added      *)
(* (redaction.py label_for, signals.py _detect_scan_port_fanout).          *)
SignalsUnder(md) ==
  S!Extract(CR!BuildCaptureReport(Case.snapshot, md, program.maxFlows))

RedactionNeutral ==
  phase = "analysed" =>
    /\ SignalsUnder("redact_private") = SignalsUnder("full")
    /\ SignalsUnder("none") \ {"scan_port_fanout"}
         = SignalsUnder("full") \ {"scan_port_fanout"}
    /\ SignalsUnder("full") \subseteq SignalsUnder("none")

(* Recommending a candidate means: it is no reference, supplies no less of *)
(* what is relevant and no more of what is not, does not bring the request *)
(* into the sizes that fail, and either supplies more or asks for less; no *)
(* other such candidate is as good on both and better on one.  Keeping the *)
(* baseline means that no candidate improves on it so (candidates.py rank).*)
(* A change is accepted if it is better in some way and in no way worse,   *)
(* never if it is worse in some way and better in none (_decide).  A value *)
(* of a sweep costs no relevant document and no case its notes (recommend).*)
Keeps(n) ==
  /\ ~program.plan[n].reference_only
  /\ SuppliedRecall(n)[1] >= SuppliedRecall(1)[1]
  /\ IrrelevantSupplied(n) <= IrrelevantSupplied(1)
  /\ \A i \in Cases : accounts[n][i].request < RiskTokens
                      \/ \E j \in Cases : accounts[1][j].request >= RiskTokens

Dominates(a, b) ==
  /\ SuppliedRecall(a)[1] >= SuppliedRecall(b)[1]
  /\ MaxRequestTokens(a) <= MaxRequestTokens(b)
  /\ \/ SuppliedRecall(a)[1] > SuppliedRecall(b)[1]
     \/ MaxRequestTokens(a) < MaxRequestTokens(b) /\ SuppliedRecall(a)[1] > 0

AsGood(a, b) ==
  /\ ~Below(SuppliedRecall(a), SuppliedRecall(b))
  /\ ~Below(SuppliedPrecision(a), SuppliedPrecision(b))
  /\ IrrelevantSupplied(a) <= IrrelevantSupplied(b)

CandidateSound ==
  /\ recommended # 0 =>
       /\ Keeps(recommended)
       /\ \/ SuppliedRecall(recommended)[1] > SuppliedRecall(1)[1]
          \/ MaxRequestTokens(recommended) < MaxRequestTokens(1)
  /\ \A n \in Candidates \ {1} :
       Keeps(n) => ~Dominates(n, IF recommended = 0 THEN 1 ELSE recommended)

DecisionSound ==
  LET after == Len(program.plan)
  IN (\A n \in {1, after} : Defined(SuppliedPrecision(n))) =>
       /\ AsGood(after, 1) /\ ~AsGood(1, after) => recommended = after
       /\ AsGood(1, after) => recommended = 0

Reached(n, i) ==
  Cardinality(program.dataset[i].relevant \cap
                (IF program.study = "budget" THEN accounts[n][i].supplied
                                             ELSE accounts[n][i].retrieved))

SweepSound ==
  recommended # 0 =>
    /\ \A n \in Candidates :
         (\E i \in Cases : Reached(n, i) > Reached(recommended, i))
           => \E i \in Cases : Reached(n, i) < Reached(recommended, i)
    /\ program.study = "min_similarity" =>
         \A i \in Cases : accounts[recommended][i].retrieved # {}

RecommendationSound ==
  phase = "selected" =>
    CASE program.study = "candidates" -> CandidateSound
      [] program.study = "variants"   -> DecisionSound
      [] OTHER                        -> SweepSound
=============================================================================

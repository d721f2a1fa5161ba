---------------------------- MODULE MCEvaluation ----------------------------
(* Twelve kinds of connection give every signal; any three of them, in any *)
(* order, are a capture analysed without notes.  Two labelled captures are *)
(* the cases of an evaluation: four chunks of three notes (two of one      *)
(* about scans, the first of them long, a long one of a general note, one  *)
(* about DNS) under four candidates.                                       *)
EXTENDS Evaluation

CONSTANTS none, browse, BROWSE, blank, odd, tunnel, home

MCFolded == [n \in {browse, BROWSE, blank, odd, tunnel, home} |->
               IF n = BROWSE THEN browse ELSE IF n \in {blank, odd} THEN << >> ELSE n]

\* Hosts 1 to 4 are internal.
Conn(src, proto, dport, sni, out, in) ==
  [src |-> src, dst |-> 9, proto |-> proto, sport |-> src, dport |-> dport,
   sni |-> sni, known |-> sni # none, state |-> "ESTABLISHED", verdict |-> "FORWARD",
   out |-> out, in |-> in, syn |-> proto = "TCP", synack |-> proto = "TCP"]

Tls     == Conn(1, "TCP", 443, browse, 1, 3)
Http    == Conn(2, "TCP", 80, home, 1, 2)
Quic    == Conn(2, "UDP", 443, none, 4, 1)
Hidden  == Conn(3, "TCP", 443, blank, 1, 1)
Probe1  == [Conn(1, "TCP", 9001, none, 1, 0) EXCEPT !.synack = FALSE]
Probe2  == [Conn(1, "TCP", 9002, none, 1, 0) EXCEPT !.synack = FALSE]
Probe3  == [Conn(3, "TCP", 9003, none, 1, 1) EXCEPT !.dst = 2]
Lookup1 == Conn(1, "UDP", 53, browse, 1, 1)
Lookup2 == [Conn(1, "UDP", 53, BROWSE, 1, 1) EXCEPT !.sport = 5]
Lookup3 == Conn(2, "UDP", 53, tunnel, 1, 1)
Denied  == [Conn(2, "TCP", 443, odd, 1, 0) EXCEPT !.state = "BLOCKED", !.verdict = "DROP"]
\* A reset has taken the record of a blocked flow to CLOSED.
Reset   == [Conn(4, "TCP", 8080, none, 1, 0) EXCEPT !.state = "CLOSED", !.verdict = "DROP"]

Kinds == {Tls, Http, Quic, Hidden, Probe1, Probe2, Probe3,
          Lookup1, Lookup2, Lookup3, Denied, Reset}

Snapshot(conns) ==
  [connections |-> conns,
   dropped |-> Cardinality({i \in DOMAIN conns : conns[i].verdict = "DROP"})]

Captures == {<< >>} \cup {<<a>> : a \in Kinds}
  \cup {s \in Kinds \X Kinds \X Kinds : Cardinality({s[1], s[2], s[3]}) = 3}

MCConfig ==
  [unknown_app_min_share |-> 20, unknown_app_min_flows |-> 2,
   dns_min_share |-> 15, dns_min_flows |-> 2,
   dns_cardinality_min_ratio |-> 90, dns_cardinality_min_flows |-> 2,
   scan_min_distinct_ports |-> 2,
   half_open_min_flows |-> 2, half_open_min_ratio |-> 50,
   upload_min_ratio |-> 3, upload_min_bytes_out |-> 4,
   nonstandard_min_flows |-> 2, nonstandard_min_bytes |-> 1, presence_min_flows |-> 1]
MCCommonPorts == {53, 80, 443, 8080}
-----------------------------------------------------------------------------
MCSignalTypes == DOMAIN S!Detected(NoReport)
MCDocument == [c \in Chunks |-> IF c = 1 THEN 2 ELSE c]
MCAppliesTo == [c \in Chunks |-> IF c <= 2 THEN {"scan_port_fanout"} ELSE
                                 IF c = 3 THEN {} ELSE {"dns_high_cardinality"}]
MCSize == [c \in Chunks |-> IF c = 1 THEN 15 ELSE IF c = 3 THEN 13 ELSE 4]

Shape(topK, cap, floor, rank) ==
  [per_query_top_k |-> topK, final_top_k |-> 3, min_similarity |-> floor,
   max_per_document |-> cap, include_capture_query |-> TRUE, affinity |-> rank]
Budget(n, chars, tokens) ==
  [max_items |-> n, max_chars |-> chars, max_total_tokens |-> tokens]

Baseline  == [name |-> 4, retrieval |-> Shape(2, 2, 0, FALSE),
              budget |-> Budget(2, 24, 6), reference_only |-> FALSE]
A         == [name |-> 1, retrieval |-> Shape(3, 1, 1, TRUE),
              budget |-> Budget(2, 16, 4), reference_only |-> FALSE]
D         == [name |-> 2, retrieval |-> Shape(3, 1, 1, TRUE),
              budget |-> Budget(2, 26, 7), reference_only |-> FALSE]
Unbounded == [name |-> 5, retrieval |-> Shape(3, 1, 1, TRUE),
              budget |-> Budget(99, 999, 999), reference_only |-> TRUE]
MCPlan == <<Baseline, A, D, Unbounded>>

\* The old ranking and the new one under one budget; sweeps of max_items, of
\* min_similarity and of per_query_top_k.
Row(value, shape, limits) ==
  [name |-> value, retrieval |-> shape, budget |-> limits, reference_only |-> FALSE]
Ranking    == [n \in 1..2 |-> Row(n, Shape(3, 2, 0, n = 2), Budget(2, 40, 12))]
ItemSweep  == [n \in 1..3 |-> Row(n, Shape(3, 1, 0, FALSE), Budget(n, 999, 999))]
FloorSweep == [n \in 1..3 |-> Row(n - 1, Shape(3, 1, n - 1, TRUE), Budget(2, 24, 6))]
DepthSweep == [n \in 1..2 |-> Row(n, Shape(n, 1, 0, TRUE), Budget(2, 24, 6))]

ScanCase == [snapshot |-> Snapshot(<<Tls, Http, [Tls EXCEPT !.dport = 22]>>),
             relevant |-> {2, 3}, irrelevant |-> {4}, chars |-> 20]
DnsCase  == [snapshot |-> Snapshot(<<Lookup1, Lookup3>>),
             relevant |-> {4}, irrelevant |-> {2}, chars |-> 24]

-----------------------------------------------------------------------------
Program(dataset, study, plan, mode, maxFlows) ==
  [dataset |-> dataset, study |-> study, plan |-> plan, mode |-> mode, maxFlows |-> maxFlows]
Unlabelled(conns) ==
  [snapshot |-> Snapshot(conns), relevant |-> {}, irrelevant |-> {}, chars |-> 0]

Studies == {<<"variants", Ranking>>,
            <<"budget", ItemSweep>>, <<"min_similarity", FloorSweep>>, <<"shape", DepthSweep>>}

MCPrograms ==
  {Program(<<Unlabelled(conns)>>, "candidates", << >>, mode, n) :
     conns \in Captures, mode \in {"full", "redact_private", "none"}, n \in {2, 3}}
  \cup {Program(cases, "candidates", MCPlan, "redact_private", 3) :
          cases \in {<<ScanCase>>, <<DnsCase>>, <<ScanCase, DnsCase>>}}
  \cup {Program(cases, study[1], study[2], "redact_private", 3) :
          cases \in {<<ScanCase>>, <<ScanCase, DnsCase>>}, study \in Studies}

\* The query of a case's own signal and the one about the whole capture are
\* answered freely, the others with the general note before the rest.
OwnQuery == {"scan_port_fanout", "dns_high_cardinality"}
General == [c \in Chunks |-> IF c = 3 THEN 1 ELSE 0]

Rows(own, whole, types) ==
  {[t \in types \cup {Capture} |->
      IF t = Capture THEN w ELSE IF t \in OwnQuery THEN o ELSE General] :
     o \in own, w \in whole}

AnyOf(low, high) == [Chunks -> {low, high}]
Few == {f \in [Chunks -> {0, 1}] : f[1] = 1 /\ f[2] = 0}

MCAnswers(p) ==
  IF p.plan = << >> THEN {<< >>}
  ELSE LET rows(i, own, whole) == Rows(own, whole, SignalsOf(p, p.dataset[i]))
           whole == IF p.study = "candidates" THEN Few ELSE {General}
       IN IF Len(p.dataset) = 1
          THEN {<<a>> : a \in rows(1, AnyOf(0, 2),
                                   IF p.study = "candidates" THEN AnyOf(1, 2) ELSE Few)}
          ELSE {<<a, b>> : a \in rows(1, {f \in AnyOf(0, 2) : f[1] = 2}, Few),
                           b \in rows(2, {f \in AnyOf(0, 2) : f[2] = 0}, whole)}
=============================================================================

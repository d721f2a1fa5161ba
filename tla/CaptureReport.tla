--------------------------- MODULE CaptureReport ---------------------------
(***************************************************************************)
(* ai/extractor.py and ai/redaction.py: the sanitized report of a capture. *)
(* The connections of a snapshot are ranked by interest, cut to max_flows, *)
(* put in the order that numbers them, and copied field by field; names    *)
(* are sanitized and addresses withheld, kept or given a pseudonym.        *)
(*                                                                         *)
(* A connection is a record [src, dst, proto, sport, dport, sni, known,    *)
(* state, verdict, out, in, syn, synack]; an address is a number.          *)
(***************************************************************************)
EXTENDS Integers, Sequences, FiniteSets, FiniteSetsExt

CONSTANTS Internal,   \* addresses that is_private and its like hold of
          Alphabet,   \* letters of a pseudonym: 26
          NoName,     \* the absent name
          Blank,      \* names that are nothing but white space
          Folded      \* what is left of a name in lower case without the
                      \* characters no host name has; << >> when nothing is

-----------------------------------------------------------------------------
Volume(c) == c.out + c.in

\* flow_sort_key, read as a comparison: c is of more interest than d.
Outranks(c, d) ==
  LET key(x) == <<IF x.state = "BLOCKED" THEN 1 ELSE 0,
                  IF x.sni # NoName THEN 1 ELSE 0, Volume(x)>>
  IN \E i \in 1..3 : /\ key(c)[i] > key(d)[i]
                     /\ \A j \in 1..i-1 : key(c)[j] = key(d)[j]

\* The order of the report, which numbers its flows.
PrecedesByPort(c, d) ==
  LET key(x) == <<x.dport, x.sport, x.src>>
  IN \E i \in 1..3 : /\ key(c)[i] < key(d)[i]
                     /\ \A j \in 1..i-1 : key(c)[j] = key(d)[j]

\* sorted: a stable sort, with Ahead a strict weak order.
Sorted(s, Ahead(_, _)) ==
  LET before(i) == {j \in DOMAIN s : \/ Ahead(s[j], s[i])
                                     \/ ~Ahead(s[i], s[j]) /\ j < i}
  IN [k \in DOMAIN s |-> s[CHOOSE i \in DOMAIN s : Cardinality(before(i)) = k - 1]]

SelectedInPortOrder(conns, maxFlows) ==                         \* mutant
  LET order == Sorted(conns, PrecedesByPort)
  IN SubSeq(order, 1, Min({Len(order), maxFlows}))

Selected(conns, maxFlows) ==
  LET ranked == Sorted(conns, Outranks)
  IN Sorted(SubSeq(ranked, 1, Min({Len(ranked), maxFlows})), PrecedesByPort)
-----------------------------------------------------------------------------
\* sanitize_hostname: none, the marker of a name that had nothing usable, or
\* what is usable.
Sanitize(name) ==
  IF name = NoName \/ name \in Blank THEN NoName
  ELSE IF Folded[name] = << >> THEN "<invalid-hostname>" ELSE Folded[name]

(* The n-th of a, b, ..., z, aa, ab, ...: after the last letter the number  *)
(* of words one letter longer starts again at 0.                           *)
Letters[n \in Nat] ==
  IF n \div Alphabet = 0 THEN <<n % Alphabet>>
  ELSE Append(Letters[n \div Alphabet - 1], n % Alphabet)

LabelOneShort(n) ==                                             \* mutant
  LET letters[k \in Nat] ==
        IF k \div Alphabet <= 1 THEN <<k % Alphabet>>
        ELSE Append(letters[k \div Alphabet - 1], k % Alphabet)
  IN letters[n]

Label(n) == Letters[n]

\* The addresses of the flows in the order redact_ip sees them.
Seen(flows) ==
  [i \in 1..2 * Len(flows) |->
     LET f == flows[(i + 1) \div 2] IN IF i % 2 = 1 THEN f.src ELSE f.dst]

\* label_for: the n-th address that needed a pseudonym has the n-th label.
LabelFor(a, flows) ==
  LET seen == Seen(flows)
      first == Min({i \in DOMAIN seen : seen[i] = a})
  IN Label(Cardinality({seen[i] : i \in 1..first-1} \cap Internal))

RedactIP(a, mode, flows) ==
  CASE mode = "none" -> << >>
    [] mode = "redact_private" /\ a \in Internal -> <<"host", LabelFor(a, flows)>>
    [] OTHER -> <<"address", a>>

\* FlowRecord; `about` is no field of it, but says which connection it is of.
FlowRecord(c, mode, flows) ==
  [proto |-> c.proto, dport |-> c.dport, name |-> Sanitize(c.sni),
   known |-> c.known, state |-> c.state, verdict |-> c.verdict,
   out |-> c.out, in |-> c.in, syn |-> c.syn, synack |-> c.synack,
   src |-> RedactIP(c.src, mode, flows), dst |-> RedactIP(c.dst, mode, flows),
   about |-> c]

(* build_capture_report.  The totals are those of the engine, whatever the *)
(* cap leaves out.                                                         *)
BuildCaptureReport(snapshot, mode, maxFlows) ==
  LET flows == Selected(snapshot.connections, maxFlows)
  IN [flows |-> [i \in DOMAIN flows |-> FlowRecord(flows[i], mode, flows)],
      total |-> Len(snapshot.connections),
      dropped |-> snapshot.dropped]
=============================================================================

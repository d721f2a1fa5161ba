------------------------------ MODULE Signals ------------------------------
(***************************************************************************)
(* ai/rag/signals.py: the observations a capture report supports.  Each    *)
(* detector reads nothing but the report and the thresholds and either     *)
(* names the flows that bear its observation out or is silent.  A share is *)
(* in percent; summaries, confidences and figures are left out.            *)
(***************************************************************************)
EXTENDS Integers, Sequences, FiniteSets

CONSTANTS Config,      \* SignalConfig: a record of its thresholds
          CommonPorts, \* COMMON_PORTS
          Irregular,   \* names whose leftmost label is long or of high entropy
          Absent       \* a server name that is None

\* SignalConfig: a share in percent, and beside it the least number it is of.
SignalConfigs ==
  [unknown_app_min_share : Nat, unknown_app_min_flows : Nat,
   dns_min_share : Nat, dns_min_flows : Nat,
   dns_cardinality_min_ratio : Nat, dns_cardinality_min_flows : Nat,
   scan_min_distinct_ports : Nat,
   half_open_min_flows : Nat, half_open_min_ratio : Nat,
   upload_min_ratio : Nat, upload_min_bytes_out : Nat,
   nonstandard_min_flows : Nat, nonstandard_min_bytes : Nat, presence_min_flows : Nat]

\* The numbers of the flows of the report that P holds of.
FlowsWith(r, P(_)) == {i \in DOMAIN r.flows : P(r.flows[i])}

\* _ratio, compared with a threshold: nothing of nothing is no share.
ShareReached(part, whole, percent) ==
  whole > 0 /\ 100 * part >= percent * whole

IsDns(f) == f.proto = "UDP" /\ f.dport = 53
IsNamed(f) == f.name # Absent
-----------------------------------------------------------------------------
UnknownAppShare(r) ==
  LET unknown == FlowsWith(r, LAMBDA f : ~f.known)
  IN /\ Cardinality(unknown) >= Config.unknown_app_min_flows
     /\ ShareReached(Cardinality(unknown), Len(r.flows), Config.unknown_app_min_share)

DnsHighVolume(r) ==
  LET dns == FlowsWith(r, IsDns)
  IN /\ Cardinality(dns) >= Config.dns_min_flows
     /\ ShareReached(Cardinality(dns), Len(r.flows), Config.dns_min_share)

\* Names are counted as they were sanitized.
DnsHighCardinality(r) ==
  LET dns == FlowsWith(r, LAMBDA f : IsDns(f) /\ IsNamed(f))
      names == {r.flows[i].name : i \in dns}
  IN /\ Cardinality(dns) >= Config.dns_cardinality_min_flows
     /\ ShareReached(Cardinality(names), Cardinality(dns),
                     Config.dns_cardinality_min_ratio)

DnsAnomalousLabel(r) ==
  FlowsWith(r, LAMBDA f : IsDns(f) /\ IsNamed(f) /\ f.name \in Irregular) # {}

\* Ports one source reached; withheld, all the sources are one.
Fanout(r, src) == {r.flows[i].dport : i \in FlowsWith(r, LAMBDA f : f.src = src)}

ScanPortFanout(r) ==
  \E i \in DOMAIN r.flows :
    Cardinality(Fanout(r, r.flows[i].src)) >= Config.scan_min_distinct_ports

ScanHalfOpen(r) ==
  LET tcp == FlowsWith(r, LAMBDA f : f.proto = "TCP" /\ f.syn)
      halfOpen == {i \in tcp : ~r.flows[i].synack}
  IN /\ Cardinality(halfOpen) >= Config.half_open_min_flows
     /\ ShareReached(Cardinality(halfOpen), Cardinality(tcp), Config.half_open_min_ratio)

Present(flows) == Cardinality(flows) >= Config.presence_min_flows

TlsWithoutSni(r) ==
  Present(FlowsWith(r, LAMBDA f : f.proto = "TCP" /\ f.dport = 443 /\ ~IsNamed(f)))

PlaintextHttp(r) ==
  Present(FlowsWith(r, LAMBDA f : f.proto = "TCP" /\ f.dport = 80))

QuicPresent(r) ==
  Present(FlowsWith(r, LAMBDA f : f.proto = "UDP" /\ f.dport = 443))

UploadAsymmetry(r) ==
  FlowsWith(r, LAMBDA f : /\ f.out >= Config.upload_min_bytes_out
                          /\ f.out >= Config.upload_min_ratio * f.in
                          /\ f.out >= Config.upload_min_ratio) # {}

NonstandardPortEgress(r) ==
  Cardinality(FlowsWith(r, LAMBDA f : /\ f.dport \notin CommonPorts
                                      /\ f.out + f.in >= Config.nonstandard_min_bytes))
    >= Config.nonstandard_min_flows

\* The flows it names may all have been left out of the report.
BlockedTrafficPresent(r) ==
  \/ FlowsWith(r, LAMBDA f : f.verdict = "DROP" \/ f.state = "BLOCKED") # {}
  \/ r.dropped > 0

BaselineWebBrowsing(r) == r.flows # << >>
-----------------------------------------------------------------------------
\* DETECTORS, by the SignalType each may emit.
Detected(r) ==
  [unknown_app_share       |-> UnknownAppShare(r),
   dns_high_volume         |-> DnsHighVolume(r),
   dns_high_cardinality    |-> DnsHighCardinality(r),
   dns_anomalous_label     |-> DnsAnomalousLabel(r),
   scan_port_fanout        |-> ScanPortFanout(r),
   scan_half_open          |-> ScanHalfOpen(r),
   tls_without_sni         |-> TlsWithoutSni(r),
   plaintext_http          |-> PlaintextHttp(r),
   quic_present            |-> QuicPresent(r),
   upload_asymmetry        |-> UploadAsymmetry(r),
   nonstandard_port_egress |-> NonstandardPortEgress(r),
   blocked_traffic_present |-> BlockedTrafficPresent(r),
   baseline_web_browsing   |-> BaselineWebBrowsing(r)]

\* extract_signals: the types that fired.
Extract(r) == LET found == Detected(r) IN {t \in DOMAIN found : found[t]}

(* The severity that leads the order of the signals; half of the flows     *)
(* unknown counts for more than a fifth of them.                           *)
Severity(t, r) ==
  CASE t \in {"quic_present", "baseline_web_browsing"} -> 0
    [] t \in {"dns_high_cardinality", "dns_anomalous_label", "scan_port_fanout",
              "scan_half_open", "upload_asymmetry"} -> 2
    [] t = "unknown_app_share" ->
         IF ShareReached(Cardinality(FlowsWith(r, LAMBDA f : ~f.known)),
                         Len(r.flows), 50) THEN 2 ELSE 1
    [] OTHER -> 1
=============================================================================

------------------------------ MODULE FastPath ------------------------------
(***************************************************************************)
(* dpi/fast_path.py: one FP thread over its flow table.  The thread takes  *)
(* a packet, finds or opens its flow, advances the TCP state, short-       *)
(* circuits a blocked flow, inspects an unclassified one and applies the   *)
(* rules; between packets it sweeps the table.  Nobody else touches the    *)
(* table, so a packet is one action; the rules are edited by other threads *)
(* between packets.                                                        *)
(***************************************************************************)
EXTENDS ConnectionTracker

CONSTANTS Packets,   \* packets that occur: tuple, flags, kind and name
          RuleSets,  \* contents the rule manager may have
          AppOf,     \* sni_to_app_type, as a function on Names
          NoPacket   \* no packet was handled in the last step

HttpPorts == {80, 8000, 8080, 8888}
Flags == {"SYN", "ACK", "FIN", "RST"}
Kinds == {"none", "tls", "http", "dns", "opaque"}   \* none: no payload

ASSUME FastPathAssumption ==
  /\ \A p \in Packets : /\ p.tuple \in Tuples /\ p.flags \subseteq Flags
                        /\ p.kind \in Kinds /\ p.name \in Names
  /\ AppOf \in [Names -> Apps]
  /\ AppOf[NoName] = "UNKNOWN"
  /\ {"DNS", "HTTP", "HTTPS"} \subseteq Apps
  /\ NoPacket \notin [packet : Packets, verdict : {"FORWARD", "DROP"}]

VARIABLES rules,     \* what is blocked: ips, ports, apps, domains
          handled,   \* the packet handled in the last step and its verdict
          matched    \* history: tracked flows that some packet hit a rule on

vars == <<connections, older, rules, handled, matched>>

Init ==
  /\ TrackerInit
  /\ rules \in RuleSets
  /\ handled = NoPacket
  /\ matched = {}
-----------------------------------------------------------------------------
(* _update_tcp_state                                                       *)
UpdateTcpState(conn, flags) ==
  LET syn == conn.syn_seen \/ ("SYN" \in flags /\ "ACK" \notin flags)
      synAck == conn.syn_ack_seen \/ {"SYN", "ACK"} \subseteq flags
      fin == conn.fin_seen \/ "FIN" \in flags
      shaken == syn /\ synAck /\ "ACK" \in flags
      over == "RST" \in flags \/ (fin /\ "ACK" \in flags)
  IN [conn EXCEPT !.syn_seen = syn, !.syn_ack_seen = synAck, !.fin_seen = fin,
        !.state = IF over THEN "CLOSED"
                  ELSE IF @ = "NEW" /\ shaken THEN "ESTABLISHED" ELSE @]

TcpAdvanced(conn, p) ==
  IF p.tuple.protocol = 6 THEN UpdateTcpState(conn, p.flags) ELSE conn

(* _inspect_payload: TLS server name, HTTP Host, DNS question, then the    *)
(* port.  A Client Hello with a name is never shorter than the 50 bytes    *)
(* that let it be parsed on any port.                                      *)
Inspected(conn, p) ==
  CASE p.kind = "tls" -> Classify(conn, AppOf[p.name], p.name)
    [] p.kind = "http" /\ p.tuple.dst_port \in HttpPorts ->
         Classify(conn, AppOf[p.name], p.name)
    [] p.kind = "dns" /\ 53 \in {p.tuple.src_port, p.tuple.dst_port} ->
         Classify(conn, "DNS", p.name)
    [] OTHER -> IF p.tuple.dst_port \in HttpPorts THEN Classify(conn, "HTTP", NoName)
                ELSE IF p.tuple.dst_port = 443 THEN Classify(conn, "HTTPS", NoName)
                ELSE conn

(* should_block: source address, destination port, application, domain.    *)
ShouldBlock(t, conn) ==
  \/ t.src_ip \in rules.ips
  \/ t.dst_port \in rules.ports
  \/ conn.app_type \in rules.apps
  \/ conn.sni # NoName /\ conn.sni \in rules.domains

(* The record as rule checking sees it.                                    *)
ExaminedThoughBlocked(p) ==                                     \* mutant
  LET conn == TcpAdvanced(Found(p.tuple), p)
  IN IF conn.state = "CLASSIFIED" \/ p.kind = "none" THEN conn
     ELSE Inspected(conn, p)

Examined(p) ==
  LET conn == TcpAdvanced(Found(p.tuple), p)
  IN IF conn.state \in {"BLOCKED", "CLASSIFIED"} \/ p.kind = "none" THEN conn
     ELSE Inspected(conn, p)

VerdictSparesClassified(p) ==                                   \* mutant
  LET before == TcpAdvanced(Found(p.tuple), p)
      conn == Examined(p)
  IN IF conn.state = "BLOCKED" \/ (before.state # "CLASSIFIED" /\ ShouldBlock(p.tuple, conn))
     THEN "DROP" ELSE "FORWARD"

Verdict(p) ==
  LET conn == Examined(p)
  IN IF conn.state = "BLOCKED" \/ ShouldBlock(p.tuple, conn) THEN "DROP" ELSE "FORWARD"

(* One turn of _run with a packet in hand.                                 *)
Process(p) ==
  LET t == p.tuple
      conn == Examined(p)
      hit == conn.state # "BLOCKED" /\ ShouldBlock(t, conn)
  IN /\ Store(t, IF hit THEN Block(conn) ELSE conn)
     /\ handled' = [packet |-> p, verdict |-> Verdict(p)]
     /\ matched' = (matched \ Victims(t)) \cup {k \in {Key(t)} : hit}
     /\ UNCHANGED rules

(* The timed sweep, in a turn with or without a packet: it comes before    *)
(* the packet is processed, so it is a step of its own.                    *)
Sweep(idle) ==
  /\ CleanupStale(idle)
  /\ matched' = matched \cap DOMAIN connections'
  /\ handled' = NoPacket
  /\ UNCHANGED rules

\* Another thread changes the rules.
EditRules(r) ==
  /\ rules' = r
  /\ handled' = NoPacket
  /\ UNCHANGED <<connections, older, matched>>

Next ==
  \/ \E p \in Packets : Process(p)
  \/ \E idle \in IdleSets : Sweep(idle)
  \/ \E r \in RuleSets : EditRules(r)

Spec == Init /\ [][Next]_vars

(* The sweep is driven by elapsed time in a loop whose pop times out, so   *)
(* it comes round whether the thread is busy or idle.                      *)
FairSpec == Spec /\ WF_vars(\E idle \in IdleSets : Sweep(idle))
-----------------------------------------------------------------------------
(* Every variable has its type, the table never exceeds its limit and the  *)
(* order of last_seen is total, so eviction always finds one victim.       *)
TypeOK ==
  /\ TrackerTypeOK /\ SeenInTotalOrder
  /\ rules \in RuleSets
  /\ handled \in {NoPacket} \cup [packet : Packets, verdict : {"FORWARD", "DROP"}]
  /\ matched \subseteq Tracked

\* The flow the last packet belonged to.
Handled == handled # NoPacket
Flow == connections[Key(handled.packet.tuple)]

(* A forwarded packet matches no rule, with what its own payload has just  *)
(* told about the flow, also when the rules changed under a long-classified*)
(* flow ("even for classified connections, as rules might change").        *)
ForwardObeysRules ==
  Handled /\ handled.verdict = "FORWARD" => ~ShouldBlock(handled.packet.tuple, Flow)

(* A packet is dropped only if a packet of its own conversation hit a rule *)
(* while the conversation was tracked: no flow inherits a block from the   *)
(* record it displaced or from a neighbour.                                *)
DropHasCause ==
  Handled /\ handled.verdict = "DROP" => Key(handled.packet.tuple) \in matched

(* The packet that takes the flow k to CLOSED: a reset, or an ACK once a    *)
(* FIN was seen from either side.                                          *)
Concerns(p, k) == p.tuple \in {k, Reverse(k)}
Closes(p, k) ==
  /\ Concerns(p, k) /\ p.tuple.protocol = 6
  /\ \/ "RST" \in p.flags
     \/ "ACK" \in p.flags /\ ("FIN" \in p.flags \/ connections[k].fin_seen)

(* A blocked flow stays blocked, and drops every packet of both its        *)
(* directions, until a packet closes it or its record leaves the table.    *)
BlockHolds(k) ==
  connections[k].state = "BLOCKED" /\ ~(Handled' /\ Closes(handled'.packet, k))
    => /\ connections'[k].state = "BLOCKED"
       /\ Handled' /\ Concerns(handled'.packet, k) => handled'.verdict = "DROP"

BlockHoldsUntilClosed == [][\A k \in Tracked \cap Tracked' : BlockHolds(k)]_vars

(* The first payload identified decides what a flow is until a packet      *)
(* closes it: no later payload and no late handshake changes it.           *)
ClassificationHolds(k) ==
  connections[k].state = "CLASSIFIED" /\ ~(Handled' /\ Closes(handled'.packet, k))
    => /\ connections'[k].state \in {"CLASSIFIED", "BLOCKED"}
       /\ connections'[k].app_type = connections[k].app_type
       /\ connections'[k].sni = connections[k].sni

ClassificationHoldsUntilClosed ==
  [][\A k \in Tracked \cap Tracked' : ClassificationHolds(k)]_vars

(* A full table never evicts the flow of the packet before: a conversation *)
(* in progress keeps its record while others come and go.                  *)
RecentStays ==
  MaxConnections > 1 /\ Handled /\ Handled' => Key(handled.packet.tuple) \in Tracked'

EvictionSparesRecent == [][RecentStays]_vars

(* A closed flow does not sit in the table for ever, however busy the      *)
(* thread is: the sweep takes it unless new payload revives it first.      *)
ClosedFlowsLeave ==
  \A k \in Tuples :
    (k \in Tracked /\ connections[k].state = "CLOSED")
      ~> ~(k \in Tracked /\ connections[k].state = "CLOSED")

(* README: "Once a flow is blocked, later packets in that flow are dropped *)
(* without re-inspection, in both directions."  The action of a record is  *)
(* set to DROP by block_connection alone and never set back.               *)
BlockedFlowStaysDropped ==
  [][\A k \in Tracked :
       connections[k].action = "DROP" /\ Handled' /\ Concerns(handled'.packet, k)
         => handled'.verdict = "DROP"]_vars
=============================================================================

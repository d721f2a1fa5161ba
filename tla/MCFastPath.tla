----------------------------- MODULE MCFastPath -----------------------------
(***************************************************************************)
(* A small world for the fast path: an HTTPS and a plain HTTP conversation *)
(* over TCP and a DNS one over UDP, a table with room for two of the       *)
(* three, and one rule of each kind.                                       *)
(***************************************************************************)
EXTENDS FastPath

CONSTANTS laptop, phone, web, resolver,   \* addresses
          tube, plain                     \* host names

Tuple(src, sport, dst, dport, proto) ==
  [src_ip |-> src, dst_ip |-> dst, src_port |-> sport, dst_port |-> dport,
   protocol |-> proto]

https == Tuple(laptop, 50000, web, 443, 6)
http == Tuple(phone, 50001, web, 8080, 6)
dns == Tuple(laptop, 50002, resolver, 53, 17)

MCTuples == {t : t \in {https, http, dns}} \cup {Reverse(t) : t \in {https, http, dns}}

Packet(tuple, flags, kind, name) ==
  [tuple |-> tuple, flags |-> flags, kind |-> kind, name |-> name]

Segment(tuple, flags) == Packet(tuple, flags, "none", NoName)

MCPackets ==
  { Segment(https, {"SYN"}),
    Segment(Reverse(https), {"SYN", "ACK"}),
    Segment(Reverse(https), {"RST"}),
    Segment(https, {"FIN", "ACK"}),
    Packet(https, {"ACK"}, "tls", tube),
    Packet(https, {"ACK"}, "opaque", NoName),
    Packet(Reverse(https), {"ACK"}, "opaque", NoName),
    Segment(http, {"FIN"}),
    Packet(http, {"ACK"}, "http", plain),
    Packet(dns, {}, "dns", tube),
    Packet(Reverse(dns), {}, "opaque", NoName) }

MCApps == {"UNKNOWN", "DNS", "HTTP", "HTTPS", "YOUTUBE"}
MCNames == {NoName, tube, plain}
MCAppOf == [n \in MCNames |-> CASE n = NoName -> "UNKNOWN"
                                [] n = tube -> "YOUTUBE"
                                [] n = plain -> "HTTPS"]

NoRules == [ips |-> {}, ports |-> {}, apps |-> {}, domains |-> {}]
MCRuleSets == {NoRules,
               [NoRules EXCEPT !.ips = {laptop}, !.domains = {plain}],
               [NoRules EXCEPT !.apps = {"YOUTUBE"}, !.ports = {53}]}
=============================================================================

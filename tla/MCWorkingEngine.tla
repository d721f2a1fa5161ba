--------------------------- MODULE MCWorkingEngine ---------------------------
(***************************************************************************)
(* Frames put together the way a sender does, whole and damaged; captures  *)
(* of up to three of them.                                                 *)
(***************************************************************************)
EXTENDS WorkingEngine

Zeros(n) == [k \in 1..n |-> 0]
B2(v) == <<v \div 256, v % 256>>

client == <<10, 0, 0, 1>>
server == <<10, 0, 0, 2>>

\* Headers, with ihl and off words each.
Eth(type) == Zeros(12) \o B2(type)
IP(proto, ihl, src, dst) ==
  Eth(IPv4) \o <<64 + ihl>> \o Zeros(8) \o <<proto>> \o Zeros(2) \o src \o dst \o Zeros(4 * (ihl - 5))
TCPHdr(sport, dport, off) ==
  B2(sport) \o B2(dport) \o Zeros(8) \o <<16 * off>> \o Zeros(4 * off - 13)
UDPHdr(sport, dport) == B2(sport) \o B2(dport) \o Zeros(4)

SNI(type, name) ==
  <<0, 0>> \o B2(Len(name) + 5) \o B2(Len(name) + 3) \o <<type>> \o B2(Len(name)) \o name
Hello(exts) ==
  LET body == Zeros(34) \o <<0, 0, 2, 19, 1, 1, 0>> \o B2(Len(exts)) \o exts
  IN <<22, 3, 3>> \o B2(Len(body) + 4) \o <<1, 0>> \o B2(Len(body)) \o body

\* f.be, g.be and F.be:8 (host names), a GET, and the start of two header names.
fbe == <<102, 46, 98, 101>>
gbe == <<103, 46, 98, 101>>
FBE == <<70, 46, 98, 101>>
get == <<71, 69, 84, 32, 47, 13, 10>>
host == <<72, 111, 115, 84, 58>>
crlf == <<13, 10>>

TcpFrame(sport, dport, ihl, off, payload) ==
  IP(TCP, ihl, client, server) \o TCPHdr(sport, dport, off) \o payload
Tuple(src, dst, sport, dport, proto) ==
  [src_ip |-> src, dst_ip |-> dst, src_port |-> sport, dst_port |-> dport, protocol |-> proto]
tls == Tuple(client, server, 9, 443, TCP)
web == Tuple(client, server, 9, 80, TCP)
odd == Tuple(client, server, 53, 443, TCP)
dns == Tuple(client, server, 9, 53, UDP)
quic == Tuple(client, server, 9, 443, UDP)
answer == Tuple(server, client, 53, 9, UDP)

hello == Hello(<<0, 43, 0, 1, 7>> \o SNI(2, gbe) \o SNI(0, fbe))

MCFrames == 1..13
MCBytes == [f \in MCFrames |->
  CASE f = 1 -> TcpFrame(9, 443, 5, 5, << >>)
    [] f = 2 -> TcpFrame(9, 443, 6, 7, hello)
    [] f = 3 -> TcpFrame(9, 443, 5, 5, Hello(SNI(0, gbe)) \o <<1>>)
    [] f = 4 -> TcpFrame(9, 443, 5, 5, SubSeq(hello, 1, 60))
    [] f = 5 -> TcpFrame(9, 80, 5, 6, get \o <<88, 45>> \o host \o gbe \o crlf \o host \o crlf
                                          \o host \o <<32>> \o FBE \o <<58, 56>>)
    [] f = 6 -> TcpFrame(9, 80, 5, 5, get \o crlf)
    [] f = 7 -> TcpFrame(53, 443, 5, 5, << >>)
    [] f = 8 -> TcpFrame(53, 443, 5, 5, Hello(SNI(0, gbe)))
    [] f = 9 -> IP(UDP, 6, client, server) \o UDPHdr(9, 53) \o <<0, 0, 1, 0, 0, 1>> \o Zeros(6)
                  \o <<1, 102, 2, 98, 101, 0, 0, 1>>
    [] f = 10 -> IP(UDP, 5, server, client) \o UDPHdr(53, 9) \o <<0, 0, 129, 0, 0, 1>> \o Zeros(6)
                  \o <<1, 102, 192, 12>>
    [] f = 11 -> IP(UDP, 5, client, server) \o UDPHdr(9, 443) \o <<192, 0, 0, 1, 1>>
                  \o Hello(SNI(0, fbe))
    [] f = 12 -> Eth(2054) \o Zeros(28)
    [] f = 13 -> IP(TCP, 5, client, server) \o SubSeq(TCPHdr(9, 443, 8), 1, 20)]

Said(tuple, kind, name) == [tuple |-> tuple, kind |-> kind, name |-> name]
MCSent == <<
  Said(tls, "none", << >>), Said(tls, "tls", fbe), Said(tls, "tls", gbe), Said(tls, "tls", << >>),
  Said(web, "http", FBE), Said(web, "http", << >>),
  Said(odd, "none", << >>), Said(odd, "tls", gbe),
  Said(dns, "dns", fbe), Said(answer, "dns", << >>), Said(quic, "quic", fbe),
  Said(<< >>, "none", << >>), Said(<< >>, "none", << >>) >>

\* A file in the byte order of the host or the other; the last record as told.
Num(swapped, v) == IF swapped THEN Swap32(v) ELSE v
File(swapped, snaplen, ids, tail) ==
  [magic |-> IF swapped THEN "d4c3b2a1" ELSE "a1b2c3d4", snaplen |-> Num(swapped, snaplen),
   records |-> [k \in DOMAIN ids |->
                  [inclLen |-> Num(swapped, Len(MCBytes[ids[k]])), data |-> ids[k],
                   whole |-> IF k = Len(ids) THEN tail ELSE "all"]]]

\* A swapped length beyond 127 is no integer of TLC; snaplen cuts one frame off.
Small == {f \in MCFrames : Len(MCBytes[f]) <= 127}

MCCaptures ==
  {File(FALSE, 160, <<a, b, c>>, "all") : a, b, c \in MCFrames}
    \cup {File(s, 100, <<a, b>>, t) : s \in BOOLEAN, a, b \in Small, t \in {"header", "data"}}
    \cup {[File(FALSE, 127, <<1>>, "all") EXCEPT !.magic = "0a0d0d0a"]}

MCSNIPatterns == <<[app |-> "YouTube", patterns |-> {<<fbe, "DOM">>, <<<<120>>, "SUB">>}],
                   [app |-> "Google", patterns |-> {<<<<102>>, "LBL">>, <<<<103, 46>>, "PFX">>}]>>

MCRuleSets == {[ips |-> {}, apps |-> {"YouTube"}, domains |-> {}],
               [ips |-> {server}, apps |-> {"HTTPS"}, domains |-> {<<70>>}],
               [ips |-> {}, apps |-> {"DNS"}, domains |-> {gbe}]}
=============================================================================

---------------------------- MODULE PacketParser ----------------------------
(***************************************************************************)
(* dpi/packet_parser.py: Ethernet, IPv4, TCP and UDP headers, and the      *)
(* three places that work out again where the payload starts.              *)
(*                                                                         *)
(* A packet is a sequence of bytes.  An operator that may come back with   *)
(* nothing yields a set of at most one result.  A byte beyond the end has  *)
(* no value: Python raises IndexError there, TLC an evaluation error.      *)
(***************************************************************************)
EXTENDS Integers, Sequences

ETH_HEADER_LEN == 14
MIN_IP_HEADER_LEN == 20
MIN_TCP_HEADER_LEN == 20
UDP_HEADER_LEN == 8
IPv4 == 2048
TCP == 6
UDP == 17

Byte(data, k) == data[k + 1]
U16(data, k) == Byte(data, k) * 256 + Byte(data, k + 1)
From(data, k) == SubSeq(data, k + 1, Len(data))

IHL(data) == Byte(data, 14) % 16
DataOffset(data, tcp) == Byte(data, tcp + 12) \div 16

IgnoreOptions(data) ==                                          \* mutant
  IF /\ Len(data) >= ETH_HEADER_LEN + MIN_IP_HEADER_LEN
     /\ Byte(data, ETH_HEADER_LEN) \div 16 = 4
  THEN {ETH_HEADER_LEN + MIN_IP_HEADER_LEN} ELSE {}

(* _parse_ipv4, at the end of the Ethernet header: where it ends.          *)
ParseIPv4(data) ==
  IF /\ Len(data) >= ETH_HEADER_LEN + MIN_IP_HEADER_LEN
     /\ Byte(data, ETH_HEADER_LEN) \div 16 = 4
     /\ IHL(data) * 4 >= MIN_IP_HEADER_LEN
     /\ Len(data) >= ETH_HEADER_LEN + IHL(data) * 4
  THEN {ETH_HEADER_LEN + IHL(data) * 4} ELSE {}

ParseTCP(data, offset) ==
  IF /\ Len(data) >= offset + MIN_TCP_HEADER_LEN
     /\ DataOffset(data, offset) * 4 >= MIN_TCP_HEADER_LEN
     /\ Len(data) >= offset + DataOffset(data, offset) * 4
  THEN {offset + DataOffset(data, offset) * 4} ELSE {}

ParseUDP(data, offset) ==
  IF Len(data) >= offset + UDP_HEADER_LEN THEN {offset + UDP_HEADER_LEN} ELSE {}

Protocol(data) == Byte(data, ETH_HEADER_LEN + 9)

EndOfHeaders(data, ip) ==
  IF Protocol(data) = TCP THEN ParseTCP(data, ip)
  ELSE IF Protocol(data) = UDP THEN ParseUDP(data, ip) ELSE {}

(* parse_into, for what the engines go on with: a TCP or UDP packet over   *)
(* IPv4, with its tuple and the end of its headers.                        *)
Transport(data) ==
  IF Len(data) < ETH_HEADER_LEN \/ U16(data, 12) # IPv4 THEN {}
  ELSE UNION {{[tuple |-> [src_ip |-> SubSeq(data, 27, 30), dst_ip |-> SubSeq(data, 31, 34),
                           src_port |-> U16(data, ip), dst_port |-> U16(data, ip + 2),
                           protocol |-> Protocol(data)],
                offset |-> end] : end \in EndOfHeaders(data, ip)} : ip \in ParseIPv4(data)}

\* PacketParser.parse leaves the rest of the data as payload.
Payload(data, parsed) == From(data, parsed.offset)
-----------------------------------------------------------------------------
(* The engines do not use parsed.payload_data: each reads the two length   *)
(* nibbles once more.                                                      *)

\* main_working.py; nothing when the TCP header seems cut off.
WorkingOffset(data) ==
  LET tcp == ETH_HEADER_LEN + IHL(data) * 4
  IN IF tcp + 12 < Len(data) THEN {tcp + DataOffset(data, tcp) * 4} ELSE {}

\* dpi_mt.py, process.
StandaloneOffset(data, parsed) ==
  LET transport == ETH_HEADER_LEN + IHL(data) * 4
  IN IF parsed.tuple.protocol = TCP /\ transport + 12 < Len(data)
     THEN transport + DataOffset(data, transport) * 4
     ELSE IF parsed.tuple.protocol = UDP THEN transport + UDP_HEADER_LEN ELSE transport

\* dpi_engine.py, create_packet_job; 0 is the default of payload_offset.
JobOffset(data, parsed) ==
  LET transport == ETH_HEADER_LEN + IHL(data) * 4
  IN IF parsed.tuple.protocol = TCP /\ Len(data) > transport
     THEN transport + DataOffset(data, transport) * 4
     ELSE IF parsed.tuple.protocol = UDP THEN transport + UDP_HEADER_LEN ELSE 0
=============================================================================

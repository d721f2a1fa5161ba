----------------------------- MODULE PcapReader -----------------------------
(***************************************************************************)
(* dpi/pcap_reader.py: which packets a reader finds in a capture file.     *)
(*                                                                         *)
(* A file is [magic, snaplen, records]; a record is [inclLen, data, whole].*)
(* magic, snaplen and inclLen are what a native load of their four bytes   *)
(* gives, so that a file written in the other byte order holds its numbers *)
(* swapped.  whole tells how much of the record is there before the end of *)
(* the file: all of it, part of its header, or part of its data.           *)
(***************************************************************************)
EXTENDS Naturals, Sequences

NativeMagics == {"a1b2c3d4", "a1b23c4d"}
SwappedMagics == {"d4c3b2a1", "4d3cb2a1"}

MAX_PACKET_LENGTH == 65535

Swap32(v) ==
  (v % 256) * 16777216 + ((v \div 256) % 256) * 65536
    + ((v \div 65536) % 256) * 256 + (v \div 16777216)

Opens(file) == file.magic \in NativeMagics \cup SwappedMagics
NeedsByteSwap(file) == file.magic \in SwappedMagics

MaybeSwap32(file, v) == IF NeedsByteSwap(file) THEN Swap32(v) ELSE v

\* The global header after open: version, snaplen and network swapped.
GlobalHeader(file) == [magic |-> file.magic, snaplen |-> MaybeSwap32(file, file.snaplen)]

(* read_next_packet, with n records behind it.  The end of the file, half  *)
(* a record and a length beyond the limits all end the reading.            *)
ReadNextPacket(file, n) ==
  IF n >= Len(file.records) THEN {}
  ELSE LET rec == file.records[n + 1]
           inclLen == MaybeSwap32(file, rec.inclLen)
       IN IF /\ rec.whole = "all"
             /\ inclLen <= GlobalHeader(file).snaplen
             /\ inclLen <= MAX_PACKET_LENGTH
          THEN {rec.data}
          ELSE {}

\* What iterating over the reader yields.
PacketsIn(file) ==
  LET readable == {n \in 0..Len(file.records) :
                     \A m \in 0..(n - 1) : ReadNextPacket(file, m) # {}}
      last == CHOOSE n \in readable : \A m \in readable : m <= n
  IN IF Opens(file) THEN [n \in 1..last |-> file.records[n].data] ELSE << >>
=============================================================================

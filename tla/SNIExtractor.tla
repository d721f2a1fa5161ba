---------------------------- MODULE SNIExtractor ----------------------------
(***************************************************************************)
(* dpi/sni_extractor.py: the name a client asks for, in the bytes of a TLS *)
(* Client Hello, a QUIC packet, an HTTP request or a DNS query.            *)
(*                                                                         *)
(* A payload and a name are sequences of bytes; the extractors yield a set *)
(* of at most one name.  A name may be empty.                              *)
(***************************************************************************)
EXTENDS PacketParser, SequencesExt, FiniteSetsExt

CONTENT_TYPE_HANDSHAKE == 22
HANDSHAKE_CLIENT_HELLO == 1
EXTENSION_SNI == 0

IsTLSClientHello(p) ==
  /\ Len(p) >= 9
  /\ Byte(p, 0) = CONTENT_TYPE_HANDSHAKE
  /\ U16(p, 1) \in 768..772
  /\ U16(p, 3) + 5 <= Len(p)
  /\ Byte(p, 5) = HANDSHAKE_CLIENT_HELLO

\* _read_sni_extension: the name in an extension body of n bytes at o.
ReadSNIExtension(p, o, n) ==
  IF /\ n >= 5 /\ U16(p, o) >= 3
     /\ Byte(p, o + 2) = 0
     /\ U16(p, o + 3) <= n - 5
  THEN {SubSeq(p, o + 6, o + 5 + U16(p, o + 3))}
  ELSE {}

(* The variable-length fields before the extensions, each skipped only if  *)
(* its length is within the payload; where the extensions start, if there. *)
Skip(p, o, width) ==   \* a field at o preceded by its length in width bytes
  IF o + width > Len(p) THEN {}
  ELSE {o + width + (IF width = 1 THEN Byte(p, o) ELSE U16(p, o))}

ExtensionsAt(p) ==
  {o + 2 : o \in {o \in UNION {Skip(p, b, 1) : b \in
                          UNION {Skip(p, a, 2) : a \in Skip(p, 43, 1)}} :
                    o + 2 <= Len(p)}}

StopAtFirstSNI(p, start) ==                                     \* mutant
  LET end == Min({start + U16(p, start - 2), Len(p)})
      Walk[o \in 0..Len(p)] ==
        IF o + 4 > end \/ o + 4 + U16(p, o + 2) > end THEN {}
        ELSE IF U16(p, o) = EXTENSION_SNI
        THEN ReadSNIExtension(p, o + 4, U16(p, o + 2))
        ELSE Walk[o + 4 + U16(p, o + 2)]
  IN Walk[start]

(* The walk over the extensions: the first server name that can be used.   *)
FirstServerName(p, start) ==
  LET end == Min({start + U16(p, start - 2), Len(p)})
      Walk[o \in 0..Len(p)] ==
        IF o + 4 > end \/ o + 4 + U16(p, o + 2) > end THEN {}
        ELSE LET n == U16(p, o + 2)
                 name == IF U16(p, o) = EXTENSION_SNI
                         THEN ReadSNIExtension(p, o + 4, n) ELSE {}
             IN IF name # {} THEN name ELSE Walk[o + 4 + n]
  IN Walk[start]

ExtractSNI(p) ==
  IF IsTLSClientHello(p)
  THEN UNION {FirstServerName(p, start) : start \in ExtensionsAt(p)}
  ELSE {}

(* QUICSNIExtractor: a window on each byte that may be a Client Hello, the *)
(* first that yields a name; the last fifty bytes are not looked at.       *)
ExtractQUIC(p) ==
  LET hellos == {i \in 5..(Len(p) - 51) :
                   /\ Byte(p, i) = HANDSHAKE_CLIENT_HELLO
                   /\ ExtractSNI(From(p, i - 5)) # {}}
  IN IF Len(p) >= 5 /\ Byte(p, 0) >= 128 /\ hellos # {}
     THEN ExtractSNI(From(p, Min(hellos) - 5))
     ELSE {}
-----------------------------------------------------------------------------
CR == 13
LF == 10
Blank == {32, 9}
Colon == 58
Dot == 46

Methods == {<<71, 69, 84, 32>>, <<80, 79, 83, 84>>, <<80, 85, 84, 32>>, <<72, 69, 65, 68>>,
            <<68, 69, 76, 69>>, <<80, 65, 84, 67>>, <<79, 80, 84, 73>>}
IsHTTPRequest(p) == Len(p) >= 4 /\ SubSeq(p, 1, 4) \in Methods

\* "host:" in either case, at the start of a line.
HostHeaderAt(p, i) ==
  /\ i = 0 \/ Byte(p, i - 1) \in {CR, LF}
  /\ Byte(p, i) \in {72, 104} /\ Byte(p, i + 1) \in {79, 111}
  /\ Byte(p, i + 2) \in {83, 115} /\ Byte(p, i + 3) \in {84, 116}
  /\ Byte(p, i + 4) = Colon

\* The rest of the line at k, blanks skipped.
LineAt(p, k) ==
  LET start == Min({s \in k..Len(p) : s = Len(p) \/ Byte(p, s) \notin Blank})
      end == Min({e \in start..Len(p) : e = Len(p) \/ Byte(p, e) \in {CR, LF}})
  IN SubSeq(p, start + 1, end)

\* HTTPHostExtractor.extract: the first value that is not empty, less its port.
ExtractHost(p) ==
  LET lines == {i \in 0..(Len(p) - 6) : HostHeaderAt(p, i) /\ LineAt(p, i + 5) # << >>}
      value == LineAt(p, Min(lines) + 5)
  IN IF ~IsHTTPRequest(p) \/ lines = {} THEN {}
     ELSE LET colon == SelectInSeq(value, LAMBDA b : b = Colon)
          IN {IF colon = 0 THEN value ELSE SubSeq(value, 1, colon - 1)}
-----------------------------------------------------------------------------
IsDNSQuery(p) == Len(p) >= 12 /\ Byte(p, 2) < 128 /\ U16(p, 4) > 0

(* extract_query: the labels from byte 12 up to a zero, a pointer or a     *)
(* label that does not fit, joined with dots.                              *)
ExtractQuery(p) ==
  LET Labels[o \in 0..Len(p)] ==
        IF o = Len(p) \/ Byte(p, o) = 0 \/ Byte(p, o) > 63 \/ o + 1 + Byte(p, o) > Len(p)
        THEN << >>
        ELSE <<Dot>> \o SubSeq(p, o + 2, o + 1 + Byte(p, o)) \o Labels[o + 1 + Byte(p, o)]
  IN IF IsDNSQuery(p) /\ Labels[12] # << >> THEN {Tail(Labels[12])} ELSE {}
=============================================================================

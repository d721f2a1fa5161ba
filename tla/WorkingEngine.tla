---------------------------- MODULE WorkingEngine ----------------------------
(***************************************************************************)
(* main_working.py: one thread that reads a capture, inspects each packet, *)
(* and writes what no rule blocks.  It composes the reader, the parser,    *)
(* the name extractors and the application table, and has its own rules    *)
(* and flow table.  The data of a record is the id of a frame, Bytes[id].  *)
(***************************************************************************)
EXTENDS PcapReader, SNIExtractor, AppTypes

CONSTANTS Frames, Bytes,   \* ids of frames and what they look like on the wire
          Sent,            \* for the properties: what the sender put into them
          Captures,        \* input files
          RuleSets         \* what the command line may block

ASSUME WorkingAssumption ==
  /\ DOMAIN Bytes = Frames /\ DOMAIN Sent = Frames
  /\ \A f \in Frames : Bytes[f] \in Seq(0..255)
  /\ \A c \in Captures :
       /\ DOMAIN c.records = 1..Len(c.records) /\ Len(c.records) \in Nat
       /\ \A k \in DOMAIN c.records :
            /\ c.records[k].data \in Frames
            /\ c.records[k].whole = "all" =>
                 MaybeSwap32(c, c.records[k].inclLen) = Len(Bytes[c.records[k].data])

VARIABLES phase,   \* where main is
          input,   \* the capture
          pos,     \* records read from it
          rules,   \* BlockingRules
          flows,   \* the flow table, keyed by the tuple of one direction
          output   \* the output file; no magic before it is opened

main == <<phase, input, pos, rules, flows, output>>

NoFile == [magic |-> "none", snaplen |-> 0, records |-> << >>]
NewFlow == [app |-> "Unknown", sni |-> << >>, blocked |-> FALSE]

MainInit ==
  /\ phase = "start" /\ pos = 0
  /\ input \in Captures /\ rules \in RuleSets
  /\ flows = << >> /\ output = NoFile
-----------------------------------------------------------------------------
IsBlocked(src, app, sni) ==
  \/ src \in rules.ips
  \/ app \in rules.apps
  \/ \E dom \in rules.domains : Occurrences(sni, dom) # {}

(* The name in this packet, where the loop looks for one: TLS on port 443, *)
(* HTTP on port 80, as long as the flow has no name and no other class.    *)
NamesIn(flow, data, parsed) ==
  LET port == parsed.tuple.dst_port
      generic == IF port = 443 THEN "HTTPS" ELSE "HTTP"
      payload == {From(data, o) : o \in {e \in WorkingOffset(data) : e < Len(data)}}
  IN IF /\ flow.app \in {"Unknown", generic} /\ flow.sni = << >>
        /\ parsed.tuple.protocol = TCP /\ port \in {443, 80}
     THEN UNION {IF port = 80 THEN ExtractHost(p)
                 ELSE IF Len(p) > 5 THEN ExtractSNI(p) ELSE {} : p \in payload}
     ELSE {}

Named(flow, data, parsed) ==
  LET names == NamesIn(flow, data, parsed)
      sni == CHOOSE n \in names : TRUE
  IN IF names = {} THEN flow
     ELSE [flow EXCEPT !.sni = sni, !.app = SniToAppType(sni)]

\* Port 53, then the generic class of port 443 or 80, for what is still unknown.
Guessed(flow, t) ==
  IF flow.app # "Unknown" THEN flow
  ELSE IF 53 \in {t.dst_port, t.src_port} THEN [flow EXCEPT !.app = "DNS"]
  ELSE IF t.dst_port = 443 THEN [flow EXCEPT !.app = "HTTPS"]
  ELSE IF t.dst_port = 80 THEN [flow EXCEPT !.app = "HTTP"]
  ELSE flow

GuessedFirst(flow, data, parsed) ==                             \* mutant
  LET seen == Named(Guessed(flow, parsed.tuple), data, parsed)
  IN [seen EXCEPT !.blocked = @ \/ IsBlocked(parsed.tuple.src_ip, seen.app, seen.sni)]

JudgedAfresh(flow, data, parsed) ==                             \* mutant
  LET seen == Guessed(Named(flow, data, parsed), parsed.tuple)
  IN [seen EXCEPT !.blocked = IsBlocked(parsed.tuple.src_ip, seen.app, seen.sni)]

Inspected(flow, data, parsed) ==
  LET seen == Guessed(Named(flow, data, parsed), parsed.tuple)
  IN [seen EXCEPT !.blocked = @ \/ IsBlocked(parsed.tuple.src_ip, seen.app, seen.sni)]

FlowOf(t) == IF t \in DOMAIN flows THEN flows[t] ELSE NewFlow

Written(data) == [inclLen |-> Len(Bytes[data]), data |-> data, whole |-> "all"]
-----------------------------------------------------------------------------
\* Open the input, then the output; its header is a native copy of the input's.
Open ==
  /\ phase = "start"
  /\ \/ /\ Opens(input)
        /\ phase' = "loop"
        /\ output' = [magic |-> input.magic, snaplen |-> GlobalHeader(input).snaplen,
                      records |-> << >>]
     \/ phase' = "failed" /\ UNCHANGED output   \* unreadable, or no output file
  /\ UNCHANGED <<input, pos, rules, flows>>

(* One turn of the loop: what is not TCP or UDP over IPv4 is skipped.      *)
ProcessPacket ==
  /\ phase = "loop"
  /\ \E id \in ReadNextPacket(input, pos) :
       LET data == Bytes[id]
       IN IF Transport(data) = {} THEN UNCHANGED <<flows, output>>
          ELSE \E parsed \in Transport(data) :
                 LET flow == Inspected(FlowOf(parsed.tuple), data, parsed)
                 IN /\ flows' = [t \in DOMAIN flows \cup {parsed.tuple} |->
                                   IF t = parsed.tuple THEN flow ELSE flows[t]]
                    /\ output' = IF flow.blocked THEN output
                                 ELSE [output EXCEPT !.records = Append(@, Written(id))]
  /\ pos' = pos + 1
  /\ UNCHANGED <<phase, input, rules>>

Close ==
  /\ phase = "loop" /\ ReadNextPacket(input, pos) = {}
  /\ phase' = "done"
  /\ UNCHANGED <<input, pos, rules, flows, output>>

(* A write error or an interrupt ends the program: what had reached the    *)
(* disk stays, and its last record may be there in part.                   *)
Die ==
  /\ phase = "loop"
  /\ phase' = "dead"
  /\ \E n \in 0..Len(output.records) :
       \E tail \in {<< >>} \cup
            (IF n = Len(output.records) THEN {}
             ELSE {<<[output.records[n + 1] EXCEPT !.whole = w]>> : w \in {"header", "data"}}) :
         output' = [output EXCEPT !.records = SubSeq(@, 1, n) \o tail]
  /\ UNCHANGED <<input, pos, rules, flows>>

MainNext == Open \/ ProcessPacket \/ Close \/ Die

MainSpec == MainInit /\ [][MainNext]_main
-----------------------------------------------------------------------------
(* What follows is said of what the senders meant, Sent[id].tuple and      *)
(* Sent[id].name, without a look at the bytes.                             *)
Read == 1..pos
IdAt(i) == input.records[i].data
Carried == {i \in Read : Sent[IdAt(i)].tuple # << >>}
OfFlow(t) == {i \in Carried : Sent[IdAt(i)].tuple = t}

\* The packets that name their flow, and may: a flow seen on port 53 is DNS.
Naming(t) ==
  {i \in OfFlow(t) : /\ Sent[IdAt(i)].name # << >>
                     /\ <<Sent[IdAt(i)].kind, t.protocol, t.dst_port>>
                          \in {<<"tls", TCP, 443>>, <<"http", TCP, 80>>}
                     /\ 53 \in {t.src_port, t.dst_port} => i = Min(OfFlow(t))}

NameBy(t, i) ==
  LET told == {j \in Naming(t) : j <= i}
  IN IF told = {} THEN << >> ELSE Sent[IdAt(Min(told))].name

Knowledge(t, i) ==
  LET name == NameBy(t, i)
  IN [sni |-> name,
      app |-> IF name # << >> THEN SniToAppType(name)
              ELSE IF 53 \in {t.src_port, t.dst_port} THEN "DNS"
              ELSE IF t.dst_port = 443 THEN "HTTPS"
              ELSE IF t.dst_port = 80 THEN "HTTP" ELSE "Unknown"]

Condemned(i) ==
  LET t == Sent[IdAt(i)].tuple
  IN \E j \in {j \in OfFlow(t) : j <= i} :
       \E known \in {Knowledge(t, j)} : IsBlocked(t.src_ip, known.app, known.sni)

(* A flow is what the first packet that names it says, whatever came       *)
(* before it on the flow, in whatever frames: options, trailing bytes,     *)
(* other extensions and other headers do not hide or change a name.        *)
NamedByFirst ==
  /\ DOMAIN flows = {Sent[IdAt(i)].tuple : i \in Carried}
  /\ \A t \in DOMAIN flows :
       [sni |-> flows[t].sni, app |-> flows[t].app] = Knowledge(t, pos)

(* The output is a capture again: a reader finds in it the packets that no *)
(* rule condemned, in order; an initial segment of them if main was cut    *)
(* off.  Only for captures in the byte order of the host.                  *)
Survivors == {i \in Carried : ~Condemned(i)}
Enumerates(list, S) ==
  /\ {list[k] : k \in DOMAIN list} = S
  /\ \A j, k \in DOMAIN list : j < k => list[j] < list[k]

SurvivorsWritten ==
  LET kept == Survivors
  IN Opens(output) /\ ~NeedsByteSwap(input) =>
       \E list \in [1..Cardinality(kept) -> kept] :
         /\ Enumerates(list, kept)
         /\ \E expected \in {[k \in DOMAIN list |-> IdAt(list[k])]} :
              IF phase = "dead" THEN IsPrefix(PacketsIn(output), expected)
              ELSE PacketsIn(output) = expected

(* The parser and the three places that work the payload's start out again *)
(* agree on every packet that is inspected.                                *)
OffsetsAgree ==
  \A i \in Carried :
    LET data == Bytes[IdAt(i)]
    IN \A parsed \in Transport(data) :
         /\ StandaloneOffset(data, parsed) = parsed.offset
         /\ JobOffset(data, parsed) = parsed.offset
         /\ parsed.tuple.protocol = TCP => WorkingOffset(data) = {parsed.offset}

(* A frame gives away what its sender put into it and nothing else: its    *)
(* tuple, and the name in its protocol; none when it is cut off, malformed *)
(* or of another protocol.                                                 *)
ReadRight(id) ==
  LET sent == Sent[id]
      Says(kind) == IF sent.kind = kind /\ sent.name # << >> THEN {sent.name} ELSE {}
  IN /\ {parsed.tuple : parsed \in Transport(Bytes[id])}
          = IF sent.tuple = << >> THEN {} ELSE {sent.tuple}
     /\ \A parsed \in Transport(Bytes[id]) :
          LET payload == Payload(Bytes[id], parsed)
          IN /\ ExtractSNI(payload) = Says("tls")
             /\ ExtractHost(payload) = Says("http")
             /\ ExtractQUIC(payload) = Says("quic")
             /\ 53 \in {parsed.tuple.src_port, parsed.tuple.dst_port} =>
                  ExtractQuery(payload) = Says("dns")

(* The parser and each extractor are right about every frame that is read. *)
ExtractorsRight == \A i \in Read : ReadRight(IdAt(i))
=============================================================================

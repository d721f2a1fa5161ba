-------------------------- MODULE StandaloneEngine --------------------------
(***************************************************************************)
(* dpi_mt.py: the stand-alone multi-threaded engine, one call of process.  *)
(*                                                                         *)
(*   main (reads) -> LB queue -> LB -> FP queue -> FP -> output -> writer  *)
(*                                                                         *)
(* It shares the queue, the parsers and the classification table with the  *)
(* dpi package, and has its own rules, flow table, hashing, drain and      *)
(* shutdown.  The LBs and the FPs are the workers 1, 2, ...: each has the  *)
(* queue of its number, and queue 0 is the output queue.  The flow table   *)
(* of an FP has no lock and knows a flow by one direction only.            *)
(***************************************************************************)
EXTENDS Naturals, Sequences

CONSTANTS NumLBs, FPsPerLB,      \* Config
          NumPackets,            \* packets in the capture
          Tuples,                \* five-tuples, each direction its own
          NoTuple,               \* a packet that is not TCP or UDP over IPv4
          TupleOf,               \* what the reader makes of packet i
          Hash,                  \* five_tuple_hash
          SrcIP, SrcPort, DstPort,  \* fields of a tuple
          NoName, NameIn,        \* the name the extractors find in packet i
          AppOf,                 \* sni_to_app_type
          RuleSets,              \* what the command line may block
          LBCap, FPCap, OutCap   \* the queues' max_size

NumFPs == NumLBs * FPsPerLB
LBs == 1..NumLBs
FPs == (NumLBs + 1)..(NumLBs + NumFPs)
Workers == 1..(NumLBs + NumFPs)
Queues == 0..(NumLBs + NumFPs)
Packets == 1..NumPackets
Jobs == {i \in Packets : TupleOf[i] # NoTuple}   \* what the reader passes on
None == 0
Names == {NameIn[i] : i \in Packets} \cup {NoName}
Apps == {"Unknown", "HTTP", "HTTPS", "DNS"} \cup {AppOf[n] : n \in Names \ {NoName}}

ASSUME StandaloneAssumption ==
  /\ NumLBs \in Nat \ {0} /\ FPsPerLB \in Nat \ {0} /\ NumPackets \in Nat
  /\ NoTuple \notin Tuples
  /\ TupleOf \in [Packets -> Tuples \cup {NoTuple}]
  /\ Hash \in [Tuples -> Nat]
  /\ {LBCap, FPCap, OutCap} \subseteq Nat \ {0}

VARIABLES
  phase,   \* where the main thread is in process
  cursor,  \* the worker it stops next
  writing, \* output_running
  pos,     \* packets read from the capture
  inHand,  \* the packet the main thread is pushing
  queue,   \* contents of each queue
  alive,   \* each worker's _running; its queue is shut down with it
  at,      \* where each worker is in its loop
  hand,    \* the packet each worker holds
  flows,   \* each FP's _flows
  rules,   \* the blocked addresses, applications and domains
  writer,  \* where the writer is in its loop
  written, \* packets in the output file, in order
  dropped, \* packets counted in stats.dropped
  discarded \* history: packets a push lost to a shutdown

vars == <<phase, cursor, writing, pos, inHand, queue, alive, at, hand, flows,
          rules, writer, written, dropped, discarded>>

(* A FlowEntry; the table's default entry is the one operator[] creates.   *)
NoFlow == [app |-> "Unknown", name |-> NoName, blocked |-> FALSE, classified |-> FALSE]

Init ==
  /\ phase = "read" /\ cursor = 1 /\ writing = TRUE
  /\ pos = 0 /\ inHand = None
  /\ queue = [q \in Queues |-> << >>]
  /\ alive = [w \in Workers |-> TRUE]
  /\ at = [w \in Workers |-> "loop"]
  /\ hand = [w \in Workers |-> None]
  /\ flows = [f \in FPs |-> [t \in Tuples |-> NoFlow]]
  /\ rules \in RuleSets
  /\ writer = "loop"
  /\ written = << >> /\ dropped = {} /\ discarded = {}
-----------------------------------------------------------------------------
Cap(q) == IF q = 0 THEN OutCap ELSE IF q \in LBs THEN LBCap ELSE FPCap
Shut(q) == IF q = 0 THEN phase \in {"flush", "closed"} ELSE ~alive[q]

\* ThreadSafeQueue.push: wait for room, or lose the packet to a shutdown.
PushTo(q, i) ==
  \/ /\ Shut(q)
     /\ discarded' = discarded \cup {i}
     /\ UNCHANGED queue
  \/ /\ ~Shut(q) /\ Len(queue[q]) < Cap(q)
     /\ queue' = [queue EXCEPT ![q] = Append(@, i)]
     /\ UNCHANGED discarded

(* Both levels use the same hash, so that an LB may leave some of its FPs  *)
(* without work.                                                           *)
LBFor(t) == (Hash[t] % NumLBs) + 1

RoundRobinFP(lb, i) ==                                          \* mutant
  NumLBs + (lb - 1) * FPsPerLB + (i % FPsPerLB) + 1

FPFor(lb, i) == NumLBs + (lb - 1) * FPsPerLB + (Hash[TupleOf[i]] % FPsPerLB) + 1

\* Rules.is_blocked; domains match by substring, which rules.domains lists.
IsBlocked(ip, app, name) ==
  ip \in rules.ips \/ app \in rules.apps \/ name \in rules.domains

(* _classify_flow: a name found, or port 53, latches the classification;   *)
(* the guess from port 443 or 80 stays open to a name in a later packet.   *)
ClassifyFlow(flow, i) ==
  LET t == TupleOf[i]
  IN IF DstPort[t] \in {443, 80} /\ NameIn[i] # NoName
     THEN [flow EXCEPT !.name = NameIn[i], !.app = AppOf[NameIn[i]], !.classified = TRUE]
     ELSE IF 53 \in {DstPort[t], SrcPort[t]}
     THEN [flow EXCEPT !.app = "DNS", !.classified = TRUE]
     ELSE IF DstPort[t] = 443 THEN [flow EXCEPT !.app = "HTTPS"]
     ELSE IF DstPort[t] = 80 THEN [flow EXCEPT !.app = "HTTP"]
     ELSE flow

(* What a packet makes of its flow: classified unless it is already, then  *)
(* blocked for good once a rule matches what is known of it.               *)
Judged(flow, i) ==
  LET seen == IF flow.classified THEN flow ELSE ClassifyFlow(flow, i)
  IN [seen EXCEPT !.blocked =
        @ \/ IsBlocked(SrcIP[TupleOf[i]], seen.app, seen.name)]
-----------------------------------------------------------------------------
(* The main thread reads, skips what is not TCP or UDP, and waits for room *)
(* in the queue of the LB it hashes to.                                    *)
ReadPacket ==
  /\ phase = "read" /\ inHand = None /\ pos < NumPackets
  /\ pos' = pos + 1
  /\ inHand' = IF TupleOf[pos + 1] = NoTuple THEN None ELSE pos + 1
  /\ UNCHANGED <<phase, cursor, writing, queue, alive, at, hand, flows, rules,
                 writer, written, dropped, discarded>>

Dispatch ==
  /\ inHand # None
  /\ PushTo(LBFor(TupleOf[inHand]), inHand)
  /\ inHand' = None
  /\ UNCHANGED <<phase, cursor, writing, pos, alive, at, hand, flows, rules,
                 writer, written, dropped>>

(* A worker tests its flag, then pops with a timeout; a queue that was     *)
(* shut down still hands out its backlog.                                  *)
TestRunning(w) ==
  /\ at[w] = "loop"
  /\ at' = [at EXCEPT ![w] = IF alive[w] THEN "pop" ELSE "done"]
  /\ UNCHANGED <<phase, cursor, writing, pos, inHand, queue, alive, hand, flows,
                 rules, writer, written, dropped, discarded>>

PopWithTimeout(w) ==
  /\ at[w] = "pop"
  /\ IF queue[w] = << >>
     THEN at' = [at EXCEPT ![w] = "loop"] /\ UNCHANGED <<queue, hand>>
     ELSE /\ hand' = [hand EXCEPT ![w] = Head(queue[w])]
          /\ queue' = [queue EXCEPT ![w] = Tail(@)]
          /\ at' = [at EXCEPT ![w] = IF w \in LBs THEN "push" ELSE "judge"]
  /\ UNCHANGED <<phase, cursor, writing, pos, inHand, alive, flows, rules,
                 writer, written, dropped, discarded>>

(* FastPath._run from the flow look-up to the counters.                    *)
Judge(w) ==
  /\ at[w] = "judge"
  /\ LET i == hand[w]
         flow == Judged(flows[w][TupleOf[i]], i)
     IN /\ flows' = [flows EXCEPT ![w][TupleOf[i]] = flow]
        /\ IF flow.blocked
           THEN /\ dropped' = dropped \cup {i}
                /\ hand' = [hand EXCEPT ![w] = None]
                /\ at' = [at EXCEPT ![w] = "loop"]
           ELSE /\ at' = [at EXCEPT ![w] = "push"]
                /\ UNCHANGED <<dropped, hand>>
  /\ UNCHANGED <<phase, cursor, writing, pos, inHand, queue, alive, rules,
                 writer, written, discarded>>

(* An LB pushes to the FP it hashes to, an FP to the writer.               *)
WorkerPush(w) ==
  /\ at[w] = "push"
  /\ PushTo(IF w \in LBs THEN FPFor(w, hand[w]) ELSE 0, hand[w])
  /\ hand' = [hand EXCEPT ![w] = None]
  /\ at' = [at EXCEPT ![w] = "loop"]
  /\ UNCHANGED <<phase, cursor, writing, pos, inHand, alive, flows, rules,
                 writer, written, dropped>>

Work(w) == TestRunning(w) \/ PopWithTimeout(w) \/ Judge(w) \/ WorkerPush(w)

WriterTestFlag ==                                               \* mutant
  /\ writer = "loop"
  /\ writer' = IF writing THEN "pop" ELSE "done"
  /\ UNCHANGED <<phase, cursor, writing, pos, inHand, queue, alive, at, hand,
                 flows, rules, written, dropped, discarded>>

\* output_worker: go on while told to or while something is queued.
WriterTest ==
  /\ writer = "loop"
  /\ writer' = IF writing \/ queue[0] # << >> THEN "pop" ELSE "done"
  /\ UNCHANGED <<phase, cursor, writing, pos, inHand, queue, alive, at, hand,
                 flows, rules, written, dropped, discarded>>

WriterPop ==
  /\ writer = "pop"
  /\ writer' = "loop"
  /\ IF queue[0] = << >> THEN UNCHANGED <<queue, written>>
     ELSE /\ written' = Append(written, Head(queue[0]))
          /\ queue' = [queue EXCEPT ![0] = Tail(@)]
  /\ UNCHANGED <<phase, cursor, writing, pos, inHand, alive, at, hand, flows,
                 rules, dropped, discarded>>
-----------------------------------------------------------------------------
(* The end of process.  What follows leaves everybody else's state alone.  *)
rest == <<pos, inHand, queue, at, hand, flows, rules, writer, written, dropped,
          discarded>>

\* The capture is read; half a second later, whatever is still queued ...
Sleep ==
  /\ phase = "read" /\ inHand = None /\ pos = NumPackets
  /\ phase' = "halt"
  /\ UNCHANGED <<cursor, writing, alive, rest>>

\* ... each LB and then each FP is stopped and joined,
StopWorker ==
  /\ phase = "halt" /\ cursor \in Workers /\ alive[cursor]
  /\ alive' = [alive EXCEPT ![cursor] = FALSE]
  /\ UNCHANGED <<phase, cursor, writing, rest>>

JoinDrained ==                                                  \* mutant
  /\ phase = "halt" /\ cursor \in Workers
  /\ ~alive[cursor] /\ at[cursor] = "done" /\ queue[cursor] = << >>
  /\ cursor' = cursor + 1
  /\ UNCHANGED <<phase, writing, alive, rest>>

JoinWorker ==
  /\ phase = "halt" /\ cursor \in Workers
  /\ ~alive[cursor] /\ at[cursor] = "done"
  /\ cursor' = cursor + 1
  /\ UNCHANGED <<phase, writing, alive, rest>>

\* and only then the writer told to leave,
ShutOutput ==
  /\ phase = "halt" /\ cursor \notin Workers
  /\ writing' = FALSE /\ phase' = "flush"
  /\ UNCHANGED <<cursor, alive, rest>>

\* joined and the file closed.
JoinWriter ==
  /\ phase = "flush" /\ writer = "done"
  /\ phase' = "closed"
  /\ UNCHANGED <<cursor, writing, alive, rest>>

Main == \/ ReadPacket \/ Dispatch \/ Sleep
        \/ StopWorker \/ JoinWorker \/ ShutOutput \/ JoinWriter

Next == \/ Main
        \/ \E w \in Workers : Work(w)
        \/ WriterTest \/ WriterPop

Spec == Init /\ [][Next]_vars

(* Every thread is scheduled; a wait in push or join is a disabled step.   *)
FairSpec ==
  /\ Spec
  /\ WF_vars(Main)
  /\ \A w \in Workers : WF_vars(Work(w))
  /\ WF_vars(WriterTest \/ WriterPop)
-----------------------------------------------------------------------------
Elements(s) == {s[k] : k \in 1..Len(s)}
Emitted == Elements(written) \cup Elements(queue[0])
             \cup {hand[w] : w \in {w \in FPs : at[w] = "push"}}
Taken == {i \in Jobs : i <= pos}

TypeOK ==
  /\ phase \in {"read", "halt", "flush", "closed"}
  /\ cursor \in 1..(NumLBs + NumFPs + 1)
  /\ writing \in BOOLEAN
  /\ pos \in 0..NumPackets /\ inHand \in Jobs \cup {None}
  /\ queue \in [Queues -> Seq(Jobs)]
  /\ \A q \in Queues : Len(queue[q]) <= Cap(q)
  /\ alive \in [Workers -> BOOLEAN]
  /\ at \in [Workers -> {"loop", "pop", "judge", "push", "done"}]
  /\ hand \in [Workers -> Jobs \cup {None}]
  /\ \A w \in Workers : hand[w] # None <=> at[w] \in {"judge", "push"}
  /\ \A w \in LBs : at[w] # "judge"
  /\ writer \in {"loop", "pop", "done"}
  /\ written \in Seq(Jobs)
  /\ dropped \subseteq Jobs /\ discarded \subseteq Jobs

(* The verdicts do not depend on the schedule.  The packets of a flow that *)
(* were judged are an initial segment of it, and each got the verdict that *)
(* a single thread reading the capture in order would have given, though   *)
(* LBs and FPs run side by side and no flow table has a lock.              *)
Before(i) == {j \in Jobs : TupleOf[j] = TupleOf[i] /\ j <= i}

FlowAfter[i \in Packets] ==
  LET earlier == Before(i) \ {i}
  IN Judged(IF earlier = {} THEN NoFlow
            ELSE FlowAfter[CHOOSE j \in earlier : \A k \in earlier : k <= j], i)

VerdictsAreSequential ==
  /\ \A i \in dropped : FlowAfter[i].blocked
  /\ \A i \in Emitted : ~FlowAfter[i].blocked
  /\ \A i \in dropped \cup Emitted : Before(i) \subseteq dropped \cup Emitted

(* Stopping loses packets only in front of an FP: when the file is closed, *)
(* every forwarded packet is in it, once and in the order of its flow, and *)
(* the rest was dropped or never left the queues of the LBs and FPs.       *)
OutputComplete ==
  /\ \A j, k \in 1..Len(written) :
       j < k /\ TupleOf[written[j]] = TupleOf[written[k]] => written[j] < written[k]
  /\ phase = "closed" =>
       /\ queue[0] = << >> /\ \A w \in Workers : at[w] = "done"
       /\ Taken = Elements(written) \cup dropped
                    \cup UNION {Elements(queue[q]) : q \in LBs \cup FPs}

(* process returns, whatever the sizes of the queues.                      *)
Terminates == <>(phase = "closed")
=============================================================================

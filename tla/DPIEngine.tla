----------------------------- MODULE DPIEngine -----------------------------
(***************************************************************************)
(* dpi/dpi_engine.py and dpi/load_balancer.py: one process_file, from the  *)
(* start of the threads to the closed output file.                         *)
(*                                                                         *)
(*   reader -> LB queue -> LB -> FP queue -> FP -> output queue -> writer  *)
(*                                                                         *)
(* The main thread joins the reader, watches the queue depths until they   *)
(* look idle, then clears the running flag and stops the LBs, the FPs and  *)
(* the writer, in that order.  The LBs and the FPs are the workers 1, 2,   *)
(* ...: each has the queue of its number, and queue 0 is the output queue, *)
(* so that the engine scans the queues and stops the workers in ascending  *)
(* order.  A queue is a BoundedChannel: what ThreadSafeQueue implements.   *)
(***************************************************************************)
EXTENDS Naturals, Sequences, FiniteSets, Lines

CONSTANTS NumLBs, FPsPerLB,  \* Config
          NumPackets,        \* packets in the capture
          Flows,             \* conversations, both directions
          NoFlow,            \* stands for a packet that is not TCP or UDP
          FlowOf,            \* what the reader makes of packet i
          Route,             \* the FP a flow hashes to
          LBCap, FPCap, OutCap,  \* LB_, FP_ and OUTPUT_QUEUE_SIZE
          IdleStreak         \* idle scans in a row that count as drained

NumFPs == NumLBs * FPsPerLB
LBs == 1..NumLBs
FPs == (NumLBs + 1)..(NumLBs + NumFPs)
Workers == 1..(NumLBs + NumFPs)
Queues == 0..(NumLBs + NumFPs)
Packets == 1..NumPackets
Jobs == {i \in Packets : FlowOf[i] # NoFlow}   \* what the reader passes on
None == 0

ASSUME EngineAssumption ==
  /\ NumLBs \in Nat \ {0} /\ FPsPerLB \in Nat \ {0}
  /\ NumPackets \in Nat
  /\ NoFlow \notin Flows
  /\ FlowOf \in [Packets -> Flows \cup {NoFlow}]
  /\ Route \in [Flows -> FPs]
  /\ {LBCap, FPCap, OutCap, IdleStreak} \subseteq Nat \ {0}

VARIABLES
  phase,     \* where the main thread is in process_file
  cursor,    \* the queue it scans next, the worker it stops next
  streak,    \* idle scans in a row
  gaveUp,    \* history: the drain ended on time, not on idleness
  running,   \* the engine's _running, read by the writer
  pos,       \* packets the reader has taken from the capture
  inHand,    \* the packet the reader is pushing
  queue,     \* contents of each queue
  alive,     \* each worker's _running; its queue is shut down with it
  outShut,   \* the output queue is shut down
  at,        \* where each worker is in its loop
  hand,      \* the packet each worker holds
  writer,    \* where the writer is in its loop
  written,   \* packets in the output file, in order
  dropped,   \* packets counted in dropped_packets
  discarded  \* history: packets a push lost to a shutdown

mainVars == <<phase, cursor, streak, gaveUp>>
vars == <<phase, cursor, streak, gaveUp, running, pos, inHand, queue, alive,
          outShut, at, hand, writer, written, dropped, discarded>>

Init ==
  /\ phase = "join" /\ cursor = 0 /\ streak = 0 /\ gaveUp = FALSE
  /\ running = TRUE
  /\ pos = 0 /\ inHand = None
  /\ queue = [q \in Queues |-> << >>]
  /\ alive = [w \in Workers |-> TRUE]
  /\ outShut = FALSE
  /\ at = [w \in Workers |-> "loop"]
  /\ hand = [w \in Workers |-> None]
  /\ writer = "loop"
  /\ written = << >> /\ dropped = {} /\ discarded = {}
-----------------------------------------------------------------------------
Cap(q) == IF q = 0 THEN OutCap ELSE IF q \in LBs THEN LBCap ELSE FPCap
Shut(q) == IF q = 0 THEN outShut ELSE ~alive[q]

(* ThreadSafeQueue.push: waits for room, or drops the packet silently when *)
(* the queue is shut down.                                                 *)
PushTo(q, i) ==
  \/ /\ Shut(q)
     /\ discarded' = discarded \cup {i}
     /\ UNCHANGED queue
  \/ /\ ~Shut(q) /\ Len(queue[q]) < Cap(q)
     /\ queue' = [queue EXCEPT ![q] = Append(@, i)]
     /\ UNCHANGED discarded

(* get_lb_for_packet and select_fp: both are functions of the flow.  The   *)
(* LB of a flow is the one whose pool holds the FP it will pick.           *)
LBFor(flow) == ((Route[flow] - NumLBs - 1) \div FPsPerLB) + 1

SelectLeastLoaded(lb, i) ==                                     \* mutant
  CHOOSE f \in FPs : \A g \in FPs : Len(queue[f]) <= Len(queue[g])

SelectFP(lb, i) == Route[FlowOf[i]]

\* _reader_thread_func: take a packet, count it, skip it unless TCP or UDP.
ReadPacket ==
  /\ inHand = None /\ pos < NumPackets
  /\ pos' = pos + 1
  /\ inHand' = IF FlowOf[pos + 1] = NoFlow THEN None ELSE pos + 1
  /\ UNCHANGED <<mainVars, running, queue, alive, outShut, at, hand, writer,
                 written, dropped, discarded>>

ReaderPush ==
  /\ inHand # None
  /\ PushTo(LBFor(FlowOf[inHand]), inHand)
  /\ inHand' = None
  /\ UNCHANGED <<mainVars, running, pos, alive, outShut, at, hand, writer,
                 written, dropped>>

ReaderDone == inHand = None /\ pos = NumPackets
-----------------------------------------------------------------------------
(* The loop of a worker: test the running flag, then pop with a timeout.   *)
(* The flag may be cleared between the two, and the queue still hands out  *)
(* its backlog after a shutdown.                                           *)
TestRunning(w) ==
  /\ at[w] = "loop"
  /\ at' = [at EXCEPT ![w] = IF alive[w] THEN "pop" ELSE "done"]
  /\ UNCHANGED <<mainVars, running, pos, inHand, queue, alive, outShut, hand,
                 writer, written, dropped, discarded>>

WorkerPop(w) ==
  /\ at[w] = "pop"
  /\ IF queue[w] = << >>
     THEN at' = [at EXCEPT ![w] = "loop"] /\ UNCHANGED <<queue, hand>>
     ELSE /\ hand' = [hand EXCEPT ![w] = Head(queue[w])]
          /\ queue' = [queue EXCEPT ![w] = Tail(@)]
          /\ at' = [at EXCEPT ![w] = IF w \in LBs THEN "push" ELSE "judge"]
  /\ UNCHANGED <<mainVars, running, pos, inHand, alive, outShut, writer,
                 written, dropped, discarded>>

(* An LB hands its packet to an FP, an FP hands a forwarded packet to the  *)
(* writer.                                                                 *)
WorkerPush(w) ==
  /\ at[w] = "push"
  /\ PushTo(IF w \in LBs THEN SelectFP(w, hand[w]) ELSE 0, hand[w])
  /\ hand' = [hand EXCEPT ![w] = None]
  /\ at' = [at EXCEPT ![w] = "loop"]
  /\ UNCHANGED <<mainVars, running, pos, inHand, alive, outShut, writer,
                 written, dropped>>

DropFallsThrough(w) ==                                          \* mutant
  /\ at[w] = "judge"
  /\ dropped' = dropped \cup {hand[w]}
  /\ at' = [at EXCEPT ![w] = "push"]
  /\ UNCHANGED <<mainVars, running, pos, inHand, queue, alive, outShut, hand,
                 writer, written, discarded>>

(* _process_packet and the first half of _handle_output: the verdict.      *)
Drop(w) ==
  /\ at[w] = "judge"
  /\ dropped' = dropped \cup {hand[w]}
  /\ hand' = [hand EXCEPT ![w] = None]
  /\ at' = [at EXCEPT ![w] = "loop"]
  /\ UNCHANGED <<mainVars, running, pos, inHand, queue, alive, outShut, writer,
                 written, discarded>>

Forward(w) ==
  /\ at[w] = "judge"
  /\ at' = [at EXCEPT ![w] = "push"]
  /\ UNCHANGED <<mainVars, running, pos, inHand, queue, alive, outShut, hand,
                 writer, written, dropped, discarded>>

Work(w) == TestRunning(w) \/ WorkerPop(w) \/ WorkerPush(w) \/ Drop(w) \/ Forward(w)
-----------------------------------------------------------------------------
\* _output_thread_func: go on while running or while something is queued.
WriterTest ==
  /\ writer = "loop"
  /\ writer' = IF running \/ queue[0] # << >> THEN "pop" ELSE "done"
  /\ UNCHANGED <<mainVars, running, pos, inHand, queue, alive, outShut, at, hand,
                 written, dropped, discarded>>

WriterPop ==
  /\ writer = "pop"
  /\ writer' = "loop"
  /\ IF queue[0] = << >> THEN UNCHANGED <<queue, written>>
     ELSE /\ written' = Append(written, Head(queue[0]))
          /\ queue' = [queue EXCEPT ![0] = Tail(@)]
  /\ UNCHANGED <<mainVars, running, pos, inHand, alive, outShut, at, hand,
                 dropped, discarded>>
-----------------------------------------------------------------------------
(* The main thread.  What follows leaves everybody else's state alone.     *)
rest == <<pos, inHand, queue, at, hand, writer, written, dropped, discarded>>

JoinReader ==
  /\ phase = "join" /\ ReaderDone
  /\ phase' = "drain"
  /\ UNCHANGED <<cursor, streak, gaveUp, running, alive, outShut, rest>>

(* _wait_until_queues_idle: the depths are read one queue at a time, while *)
(* packets move on.  One that is not empty spoils the whole scan.          *)
ReadDepthOfFPs ==                                               \* mutant
  /\ phase = "drain"
  /\ \/ /\ queue[cursor] # << >> /\ cursor \notin LBs
        /\ streak' = 0 /\ cursor' = 0
        /\ UNCHANGED phase
     \/ /\ queue[cursor] = << >> \/ cursor \in LBs
        /\ cursor < NumLBs + NumFPs
        /\ cursor' = cursor + 1
        /\ UNCHANGED <<phase, streak>>
     \/ /\ queue[cursor] = << >> /\ cursor = NumLBs + NumFPs
        /\ streak' = streak + 1 /\ cursor' = 0
        /\ phase' = IF streak + 1 = IdleStreak THEN "stop" ELSE phase
  /\ UNCHANGED <<gaveUp, running, alive, outShut, rest>>

ReadDepth ==
  /\ phase = "drain"
  /\ \/ /\ queue[cursor] # << >>
        /\ streak' = 0 /\ cursor' = 0
        /\ UNCHANGED phase
     \/ /\ queue[cursor] = << >> /\ cursor < NumLBs + NumFPs
        /\ cursor' = cursor + 1
        /\ UNCHANGED <<phase, streak>>
     \/ /\ queue[cursor] = << >> /\ cursor = NumLBs + NumFPs
        /\ streak' = streak + 1 /\ cursor' = 0
        /\ phase' = IF streak + 1 = IdleStreak THEN "stop" ELSE phase
  /\ UNCHANGED <<gaveUp, running, alive, outShut, rest>>

\* The sixty seconds are over, or drain_until_idle is off and the sleep is.
GiveUp ==
  /\ phase = "drain"
  /\ phase' = "stop" /\ gaveUp' = TRUE
  /\ UNCHANGED <<cursor, streak, running, alive, outShut, rest>>

(* stop: clear the flag; then stop and join each worker in turn, the LBs   *)
(* before the FPs; then shut the output queue and join the writer.         *)
ClearRunning ==
  /\ phase = "stop"
  /\ running' = FALSE
  /\ phase' = "halt" /\ cursor' = 1
  /\ UNCHANGED <<streak, gaveUp, alive, outShut, rest>>

StopFPsFirst ==                                                 \* mutant
  LET w == IF cursor <= NumFPs THEN NumLBs + cursor ELSE cursor - NumFPs
  IN /\ phase = "halt" /\ cursor \in Workers /\ alive[w]
     /\ alive' = [alive EXCEPT ![w] = FALSE]
     /\ UNCHANGED <<mainVars, running, outShut, rest>>

StopWorker ==
  /\ phase = "halt" /\ cursor \in Workers /\ alive[cursor]
  /\ alive' = [alive EXCEPT ![cursor] = FALSE]
  /\ UNCHANGED <<mainVars, running, outShut, rest>>

JoinDrained ==                                                  \* mutant
  /\ phase = "halt" /\ cursor \in Workers
  /\ ~alive[cursor] /\ at[cursor] = "done" /\ queue[cursor] = << >>
  /\ cursor' = cursor + 1
  /\ UNCHANGED <<phase, streak, gaveUp, running, alive, outShut, rest>>

JoinWorker ==
  /\ phase = "halt" /\ cursor \in Workers
  /\ ~alive[cursor] /\ at[cursor] = "done"
  /\ cursor' = cursor + 1
  /\ UNCHANGED <<phase, streak, gaveUp, running, alive, outShut, rest>>

ShutOutput ==
  /\ phase = "halt" /\ cursor \notin Workers
  /\ outShut' = TRUE /\ phase' = "flush"
  /\ UNCHANGED <<cursor, streak, gaveUp, running, alive, rest>>

JoinWriter ==
  /\ phase = "flush" /\ writer = "done"
  /\ phase' = "closed"
  /\ UNCHANGED <<cursor, streak, gaveUp, running, alive, outShut, rest>>

Main == \/ JoinReader \/ ReadDepth \/ GiveUp \/ ClearRunning
        \/ StopWorker \/ JoinWorker \/ ShutOutput \/ JoinWriter

Next ==
  \/ ReadPacket \/ ReaderPush
  \/ \E w \in Workers : Work(w)
  \/ WriterTest \/ WriterPop
  \/ Main

Spec == Init /\ [][Next]_vars

(* Every thread is scheduled; a wait in push or join is a disabled step.   *)
FairSpec ==
  /\ Spec
  /\ WF_vars(ReadPacket \/ ReaderPush)
  /\ \A w \in Workers : WF_vars(Work(w))
  /\ WF_vars(WriterTest \/ WriterPop)
  /\ WF_vars(Main)
-----------------------------------------------------------------------------
Elements(s) == {s[k] : k \in 1..Len(s)}
Queued == UNION {Elements(queue[q]) : q \in Queues}
HeldBy(ws) == {hand[w] : w \in ws} \ {None}
Settled == Elements(written) \cup dropped
Taken == {i \in Jobs : i <= pos}

TypeOK ==
  /\ phase \in {"join", "drain", "stop", "halt", "flush", "closed"}
  /\ cursor \in 0..(NumLBs + NumFPs + 1)
  /\ streak \in 0..IdleStreak
  /\ gaveUp \in BOOLEAN /\ running \in BOOLEAN /\ outShut \in BOOLEAN
  /\ pos \in 0..NumPackets /\ inHand \in Jobs \cup {None}
  /\ queue \in [Queues -> Seq(Jobs)]
  /\ \A q \in Queues : Len(queue[q]) <= Cap(q)
  /\ alive \in [Workers -> BOOLEAN]
  /\ at \in [Workers -> {"loop", "pop", "judge", "push", "done"}]
  /\ hand \in [Workers -> Jobs \cup {None}]
  /\ \A w \in Workers : hand[w] # None <=> at[w] \in {"judge", "push"}
  /\ \A w \in LBs : at[w] # "judge"
  /\ writer \in {"loop", "pop", "done"}
  /\ written \in Seq(Jobs)
  /\ dropped \subseteq Jobs /\ discarded \subseteq Jobs

(* Conservation: every packet counted in total_packets is written, dropped,*)
(* queued or in the hands of a thread, and in one of these places only, so *)
(* that no packet is judged or written twice.                              *)
Spots(i, s) == {k \in DOMAIN s : s[k] = i}

Places(i) ==
  {<<"written", k>> : k \in Spots(i, written)}
    \cup (UNION {{<<"queue", q, k>> : k \in Spots(i, queue[q])} : q \in Queues})
    \cup {<<"hand", w>> : w \in {w \in Workers : hand[w] = i}}
    \cup {<<"gone", s>> : s \in {s \in {"reader", "dropped", "discarded"} :
                                  \/ s = "reader" /\ inHand = i
                                  \/ s = "dropped" /\ i \in dropped
                                  \/ s = "discarded" /\ i \in discarded}}

OnePlaceEach ==
  \A i \in Packets : Cardinality(Places(i)) = IF i \in Taken THEN 1 ELSE 0

(* Two packets of one conversation reach their FP, and the output file, in *)
(* the order of the capture, in spite of the many threads in between: the  *)
(* lock-free flow table and the TCP state machine rely on it.              *)
Line(flow) ==
  LET fp == Route[flow]
      lb == LBFor(flow)
  IN <<written, queue[0], Holding(hand[fp]), queue[fp],
       Holding(hand[lb]), queue[lb], Holding(inHand)>>

PacketsOf(flow) == {i \in Jobs : FlowOf[i] = flow}

FlowOrder == \A flow \in Flows : InOrder(Line(flow), PacketsOf(flow))

(* The order of stop() is right: no thread ever pushes to a queue that is  *)
(* shut down, so the silent discard of push never happens in a run.        *)
NothingDiscarded == discarded = {}

(* When the file is closed every thread has ended with empty hands: what   *)
(* the output lacks was dropped by a rule or sits in a queue, not lost in  *)
(* the middle of a step.                                                   *)
ClosedIsQuiet ==
  phase = "closed" => /\ \A w \in Workers : at[w] = "done"
                      /\ Taken = Settled \cup Queued

(* A drain that ended by watching the queues left the LB queues empty for  *)
(* good, nothing but what an LB held in front of the FPs, and no more      *)
(* packets unsettled than there are threads to hold one.                   *)
IdleScanDrained ==
  ~gaveUp /\ phase \in {"stop", "halt", "flush", "closed"} =>
    /\ \A q \in LBs : queue[q] = << >>
    /\ Cardinality((UNION {Elements(queue[f]) : f \in FPs}) \cup HeldBy(LBs)) <= NumLBs
    /\ IdleStreak > 1 => Cardinality(Taken \ Settled) <= NumLBs + NumFPs

(* process_file returns: neither a full queue nor an unfortunate stop      *)
(* leaves it waiting.                                                      *)
Terminates == <>(phase = "closed")

(* stop: "the output thread stops last so it can flush what the FPs        *)
(* already emitted."                                                       *)
FlushedBeforeStop == phase = "closed" => queue[0] = << >>
=============================================================================

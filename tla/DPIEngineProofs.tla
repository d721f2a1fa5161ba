-------------------------- MODULE DPIEngineProofs --------------------------
(***************************************************************************)
(* Proofs about DPIEngine, for any number of LBs, FPs, packets and flows,  *)
(* any routing, any capacities and any idle streak.                        *)
(***************************************************************************)
EXTENDS DPIEngine, LineProofs, Integers, FiniteSetTheorems, TLAPS

(* Where stop() has come: the workers before the cursor have ended, the    *)
(* ones after it are untouched, and the output queue outlives them all.    *)
StopOrder ==
  /\ phase # "join" => ReaderDone
  /\ phase \in {"join", "drain"} => cursor <= NumLBs + NumFPs /\ streak < IdleStreak
  /\ phase = "halt" => cursor >= 1
  /\ phase \in {"join", "drain", "stop"} => \A w \in Workers : alive[w]
  /\ phase = "halt" => /\ \A w \in Workers : w < cursor => at[w] = "done"
                       /\ \A w \in Workers : w > cursor => alive[w]
  /\ phase \in {"flush", "closed"} => \A w \in Workers : at[w] = "done"
  /\ outShut => phase \in {"flush", "closed"}
  /\ \A w \in Workers : at[w] = "done" => ~alive[w]

(* Every packet taken is somewhere.                                        *)
Conserved ==
  Taken = Settled \cup Queued \cup HeldBy(Workers) \cup ({inHand} \ {None}) \cup discarded

(* The inductive invariant.  NothingDiscarded needs StopOrder: a queue is  *)
(* shut down only after every thread that pushes to it has ended.          *)
IInv == TypeOK /\ StopOrder /\ NothingDiscarded /\ Conserved
-----------------------------------------------------------------------------
(* The numbering of threads and queues.                                    *)
LEMMA Numbers ==
  /\ NumLBs \in Nat /\ NumLBs >= 1 /\ FPsPerLB \in Nat /\ FPsPerLB >= 1
  /\ NumFPs \in Nat /\ NumFPs >= 1
  /\ NumPackets \in Nat /\ IdleStreak \in Nat /\ IdleStreak >= 1
  /\ LBs \subseteq Workers /\ FPs \subseteq Workers
  /\ Workers \subseteq Queues /\ 0 \in Queues /\ 0 \notin Workers
  /\ \A w \in Workers : w \in LBs \/ w \in FPs
  /\ \A l \in LBs, f \in FPs : l < f
<1>1. NumLBs \in Nat /\ NumLBs >= 1 /\ FPsPerLB \in Nat /\ FPsPerLB >= 1
  BY EngineAssumption
<1>2. NumFPs \in Nat /\ NumFPs >= 1
  BY <1>1 DEF NumFPs
<1> HIDE DEF NumFPs
<1>3. NumPackets \in Nat /\ IdleStreak \in Nat /\ IdleStreak >= 1
  BY EngineAssumption
<1>4. QED BY <1>1, <1>2, <1>3 DEF LBs, FPs, Workers, Queues

(* get_lb_for_packet returns one of the LBs.                               *)
LEMMA LBForType ==
  ASSUME NEW flow \in Flows
  PROVE  LBFor(flow) \in LBs
<1> DEFINE x == Route[flow] - NumLBs - 1
           d == x \div FPsPerLB
<1>1. NumLBs \in Nat /\ NumLBs >= 1 /\ FPsPerLB \in Nat /\ FPsPerLB >= 1
  BY EngineAssumption
<1>2. NumLBs * FPsPerLB \in Nat
  BY <1>1
<1>3. Route[flow] \in (NumLBs + 1)..(NumLBs + NumLBs * FPsPerLB)
  BY EngineAssumption DEF FPs, NumFPs
<1>4. x \in Int /\ 0 <= x /\ x < NumLBs * FPsPerLB
  BY <1>1, <1>2, <1>3
<1> HIDE DEF x
<1>5. d \in Int /\ FPsPerLB * d <= x /\ 0 <= d
  BY <1>1, <1>4
<1>6. d < NumLBs
  <2>1. SUFFICES ASSUME d >= NumLBs PROVE FALSE
    BY <1>1, <1>5
  <2>2. FPsPerLB * d >= FPsPerLB * NumLBs
    <3> HIDE DEF d
    <3>1. QED BY <1>1, <1>5, <2>1
  <2>3. FPsPerLB * NumLBs = NumLBs * FPsPerLB
    BY <1>1
  <2>4. QED BY <1>1, <1>2, <1>4, <1>5, <2>2, <2>3
<1>7. LBFor(flow) = d + 1
  BY DEF LBFor, x
<1> HIDE DEF d
<1>8. QED BY <1>1, <1>5, <1>6, <1>7 DEF LBs

(* The queue a worker pushes to comes after the worker, or is the output.  *)
Target(w) == IF w \in LBs THEN SelectFP(w, hand[w]) ELSE 0

LEMMA TargetFacts ==
  ASSUME TypeOK, NEW w \in Workers, hand[w] # None
  PROVE  Target(w) \in Queues /\ (Target(w) = 0 \/ (Target(w) \in Workers /\ w < Target(w)))
<1>1. hand[w] \in Jobs
  BY DEF TypeOK
<1>2. FlowOf[hand[w]] \in Flows
  BY <1>1, EngineAssumption DEF Jobs
<1>3. Route[FlowOf[hand[w]]] \in FPs
  BY <1>2, EngineAssumption
<1>4. QED BY <1>3, Numbers DEF Target, SelectFP

LEMMA ReaderTarget ==
  ASSUME TypeOK, inHand # None
  PROVE  LBFor(FlowOf[inHand]) \in LBs
<1>1. FlowOf[inHand] \in Flows
  BY EngineAssumption DEF TypeOK, Jobs
<1>2. QED BY <1>1, LBForType
-----------------------------------------------------------------------------
(* The set of elements under the operations of a queue.                    *)
LEMMA AppendElements ==
  ASSUME NEW S, NEW s \in Seq(S), NEW e \in S
  PROVE  Elements(Append(s, e)) = Elements(s) \cup {e}
BY DEF Elements

LEMMA HeadElements ==
  ASSUME NEW S, NEW s \in Seq(S), s # << >>
  PROVE  /\ Elements(s) = {Head(s)} \cup Elements(Tail(s))
         /\ Head(s) \in S /\ Tail(s) \in Seq(S) /\ Len(Tail(s)) = Len(s) - 1
<1>1. /\ Head(s) = s[1] /\ Len(s) \in Nat /\ Len(s) >= 1
      /\ Tail(s) \in Seq(S) /\ Len(Tail(s)) = Len(s) - 1
      /\ \A k \in 1..(Len(s) - 1) : Tail(s)[k] = s[k + 1]
  OBVIOUS
<1>2. \A k \in 2..Len(s) : k - 1 \in 1..(Len(s) - 1) /\ s[k] = Tail(s)[k - 1]
  BY <1>1
<1>3. Elements(s) \subseteq {Head(s)} \cup Elements(Tail(s))
  <2>1. SUFFICES ASSUME NEW k \in 1..Len(s)
                 PROVE  s[k] \in {Head(s)} \cup Elements(Tail(s))
    BY DEF Elements
  <2>2. CASE k = 1 BY <1>1, <2>2
  <2>3. CASE k # 1
    <3>1. k \in 2..Len(s)
      BY <1>1, <2>3
    <3>2. s[k] = Tail(s)[k - 1] /\ k - 1 \in 1..Len(Tail(s))
      BY <1>1, <1>2, <3>1
    <3>3. QED BY <3>2 DEF Elements
  <2>4. QED BY <2>2, <2>3
<1>4. {Head(s)} \cup Elements(Tail(s)) \subseteq Elements(s)
  BY <1>1 DEF Elements
<1>5. QED BY <1>1, <1>3, <1>4

LEMMA QueuedChange ==
  ASSUME TypeOK, NEW q \in Queues, NEW s, queue' = [queue EXCEPT ![q] = s]
  PROVE  /\ Queued = (UNION {Elements(queue[r]) : r \in Queues \ {q}}) \cup Elements(queue[q])
         /\ Queued' = (UNION {Elements(queue[r]) : r \in Queues \ {q}}) \cup Elements(s)
<1>1. \A r \in Queues : queue'[r] = IF r = q THEN s ELSE queue[r]
  BY DEF TypeOK
<1>2. Queued' = UNION {Elements(queue'[r]) : r \in Queues}
  BY DEF Queued, Elements
<1>3. UNION {Elements(queue'[r]) : r \in Queues}
        = (UNION {Elements(queue'[r]) : r \in Queues \ {q}}) \cup Elements(queue'[q])
  OBVIOUS
<1>4. \A r \in Queues \ {q} : Elements(queue'[r]) = Elements(queue[r])
  BY <1>1
<1>5. Elements(queue'[q]) = Elements(s)
  BY <1>1
<1>6. Queued = (UNION {Elements(queue[r]) : r \in Queues \ {q}}) \cup Elements(queue[q])
  BY DEF Queued
<1>7. QED BY <1>2, <1>3, <1>4, <1>5, <1>6

(* A push to a queue in service.                                           *)
LEMMA PushFacts ==
  ASSUME TypeOK, NEW q \in Queues, NEW i \in Jobs, PushTo(q, i), ~Shut(q)
  PROVE  /\ queue' \in [Queues -> Seq(Jobs)]
         /\ \A r \in Queues : Len(queue'[r]) <= Cap(r)
         /\ Queued' = Queued \cup {i}
         /\ discarded' = discarded
<1>1. /\ queue' = [queue EXCEPT ![q] = Append(queue[q], i)]
      /\ Len(queue[q]) < Cap(q) /\ discarded' = discarded
  BY DEF PushTo
<1>2. queue[q] \in Seq(Jobs) /\ Append(queue[q], i) \in Seq(Jobs)
  BY DEF TypeOK
<1>3. Len(Append(queue[q], i)) <= Cap(q)
  <2>1. Cap(q) \in Nat BY EngineAssumption DEF Cap
  <2>2. QED BY <1>1, <1>2, <2>1
<1>4. Queued' = Queued \cup {i}
  <2>1. Elements(Append(queue[q], i)) = Elements(queue[q]) \cup {i}
    BY <1>2, AppendElements
  <2>2. /\ Queued = (UNION {Elements(queue[r]) : r \in Queues \ {q}}) \cup Elements(queue[q])
        /\ Queued' = (UNION {Elements(queue[r]) : r \in Queues \ {q}})
                       \cup Elements(Append(queue[q], i))
    BY <1>1, QueuedChange
  <2>3. QED BY <2>1, <2>2
<1>5. QED BY <1>1, <1>2, <1>3, <1>4 DEF TypeOK

LEMMA PopFacts ==
  ASSUME TypeOK, NEW q \in Queues, queue[q] # << >>,
         queue' = [queue EXCEPT ![q] = Tail(queue[q])]
  PROVE  /\ queue' \in [Queues -> Seq(Jobs)]
         /\ \A r \in Queues : Len(queue'[r]) <= Cap(r)
         /\ Queued = Queued' \cup {Head(queue[q])}
         /\ Head(queue[q]) \in Jobs
<1>1. queue[q] \in Seq(Jobs) /\ Cap(q) \in Nat /\ Len(queue[q]) <= Cap(q)
  BY EngineAssumption DEF TypeOK, Cap
<1>2. /\ Elements(queue[q]) = {Head(queue[q])} \cup Elements(Tail(queue[q]))
      /\ Head(queue[q]) \in Jobs /\ Tail(queue[q]) \in Seq(Jobs)
      /\ Len(Tail(queue[q])) = Len(queue[q]) - 1 /\ Len(queue[q]) \in Nat
  BY <1>1, HeadElements
<1>3. Queued = Queued' \cup {Head(queue[q])}
  BY <1>2, QueuedChange
<1>4. \A r \in Queues : Len(queue'[r]) <= Cap(r)
  BY <1>1, <1>2 DEF TypeOK
<1>5. QED BY <1>2, <1>3, <1>4 DEF TypeOK

(* What the workers hold when one of them takes or gives away a packet.    *)
LEMMA HeldTaken ==
  ASSUME TypeOK, NEW w \in Workers, NEW i \in Jobs, hand[w] = None,
         hand' = [hand EXCEPT ![w] = i]
  PROVE  HeldBy(Workers)' = HeldBy(Workers) \cup {i}
<1>1. \A v \in Workers : hand'[v] = IF v = w THEN i ELSE hand[v]
  BY DEF TypeOK
<1>2. i # None
  BY DEF Jobs, Packets, None
<1>3. QED BY <1>1, <1>2 DEF HeldBy

LEMMA HeldGiven ==
  ASSUME TypeOK, NEW w \in Workers, hand[w] # None,
         hand' = [hand EXCEPT ![w] = None]
  PROVE  HeldBy(Workers) = HeldBy(Workers)' \cup {hand[w]}
<1>1. \A v \in Workers : hand'[v] = IF v = w THEN None ELSE hand[v]
  BY DEF TypeOK
<1>2. QED BY <1>1 DEF HeldBy
-----------------------------------------------------------------------------
(* The inductive invariant holds initially.                                *)
THEOREM IInvInit == Init => IInv
<1> SUFFICES ASSUME Init PROVE IInv
  OBVIOUS
<1>1. TypeOK
  <2>1. \A q \in Queues : queue[q] = << >> /\ Cap(q) \in Nat
    BY EngineAssumption DEF Init, Cap
  <2>2. queue \in [Queues -> Seq(Jobs)] /\ \A q \in Queues : Len(queue[q]) <= Cap(q)
    BY <2>1 DEF Init
  <2>3. QED BY <2>2, Numbers DEF Init, TypeOK, None
<1>2. StopOrder
  BY Numbers DEF Init, StopOrder
<1>3. NothingDiscarded
  BY DEF Init, NothingDiscarded
<1>4. Conserved
  <2>1. Taken = {}
    BY DEF Init, Taken, Jobs, Packets
  <2>2. Settled = {} /\ discarded = {} /\ Queued = {} /\ HeldBy(Workers) = {}
    BY DEF Init, Settled, Queued, Elements, HeldBy
  <2>3. QED BY <2>1, <2>2 DEF Init, Conserved
<1>5. QED BY <1>1, <1>2, <1>3, <1>4 DEF IInv

LEMMA ReadPacketInv == IInv /\ ReadPacket => IInv'
<1> SUFFICES ASSUME IInv, ReadPacket PROVE IInv'
  OBVIOUS
<1>1. /\ inHand = None /\ pos < NumPackets /\ pos' = pos + 1
      /\ inHand' = IF FlowOf[pos + 1] = NoFlow THEN None ELSE pos + 1
      /\ UNCHANGED <<mainVars, running, queue, alive, outShut, at, hand, writer,
                     written, dropped, discarded>>
  BY DEF ReadPacket
<1>2. pos \in Nat /\ pos + 1 \in Packets
  BY <1>1, Numbers DEF IInv, TypeOK, Packets
<1>3. TypeOK'
  BY <1>1, <1>2, Numbers DEF IInv, TypeOK, Jobs, mainVars, Packets
<1>4. StopOrder'
  BY <1>1, <1>2, Numbers DEF IInv, TypeOK, StopOrder, ReaderDone, mainVars
<1>5. NothingDiscarded'
  BY <1>1 DEF IInv, NothingDiscarded
<1>6. Conserved'
  <2>1. Taken' = Taken \cup ({inHand'} \ {None})
    BY <1>1, <1>2 DEF Taken, Jobs, Packets, None
  <2>2. Settled' = Settled /\ Queued' = Queued /\ HeldBy(Workers)' = HeldBy(Workers)
    BY <1>1 DEF Settled, Queued, HeldBy, Elements
  <2>3. QED BY <1>1, <2>1, <2>2 DEF IInv, Conserved
<1>7. QED BY <1>3, <1>4, <1>5, <1>6 DEF IInv

LEMMA ReaderPushInv == IInv /\ ReaderPush => IInv'
<1> SUFFICES ASSUME IInv, ReaderPush PROVE IInv'
  OBVIOUS
<1> DEFINE q == LBFor(FlowOf[inHand])
<1>1. /\ inHand # None /\ PushTo(q, inHand) /\ inHand' = None
      /\ UNCHANGED <<mainVars, running, pos, alive, outShut, at, hand, writer,
                     written, dropped>>
  BY DEF ReaderPush
<1>2. q \in LBs /\ q \in Workers /\ q \in Queues /\ q # 0 /\ inHand \in Jobs
  BY <1>1, ReaderTarget, Numbers DEF IInv, TypeOK
<1>3. ~Shut(q)
  BY <1>1, <1>2 DEF IInv, StopOrder, ReaderDone, Shut
<1> HIDE DEF q
<1>4. /\ queue' \in [Queues -> Seq(Jobs)]
      /\ \A r \in Queues : Len(queue'[r]) <= Cap(r)
      /\ Queued' = Queued \cup {inHand}
      /\ discarded' = discarded
  BY <1>1, <1>2, <1>3, PushFacts DEF IInv
<1>5. TypeOK'
  BY <1>1, <1>4 DEF IInv, TypeOK, mainVars
<1>6. StopOrder'
  BY <1>1 DEF IInv, StopOrder, ReaderDone, mainVars
<1>7. NothingDiscarded'
  BY <1>4 DEF IInv, NothingDiscarded
<1>8. Conserved'
  <2>1. Settled' = Settled /\ Taken' = Taken /\ HeldBy(Workers)' = HeldBy(Workers)
    BY <1>1 DEF Settled, Taken, HeldBy, Elements
  <2>2. QED BY <1>1, <1>4, <2>1 DEF IInv, Conserved
<1>9. QED BY <1>5, <1>6, <1>7, <1>8 DEF IInv

LEMMA TestRunningInv == ASSUME IInv, NEW w \in Workers, TestRunning(w) PROVE IInv'
<1>1. /\ at[w] = "loop"
      /\ at' = [at EXCEPT ![w] = IF alive[w] THEN "pop" ELSE "done"]
      /\ UNCHANGED <<mainVars, running, pos, inHand, queue, alive, outShut, hand,
                     writer, written, dropped, discarded>>
  BY DEF TestRunning
<1>2. \A v \in Workers : at'[v] = IF v = w THEN (IF alive[w] THEN "pop" ELSE "done") ELSE at[v]
  BY <1>1 DEF IInv, TypeOK
<1>3. TypeOK'
  BY <1>1, <1>2, Numbers DEF IInv, TypeOK, mainVars
<1>4. StopOrder'
  BY <1>1, <1>2 DEF IInv, StopOrder, ReaderDone, mainVars
<1>5. NothingDiscarded' /\ Conserved'
  BY <1>1 DEF IInv, NothingDiscarded, Conserved, Taken, Settled, Queued, HeldBy, Elements
<1>6. QED BY <1>3, <1>4, <1>5 DEF IInv

(* A worker goes on with its packet: neither starts nor ends.              *)
LEMMA AtStep ==
  ASSUME TypeOK, StopOrder, NEW w \in Workers, at[w] # "done", NEW l, l # "done",
         at' = [at EXCEPT ![w] = l],
         UNCHANGED <<mainVars, pos, inHand, alive, outShut>>
  PROVE  StopOrder'
<1>1. \A v \in Workers : at'[v] = IF v = w THEN l ELSE at[v]
  BY DEF TypeOK
<1>2. QED BY <1>1 DEF StopOrder, ReaderDone, mainVars

LEMMA WorkerPopInv == ASSUME IInv, NEW w \in Workers, WorkerPop(w) PROVE IInv'
<1>1. /\ at[w] = "pop" /\ hand[w] = None /\ w \in Queues
      /\ UNCHANGED <<mainVars, running, pos, inHand, alive, outShut, writer,
                     written, dropped, discarded>>
  BY Numbers DEF WorkerPop, IInv, TypeOK
<1>2. NothingDiscarded' /\ Settled' = Settled /\ Taken' = Taken
  BY <1>1 DEF IInv, NothingDiscarded, Settled, Taken, Elements
<1>3. CASE queue[w] = << >>
  <2>1. at' = [at EXCEPT ![w] = "loop"] /\ UNCHANGED <<queue, hand>>
    BY <1>3 DEF WorkerPop
  <2>2. TypeOK'
    BY <1>1, <2>1, Numbers DEF IInv, TypeOK, mainVars
  <2>3. StopOrder'
    BY <1>1, <2>1, AtStep DEF IInv
  <2>4. Conserved'
    BY <1>1, <1>2, <2>1 DEF IInv, Conserved, Queued, HeldBy, Elements
  <2>5. QED BY <1>2, <2>2, <2>3, <2>4 DEF IInv
<1>4. CASE queue[w] # << >>
  <2> DEFINE i == Head(queue[w])
             l == IF w \in LBs THEN "push" ELSE "judge"
  <2>1. /\ hand' = [hand EXCEPT ![w] = i]
        /\ queue' = [queue EXCEPT ![w] = Tail(queue[w])]
        /\ at' = [at EXCEPT ![w] = l]
    BY <1>4 DEF WorkerPop
  <2>2. /\ queue' \in [Queues -> Seq(Jobs)]
        /\ \A r \in Queues : Len(queue'[r]) <= Cap(r)
        /\ Queued = Queued' \cup {i} /\ i \in Jobs
    BY <1>1, <1>4, <2>1, PopFacts DEF IInv
  <2> HIDE DEF i
  <2>3. i # None
    BY <2>2 DEF Jobs, Packets, None
  <2>4. TypeOK'
    <3>1. \A v \in Workers : /\ at'[v] = IF v = w THEN l ELSE at[v]
                             /\ hand'[v] = IF v = w THEN i ELSE hand[v]
      BY <2>1 DEF IInv, TypeOK
    <3>2. /\ at' \in [Workers -> {"loop", "pop", "judge", "push", "done"}]
          /\ hand' \in [Workers -> Jobs \cup {None}]
      BY <2>1, <2>2 DEF IInv, TypeOK
    <3>3. /\ \A v \in Workers : hand'[v] # None <=> at'[v] \in {"judge", "push"}
          /\ \A v \in LBs : at'[v] # "judge"
      BY <2>3, <3>1, Numbers DEF IInv, TypeOK
    <3>4. QED BY <1>1, <2>2, <3>2, <3>3 DEF IInv, TypeOK, mainVars
  <2>5. StopOrder'
    BY <1>1, <2>1, AtStep DEF IInv
  <2>6. HeldBy(Workers)' = HeldBy(Workers) \cup {i}
    BY <1>1, <2>1, <2>2, HeldTaken DEF IInv
  <2>7. Conserved'
    BY <1>1, <1>2, <2>2, <2>6 DEF IInv, Conserved
  <2>8. QED BY <1>2, <2>4, <2>5, <2>7 DEF IInv
<1>5. QED BY <1>3, <1>4

(* A worker gives its packet away.                                         *)
LEMMA GivenType ==
  ASSUME TypeOK, NEW w \in Workers,
         hand' = [hand EXCEPT ![w] = None], at' = [at EXCEPT ![w] = "loop"]
  PROVE  /\ at' \in [Workers -> {"loop", "pop", "judge", "push", "done"}]
         /\ hand' \in [Workers -> Jobs \cup {None}]
         /\ \A v \in Workers : hand'[v] # None <=> at'[v] \in {"judge", "push"}
         /\ \A v \in LBs : at'[v] # "judge"
<1>1. \A v \in Workers : /\ at'[v] = IF v = w THEN "loop" ELSE at[v]
                         /\ hand'[v] = IF v = w THEN None ELSE hand[v]
  BY DEF TypeOK
<1>2. QED BY <1>1, Numbers DEF TypeOK

LEMMA WorkerPushInv == ASSUME IInv, NEW w \in Workers, WorkerPush(w) PROVE IInv'
<1> DEFINE q == Target(w)  i == hand[w]
<1>1. /\ at[w] = "push" /\ PushTo(q, i)
      /\ hand' = [hand EXCEPT ![w] = None] /\ at' = [at EXCEPT ![w] = "loop"]
      /\ UNCHANGED <<mainVars, running, pos, inHand, alive, outShut, writer,
                     written, dropped>>
  BY DEF WorkerPush, Target
<1>2. i # None /\ i \in Jobs
  BY <1>1 DEF IInv, TypeOK
<1>3. q \in Queues /\ (q = 0 \/ (q \in Workers /\ w < q))
  BY <1>2, TargetFacts DEF IInv
<1> HIDE DEF q
<1>4. ~Shut(q)
  <2>1. CASE q = 0
    BY <1>1, <2>1 DEF Shut, IInv, StopOrder
  <2>2. CASE q \in Workers /\ q # 0 /\ w < q
    <3>1. SUFFICES ASSUME ~alive[q] PROVE FALSE
      BY <2>2 DEF Shut
    <3>2. phase = "halt" /\ ~(q > cursor)
      BY <1>1, <2>2, <3>1 DEF IInv, StopOrder, TypeOK
    <3>3. w \in Nat /\ q \in Nat /\ cursor \in Nat
      BY <2>2, Numbers DEF Workers, IInv, TypeOK
    <3>4. w < cursor
      BY <2>2, <3>2, <3>3
    <3>5. QED BY <1>1, <3>2, <3>4 DEF IInv, StopOrder
  <2>3. QED BY <1>3, <2>1, <2>2, Numbers
<1>5. /\ queue' \in [Queues -> Seq(Jobs)]
      /\ \A r \in Queues : Len(queue'[r]) <= Cap(r)
      /\ Queued' = Queued \cup {i}
      /\ discarded' = discarded
  BY <1>1, <1>2, <1>3, <1>4, PushFacts DEF IInv
<1>6. TypeOK'
  BY <1>1, <1>5, GivenType DEF IInv, TypeOK, mainVars
<1>7. StopOrder'
  BY <1>1, AtStep DEF IInv
<1>8. NothingDiscarded'
  BY <1>5 DEF IInv, NothingDiscarded
<1>9. Conserved'
  <2>1. HeldBy(Workers) = HeldBy(Workers)' \cup {i}
    BY <1>1, <1>2, HeldGiven DEF IInv
  <2>2. Settled' = Settled /\ Taken' = Taken
    BY <1>1 DEF Settled, Taken, Elements
  <2>3. QED BY <1>1, <1>5, <2>1, <2>2 DEF IInv, Conserved
<1>10. QED BY <1>6, <1>7, <1>8, <1>9 DEF IInv

LEMMA DropInv == ASSUME IInv, NEW w \in Workers, Drop(w) PROVE IInv'
<1>1. /\ at[w] = "judge" /\ dropped' = dropped \cup {hand[w]}
      /\ hand' = [hand EXCEPT ![w] = None] /\ at' = [at EXCEPT ![w] = "loop"]
      /\ UNCHANGED <<mainVars, running, pos, inHand, queue, alive, outShut, writer,
                     written, discarded>>
  BY DEF Drop
<1>2. hand[w] # None /\ hand[w] \in Jobs
  BY <1>1 DEF IInv, TypeOK
<1>3. TypeOK'
  BY <1>1, <1>2, GivenType DEF IInv, TypeOK, mainVars
<1>4. StopOrder'
  BY <1>1, AtStep DEF IInv
<1>5. NothingDiscarded'
  BY <1>1 DEF IInv, NothingDiscarded
<1>6. Conserved'
  <2>1. HeldBy(Workers) = HeldBy(Workers)' \cup {hand[w]}
    BY <1>1, <1>2, HeldGiven DEF IInv
  <2>2. Settled' = Settled \cup {hand[w]} /\ Taken' = Taken /\ Queued' = Queued
    BY <1>1 DEF Settled, Taken, Queued, Elements
  <2>3. QED BY <1>1, <2>1, <2>2 DEF IInv, Conserved
<1>7. QED BY <1>3, <1>4, <1>5, <1>6 DEF IInv

LEMMA ForwardInv == ASSUME IInv, NEW w \in Workers, Forward(w) PROVE IInv'
<1>1. /\ at[w] = "judge" /\ at' = [at EXCEPT ![w] = "push"]
      /\ UNCHANGED <<mainVars, running, pos, inHand, queue, alive, outShut, hand,
                     writer, written, dropped, discarded>>
  BY DEF Forward
<1>2. \A v \in Workers : at'[v] = IF v = w THEN "push" ELSE at[v]
  BY <1>1 DEF IInv, TypeOK
<1>3. TypeOK'
  BY <1>1, <1>2, Numbers DEF IInv, TypeOK, mainVars
<1>4. StopOrder'
  BY <1>1, AtStep DEF IInv
<1>5. NothingDiscarded' /\ Conserved'
  BY <1>1 DEF IInv, NothingDiscarded, Conserved, Taken, Settled, Queued, HeldBy, Elements
<1>6. QED BY <1>3, <1>4, <1>5 DEF IInv

(* The writer.                                                             *)
LEMMA WriterTestInv == IInv /\ WriterTest => IInv'
<1> SUFFICES ASSUME IInv, WriterTest PROVE IInv'
  OBVIOUS
<1>1. /\ writer' \in {"pop", "done"}
      /\ UNCHANGED <<mainVars, running, pos, inHand, queue, alive, outShut, at, hand,
                     written, dropped, discarded>>
  BY DEF WriterTest
<1>2. TypeOK'
  BY <1>1 DEF IInv, TypeOK, mainVars
<1>3. StopOrder'
  BY <1>1 DEF IInv, StopOrder, ReaderDone, mainVars
<1>4. NothingDiscarded' /\ Conserved'
  BY <1>1 DEF IInv, NothingDiscarded, Conserved, Taken, Settled, Queued, HeldBy, Elements
<1>5. QED BY <1>2, <1>3, <1>4 DEF IInv

LEMMA WriterPopInv == IInv /\ WriterPop => IInv'
<1> SUFFICES ASSUME IInv, WriterPop PROVE IInv'
  OBVIOUS
<1>1. /\ writer' = "loop"
      /\ UNCHANGED <<mainVars, running, pos, inHand, alive, outShut, at, hand,
                     dropped, discarded>>
  BY DEF WriterPop
<1>2. StopOrder'
  BY <1>1 DEF IInv, StopOrder, ReaderDone, mainVars
<1>3. NothingDiscarded' /\ Taken' = Taken /\ HeldBy(Workers)' = HeldBy(Workers)
  BY <1>1 DEF IInv, NothingDiscarded, Taken, HeldBy
<1>4. CASE queue[0] = << >>
  <2>1. UNCHANGED <<queue, written>>
    BY <1>4 DEF WriterPop
  <2>2. TypeOK'
    BY <1>1, <2>1 DEF IInv, TypeOK, mainVars
  <2>3. Conserved'
    BY <1>1, <1>3, <2>1 DEF IInv, Conserved, Settled, Queued, Elements
  <2>4. QED BY <1>2, <1>3, <2>2, <2>3 DEF IInv
<1>5. CASE queue[0] # << >>
  <2> DEFINE i == Head(queue[0])
  <2>1. /\ written' = Append(written, i)
        /\ queue' = [queue EXCEPT ![0] = Tail(queue[0])]
    BY <1>5 DEF WriterPop
  <2>2. /\ queue' \in [Queues -> Seq(Jobs)]
        /\ \A r \in Queues : Len(queue'[r]) <= Cap(r)
        /\ Queued = Queued' \cup {i} /\ i \in Jobs
    BY <1>5, <2>1, Numbers, PopFacts DEF IInv
  <2> HIDE DEF i
  <2>3. written \in Seq(Jobs) /\ written' \in Seq(Jobs)
    BY <2>1, <2>2 DEF IInv, TypeOK
  <2>4. TypeOK'
    BY <1>1, <2>2, <2>3 DEF IInv, TypeOK, mainVars
  <2>5. Settled' = Settled \cup {i}
    <3>1. Elements(Append(written, i)) = Elements(written) \cup {i}
      BY <2>2, <2>3, AppendElements
    <3>2. Settled' = Elements(Append(written, i)) \cup dropped
      BY <1>1, <2>1 DEF Settled, Elements
    <3>3. QED BY <3>1, <3>2 DEF Settled
  <2>6. Conserved'
    BY <1>1, <1>3, <2>2, <2>5 DEF IInv, Conserved
  <2>7. QED BY <1>2, <1>3, <2>4, <2>6 DEF IInv
<1>6. QED BY <1>4, <1>5
-----------------------------------------------------------------------------
(* The main thread moves no packet.                                        *)
LEMMA RestKept ==
  ASSUME IInv, UNCHANGED rest
  PROVE  NothingDiscarded' /\ Conserved'
BY DEF rest, IInv, NothingDiscarded, Conserved, Taken, Settled, Queued, HeldBy, Elements

LEMMA JoinReaderInv == IInv /\ JoinReader => IInv'
<1> SUFFICES ASSUME IInv, JoinReader PROVE IInv'
  OBVIOUS
<1> USE DEF JoinReader
<1>1. TypeOK'
  BY DEF IInv, TypeOK, rest
<1>2. StopOrder'
  BY DEF IInv, StopOrder, ReaderDone, rest
<1>3. QED BY <1>1, <1>2, RestKept DEF IInv

LEMMA ReadDepthInv == IInv /\ ReadDepth => IInv'
<1> SUFFICES ASSUME IInv, ReadDepth PROVE IInv'
  OBVIOUS
<1>1. /\ phase = "drain" /\ UNCHANGED <<gaveUp, running, alive, outShut, rest>>
      /\ cursor \in 0..(NumLBs + NumFPs) /\ streak \in 0..(IdleStreak - 1)
  BY Numbers DEF ReadDepth, IInv, TypeOK, StopOrder
<1>2. /\ cursor' \in 0..(NumLBs + NumFPs) /\ streak' \in 0..IdleStreak
      /\ \/ phase' = "drain" /\ streak' < IdleStreak
         \/ phase' = "stop"
  BY <1>1, Numbers DEF ReadDepth
<1>3. TypeOK'
  BY <1>1, <1>2, Numbers DEF IInv, TypeOK, rest
<1>4. StopOrder'
  BY <1>1, <1>2, Numbers DEF IInv, StopOrder, ReaderDone, rest
<1>5. QED BY <1>1, <1>3, <1>4, RestKept DEF IInv

LEMMA GiveUpInv == IInv /\ GiveUp => IInv'
<1> SUFFICES ASSUME IInv, GiveUp PROVE IInv'
  OBVIOUS
<1> USE DEF GiveUp
<1>1. TypeOK'
  BY DEF IInv, TypeOK, rest
<1>2. StopOrder'
  BY DEF IInv, StopOrder, ReaderDone, rest
<1>3. QED BY <1>1, <1>2, RestKept DEF IInv

LEMMA ClearRunningInv == IInv /\ ClearRunning => IInv'
<1> SUFFICES ASSUME IInv, ClearRunning PROVE IInv'
  OBVIOUS
<1> USE DEF ClearRunning
<1>0. cursor' \in 0..(NumLBs + NumFPs + 1)
  BY Numbers
<1>1. TypeOK'
  BY <1>0 DEF IInv, TypeOK, rest
<1>2. StopOrder'
  BY DEF IInv, StopOrder, ReaderDone, rest, Workers
<1>3. QED BY <1>1, <1>2, RestKept DEF IInv

LEMMA StopWorkerInv == IInv /\ StopWorker => IInv'
<1> SUFFICES ASSUME IInv, StopWorker PROVE IInv'
  OBVIOUS
<1>1. /\ phase = "halt" /\ cursor \in Workers
      /\ alive' = [alive EXCEPT ![cursor] = FALSE]
      /\ UNCHANGED <<mainVars, running, outShut, rest>>
  BY DEF StopWorker
<1>2. \A w \in Workers : alive'[w] = IF w = cursor THEN FALSE ELSE alive[w]
  BY <1>1 DEF IInv, TypeOK
<1>3. TypeOK'
  BY <1>1 DEF IInv, TypeOK, mainVars, rest
<1>4. StopOrder'
  BY <1>1, <1>2 DEF IInv, StopOrder, ReaderDone, mainVars, rest, Workers
<1>5. QED BY <1>1, <1>3, <1>4, RestKept DEF IInv

LEMMA JoinWorkerInv == IInv /\ JoinWorker => IInv'
<1> SUFFICES ASSUME IInv, JoinWorker PROVE IInv'
  OBVIOUS
<1>1. /\ phase = "halt" /\ cursor \in Workers /\ at[cursor] = "done"
      /\ cursor' = cursor + 1
      /\ UNCHANGED <<phase, streak, gaveUp, running, alive, outShut, rest>>
  BY DEF JoinWorker
<1>2. TypeOK'
  BY <1>1, Numbers DEF IInv, TypeOK, rest, Workers
<1>3. \A w \in Workers : w < cursor' => at[w] = "done"
  <2>1. \A w \in Workers : w < cursor + 1 => w = cursor \/ w < cursor
    BY <1>1, Numbers DEF Workers
  <2>2. QED BY <1>1, <2>1 DEF IInv, StopOrder
<1>4. \A w \in Workers : w > cursor' => alive[w]
  <2>1. \A w \in Workers : w > cursor + 1 => w > cursor
    BY <1>1, Numbers DEF Workers
  <2>2. QED BY <1>1, <2>1 DEF IInv, StopOrder
<1>5. cursor' >= 1
  BY <1>1, Numbers DEF Workers
<1>6. StopOrder'
  BY <1>1, <1>3, <1>4, <1>5 DEF IInv, StopOrder, ReaderDone, rest
<1>7. QED BY <1>1, <1>2, <1>6, RestKept DEF IInv

LEMMA ShutOutputInv == IInv /\ ShutOutput => IInv'
<1> SUFFICES ASSUME IInv, ShutOutput PROVE IInv'
  OBVIOUS
<1>1. /\ phase = "halt" /\ cursor \notin Workers
      /\ outShut' = TRUE /\ phase' = "flush"
      /\ UNCHANGED <<cursor, streak, gaveUp, running, alive, rest>>
  BY DEF ShutOutput
<1>2. TypeOK'
  BY <1>1 DEF IInv, TypeOK, rest
<1>3. \A w \in Workers : at[w] = "done"
  <2>1. cursor = NumLBs + NumFPs + 1
    BY <1>1, Numbers DEF IInv, TypeOK, StopOrder, Workers
  <2>2. \A w \in Workers : w < cursor
    BY <2>1, Numbers DEF Workers
  <2>3. QED BY <1>1, <2>2 DEF IInv, StopOrder
<1>4. StopOrder'
  BY <1>1, <1>3 DEF IInv, StopOrder, ReaderDone, rest
<1>5. QED BY <1>1, <1>2, <1>4, RestKept DEF IInv

LEMMA JoinWriterInv == IInv /\ JoinWriter => IInv'
<1> SUFFICES ASSUME IInv, JoinWriter PROVE IInv'
  OBVIOUS
<1> USE DEF JoinWriter
<1>1. TypeOK'
  BY DEF IInv, TypeOK, rest
<1>2. StopOrder'
  BY DEF IInv, StopOrder, ReaderDone, rest
<1>3. QED BY <1>1, <1>2, RestKept DEF IInv
-----------------------------------------------------------------------------
(* Every step keeps the inductive invariant.                               *)
THEOREM IInvStep == IInv /\ [Next]_vars => IInv'
<1> SUFFICES ASSUME IInv, [Next]_vars PROVE IInv'
  OBVIOUS
<1>1. CASE ReadPacket
  BY <1>1, ReadPacketInv
<1>2. CASE ReaderPush
  BY <1>2, ReaderPushInv
<1>3. CASE \E w \in Workers : Work(w)
  <2>1. PICK w \in Workers : Work(w)
    BY <1>3
  <2>2. QED
    BY <2>1, TestRunningInv, WorkerPopInv, WorkerPushInv, DropInv, ForwardInv DEF Work
<1>4. CASE WriterTest
  BY <1>4, WriterTestInv
<1>5. CASE WriterPop
  BY <1>5, WriterPopInv
<1>6. CASE Main
  BY <1>6, JoinReaderInv, ReadDepthInv, GiveUpInv, ClearRunningInv, StopWorkerInv,
     JoinWorkerInv, ShutOutputInv, JoinWriterInv DEF Main
<1>7. CASE UNCHANGED vars
  <2>1. UNCHANGED <<mainVars, running, alive, outShut, rest>>
    BY <1>7 DEF vars, mainVars, rest
  <2>2. TypeOK'
    BY <2>1 DEF IInv, TypeOK, mainVars, rest
  <2>3. StopOrder'
    BY <2>1 DEF IInv, StopOrder, ReaderDone, mainVars, rest
  <2>4. QED BY <2>1, <2>2, <2>3, RestKept DEF IInv
<1>8. QED BY <1>1, <1>2, <1>3, <1>4, <1>5, <1>6, <1>7 DEF Next

(* The inductive invariant holds in every reachable state.                 *)
THEOREM IInvInvariant == Spec => []IInv
BY IInvInit, IInvStep, PTL DEF Spec

(* The variables keep their types and no queue outgrows its capacity,      *)
(* however its producers and its consumer interleave.                      *)
THEOREM TypeCorrect == Spec => []TypeOK
<1>1. IInv => TypeOK
  BY DEF IInv
<1>2. QED BY <1>1, IInvInvariant, PTL

(* stop() never makes a push drop its packet: for any number of LBs and    *)
(* FPs, a queue is shut down only after the threads that push to it ended. *)
THEOREM StopDiscardsNothing == Spec => []NothingDiscarded
<1>1. IInv => NothingDiscarded
  BY DEF IInv
<1>2. QED BY <1>1, IInvInvariant, PTL

(* When process_file closes the output every worker has ended, and every   *)
(* TCP or UDP packet of the capture is written, dropped or still queued.   *)
THEOREM NothingLostInHand == Spec => []ClosedIsQuiet
<1>1. IInv => ClosedIsQuiet
  <2>1. SUFFICES ASSUME IInv, phase = "closed"
                 PROVE  /\ \A w \in Workers : at[w] = "done"
                        /\ Taken = Settled \cup Queued
    BY DEF ClosedIsQuiet
  <2>2. \A w \in Workers : at[w] = "done"
    BY <2>1 DEF IInv, StopOrder
  <2>3. HeldBy(Workers) = {}
    BY <2>1, <2>2 DEF IInv, TypeOK, HeldBy
  <2>4. inHand = None /\ discarded = {}
    BY <2>1 DEF IInv, StopOrder, ReaderDone, NothingDiscarded
  <2>5. QED BY <2>1, <2>2, <2>3, <2>4 DEF IInv, Conserved
<1>2. QED BY <1>1, IInvInvariant, PTL
-----------------------------------------------------------------------------
(* The order within a conversation.  A packet is only ever with the LB and *)
(* the FP of its flow, so that the line of a flow sees it move from place  *)
(* to place, and sees of other flows only packets it need not order.       *)
With(q) == Elements(queue[q]) \cup ({hand[q]} \ {None})

Routed ==
  /\ \A l \in LBs : \A i \in With(l) : LBFor(FlowOf[i]) = l
  /\ \A f \in FPs : \A i \in With(f) : Route[FlowOf[i]] = f

OInv == IInv /\ Routed /\ FlowOrder

LEMMA FlowFacts ==
  ASSUME NEW flow \in Flows
  PROVE  /\ Route[flow] \in FPs /\ Route[flow] \in Workers /\ Route[flow] \in Queues
         /\ LBFor(flow) \in LBs /\ LBFor(flow) \in Workers /\ LBFor(flow) \in Queues
         /\ LBFor(flow) \notin FPs /\ Route[flow] \notin LBs
         /\ LBFor(flow) # Route[flow] /\ LBFor(flow) # 0 /\ Route[flow] # 0
<1>1. Route[flow] \in FPs
  BY EngineAssumption
<1>2. LBFor(flow) \in LBs
  BY LBForType
<1>3. QED BY <1>1, <1>2, Numbers DEF LBs, FPs

LEMMA JobFacts ==
  ASSUME NEW i \in Jobs
  PROVE  i \in Nat /\ i # None /\ i # 0 /\ FlowOf[i] \in Flows
BY EngineAssumption DEF Jobs, Packets, None

LEMMA HoldingType ==
  ASSUME NEW i \in Jobs \cup {None}
  PROVE  /\ Holding(i) \in Seq(Nat)
         /\ i = None => Holding(i) = << >>
         /\ i # None => Holding(i) = <<i>> /\ Elements(Holding(i)) = {i}
<1>1. CASE i = None
  BY <1>1 DEF Holding, None
<1>2. CASE i \in Jobs
  <2>1. i \in Nat /\ i # None /\ i # 0
    BY <1>2, JobFacts
  <2>2. Holding(i) = <<i>>
    BY <2>1 DEF Holding
  <2>3. Elements(<<i>>) = {i}
    BY DEF Elements
  <2>4. QED BY <2>1, <2>2, <2>3
<1>3. QED BY <1>1, <1>2

LEMMA JobsAreNat == \A s : s \in Seq(Jobs) => s \in Seq(Nat)
<1>1. SUFFICES ASSUME NEW s \in Seq(Jobs) PROVE s \in Seq(Nat)
  OBVIOUS
<1>2. Len(s) \in Nat /\ \A k \in 1..Len(s) : s[k] \in Jobs
  OBVIOUS
<1>3. s = [k \in 1..Len(s) |-> s[k]]
  OBVIOUS
<1>4. \A k \in 1..Len(s) : s[k] \in Nat
  BY <1>2, JobFacts
<1>5. QED BY <1>2, <1>3, <1>4

(* The places of a line, one by one.                                       *)
LEMMA LineFacts ==
  ASSUME TypeOK, NEW flow \in Flows
  PROVE  /\ IsLine(Line(flow), 7)
         /\ Line(flow)[1] = written /\ Line(flow)[2] = queue[0]
         /\ Line(flow)[3] = Holding(hand[Route[flow]])
         /\ Line(flow)[4] = queue[Route[flow]]
         /\ Line(flow)[5] = Holding(hand[LBFor(flow)])
         /\ Line(flow)[6] = queue[LBFor(flow)]
         /\ Line(flow)[7] = Holding(inHand)
<1>1. /\ written \in Seq(Nat) /\ queue[0] \in Seq(Nat)
      /\ queue[Route[flow]] \in Seq(Nat) /\ queue[LBFor(flow)] \in Seq(Nat)
  BY FlowFacts, JobsAreNat, Numbers DEF TypeOK
<1>2. /\ hand[Route[flow]] \in Jobs \cup {None} /\ hand[LBFor(flow)] \in Jobs \cup {None}
      /\ inHand \in Jobs \cup {None}
  BY FlowFacts DEF TypeOK
<1>3. /\ Holding(hand[Route[flow]]) \in Seq(Nat) /\ Holding(hand[LBFor(flow)]) \in Seq(Nat)
      /\ Holding(inHand) \in Seq(Nat)
  BY <1>2, HoldingType
<1>4. QED BY <1>1, <1>3 DEF Line, IsLine

(* What lies on a line was taken from the capture.                         *)
LEMMA LineTaken ==
  ASSUME IInv, NEW flow \in Flows, NEW p \in 1..7, NEW j \in 1..Len(Line(flow)[p])
  PROVE  Line(flow)[p][j] \in Taken
<1>1. Line(flow)[p][j] \in Elements(Line(flow)[p])
  BY DEF Elements
<1>2. TypeOK
  BY DEF IInv
<1>3. \A w \in Workers : Elements(Holding(hand[w])) \subseteq HeldBy(Workers)
  <2>1. SUFFICES ASSUME NEW w \in Workers
                 PROVE  Elements(Holding(hand[w])) \subseteq HeldBy(Workers)
    OBVIOUS
  <2>2. hand[w] \in Jobs \cup {None}
    BY <1>2 DEF TypeOK
  <2>3. Elements(<< >>) = {}
    BY DEF Elements
  <2>4. QED BY <2>2, <2>3, HoldingType DEF HeldBy
<1>4. Elements(Holding(inHand)) \subseteq {inHand} \ {None}
  <2>1. inHand \in Jobs \cup {None}
    BY <1>2 DEF TypeOK
  <2>2. Elements(<< >>) = {}
    BY DEF Elements
  <2>3. QED BY <2>1, <2>2, HoldingType
<1>5. \A q \in Queues : Elements(queue[q]) \subseteq Queued
  BY DEF Queued
<1>6. Elements(written) \subseteq Settled
  BY DEF Settled
<1>7. Elements(Line(flow)[p]) \subseteq
        Settled \cup Queued \cup HeldBy(Workers) \cup ({inHand} \ {None})
  <2>1. p = 1 \/ p = 2 \/ p = 3 \/ p = 4 \/ p = 5 \/ p = 6 \/ p = 7
    OBVIOUS
  <2>2. CASE p \in {1, 2, 7}
    BY <1>2, <1>4, <1>5, <1>6, <2>2, LineFacts, Numbers
  <2>3. CASE p \in {3, 5}
    <3>1. \/ Line(flow)[p] = Holding(hand[Route[flow]])
          \/ Line(flow)[p] = Holding(hand[LBFor(flow)])
      BY <1>2, <2>3, LineFacts
    <3>2. QED BY <1>3, <3>1, FlowFacts
  <2>4. CASE p \in {4, 6}
    <3>1. Line(flow)[p] = queue[Route[flow]] \/ Line(flow)[p] = queue[LBFor(flow)]
      BY <1>2, <2>4, LineFacts
    <3>2. QED BY <1>5, <3>1, FlowFacts
  <2>5. QED BY <2>1, <2>2, <2>3, <2>4
<1>8. QED BY <1>1, <1>7 DEF IInv, Conserved

(* Steps that leave every place as it is.                                  *)
LEMMA PlacesKept ==
  ASSUME Routed, FlowOrder, UNCHANGED <<written, queue, hand, inHand>>
  PROVE  Routed' /\ FlowOrder'
<1>1. Routed'
  BY DEF Routed, With, Elements
<1>2. FlowOrder'
  <2>1. \A flow \in Flows : Line(flow)' = Line(flow)
    BY DEF Line, Holding
  <2>2. SUFFICES ASSUME NEW flow \in Flows PROVE InOrder(Line(flow)', PacketsOf(flow))
    BY DEF FlowOrder, PacketsOf
  <2>3. QED BY <2>1 DEF FlowOrder
<1>3. QED BY <1>1, <1>2

LEMMA LineFactsNext ==
  ASSUME TypeOK', NEW flow \in Flows
  PROVE  /\ IsLine(Line(flow)', 7)
         /\ Line(flow)'[1] = written' /\ Line(flow)'[2] = queue'[0]
         /\ Line(flow)'[3] = Holding(hand'[Route[flow]])
         /\ Line(flow)'[4] = queue'[Route[flow]]
         /\ Line(flow)'[5] = Holding(hand'[LBFor(flow)])
         /\ Line(flow)'[6] = queue'[LBFor(flow)]
         /\ Line(flow)'[7] = Holding(inHand')
<1>1. /\ written' \in Seq(Nat) /\ queue'[0] \in Seq(Nat)
      /\ queue'[Route[flow]] \in Seq(Nat) /\ queue'[LBFor(flow)] \in Seq(Nat)
  BY FlowFacts, JobsAreNat, Numbers DEF TypeOK
<1>2. /\ hand'[Route[flow]] \in Jobs \cup {None} /\ hand'[LBFor(flow)] \in Jobs \cup {None}
      /\ inHand' \in Jobs \cup {None}
  BY FlowFacts DEF TypeOK
<1>3. /\ Holding(hand'[Route[flow]]) \in Seq(Nat) /\ Holding(hand'[LBFor(flow)]) \in Seq(Nat)
      /\ Holding(inHand') \in Seq(Nat)
  BY <1>2, HoldingType
<1>4. Line(flow)' = <<written', queue'[0], Holding(hand'[Route[flow]]), queue'[Route[flow]],
                      Holding(hand'[LBFor(flow)]), queue'[LBFor(flow)], Holding(inHand')>>
  BY DEF Line
<1>5. QED BY <1>1, <1>3, <1>4 DEF IsLine

(* At most one worker gains a packet, and it is one that is routed to it.  *)
LEMMA RoutedBy ==
  ASSUME Routed, NEW q, NEW i,
         \A w \in Workers : With(w)' \subseteq With(w) \cup (IF w = q THEN {i} ELSE {}),
         q \in LBs => LBFor(FlowOf[i]) = q,
         q \in FPs => Route[FlowOf[i]] = q
  PROVE  Routed'
<1>1. \A l \in LBs : \A j \in With(l)' : LBFor(FlowOf[j]) = l
  BY Numbers DEF Routed
<1>2. \A f \in FPs : \A j \in With(f)' : Route[FlowOf[j]] = f
  BY Numbers DEF Routed
<1>3. QED BY <1>1, <1>2 DEF Routed, LBFor

(* A thread that is given packet i where it held none, or gives it away.   *)
LEMMA Held ==
  ASSUME NEW i \in Jobs
  PROVE  /\ Holding(i) # << >> /\ Head(Holding(i)) = i /\ Tail(Holding(i)) = Holding(None)
         /\ Holding(i) = Append(Holding(None), i)
         /\ Holding(None) = << >>
<1>1. i # 0
  BY JobFacts
<1>2. Holding(i) = <<i>> /\ Holding(None) = << >>
  BY <1>1 DEF Holding, None
<1>3. QED BY <1>2

(* No worker gains a packet.                                               *)
LEMMA RoutedKept ==
  ASSUME Routed, \A w \in Workers : With(w)' \subseteq With(w)
  PROVE  Routed'
<1>1. \A l \in LBs : \A j \in With(l)' : LBFor(FlowOf[j]) = l
  BY Numbers DEF Routed
<1>2. \A f \in FPs : \A j \in With(f)' : Route[FlowOf[j]] = f
  BY Numbers DEF Routed
<1>3. QED BY <1>1, <1>2 DEF Routed, LBFor

LEMMA ReadPacketOrder == ASSUME OInv, ReadPacket PROVE Routed' /\ FlowOrder'
<1>1. /\ inHand = None /\ pos < NumPackets
      /\ inHand' = IF FlowOf[pos + 1] = NoFlow THEN None ELSE pos + 1
      /\ UNCHANGED <<written, queue, hand>>
  BY DEF ReadPacket
<1>2. TypeOK /\ TypeOK'
  BY ReadPacketInv DEF OInv, IInv
<1>3. Routed'
  BY <1>1 DEF OInv, Routed, With, Elements
<1>4. CASE inHand' = None
  BY <1>1, <1>4, PlacesKept DEF OInv
<1>5. CASE inHand' # None
  <2>0. /\ inHand' = pos + 1 /\ inHand' \in Jobs /\ inHand' \in Nat /\ pos \in Nat
        /\ FlowOf[inHand'] \in Flows
    BY <1>1, <1>2, <1>5, JobFacts, Numbers DEF TypeOK
  <2>1. SUFFICES ASSUME NEW flow \in Flows PROVE InOrder(Line(flow)', PacketsOf(flow))
    BY <1>3 DEF FlowOrder, PacketsOf
  <2>2. \A p \in 1..7 : \A j \in 1..Len(Line(flow)[p]) : Line(flow)[p][j] < inHand'
    <3>1. \A p \in 1..7 : \A j \in 1..Len(Line(flow)[p]) : Line(flow)[p][j] \in Taken
      BY LineTaken DEF OInv
    <3>2. \A i \in Taken : i \in Nat /\ i <= pos
      BY JobFacts DEF Taken
    <3>3. \A i \in Taken : i < inHand'
      BY <2>0, <3>2
    <3>4. QED BY <3>1, <3>3
  <2> DEFINE L == Line(flow)  M == Line(flow)'
  <2>a. IsLine(L, 7) /\ IsLine(M, 7) /\ InOrder(L, PacketsOf(flow))
    BY <1>2, LineFacts, LineFactsNext DEF OInv, FlowOrder
  <2>b. /\ L[1] = written /\ L[2] = queue[0] /\ L[3] = Holding(hand[Route[flow]])
        /\ L[4] = queue[Route[flow]] /\ L[5] = Holding(hand[LBFor(flow)])
        /\ L[6] = queue[LBFor(flow)] /\ L[7] = Holding(inHand)
    BY <1>2, LineFacts
  <2>c. /\ M[1] = written' /\ M[2] = queue'[0] /\ M[3] = Holding(hand'[Route[flow]])
        /\ M[4] = queue'[Route[flow]] /\ M[5] = Holding(hand'[LBFor(flow)])
        /\ M[6] = queue'[LBFor(flow)] /\ M[7] = Holding(inHand')
    BY <1>2, LineFactsNext
  <2>d. SUFFICES InOrder(M, PacketsOf(flow))
    OBVIOUS
  <2> HIDE DEF L, M
  <2>5. /\ M[1] = L[1] /\ M[2] = L[2] /\ M[3] = L[3] /\ M[4] = L[4] /\ M[5] = L[5]
        /\ M[6] = L[6] /\ M[7] = Append(L[7], inHand')
    BY <1>1, <2>0, <2>b, <2>c, Held
  <2>6. Entered(L, M, 7, 7, inHand')
    BY <2>0, <2>5 DEF Entered
  <2>7. \A p \in 1..7 : \A j \in 1..Len(L[p]) : L[p][j] < inHand'
    BY <2>2 DEF L
  <2>8. QED BY <2>a, <2>6, <2>7, EntersLine
<1>6. QED BY <1>3, <1>4, <1>5

LEMMA ReaderPushOrder == ASSUME OInv, ReaderPush PROVE Routed' /\ FlowOrder'
<1> DEFINE i == inHand  q == LBFor(FlowOf[i])
<1>1. /\ inHand # None /\ PushTo(q, i) /\ inHand' = None
      /\ UNCHANGED <<written, hand>>
  BY DEF ReaderPush
<1>2. TypeOK /\ TypeOK' /\ discarded' = {}
  BY ReaderPushInv DEF OInv, IInv, NothingDiscarded
<1>3. i \in Jobs /\ FlowOf[i] \in Flows /\ q \in LBs /\ q \in Workers /\ q \in Queues
  BY <1>1, <1>2, JobFacts, LBForType, Numbers DEF TypeOK
<1>4. queue' = [queue EXCEPT ![q] = Append(queue[q], i)]
  BY <1>1, <1>2 DEF PushTo
<1>5. inHand = i /\ LBFor(FlowOf[i]) = q
  OBVIOUS
<1> HIDE DEF i, q
<1>6. \A r \in Queues : queue'[r] = IF r = q THEN Append(queue[q], i) ELSE queue[r]
  BY <1>2, <1>4 DEF TypeOK
<1>7. Routed'
  <2>1. Elements(Append(queue[q], i)) = Elements(queue[q]) \cup {i}
    BY <1>2, <1>3, AppendElements DEF TypeOK
  <2>2. \A w \in Workers : With(w)' = Elements(queue'[w]) \cup ({hand[w]} \ {None})
    BY <1>1 DEF With, Elements
  <2>3. \A w \in Workers : With(w)' \subseteq With(w) \cup (IF w = q THEN {i} ELSE {})
    BY <1>6, <2>1, <2>2, Numbers DEF With
  <2>4. q \notin FPs
    BY <1>3, Numbers DEF LBs, FPs
  <2>5. QED BY <1>5, <2>3, <2>4, RoutedBy DEF OInv
<1>8. FlowOrder'
  <2>1. SUFFICES ASSUME NEW flow \in Flows PROVE InOrder(Line(flow)', PacketsOf(flow))
    BY DEF FlowOrder, PacketsOf
  <2> DEFINE L == Line(flow)  M == Line(flow)'
  <2>a. IsLine(L, 7) /\ IsLine(M, 7) /\ InOrder(L, PacketsOf(flow))
    BY <1>2, LineFacts, LineFactsNext DEF OInv, FlowOrder
  <2>b. /\ L[1] = written /\ L[2] = queue[0] /\ L[3] = Holding(hand[Route[flow]])
        /\ L[4] = queue[Route[flow]] /\ L[5] = Holding(hand[LBFor(flow)])
        /\ L[6] = queue[LBFor(flow)] /\ L[7] = Holding(inHand)
    BY <1>2, LineFacts
  <2>c. /\ M[1] = written' /\ M[2] = queue'[0] /\ M[3] = Holding(hand'[Route[flow]])
        /\ M[4] = queue'[Route[flow]] /\ M[5] = Holding(hand'[LBFor(flow)])
        /\ M[6] = queue'[LBFor(flow)] /\ M[7] = Holding(inHand')
    BY <1>2, LineFactsNext
  <2>d. SUFFICES InOrder(M, PacketsOf(flow))
    OBVIOUS
  <2> HIDE DEF L, M
  <2>2. Route[flow] # q /\ 0 # q /\ Route[flow] \in Queues /\ LBFor(flow) \in Queues /\ 0 \in Queues
    BY <1>3, FlowFacts, Numbers
  <2>3. /\ M[1] = L[1] /\ M[2] = L[2] /\ M[3] = L[3] /\ M[4] = L[4] /\ M[5] = L[5]
    BY <1>1, <1>6, <2>2, <2>b, <2>c
  <2>4. L[7] # << >> /\ Head(L[7]) = i /\ M[7] = Tail(L[7])
    BY <1>1, <1>3, <1>5, <2>b, <2>c, Held
  <2>5. CASE LBFor(flow) = q
    <3>1. M[6] = Append(L[6], Head(L[7]))
      BY <1>6, <2>2, <2>4, <2>5, <2>b, <2>c
    <3>2. MovedOn(L, M, 7, 7, 6)
      BY <2>3, <2>4, <3>1 DEF MovedOn
    <3>3. QED BY <2>a, <3>2, MovesOn
  <2>6. CASE LBFor(flow) # q
    <3>1. M[6] = L[6]
      BY <1>6, <2>2, <2>6, <2>b, <2>c
    <3>2. Left(L, M, 7, 7)
      BY <2>3, <2>4, <3>1 DEF Left
    <3>3. QED BY <2>a, <3>2, LeavesLine
  <2>7. QED BY <2>5, <2>6
<1>9. QED BY <1>7, <1>8

LEMMA WorkerPopOrder == ASSUME OInv, NEW w \in Workers, WorkerPop(w) PROVE Routed' /\ FlowOrder'
<1>1. UNCHANGED <<written, inHand>> /\ w \in Queues /\ hand[w] = None /\ w # 0
  BY Numbers DEF WorkerPop, OInv, IInv, TypeOK
<1>2. TypeOK /\ TypeOK'
  BY WorkerPopInv DEF OInv, IInv
<1>3. CASE queue[w] = << >>
  BY <1>1, <1>3, PlacesKept DEF WorkerPop, OInv
<1>4. CASE queue[w] # << >>
  <2> DEFINE i == Head(queue[w])
  <2>1. /\ hand' = [hand EXCEPT ![w] = i]
        /\ queue' = [queue EXCEPT ![w] = Tail(queue[w])]
    BY <1>4 DEF WorkerPop
  <2>2. queue[w] \in Seq(Jobs)
    BY <1>1, <1>2 DEF TypeOK
  <2>3. i \in Jobs /\ Elements(queue[w]) = {i} \cup Elements(Tail(queue[w]))
    BY <1>4, <2>2, HeadElements
  <2>4. Head(queue[w]) = i
    OBVIOUS
  <2> HIDE DEF i
  <2>5. /\ \A v \in Workers : hand'[v] = IF v = w THEN i ELSE hand[v]
        /\ \A r \in Queues : queue'[r] = IF r = w THEN Tail(queue[w]) ELSE queue[r]
    BY <1>2, <2>1 DEF TypeOK
  <2>6. Routed'
    <3>1. \A v \in Workers : With(v)' = Elements(queue'[v]) \cup ({hand'[v]} \ {None})
      BY DEF With, Elements
    <3>2. \A v \in Workers : With(v)' \subseteq With(v)
      BY <2>3, <2>5, <3>1, Numbers DEF With
    <3>3. QED BY <3>2, RoutedKept DEF OInv
  <2>7. FlowOrder'
    <3>1. SUFFICES ASSUME NEW flow \in Flows PROVE InOrder(Line(flow)', PacketsOf(flow))
      BY DEF FlowOrder, PacketsOf
    <3> DEFINE L == Line(flow)  M == Line(flow)'
    <3>a. IsLine(L, 7) /\ IsLine(M, 7) /\ InOrder(L, PacketsOf(flow))
      BY <1>2, LineFacts, LineFactsNext DEF OInv, FlowOrder
    <3>b. /\ L[1] = written /\ L[2] = queue[0] /\ L[3] = Holding(hand[Route[flow]])
          /\ L[4] = queue[Route[flow]] /\ L[5] = Holding(hand[LBFor(flow)])
          /\ L[6] = queue[LBFor(flow)] /\ L[7] = Holding(inHand)
      BY <1>2, LineFacts
    <3>c. /\ M[1] = written' /\ M[2] = queue'[0] /\ M[3] = Holding(hand'[Route[flow]])
          /\ M[4] = queue'[Route[flow]] /\ M[5] = Holding(hand'[LBFor(flow)])
          /\ M[6] = queue'[LBFor(flow)] /\ M[7] = Holding(inHand')
      BY <1>2, LineFactsNext
    <3>d. SUFFICES InOrder(M, PacketsOf(flow))
      OBVIOUS
    <3> HIDE DEF L, M
    <3>2. /\ Route[flow] \in Queues /\ Route[flow] \in Workers
          /\ LBFor(flow) \in Queues /\ LBFor(flow) \in Workers
          /\ 0 \in Queues /\ LBFor(flow) # Route[flow]
      BY FlowFacts, Numbers
    <3>3. Holding(i) = Append(Holding(None), i)
      BY <2>3, Held
    <3>4. M[1] = L[1] /\ M[2] = L[2] /\ M[7] = L[7]
      BY <1>1, <2>5, <3>2, <3>b, <3>c
    <3>5. CASE w = LBFor(flow)
      <4>1. /\ M[3] = L[3] /\ M[4] = L[4] /\ L[6] # << >> /\ M[6] = Tail(L[6])
            /\ M[5] = Append(L[5], Head(L[6]))
        BY <1>1, <1>4, <2>4, <2>5, <3>2, <3>3, <3>5, <3>b, <3>c
      <4>2. MovedOn(L, M, 7, 6, 5)
        BY <3>4, <4>1 DEF MovedOn
      <4>3. QED BY <3>a, <4>2, MovesOn
    <3>6. CASE w = Route[flow]
      <4>1. /\ M[5] = L[5] /\ M[6] = L[6] /\ L[4] # << >> /\ M[4] = Tail(L[4])
            /\ M[3] = Append(L[3], Head(L[4]))
        BY <1>1, <1>4, <2>4, <2>5, <3>2, <3>3, <3>6, <3>b, <3>c
      <4>2. MovedOn(L, M, 7, 4, 3)
        BY <3>4, <4>1 DEF MovedOn
      <4>3. QED BY <3>a, <4>2, MovesOn
    <3>7. CASE w # LBFor(flow) /\ w # Route[flow]
      <4>1. M[3] = L[3] /\ M[4] = L[4] /\ M[5] = L[5] /\ M[6] = L[6]
        BY <2>5, <3>2, <3>7, <3>b, <3>c
      <4>2. \A p \in 1..7 : M[p] = L[p]
        BY <3>4, <4>1
      <4>3. QED BY <3>a, <4>2, StaysInOrder
    <3>8. QED BY <3>5, <3>6, <3>7
  <2>8. QED BY <2>6, <2>7
<1>5. QED BY <1>3, <1>4

LEMMA WorkerPushOrder == ASSUME OInv, NEW w \in Workers, WorkerPush(w) PROVE Routed' /\ FlowOrder'
<1> DEFINE i == hand[w]  q == Target(w)
<1>1. /\ at[w] = "push" /\ PushTo(q, i)
      /\ hand' = [hand EXCEPT ![w] = None]
      /\ UNCHANGED <<written, inHand>>
  BY DEF WorkerPush, Target
<1>2. TypeOK /\ TypeOK' /\ discarded' = {} /\ Routed
  BY WorkerPushInv DEF OInv, IInv, NothingDiscarded
<1>3. i \in Jobs /\ i # None /\ FlowOf[i] \in Flows
  BY <1>1, <1>2, JobFacts DEF TypeOK
<1>4. q \in Queues /\ (q = 0 \/ (q \in Workers /\ w < q))
  BY <1>2, <1>3, TargetFacts
<1>5. /\ w \in LBs => q = Route[FlowOf[i]] /\ LBFor(FlowOf[i]) = w
      /\ w \notin LBs => q = 0 /\ w \in FPs /\ Route[FlowOf[i]] = w
  <2>1. i \in With(w)
    BY <1>3 DEF With
  <2>2. QED BY <1>2, <2>1, Numbers DEF Routed, Target, SelectFP
<1>6. queue' = [queue EXCEPT ![q] = Append(queue[q], i)]
  BY <1>1, <1>2 DEF PushTo
<1>7. hand[w] = i
  OBVIOUS
<1> HIDE DEF i, q
<1>8. /\ \A v \in Workers : hand'[v] = IF v = w THEN None ELSE hand[v]
      /\ \A r \in Queues : queue'[r] = IF r = q THEN Append(queue[q], i) ELSE queue[r]
  BY <1>1, <1>2, <1>6 DEF TypeOK
<1>9. Routed'
  <2>1. Elements(Append(queue[q], i)) = Elements(queue[q]) \cup {i}
    BY <1>2, <1>3, <1>4, AppendElements DEF TypeOK
  <2>2. \A v \in Workers : With(v)' = Elements(queue'[v]) \cup ({hand'[v]} \ {None})
    BY DEF With, Elements
  <2>3. \A v \in Workers : With(v)' \subseteq With(v) \cup (IF v = q THEN {i} ELSE {})
    BY <1>8, <2>1, <2>2, Numbers DEF With
  <2>4. q \notin LBs /\ (q \in FPs => Route[FlowOf[i]] = q)
    <3>1. CASE w \in LBs
      BY <1>3, <1>5, <3>1, FlowFacts
    <3>2. CASE w \notin LBs
      BY <1>5, <3>2, Numbers
    <3>3. QED BY <3>1, <3>2
  <2>5. QED BY <1>2, <2>3, <2>4, RoutedBy
<1>10. FlowOrder'
  <2>1. SUFFICES ASSUME NEW flow \in Flows PROVE InOrder(Line(flow)', PacketsOf(flow))
    BY DEF FlowOrder, PacketsOf
  <2> DEFINE L == Line(flow)  M == Line(flow)'
  <2>a. IsLine(L, 7) /\ IsLine(M, 7) /\ InOrder(L, PacketsOf(flow))
    BY <1>2, LineFacts, LineFactsNext DEF OInv, FlowOrder
  <2>b. /\ L[1] = written /\ L[2] = queue[0] /\ L[3] = Holding(hand[Route[flow]])
        /\ L[4] = queue[Route[flow]] /\ L[5] = Holding(hand[LBFor(flow)])
        /\ L[6] = queue[LBFor(flow)] /\ L[7] = Holding(inHand)
    BY <1>2, LineFacts
  <2>c. /\ M[1] = written' /\ M[2] = queue'[0] /\ M[3] = Holding(hand'[Route[flow]])
        /\ M[4] = queue'[Route[flow]] /\ M[5] = Holding(hand'[LBFor(flow)])
        /\ M[6] = queue'[LBFor(flow)] /\ M[7] = Holding(inHand')
    BY <1>2, LineFactsNext
  <2>d. SUFFICES InOrder(M, PacketsOf(flow))
    OBVIOUS
  <2> HIDE DEF L, M
  <2>2. /\ Route[flow] \in Queues /\ Route[flow] \in Workers /\ Route[flow] # 0
        /\ Route[flow] \notin LBs /\ LBFor(flow) \in LBs
        /\ LBFor(flow) \in Queues /\ LBFor(flow) \in Workers
        /\ 0 \in Queues /\ LBFor(flow) # Route[flow]
    BY FlowFacts, Numbers
  <2>3. Holding(i) # << >> /\ Head(Holding(i)) = i /\ Tail(Holding(i)) = Holding(None)
    BY <1>3, Held
  <2>4. q # LBFor(flow)
    BY <1>3, <1>5, FlowFacts
  <2>5. M[1] = L[1] /\ M[7] = L[7] /\ M[6] = L[6]
    BY <1>1, <1>8, <2>2, <2>4, <2>b, <2>c
  <2>6. CASE w = Route[flow]
    <3>1. q = 0
      BY <1>5, <2>2, <2>6
    <3>2. /\ M[4] = L[4] /\ M[5] = L[5] /\ L[3] # << >> /\ M[3] = Tail(L[3])
          /\ M[2] = Append(L[2], Head(L[3]))
      <4>1. M[4] = L[4] /\ M[5] = L[5]
        BY <1>7, <1>8, <2>2, <2>6, <2>b, <2>c, <3>1
      <4>2. L[3] = Holding(i) /\ M[3] = Holding(None)
        BY <1>7, <1>8, <2>2, <2>6, <2>b, <2>c
      <4>3. M[2] = Append(L[2], i)
        BY <1>7, <1>8, <2>2, <2>b, <2>c, <3>1
      <4>4. QED BY <2>3, <4>1, <4>2, <4>3
    <3>3. MovedOn(L, M, 7, 3, 2)
      BY <2>5, <3>2 DEF MovedOn
    <3>4. QED BY <2>a, <3>3, MovesOn
  <2>7. CASE w = LBFor(flow)
    <3>1. q # 0
      BY <1>3, <1>5, <2>2, <2>7, FlowFacts
    <3>2. /\ M[2] = L[2] /\ M[3] = L[3]
          /\ L[5] # << >> /\ Head(L[5]) = i /\ M[5] = Tail(L[5])
      BY <1>7, <1>8, <2>2, <2>3, <2>7, <2>b, <2>c, <3>1
    <3>3. CASE q = Route[flow]
      <4>1. M[4] = Append(L[4], Head(L[5]))
        BY <1>4, <1>8, <2>b, <2>c, <3>2, <3>3
      <4>2. MovedOn(L, M, 7, 5, 4)
        BY <2>5, <3>2, <4>1 DEF MovedOn
      <4>3. QED BY <2>a, <4>2, MovesOn
    <3>4. CASE q # Route[flow]
      <4>1. M[4] = L[4]
        BY <1>8, <2>2, <2>b, <2>c, <3>4
      <4>2. Left(L, M, 7, 5)
        BY <2>5, <3>2, <4>1 DEF Left
      <4>3. QED BY <2>a, <4>2, LeavesLine
    <3>5. QED BY <3>3, <3>4
  <2>8. CASE w # Route[flow] /\ w # LBFor(flow)
    <3>1. q # Route[flow]
      <4>1. CASE w \in LBs
        BY <1>5, <2>8, <4>1 DEF LBFor
      <4>2. CASE w \notin LBs
        BY <1>5, <2>2, <4>2
      <4>3. QED BY <4>1, <4>2
    <3>2. M[3] = L[3] /\ M[5] = L[5] /\ M[4] = L[4]
      BY <1>8, <2>2, <2>8, <2>b, <2>c, <3>1
    <3>3. CASE q = 0
      <4>1. i \notin PacketsOf(flow) /\ i \in Nat
        BY <1>3, <1>5, <2>8, <3>3, JobFacts, FlowFacts DEF PacketsOf
      <4>2. M[2] = Append(L[2], i)
        BY <1>8, <2>2, <2>b, <2>c, <3>3
      <4>3. Entered(L, M, 7, 2, i)
        BY <2>5, <3>2, <4>1, <4>2 DEF Entered
      <4>4. QED BY <2>a, <4>1, <4>3, EntersLine
    <3>4. CASE q # 0
      <4>1. M[2] = L[2]
        BY <1>8, <2>2, <2>b, <2>c, <3>4
      <4>2. \A p \in 1..7 : M[p] = L[p]
        BY <2>5, <3>2, <4>1
      <4>3. QED BY <2>a, <4>2, StaysInOrder
    <3>5. QED BY <3>3, <3>4
  <2>9. QED BY <2>6, <2>7, <2>8
<1>11. QED BY <1>9, <1>10

LEMMA DropOrder == ASSUME OInv, NEW w \in Workers, Drop(w) PROVE Routed' /\ FlowOrder'
<1> DEFINE i == hand[w]
<1>1. /\ at[w] = "judge" /\ hand' = [hand EXCEPT ![w] = None]
      /\ UNCHANGED <<written, inHand, queue>>
  BY DEF Drop
<1>2. TypeOK /\ TypeOK'
  BY DropInv DEF OInv, IInv
<1>3. i \in Jobs /\ w \in FPs
  BY <1>1, <1>2, Numbers DEF TypeOK
<1>4. hand[w] = i
  OBVIOUS
<1> HIDE DEF i
<1>5. \A v \in Workers : hand'[v] = IF v = w THEN None ELSE hand[v]
  BY <1>1, <1>2 DEF TypeOK
<1>6. Routed'
  <2>1. \A v \in Workers : With(v)' = Elements(queue[v]) \cup ({hand'[v]} \ {None})
    BY <1>1 DEF With, Elements
  <2>2. \A v \in Workers : With(v)' \subseteq With(v)
    BY <1>5, <2>1 DEF With
  <2>3. QED BY <2>2, RoutedKept DEF OInv
<1>7. FlowOrder'
  <2>1. SUFFICES ASSUME NEW flow \in Flows PROVE InOrder(Line(flow)', PacketsOf(flow))
    BY DEF FlowOrder, PacketsOf
  <2> DEFINE L == Line(flow)  M == Line(flow)'
  <2>a. IsLine(L, 7) /\ IsLine(M, 7) /\ InOrder(L, PacketsOf(flow))
    BY <1>2, LineFacts, LineFactsNext DEF OInv, FlowOrder
  <2>b. /\ L[1] = written /\ L[2] = queue[0] /\ L[3] = Holding(hand[Route[flow]])
        /\ L[4] = queue[Route[flow]] /\ L[5] = Holding(hand[LBFor(flow)])
        /\ L[6] = queue[LBFor(flow)] /\ L[7] = Holding(inHand)
    BY <1>2, LineFacts
  <2>c. /\ M[1] = written' /\ M[2] = queue'[0] /\ M[3] = Holding(hand'[Route[flow]])
        /\ M[4] = queue'[Route[flow]] /\ M[5] = Holding(hand'[LBFor(flow)])
        /\ M[6] = queue'[LBFor(flow)] /\ M[7] = Holding(inHand')
    BY <1>2, LineFactsNext
  <2>d. SUFFICES InOrder(M, PacketsOf(flow))
    OBVIOUS
  <2> HIDE DEF L, M
  <2>2. /\ w # LBFor(flow) /\ Route[flow] \in Workers /\ LBFor(flow) \in Workers
    BY <1>3, FlowFacts
  <2>3. M[1] = L[1] /\ M[2] = L[2] /\ M[4] = L[4] /\ M[5] = L[5] /\ M[6] = L[6] /\ M[7] = L[7]
    BY <1>1, <1>5, <2>2, <2>b, <2>c
  <2>4. CASE w = Route[flow]
    <3>1. L[3] # << >> /\ M[3] = Tail(L[3])
      BY <1>3, <1>4, <1>5, <2>2, <2>4, <2>b, <2>c, Held
    <3>2. Left(L, M, 7, 3)
      BY <2>3, <3>1 DEF Left
    <3>3. QED BY <2>a, <3>2, LeavesLine
  <2>5. CASE w # Route[flow]
    <3>1. M[3] = L[3]
      BY <1>5, <2>2, <2>5, <2>b, <2>c
    <3>2. \A p \in 1..7 : M[p] = L[p]
      BY <2>3, <3>1
    <3>3. QED BY <2>a, <3>2, StaysInOrder
  <2>6. QED BY <2>4, <2>5
<1>8. QED BY <1>6, <1>7

LEMMA WriterPopOrder == ASSUME OInv, WriterPop PROVE Routed' /\ FlowOrder'
<1>1. UNCHANGED <<inHand, hand>>
  BY DEF WriterPop
<1>2. TypeOK /\ TypeOK'
  BY WriterPopInv DEF OInv, IInv
<1>3. CASE queue[0] = << >>
  BY <1>1, <1>3, PlacesKept DEF WriterPop, OInv
<1>4. CASE queue[0] # << >>
  <2>1. /\ written' = Append(written, Head(queue[0]))
        /\ queue' = [queue EXCEPT ![0] = Tail(queue[0])]
    BY <1>4 DEF WriterPop
  <2>2. \A r \in Queues : queue'[r] = IF r = 0 THEN Tail(queue[0]) ELSE queue[r]
    BY <1>2, <2>1 DEF TypeOK
  <2>3. Routed'
    <3>1. \A v \in Workers : With(v)' \subseteq With(v)
      BY <1>1, <2>2, Numbers DEF With, Elements
    <3>2. QED BY <3>1, RoutedKept DEF OInv
  <2>4. FlowOrder'
    <3>1. SUFFICES ASSUME NEW flow \in Flows PROVE InOrder(Line(flow)', PacketsOf(flow))
      BY DEF FlowOrder, PacketsOf
    <3> DEFINE L == Line(flow)  M == Line(flow)'
    <3>a. IsLine(L, 7) /\ IsLine(M, 7) /\ InOrder(L, PacketsOf(flow))
      BY <1>2, LineFacts, LineFactsNext DEF OInv, FlowOrder
    <3>b. /\ L[1] = written /\ L[2] = queue[0] /\ L[3] = Holding(hand[Route[flow]])
          /\ L[4] = queue[Route[flow]] /\ L[5] = Holding(hand[LBFor(flow)])
          /\ L[6] = queue[LBFor(flow)] /\ L[7] = Holding(inHand)
      BY <1>2, LineFacts
    <3>c. /\ M[1] = written' /\ M[2] = queue'[0] /\ M[3] = Holding(hand'[Route[flow]])
          /\ M[4] = queue'[Route[flow]] /\ M[5] = Holding(hand'[LBFor(flow)])
          /\ M[6] = queue'[LBFor(flow)] /\ M[7] = Holding(inHand')
      BY <1>2, LineFactsNext
    <3>d. SUFFICES InOrder(M, PacketsOf(flow))
      OBVIOUS
    <3> HIDE DEF L, M
    <3>2. /\ Route[flow] \in Queues /\ Route[flow] # 0
          /\ LBFor(flow) \in Queues /\ LBFor(flow) # 0 /\ 0 \in Queues
      BY FlowFacts, Numbers
    <3>3. M[3] = L[3] /\ M[4] = L[4] /\ M[5] = L[5] /\ M[6] = L[6] /\ M[7] = L[7]
      BY <1>1, <2>2, <3>2, <3>b, <3>c
    <3>4. L[2] # << >> /\ M[2] = Tail(L[2]) /\ M[1] = Append(L[1], Head(L[2]))
      BY <1>4, <2>1, <2>2, <3>2, <3>b, <3>c
    <3>5. MovedOn(L, M, 7, 2, 1)
      BY <3>3, <3>4 DEF MovedOn
    <3>6. QED BY <3>a, <3>5, MovesOn
  <2>5. QED BY <2>3, <2>4
<1>5. QED BY <1>3, <1>4
-----------------------------------------------------------------------------
(* Initially nothing is with anybody, and every line is empty.             *)
THEOREM OInvInit == Init => OInv
<1> SUFFICES ASSUME Init PROVE OInv
  OBVIOUS
<1>1. IInv
  BY IInvInit
<1>2. \A w \in Workers : With(w) = {}
  BY Numbers DEF Init, With, Elements
<1>3. Routed
  BY <1>2, Numbers DEF Routed
<1>4. FlowOrder
  <2>1. SUFFICES ASSUME NEW flow \in Flows PROVE InOrder(Line(flow), PacketsOf(flow))
    BY DEF FlowOrder
  <2>2. \A p \in 1..7 : Line(flow)[p] = << >>
    <3>1. TypeOK
      BY <1>1 DEF IInv
    <3>2. /\ written = << >> /\ queue[0] = << >> /\ queue[Route[flow]] = << >>
          /\ queue[LBFor(flow)] = << >> /\ Holding(hand[Route[flow]]) = << >>
          /\ Holding(hand[LBFor(flow)]) = << >> /\ Holding(inHand) = << >>
      BY FlowFacts, Numbers DEF Init, Holding, None
    <3>3. QED BY <3>1, <3>2, LineFacts
  <2>3. DOMAIN Line(flow) = 1..7
    BY DEF Line
  <2>4. QED BY <2>2, <2>3 DEF InOrder
<1>5. QED BY <1>1, <1>3, <1>4 DEF OInv

(* Every step keeps the routing and the order, on top of IInv.             *)
THEOREM OInvStep == OInv /\ [Next]_vars => OInv'
<1> SUFFICES ASSUME OInv, [Next]_vars PROVE OInv'
  OBVIOUS
<1>1. IInv'
  BY IInvStep DEF OInv
<1>2. CASE ReadPacket
  BY <1>1, <1>2, ReadPacketOrder DEF OInv
<1>3. CASE ReaderPush
  BY <1>1, <1>3, ReaderPushOrder DEF OInv
<1>4. CASE \E w \in Workers : Work(w)
  <2>1. PICK w \in Workers : Work(w)
    BY <1>4
  <2>2. TestRunning(w) \/ Forward(w) => UNCHANGED <<written, queue, hand, inHand>>
    BY DEF TestRunning, Forward
  <2>3. QED
    BY <1>1, <2>1, <2>2, PlacesKept, WorkerPopOrder, WorkerPushOrder, DropOrder DEF Work, OInv
<1>5. CASE WriterTest
  BY <1>1, <1>5, PlacesKept DEF WriterTest, OInv
<1>6. CASE WriterPop
  BY <1>1, <1>6, WriterPopOrder DEF OInv
<1>7. CASE Main
  <2>1. UNCHANGED rest
    BY <1>7 DEF Main, JoinReader, ReadDepth, GiveUp, ClearRunning, StopWorker, JoinWorker,
                ShutOutput, JoinWriter, mainVars
  <2>2. QED BY <1>1, <2>1, PlacesKept DEF OInv, rest
<1>8. CASE UNCHANGED vars
  BY <1>1, <1>8, PlacesKept DEF OInv, vars
<1>9. QED BY <1>2, <1>3, <1>4, <1>5, <1>6, <1>7, <1>8 DEF Next

(* The packets of a conversation keep the order of the capture through all *)
(* queues and threads, for any number of LBs and FPs and any routing by    *)
(* flow: this is what the flow table without locks relies on.              *)
THEOREM FlowsKeepOrder == Spec => []FlowOrder
<1>1. OInv => FlowOrder
  BY DEF OInv
<1>2. Spec => []OInv
  BY OInvInit, OInvStep, PTL DEF Spec
<1>3. QED BY <1>1, <1>2, PTL
-----------------------------------------------------------------------------
(* One place each.  The order of a line is strict, so that a packet has at *)
(* most one spot on the line of its flow, and whatever is in the pipeline  *)
(* lies on that line; what was dropped has left it.                        *)
InPipeline == Elements(written) \cup Queued \cup HeldBy(Workers) \cup ({inHand} \ {None})

DroppedGone == dropped \cap InPipeline = {}

PInv == OInv /\ DroppedGone

(* The place that a spot on the line of a flow stands for.                 *)
PlaceAt(flow, p, j) ==
  CASE p = 1 -> <<"written", j>>
    [] p = 2 -> <<"queue", 0, j>>
    [] p = 3 -> <<"hand", Route[flow]>>
    [] p = 4 -> <<"queue", Route[flow], j>>
    [] p = 5 -> <<"hand", LBFor(flow)>>
    [] p = 6 -> <<"queue", LBFor(flow), j>>
    [] p = 7 -> <<"gone", "reader">>

OnLine(i, p, j) ==
  p \in 1..7 /\ j \in 1..Len(Line(FlowOf[i])[p]) /\ Line(FlowOf[i])[p][j] = i

LEMMA OneSpot ==
  ASSUME OInv, NEW i \in Jobs, NEW p, NEW j, NEW q, NEW k,
         OnLine(i, p, j), OnLine(i, q, k)
  PROVE  p = q /\ j = k
<1> DEFINE L == Line(FlowOf[i])
<1>1. FlowOf[i] \in Flows /\ i \in Nat /\ i \in PacketsOf(FlowOf[i])
  BY JobFacts DEF PacketsOf
<1>2. InOrder(L, PacketsOf(FlowOf[i])) /\ DOMAIN L = 1..7
  BY <1>1 DEF OInv, FlowOrder, Line
<1>3. /\ p \in 1..7 /\ q \in 1..7 /\ j \in 1..Len(L[p]) /\ k \in 1..Len(L[q])
      /\ L[p][j] = i /\ L[q][k] = i
  BY DEF OnLine
<1> DEFINE S == PacketsOf(FlowOf[i])
<1>4. i \in S /\ InOrder(L, S)
  BY <1>1, <1>2
<1> HIDE DEF L, S
<1>5. ASSUME NEW x \in 1..7, NEW y \in 1..7, NEW a \in 1..Len(L[x]), NEW b \in 1..Len(L[y]),
             L[x][a] = i, L[y][b] = i, Ahead(x, a, y, b)
      PROVE  FALSE
  <2>1. L[x][a] < L[y][b]
    BY <1>2, <1>4, <1>5 DEF InOrder
  <2>2. QED BY <1>1, <1>5, <2>1
<1>6. ~Ahead(p, j, q, k) /\ ~Ahead(q, k, p, j)
  BY <1>3, <1>5
<1>7. j \in Int /\ k \in Int
  BY <1>3
<1>8. QED BY <1>3, <1>6, <1>7 DEF Ahead

(* Each place of the pipeline is a spot on the line of the flow.           *)
LEMMA WrittenSpot ==
  ASSUME OInv, NEW i \in Jobs, NEW k \in Spots(i, written)
  PROVE  OnLine(i, 1, k)
<1>1. FlowOf[i] \in Flows
  BY JobFacts
<1>2. Line(FlowOf[i])[1] = written
  BY <1>1, LineFacts DEF OInv, IInv
<1>3. k \in 1..Len(written) /\ written[k] = i
  BY DEF Spots, OInv, IInv, TypeOK
<1>4. QED BY <1>2, <1>3 DEF OnLine

LEMMA QueueSpot ==
  ASSUME OInv, NEW i \in Jobs, NEW q \in Queues, NEW k \in Spots(i, queue[q])
  PROVE  \E p : p \in {2, 4, 6} /\ OnLine(i, p, k) /\ PlaceAt(FlowOf[i], p, k) = <<"queue", q, k>>
<1> DEFINE flow == FlowOf[i]
<1>1. flow \in Flows
  BY JobFacts
<1>2. Line(flow)[2] = queue[0] /\ Line(flow)[4] = queue[Route[flow]]
      /\ Line(flow)[6] = queue[LBFor(flow)]
  BY <1>1, LineFacts DEF OInv, IInv
<1>3. k \in 1..Len(queue[q]) /\ queue[q][k] = i
  BY DEF Spots, OInv, IInv, TypeOK
<1>4. q # 0 => i \in With(q)
  BY <1>3 DEF With, Elements
<1>5. q = 0 \/ q \in LBs \/ q \in FPs
  BY Numbers DEF Queues, Workers
<1>6. CASE q = 0
  <2>1. OnLine(i, 2, k) /\ PlaceAt(flow, 2, k) = <<"queue", q, k>>
    BY <1>2, <1>3, <1>6 DEF OnLine, PlaceAt
  <2>2. QED BY <2>1
<1>7. CASE q \in FPs
  <2>1. Route[flow] = q
    BY <1>4, <1>7, Numbers DEF OInv, Routed
  <2>2. OnLine(i, 4, k) /\ PlaceAt(flow, 4, k) = <<"queue", q, k>>
    BY <1>2, <1>3, <2>1 DEF OnLine, PlaceAt
  <2>3. QED BY <2>2
<1>8. CASE q \in LBs
  <2>1. LBFor(flow) = q
    BY <1>4, <1>8, Numbers DEF OInv, Routed
  <2>2. OnLine(i, 6, k) /\ PlaceAt(flow, 6, k) = <<"queue", q, k>>
    BY <1>2, <1>3, <2>1 DEF OnLine, PlaceAt
  <2>3. QED BY <2>2
<1>9. QED BY <1>5, <1>6, <1>7, <1>8

LEMMA HandSpot ==
  ASSUME OInv, NEW i \in Jobs, NEW w \in Workers, hand[w] = i
  PROVE  \E p : /\ p = (IF w \in LBs THEN 5 ELSE 3)
                /\ OnLine(i, p, 1) /\ PlaceAt(FlowOf[i], p, 1) = <<"hand", w>>
<1> DEFINE flow == FlowOf[i]
<1>1. flow \in Flows /\ i # None
  BY JobFacts
<1>2. Line(flow)[3] = Holding(hand[Route[flow]]) /\ Line(flow)[5] = Holding(hand[LBFor(flow)])
  BY <1>1, LineFacts DEF OInv, IInv
<1>3. i \in With(w)
  BY <1>1 DEF With
<1>4. Holding(i) = <<i>>
  BY <1>1, HoldingType
<1>5. CASE w \in LBs
  <2>1. LBFor(flow) = w
    BY <1>3, <1>5 DEF OInv, Routed
  <2>2. OnLine(i, 5, 1) /\ PlaceAt(flow, 5, 1) = <<"hand", w>>
    BY <1>2, <1>4, <2>1 DEF OnLine, PlaceAt
  <2>3. QED BY <1>5, <2>2
<1>6. CASE w \notin LBs
  <2>1. Route[flow] = w
    BY <1>3, <1>6, Numbers DEF OInv, Routed
  <2>2. OnLine(i, 3, 1) /\ PlaceAt(flow, 3, 1) = <<"hand", w>>
    BY <1>2, <1>4, <2>1 DEF OnLine, PlaceAt
  <2>3. QED BY <1>6, <2>2
<1>7. QED BY <1>5, <1>6

LEMMA ReaderSpot ==
  ASSUME OInv, NEW i \in Jobs, inHand = i
  PROVE  OnLine(i, 7, 1) /\ PlaceAt(FlowOf[i], 7, 1) = <<"gone", "reader">>
<1>1. FlowOf[i] \in Flows /\ i # None
  BY JobFacts
<1>2. Line(FlowOf[i])[7] = Holding(i) /\ Holding(i) = <<i>>
  BY <1>1, LineFacts, HoldingType DEF OInv, IInv
<1>3. QED BY <1>2 DEF OnLine, PlaceAt

(* A dropped packet was in the hand of its FP and nowhere else.            *)
LEMMA DropLeaves ==
  ASSUME OInv, NEW w \in Workers, Drop(w)
  PROVE  hand[w] \notin InPipeline'
<1> DEFINE i == hand[w]
<1>1. /\ at[w] = "judge" /\ hand' = [hand EXCEPT ![w] = None]
      /\ UNCHANGED <<inHand, queue, written>>
  BY DEF Drop
<1>2. TypeOK /\ i \in Jobs /\ i # None /\ w \notin LBs
  BY <1>1, JobFacts DEF OInv, IInv, TypeOK
<1>3. hand[w] = i
  OBVIOUS
<1> HIDE DEF i
<1>4. OnLine(i, 3, 1) /\ PlaceAt(FlowOf[i], 3, 1) = <<"hand", w>>
  BY <1>2, <1>3, HandSpot
<1>5. i \notin Elements(written)
  <2>1. SUFFICES ASSUME NEW k \in 1..Len(written), written[k] = i PROVE FALSE
    BY DEF Elements
  <2>2. k \in Spots(i, written)
    BY <1>2, <2>1 DEF Spots, TypeOK
  <2>3. OnLine(i, 1, k)
    BY <1>2, <2>2, WrittenSpot
  <2>4. 1 = 3
    BY <1>2, <1>4, <2>3, OneSpot
  <2>5. QED BY <2>4
<1>6. i \notin Queued
  <2>1. SUFFICES ASSUME NEW q \in Queues, NEW k \in 1..Len(queue[q]), queue[q][k] = i PROVE FALSE
    BY DEF Queued, Elements
  <2>2. k \in Spots(i, queue[q])
    BY <1>2, <2>1 DEF Spots, TypeOK
  <2>3. PICK p : p \in {2, 4, 6} /\ OnLine(i, p, k)
    BY <1>2, <2>2, QueueSpot
  <2>4. p = 3
    BY <1>2, <1>4, <2>3, OneSpot
  <2>5. QED BY <2>3, <2>4
<1>7. i # inHand
  <2>1. SUFFICES ASSUME inHand = i PROVE FALSE
    OBVIOUS
  <2>2. OnLine(i, 7, 1)
    BY <1>2, <2>1, ReaderSpot
  <2>3. 7 = 3
    BY <1>2, <1>4, <2>2, OneSpot
  <2>4. QED BY <2>3
<1>8. ASSUME NEW v \in Workers PROVE hand'[v] # i
  <2>1. hand'[v] = IF v = w THEN None ELSE hand[v]
    BY <1>1, <1>2 DEF TypeOK
  <2>2. SUFFICES ASSUME v # w, hand[v] = i PROVE FALSE
    BY <1>2, <2>1
  <2>3. PICK p : OnLine(i, p, 1) /\ PlaceAt(FlowOf[i], p, 1) = <<"hand", v>>
    BY <1>2, <2>2, HandSpot
  <2>4. p = 3
    BY <1>2, <1>4, <2>3, OneSpot
  <2>5. <<"hand", v>> = <<"hand", w>>
    BY <1>4, <2>3, <2>4
  <2>6. QED BY <2>2, <2>5
<1>9. InPipeline' = Elements(written) \cup Queued \cup HeldBy(Workers)' \cup ({inHand} \ {None})
  BY <1>1 DEF InPipeline, Elements, Queued
<1>10. i \notin HeldBy(Workers)'
  BY <1>8 DEF HeldBy
<1>11. QED BY <1>5, <1>6, <1>7, <1>9, <1>10 DEF i

LEMMA StillGone ==
  ASSUME DroppedGone, dropped' = dropped, InPipeline' \subseteq InPipeline
  PROVE  DroppedGone'
BY DEF DroppedGone

LEMMA PipelineKept ==
  ASSUME DroppedGone, UNCHANGED <<dropped, written, queue, hand, inHand>>
  PROVE  DroppedGone'
<1>1. InPipeline' = InPipeline
  BY DEF InPipeline, Elements, Queued, HeldBy
<1>2. QED BY <1>1, StillGone

LEMMA ReadPacketGone == ASSUME PInv, ReadPacket PROVE DroppedGone'
<1>1. /\ inHand' = IF FlowOf[pos + 1] = NoFlow THEN None ELSE pos + 1
      /\ UNCHANGED <<written, queue, hand, dropped>>
  BY DEF ReadPacket
<1>2. InPipeline' \subseteq InPipeline \cup {inHand'} /\ (inHand' = None => InPipeline' \subseteq InPipeline)
  BY <1>1 DEF InPipeline, Elements, Queued, HeldBy
<1>3. dropped \subseteq Taken /\ pos \in Nat
  BY Numbers DEF PInv, OInv, IInv, Conserved, Settled, TypeOK
<1>4. pos + 1 \notin Taken
  BY <1>3, JobFacts DEF Taken
<1>5. QED BY <1>1, <1>2, <1>3, <1>4 DEF DroppedGone, PInv

LEMMA ReaderPushGone == ASSUME PInv, ReaderPush PROVE DroppedGone'
<1> DEFINE i == inHand  q == LBFor(FlowOf[i])
<1>1. /\ i # None /\ PushTo(q, i) /\ inHand' = None
      /\ UNCHANGED <<written, hand, dropped, outShut, alive>>
  BY DEF ReaderPush
<1>2. IInv /\ TypeOK /\ i \in Jobs
  BY <1>1 DEF PInv, OInv, IInv, TypeOK
<1>3. q \in Workers /\ q \in Queues
  BY <1>1, <1>2, ReaderTarget, Numbers
<1>4. ~Shut(q)
  BY <1>1, <1>2, <1>3, Numbers DEF IInv, StopOrder, ReaderDone, Shut
<1> HIDE DEF q
<1>5. Queued' = Queued \cup {i}
  BY <1>1, <1>2, <1>3, <1>4, PushFacts
<1>6. Elements(written)' = Elements(written) /\ HeldBy(Workers)' = HeldBy(Workers)
  BY <1>1 DEF Elements, HeldBy
<1>7. InPipeline' \subseteq InPipeline
  BY <1>1, <1>5, <1>6 DEF InPipeline
<1>8. QED BY <1>1, <1>7, StillGone DEF PInv

LEMMA WorkerPopGone == ASSUME PInv, NEW w \in Workers, WorkerPop(w) PROVE DroppedGone'
<1>1. /\ at[w] = "pop" /\ hand[w] = None /\ w \in Queues
      /\ UNCHANGED <<inHand, written, dropped>>
  BY Numbers DEF WorkerPop, PInv, OInv, IInv, TypeOK
<1>2. CASE queue[w] = << >>
  BY <1>1, <1>2, PipelineKept DEF WorkerPop, PInv
<1>3. CASE queue[w] # << >>
  <2> DEFINE i == Head(queue[w])
  <2>1. hand' = [hand EXCEPT ![w] = i] /\ queue' = [queue EXCEPT ![w] = Tail(queue[w])]
    BY <1>3 DEF WorkerPop
  <2>2. Queued = Queued' \cup {i} /\ i \in Jobs
    BY <1>1, <1>3, <2>1, PopFacts DEF PInv, OInv, IInv
  <2> HIDE DEF i
  <2>3. HeldBy(Workers)' = HeldBy(Workers) \cup {i}
    BY <1>1, <2>1, <2>2, HeldTaken DEF PInv, OInv, IInv
  <2>4. Elements(written)' = Elements(written)
    BY <1>1 DEF Elements
  <2>5. InPipeline' \subseteq InPipeline
    BY <1>1, <2>2, <2>3, <2>4 DEF InPipeline
  <2>6. QED BY <1>1, <2>5, StillGone DEF PInv
<1>4. QED BY <1>2, <1>3

LEMMA WorkerPushGone == ASSUME PInv, NEW w \in Workers, WorkerPush(w) PROVE DroppedGone'
<1> DEFINE q == Target(w)  i == hand[w]
<1>1. /\ at[w] = "push" /\ PushTo(q, i) /\ hand' = [hand EXCEPT ![w] = None]
      /\ UNCHANGED <<inHand, written, dropped>>
  BY DEF WorkerPush, Target
<1>2. IInv /\ TypeOK /\ i # None /\ i \in Jobs
  BY <1>1 DEF PInv, OInv, IInv, TypeOK
<1>3. q \in Queues
  BY <1>2, TargetFacts
<1>4. queue' = [queue EXCEPT ![q] = Append(queue[q], i)]
  <2>1. discarded' = {}
    BY <1>2, WorkerPushInv DEF IInv, NothingDiscarded
  <2>2. QED BY <1>1, <2>1 DEF PushTo
<1> HIDE DEF q
<1>5. Queued' = Queued \cup {i}
  <2>1. queue[q] \in Seq(Jobs)
    BY <1>2, <1>3 DEF TypeOK
  <2>2. Elements(Append(queue[q], i)) = Elements(queue[q]) \cup {i}
    BY <1>2, <2>1, AppendElements
  <2>3. /\ Queued = (UNION {Elements(queue[r]) : r \in Queues \ {q}}) \cup Elements(queue[q])
        /\ Queued' = (UNION {Elements(queue[r]) : r \in Queues \ {q}})
                       \cup Elements(Append(queue[q], i))
    BY <1>2, <1>3, <1>4, QueuedChange
  <2>4. QED BY <2>2, <2>3
<1>6. HeldBy(Workers) = HeldBy(Workers)' \cup {i}
  BY <1>1, <1>2, HeldGiven
<1>7. Elements(written)' = Elements(written)
  BY <1>1 DEF Elements
<1>8. InPipeline' \subseteq InPipeline
  BY <1>1, <1>5, <1>6, <1>7 DEF InPipeline
<1>9. QED BY <1>1, <1>8, StillGone DEF PInv

LEMMA DropGone == ASSUME PInv, NEW w \in Workers, Drop(w) PROVE DroppedGone'
<1>1. /\ at[w] = "judge" /\ hand' = [hand EXCEPT ![w] = None]
      /\ dropped' = dropped \cup {hand[w]} /\ UNCHANGED <<inHand, written, queue>>
  BY DEF Drop
<1>2. TypeOK /\ hand[w] # None
  BY <1>1 DEF PInv, OInv, IInv, TypeOK
<1>3. HeldBy(Workers) = HeldBy(Workers)' \cup {hand[w]}
  BY <1>1, <1>2, HeldGiven
<1>4. Elements(written)' = Elements(written) /\ Queued' = Queued
  BY <1>1 DEF Elements, Queued
<1>5. InPipeline' \subseteq InPipeline
  BY <1>1, <1>3, <1>4 DEF InPipeline
<1>6. hand[w] \notin InPipeline'
  BY DropLeaves DEF PInv
<1>7. QED BY <1>1, <1>5, <1>6 DEF DroppedGone, PInv

LEMMA WriterPopGone == ASSUME PInv, WriterPop PROVE DroppedGone'
<1>1. UNCHANGED <<inHand, hand, dropped>>
  BY DEF WriterPop
<1>2. CASE queue[0] = << >>
  BY <1>1, <1>2, PipelineKept DEF WriterPop, PInv
<1>3. CASE queue[0] # << >>
  <2> DEFINE i == Head(queue[0])
  <2>1. written' = Append(written, i) /\ queue' = [queue EXCEPT ![0] = Tail(queue[0])]
    BY <1>3 DEF WriterPop
  <2>2. Queued = Queued' \cup {i} /\ i \in Jobs
    BY <1>3, <2>1, Numbers, PopFacts DEF PInv, OInv, IInv
  <2> HIDE DEF i
  <2>3. Elements(written)' = Elements(written) \cup {i}
    <3>1. Elements(Append(written, i)) = Elements(written) \cup {i}
      BY <2>2, AppendElements DEF PInv, OInv, IInv, TypeOK
    <3>2. QED BY <2>1, <3>1 DEF Elements
  <2>4. HeldBy(Workers)' = HeldBy(Workers)
    BY <1>1 DEF HeldBy
  <2>5. InPipeline' \subseteq InPipeline
    BY <1>1, <2>2, <2>3, <2>4 DEF InPipeline
  <2>6. QED BY <1>1, <2>5, StillGone DEF PInv
<1>4. QED BY <1>2, <1>3

LEMMA PInvInit == Init => PInv
BY OInvInit DEF Init, PInv, DroppedGone

LEMMA PInvStep == PInv /\ [Next]_vars => PInv'
<1> SUFFICES ASSUME PInv, [Next]_vars PROVE PInv'
  OBVIOUS
<1>1. OInv'
  BY OInvStep DEF PInv
<1>2. SUFFICES DroppedGone'
  BY <1>1 DEF PInv
<1>3. CASE ReadPacket
  BY <1>3, ReadPacketGone
<1>4. CASE ReaderPush
  BY <1>4, ReaderPushGone
<1>5. CASE \E w \in Workers : Work(w)
  <2>1. PICK w \in Workers : Work(w)
    BY <1>5
  <2>2. TestRunning(w) \/ Forward(w) => UNCHANGED <<dropped, written, queue, hand, inHand>>
    BY DEF TestRunning, Forward
  <2>3. QED
    BY <2>1, <2>2, PipelineKept, WorkerPopGone, WorkerPushGone, DropGone DEF Work, PInv
<1>6. CASE WriterTest
  BY <1>6, PipelineKept DEF WriterTest, PInv
<1>7. CASE WriterPop
  BY <1>7, WriterPopGone
<1>8. CASE Main
  <2>1. UNCHANGED rest
    BY <1>8 DEF Main, JoinReader, ReadDepth, GiveUp, ClearRunning, StopWorker, JoinWorker,
                ShutOutput, JoinWriter, mainVars
  <2>2. QED BY <2>1, PipelineKept DEF PInv, rest
<1>9. CASE UNCHANGED vars
  BY <1>9, PipelineKept DEF PInv, vars
<1>10. QED BY <1>3, <1>4, <1>5, <1>6, <1>7, <1>8, <1>9 DEF Next

(* What a place is.                                                        *)
LEMMA PlaceCases ==
  ASSUME NEW i, NEW x
  PROVE  x \in Places(i) <=>
           \/ \E k \in Spots(i, written) : x = <<"written", k>>
           \/ \E q \in Queues : \E k \in Spots(i, queue[q]) : x = <<"queue", q, k>>
           \/ \E w \in Workers : hand[w] = i /\ x = <<"hand", w>>
           \/ inHand = i /\ x = <<"gone", "reader">>
           \/ i \in dropped /\ x = <<"gone", "dropped">>
           \/ i \in discarded /\ x = <<"gone", "discarded">>
<1> DEFINE A == {<<"written", k>> : k \in Spots(i, written)}
           B == UNION {{<<"queue", q, k>> : k \in Spots(i, queue[q])} : q \in Queues}
           C == {<<"hand", w>> : w \in {w \in Workers : hand[w] = i}}
           D == {<<"gone", s>> : s \in {s \in {"reader", "dropped", "discarded"} :
                                  \/ s = "reader" /\ inHand = i
                                  \/ s = "dropped" /\ i \in dropped
                                  \/ s = "discarded" /\ i \in discarded}}
<1>1. Places(i) = A \cup B \cup C \cup D
  BY DEF Places
<1>2. x \in A <=> \E k \in Spots(i, written) : x = <<"written", k>>
  OBVIOUS
<1>3. x \in B <=> \E q \in Queues : \E k \in Spots(i, queue[q]) : x = <<"queue", q, k>>
  OBVIOUS
<1>4. x \in C <=> \E w \in Workers : hand[w] = i /\ x = <<"hand", w>>
  OBVIOUS
<1>5. x \in D <=> \/ inHand = i /\ x = <<"gone", "reader">>
                  \/ i \in dropped /\ x = <<"gone", "dropped">>
                  \/ i \in discarded /\ x = <<"gone", "discarded">>
  OBVIOUS
<1> HIDE DEF A, B, C, D
<1>6. QED BY <1>1, <1>2, <1>3, <1>4, <1>5

(* A place of a packet is its spot on the line, or it was dropped.         *)
LEMMA SamePlace ==
  ASSUME PInv, NEW i \in Packets, NEW x \in Places(i)
  PROVE  /\ i \in Taken
         /\ i \in dropped => x = <<"gone", "dropped">>
         /\ i \notin dropped =>
              \E p, j : OnLine(i, p, j) /\ x = PlaceAt(FlowOf[i], p, j)
<1>0. OInv /\ IInv /\ TypeOK /\ discarded = {} /\ DroppedGone
  BY DEF PInv, OInv, IInv, NothingDiscarded
<1>a. i # None
  BY DEF Packets, None
<1>1. CASE \E k \in Spots(i, written) : x = <<"written", k>>
  <2>1. PICK k \in Spots(i, written) : x = <<"written", k>>
    BY <1>1
  <2>0. k \in 1..Len(written) /\ written[k] = i /\ written[k] \in Jobs
    BY <1>0, <2>1 DEF Spots, TypeOK
  <2>2. i \in Elements(written) /\ i \in Jobs
    BY <2>0 DEF Elements
  <2>3. i \notin dropped
    BY <1>0, <2>2 DEF DroppedGone, InPipeline
  <2>4. OnLine(i, 1, k) /\ x = PlaceAt(FlowOf[i], 1, k)
    BY <1>0, <2>1, <2>2, WrittenSpot DEF PlaceAt
  <2>5. QED BY <1>0, <2>2, <2>3, <2>4 DEF IInv, Conserved, Settled
<1>2. CASE \E q \in Queues : \E k \in Spots(i, queue[q]) : x = <<"queue", q, k>>
  <2>1. PICK q \in Queues : \E k \in Spots(i, queue[q]) : x = <<"queue", q, k>>
    BY <1>2
  <2>0. PICK k \in Spots(i, queue[q]) : x = <<"queue", q, k>>
    BY <2>1
  <2>2. i \in Queued /\ i \in Jobs
    BY <1>0, <2>0 DEF Spots, Elements, Queued, TypeOK
  <2>3. i \notin dropped
    BY <1>0, <2>2 DEF DroppedGone, InPipeline
  <2>4. PICK p : OnLine(i, p, k) /\ PlaceAt(FlowOf[i], p, k) = <<"queue", q, k>>
    BY <1>0, <2>0, <2>2, QueueSpot
  <2>5. i \in Taken
    BY <1>0, <2>2 DEF IInv, Conserved
  <2>6. QED BY <2>0, <2>3, <2>4, <2>5
<1>3. CASE \E w \in Workers : hand[w] = i /\ x = <<"hand", w>>
  <2>1. PICK w \in Workers : hand[w] = i /\ x = <<"hand", w>>
    BY <1>3
  <2>2. i \in Jobs /\ i \in HeldBy(Workers)
    BY <1>0, <1>a, <2>1 DEF TypeOK, HeldBy
  <2>3. i \notin dropped
    BY <1>0, <2>2 DEF DroppedGone, InPipeline
  <2>4. PICK p : OnLine(i, p, 1) /\ PlaceAt(FlowOf[i], p, 1) = <<"hand", w>>
    BY <1>0, <2>1, <2>2, HandSpot
  <2>5. i \in Taken
    BY <1>0, <2>2 DEF IInv, Conserved
  <2>6. QED BY <2>1, <2>3, <2>4, <2>5
<1>4. CASE inHand = i /\ x = <<"gone", "reader">>
  <2>1. i \in Jobs /\ i \in InPipeline
    BY <1>0, <1>a, <1>4 DEF TypeOK, InPipeline
  <2>2. i \notin dropped
    BY <1>0, <2>1 DEF DroppedGone
  <2>3. OnLine(i, 7, 1) /\ PlaceAt(FlowOf[i], 7, 1) = <<"gone", "reader">>
    BY <1>0, <1>4, <2>1, ReaderSpot
  <2>4. i \in Taken
    BY <1>0, <1>a, <1>4 DEF IInv, Conserved
  <2>5. QED BY <1>4, <2>2, <2>3, <2>4
<1>5. CASE i \in dropped /\ x = <<"gone", "dropped">>
  BY <1>0, <1>5 DEF IInv, Conserved, Settled
<1>6. QED BY <1>0, <1>1, <1>2, <1>3, <1>4, <1>5, PlaceCases

(* What has been taken is somewhere.                                       *)
LEMMA SomePlace ==
  ASSUME PInv, NEW i \in Taken
  PROVE  \E x : x \in Places(i)
<1>0. IInv /\ TypeOK /\ discarded = {}
  BY DEF PInv, OInv, IInv, NothingDiscarded
<1>1. \/ i \in Elements(written) \/ i \in dropped \/ i \in Queued
      \/ i \in HeldBy(Workers) \/ i = inHand
  BY <1>0 DEF IInv, Conserved, Settled
<1>2. CASE i \in Elements(written)
  <2>1. PICK k \in 1..Len(written) : written[k] = i
    BY <1>2 DEF Elements
  <2>2. k \in Spots(i, written)
    BY <1>0, <2>1 DEF Spots, TypeOK
  <2>3. <<"written", k>> \in Places(i)
    BY <2>2, PlaceCases
  <2>4. QED BY <2>3
<1>3. CASE i \in dropped
  <2>1. <<"gone", "dropped">> \in Places(i)
    BY <1>3, PlaceCases
  <2>2. QED BY <2>1
<1>4. CASE i \in Queued
  <2>1. PICK q \in Queues : i \in Elements(queue[q])
    BY <1>4 DEF Queued
  <2>2. PICK k \in 1..Len(queue[q]) : queue[q][k] = i
    BY <2>1 DEF Elements
  <2>3. k \in Spots(i, queue[q])
    BY <1>0, <2>2 DEF Spots, TypeOK
  <2>4. <<"queue", q, k>> \in Places(i)
    BY <2>3, PlaceCases
  <2>5. QED BY <2>4
<1>5. CASE i \in HeldBy(Workers)
  <2>1. PICK w \in Workers : hand[w] = i
    BY <1>5 DEF HeldBy
  <2>2. <<"hand", w>> \in Places(i)
    BY <2>1, PlaceCases
  <2>3. QED BY <2>2
<1>6. CASE i = inHand
  <2>1. <<"gone", "reader">> \in Places(i)
    BY <1>6, PlaceCases
  <2>2. QED BY <2>1
<1>7. QED BY <1>1, <1>2, <1>3, <1>4, <1>5, <1>6

LEMMA PInvPlaces == PInv => OnePlaceEach
<1> SUFFICES ASSUME PInv, NEW i \in Packets
             PROVE  Cardinality(Places(i)) = IF i \in Taken THEN 1 ELSE 0
  BY DEF OnePlaceEach
<1>1. CASE i \notin Taken
  <2>1. Places(i) = {}
    BY <1>1, SamePlace
  <2>2. QED BY <1>1, <2>1, FS_EmptySet
<1>2. CASE i \in Taken
  <2>1. PICK x : x \in Places(i)
    BY <1>2, SomePlace
  <2>2. ASSUME NEW y \in Places(i) PROVE y = x
    <3>1. CASE i \in dropped
      BY <2>1, <2>2, <3>1, SamePlace
    <3>2. CASE i \notin dropped
      <4>1. PICK p, j : OnLine(i, p, j) /\ x = PlaceAt(FlowOf[i], p, j)
        BY <2>1, <3>2, SamePlace
      <4>2. PICK q, k : OnLine(i, q, k) /\ y = PlaceAt(FlowOf[i], q, k)
        BY <2>2, <3>2, SamePlace
      <4>3. i \in Jobs /\ OInv
        BY <1>2 DEF Taken, PInv
      <4>4. p = q /\ j = k
        BY <4>1, <4>2, <4>3, OneSpot
      <4>5. QED BY <4>1, <4>2, <4>4
    <3>3. QED BY <3>1, <3>2
  <2>3. Places(i) = {x}
    BY <2>1, <2>2
  <2>4. QED BY <1>2, <2>3, FS_Singleton
<1>3. QED BY <1>1, <1>2

(* Every packet counted in total_packets is in one place and one only,     *)
(* written once at most, judged once at most, for any number of threads.   *)
THEOREM PacketsNotCopied == Spec => []OnePlaceEach
<1>1. Spec => []PInv
  BY PInvInit, PInvStep, PTL DEF Spec
<1>2. QED BY <1>1, PInvPlaces, PTL
-----------------------------------------------------------------------------
(* The idle scan.  What the main thread has read as empty cannot fill up   *)
(* behind its back: once the reader is done nobody feeds the LBs, and once *)
(* the LBs are empty an FP gets no more than what an LB still holds.       *)
Seen(q) == streak > 0 \/ q < cursor
SeenFPs == {f \in FPs : Seen(f)}
Fed(fs) == (UNION {Elements(queue[f]) : f \in fs}) \cup HeldBy(LBs)
SeenTwice == streak > 1 \/ (phase = "drain" /\ streak = 1 /\ cursor > 0)

Pace ==
  /\ phase = "join" => cursor = 0 /\ streak = 0
  /\ phase \in {"join", "drain"} => ~gaveUp
  /\ ~gaveUp /\ phase \notin {"join", "drain"} => streak = IdleStreak

LBsEmpty == \A l \in LBs : Seen(l) => queue[l] = << >>
FedFew == Seen(NumLBs) => Cardinality(Fed(SeenFPs)) <= NumLBs
FewLeft == SeenTwice => Cardinality(Taken \ Settled) <= NumLBs + NumFPs

ScanInv == Pace /\ (~gaveUp => LBsEmpty /\ FedFew /\ FewLeft)

(* Sets of packets are finite, and hold fewer when they shrink.            *)
LEMMA JobsFinite ==
  ASSUME NEW S \in SUBSET Jobs
  PROVE  /\ IsFiniteSet(S) /\ Cardinality(S) \in Nat
         /\ \A T \in SUBSET S : Cardinality(T) <= Cardinality(S)
<1>1. IsFiniteSet(1..NumPackets)
  BY Numbers, FS_Interval
<1>2. S \subseteq 1..NumPackets
  BY DEF Jobs, Packets
<1>3. IsFiniteSet(S)
  BY <1>1, <1>2, FS_Subset
<1>4. QED BY <1>3, FS_Subset, FS_CardinalityType

LEMMA FedType == TypeOK => \A fs \in SUBSET FPs : Fed(fs) \in SUBSET Jobs
<1> SUFFICES ASSUME TypeOK, NEW fs \in SUBSET FPs PROVE Fed(fs) \in SUBSET Jobs
  OBVIOUS
<1>1. \A f \in FPs : Elements(queue[f]) \subseteq Jobs
  <2>1. SUFFICES ASSUME NEW f \in FPs, NEW k \in 1..Len(queue[f]) PROVE queue[f][k] \in Jobs
    BY DEF Elements
  <2>2. queue[f] \in Seq(Jobs)
    BY Numbers DEF TypeOK
  <2>3. QED BY <2>2
<1>2. HeldBy(LBs) \subseteq Jobs
  BY Numbers DEF HeldBy, TypeOK
<1>3. QED BY <1>1, <1>2 DEF Fed

(* Each worker holds one packet at most.                                   *)
LEMMA HeldBound ==
  ASSUME TypeOK, NEW a \in Nat, NEW b \in Nat, a >= 1, a..b \subseteq Workers, a <= b + 1
  PROVE  HeldBy(a..b) \in SUBSET Jobs /\ Cardinality(HeldBy(a..b)) <= b - a + 1
<1> DEFINE T == {hand[w] : w \in a..b}
           f == [w \in a..b |-> hand[w]]
<1>1. f \in Surjection(a..b, T)
  BY DEF Surjection
<1>2. IsFiniteSet(a..b) /\ Cardinality(a..b) <= b - a + 1
  BY FS_Interval
<1>3. IsFiniteSet(T) /\ Cardinality(T) <= Cardinality(a..b)
  BY <1>1, <1>2, FS_Surjection
<1>4. HeldBy(a..b) \subseteq T /\ HeldBy(a..b) \subseteq Jobs
  BY DEF HeldBy, TypeOK
<1>5. Cardinality(HeldBy(a..b)) <= Cardinality(T)
  BY <1>3, <1>4, FS_Subset
<1>6. /\ Cardinality(HeldBy(a..b)) \in Nat /\ Cardinality(T) \in Nat
      /\ Cardinality(a..b) \in Nat
  BY <1>2, <1>3, <1>4, JobsFinite, FS_CardinalityType
<1>7. QED BY <1>2, <1>3, <1>4, <1>5, <1>6

LEMMA HeldByLBs == TypeOK => Cardinality(HeldBy(LBs)) <= NumLBs
<1> SUFFICES ASSUME TypeOK PROVE Cardinality(HeldBy(LBs)) <= NumLBs
  OBVIOUS
<1>1. LBs = 1..NumLBs /\ NumLBs \in Nat /\ NumLBs >= 1 /\ 1..NumLBs \subseteq Workers
  BY Numbers DEF LBs
<1>2. Cardinality(HeldBy(1..NumLBs)) <= NumLBs - 1 + 1
  BY <1>1, HeldBound
<1>3. QED
  <2>1. NumLBs - 1 + 1 = NumLBs
    BY <1>1
  <2>2. QED BY <1>1, <1>2, <2>1

LEMMA HeldByFPs ==
  TypeOK => HeldBy(FPs) \in SUBSET Jobs /\ Cardinality(HeldBy(FPs)) <= NumFPs
<1> SUFFICES ASSUME TypeOK
             PROVE  HeldBy(FPs) \in SUBSET Jobs /\ Cardinality(HeldBy(FPs)) <= NumFPs
  OBVIOUS
<1> DEFINE a == NumLBs + 1  b == NumLBs + NumFPs
<1>1. FPs = a..b /\ a \in Nat /\ b \in Nat /\ a >= 1 /\ a <= b + 1 /\ b - a + 1 = NumFPs
  BY Numbers DEF FPs
<1>2. a..b \subseteq Workers
  BY <1>1, Numbers
<1> HIDE DEF a, b
<1>3. HeldBy(a..b) \in SUBSET Jobs /\ Cardinality(HeldBy(a..b)) <= b - a + 1
  BY <1>1, <1>2, HeldBound
<1>4. QED BY <1>1, <1>3

(* Once the reader is done, no step of a worker or of the writer feeds an  *)
(* LB, an FP receives only what an LB held, and no packet is unsettled.    *)
Feeds ==
  /\ \A l \in LBs : queue[l] = << >> => queue'[l] = << >>
  /\ Taken' \ Settled' \subseteq Taken \ Settled
  /\ (\A l \in LBs : queue[l] = << >>) =>
       /\ HeldBy(LBs)' \subseteq HeldBy(LBs)
       /\ \A f \in FPs : Elements(queue'[f]) \subseteq Elements(queue[f]) \cup HeldBy(LBs)

LEMMA IdleFeeds == ASSUME UNCHANGED <<pos, inHand, queue, hand, written, dropped>> PROVE Feeds
BY DEF Feeds, HeldBy, Elements, Taken, Settled

LEMMA WorkerPopFeeds == ASSUME IInv, NEW w \in Workers, WorkerPop(w) PROVE Feeds
<1>0. TypeOK /\ w \in Queues /\ UNCHANGED <<pos, written, dropped, inHand>>
  BY Numbers DEF WorkerPop, IInv
<1>1. CASE queue[w] = << >>
  BY <1>0, <1>1, IdleFeeds DEF WorkerPop
<1>2. CASE queue[w] # << >>
  <2>1. hand' = [hand EXCEPT ![w] = Head(queue[w])] /\ queue' = [queue EXCEPT ![w] = Tail(queue[w])]
    BY <1>2 DEF WorkerPop
  <2>2. queue[w] \in Seq(Jobs)
    BY <1>0 DEF TypeOK
  <2>3. \A q \in Queues : queue'[q] = IF q = w THEN Tail(queue[w]) ELSE queue[q]
    BY <1>0, <2>1 DEF TypeOK
  <2>4. \A v \in Workers : hand'[v] = IF v = w THEN Head(queue[w]) ELSE hand[v]
    BY <1>0, <2>1 DEF TypeOK
  <2>5. Elements(Tail(queue[w])) \subseteq Elements(queue[w])
    BY <1>2, <2>2, HeadElements
  <2>6. \A l \in LBs : queue[l] = << >> => queue'[l] = << >>
    BY <1>2, <2>3, Numbers
  <2>7. Taken' \ Settled' \subseteq Taken \ Settled
    BY <1>0 DEF Taken, Settled, Elements
  <2>8. ASSUME \A l \in LBs : queue[l] = << >>
        PROVE  /\ HeldBy(LBs)' \subseteq HeldBy(LBs)
               /\ \A f \in FPs : Elements(queue'[f]) \subseteq Elements(queue[f])
    <3>1. w \notin LBs
      BY <1>2, <2>8
    <3>2. \A l \in LBs : hand'[l] = hand[l]
      BY <2>4, <3>1, Numbers
    <3>3. HeldBy(LBs)' = HeldBy(LBs)
      BY <3>2 DEF HeldBy
    <3>4. \A f \in FPs : Elements(queue'[f]) \subseteq Elements(queue[f])
      BY <2>3, <2>5, Numbers
    <3>5. QED BY <3>3, <3>4
  <2>9. QED BY <2>6, <2>7, <2>8 DEF Feeds
<1>3. QED BY <1>1, <1>2

LEMMA WorkerPushFeeds == ASSUME IInv, NEW w \in Workers, WorkerPush(w) PROVE Feeds
<1> DEFINE q == Target(w)  i == hand[w]
<1>1. /\ at[w] = "push" /\ PushTo(q, i) /\ hand' = [hand EXCEPT ![w] = None]
      /\ UNCHANGED <<pos, inHand, written, dropped>>
  BY DEF WorkerPush, Target
<1>2. TypeOK /\ i # None /\ i \in Jobs
  BY <1>1 DEF IInv, TypeOK
<1>3. q \in Queues /\ (w \in LBs => q \in FPs) /\ (w \notin LBs => q = 0) /\ q \notin LBs
  <2>1. w \in LBs => q \in FPs
    BY <1>2, FlowFacts, JobFacts DEF Target, SelectFP
  <2>2. w \notin LBs => q = 0
    BY DEF Target
  <2>3. 0 \notin LBs /\ FPs \cap LBs = {} /\ FPs \subseteq Queues /\ 0 \in Queues
    BY Numbers DEF LBs, FPs
  <2> HIDE DEF q
  <2>4. QED BY <2>1, <2>2, <2>3
<1>4. queue' = [queue EXCEPT ![q] = Append(queue[q], i)]
  <2>1. discarded' = {}
    BY WorkerPushInv DEF IInv, NothingDiscarded
  <2>2. QED BY <1>1, <1>2, <2>1 DEF PushTo
<1> HIDE DEF q
<1>5. \A r \in Queues : queue'[r] = IF r = q THEN Append(queue[q], i) ELSE queue[r]
  BY <1>2, <1>3, <1>4 DEF TypeOK
<1>6. \A v \in Workers : hand'[v] = IF v = w THEN None ELSE hand[v]
  BY <1>1, <1>2 DEF TypeOK
<1>7. Elements(Append(queue[q], i)) = Elements(queue[q]) \cup {i}
  <2>1. queue[q] \in Seq(Jobs)
    BY <1>2, <1>3 DEF TypeOK
  <2>2. QED BY <1>2, <2>1, AppendElements
<1>8. \A l \in LBs : queue'[l] = queue[l]
  BY <1>3, <1>5, Numbers
<1>9. Taken' \ Settled' \subseteq Taken \ Settled
  BY <1>1 DEF Taken, Settled, Elements
<1>10. HeldBy(LBs)' \subseteq HeldBy(LBs)
  BY <1>6, Numbers DEF HeldBy
<1>11. \A f \in FPs : Elements(queue'[f]) \subseteq Elements(queue[f]) \cup HeldBy(LBs)
  <2>1. SUFFICES ASSUME NEW f \in FPs
                 PROVE  Elements(queue'[f]) \subseteq Elements(queue[f]) \cup HeldBy(LBs)
    OBVIOUS
  <2>2. CASE f # q
    BY <1>5, <2>2, Numbers
  <2>3. CASE f = q
    <3>1. w \in LBs
      BY <1>3, <2>3, Numbers
    <3>2. i \in HeldBy(LBs)
      BY <1>2, <3>1 DEF HeldBy
    <3>3. QED BY <1>3, <1>5, <1>7, <2>3, <3>2
  <2>4. QED BY <2>2, <2>3
<1>12. QED BY <1>8, <1>9, <1>10, <1>11 DEF Feeds

LEMMA DropFeeds == ASSUME IInv, NEW w \in Workers, Drop(w) PROVE Feeds
<1>1. /\ hand' = [hand EXCEPT ![w] = None] /\ dropped' = dropped \cup {hand[w]}
      /\ UNCHANGED <<pos, inHand, written, queue>>
  BY DEF Drop
<1>2. \A v \in Workers : hand'[v] = IF v = w THEN None ELSE hand[v]
  BY <1>1 DEF IInv, TypeOK
<1>3. HeldBy(LBs)' \subseteq HeldBy(LBs)
  BY <1>2, Numbers DEF HeldBy
<1>4. Taken' \ Settled' \subseteq Taken \ Settled
  BY <1>1 DEF Taken, Settled, Elements
<1>5. QED BY <1>1, <1>3, <1>4 DEF Feeds

LEMMA WriterPopFeeds == ASSUME IInv, WriterPop PROVE Feeds
<1>0. TypeOK /\ UNCHANGED <<pos, inHand, hand, dropped>>
  BY DEF WriterPop, IInv
<1>1. CASE queue[0] = << >>
  BY <1>0, <1>1, IdleFeeds DEF WriterPop
<1>2. CASE queue[0] # << >>
  <2>1. /\ written' = Append(written, Head(queue[0]))
        /\ queue' = [queue EXCEPT ![0] = Tail(queue[0])]
    BY <1>2 DEF WriterPop
  <2>2. \A q \in Workers : queue'[q] = queue[q]
    BY <1>0, <2>1, Numbers DEF TypeOK
  <2>3. HeldBy(LBs)' = HeldBy(LBs)
    BY <1>0 DEF HeldBy
  <2>4. Elements(written) \subseteq Elements(written)'
    <3>1. written \in Seq(Jobs) /\ Head(queue[0]) \in Jobs
      BY <1>0, <1>2, Numbers DEF TypeOK
    <3>2. Elements(Append(written, Head(queue[0]))) = Elements(written) \cup {Head(queue[0])}
      BY <3>1, AppendElements
    <3>3. QED BY <2>1, <3>2 DEF Elements
  <2>5. Taken' \ Settled' \subseteq Taken \ Settled
    BY <1>0, <2>4 DEF Taken, Settled
  <2>6. QED BY <2>2, <2>3, <2>5, Numbers DEF Feeds
<1>3. QED BY <1>1, <1>2

(* A step of a thread other than the main one keeps what the scan has seen.*)
LEMMA FeedsKeep ==
  ASSUME IInv, ScanInv, Feeds, UNCHANGED mainVars
  PROVE  ScanInv'
<1>1. UNCHANGED <<phase, cursor, streak, gaveUp>>
  BY DEF mainVars
<1>2. Pace'
  BY <1>1 DEF ScanInv, Pace
<1>3. SUFFICES ASSUME ~gaveUp PROVE LBsEmpty' /\ FedFew' /\ FewLeft'
  BY <1>1, <1>2 DEF ScanInv
<1>4. LBsEmpty /\ FedFew /\ FewLeft /\ TypeOK
  BY <1>3 DEF ScanInv, IInv
<1>5. LBsEmpty'
  BY <1>1, <1>4 DEF LBsEmpty, Feeds, Seen
<1>6. FedFew'
  <2>1. SUFFICES ASSUME Seen(NumLBs) PROVE Cardinality(Fed(SeenFPs)') <= NumLBs
    BY <1>1 DEF FedFew, Seen
  <2>2. \A l \in LBs : queue[l] = << >>
    <3>1. \A l \in LBs : Seen(l)
      BY <1>4, <2>1, Numbers DEF Seen, LBs, TypeOK
    <3>2. QED BY <1>4, <3>1 DEF LBsEmpty
  <2>3. /\ HeldBy(LBs)' \subseteq HeldBy(LBs)
        /\ \A f \in FPs : Elements(queue'[f]) \subseteq Elements(queue[f]) \cup HeldBy(LBs)
    BY <2>2 DEF Feeds
  <2>4. SeenFPs' = SeenFPs /\ SeenFPs \subseteq FPs
    BY <1>1 DEF SeenFPs, Seen
  <2>5. Fed(SeenFPs)' = (UNION {Elements(queue'[f]) : f \in SeenFPs'}) \cup HeldBy(LBs)'
    BY DEF Fed, Elements
  <2>6. Fed(SeenFPs)' \subseteq Fed(SeenFPs)
    BY <2>3, <2>4, <2>5 DEF Fed
  <2>7. Fed(SeenFPs) \in SUBSET Jobs
    BY <1>4, <2>4, FedType
  <2>8. /\ Cardinality(Fed(SeenFPs)') <= Cardinality(Fed(SeenFPs))
        /\ Cardinality(Fed(SeenFPs)) \in Nat /\ Cardinality(Fed(SeenFPs)') \in Nat
    BY <2>6, <2>7, JobsFinite
  <2>9. QED BY <1>4, <2>1, <2>8, Numbers DEF FedFew
<1>7. FewLeft'
  <2>1. SUFFICES ASSUME SeenTwice PROVE Cardinality((Taken \ Settled)') <= NumLBs + NumFPs
    BY <1>1 DEF FewLeft, SeenTwice
  <2>2. Taken \ Settled \in SUBSET Jobs
    BY DEF Taken
  <2>3. (Taken \ Settled)' \in SUBSET (Taken \ Settled)
    BY DEF Feeds
  <2>4. /\ Cardinality((Taken \ Settled)') <= Cardinality(Taken \ Settled)
        /\ Cardinality(Taken \ Settled) \in Nat /\ Cardinality((Taken \ Settled)') \in Nat
    BY <2>2, <2>3, JobsFinite
  <2>5. QED BY <1>4, <2>1, <2>4, Numbers DEF FewLeft
<1>8. QED BY <1>5, <1>6, <1>7

(* At the start of a scan after nothing, nothing has been seen.            *)
LEMMA NothingSeen ==
  ASSUME cursor' = 0, streak' = 0
  PROVE  LBsEmpty' /\ FedFew' /\ FewLeft'
<1>1. \A q \in Workers : ~(streak' > 0 \/ q < cursor')
  BY DEF Workers
<1>2. NumLBs \in Workers
  BY Numbers DEF Workers
<1>3. ~SeenTwice'
  BY DEF SeenTwice
<1>4. QED BY <1>1, <1>2, <1>3, Numbers DEF LBsEmpty, FedFew, FewLeft, Seen

LEMMA ReaderScan ==
  ASSUME IInv, ScanInv, ReadPacket \/ ReaderPush
  PROVE  ScanInv'
<1>1. ~ReaderDone /\ UNCHANGED mainVars
  BY DEF ReadPacket, ReaderPush, ReaderDone, IInv, TypeOK
<1>2. phase = "join" /\ UNCHANGED <<phase, cursor, streak, gaveUp>>
  BY <1>1 DEF IInv, StopOrder, mainVars
<1>3. Pace' /\ cursor' = 0 /\ streak' = 0
  BY <1>2 DEF ScanInv, Pace
<1>4. QED BY <1>3, NothingSeen DEF ScanInv

(* What the main thread does leaves the packets where they are.            *)
LEMMA RestStays ==
  ASSUME UNCHANGED rest
  PROVE  /\ Taken' = Taken /\ Settled' = Settled /\ UNCHANGED queue
         /\ HeldBy(LBs)' = HeldBy(LBs)
BY DEF rest, Taken, Settled, Elements, HeldBy

(* An empty output queue in a second scan: what is not settled is with the *)
(* FPs or held by an LB.                                                   *)
LEMMA SecondScan ==
  ASSUME IInv, phase # "join", \A l \in LBs : queue[l] = << >>, queue[0] = << >>,
         Cardinality(Fed(FPs)) <= NumLBs
  PROVE  Cardinality(Taken \ Settled) <= NumLBs + NumFPs
<1>1. TypeOK /\ inHand = None /\ discarded = {}
  BY DEF IInv, StopOrder, ReaderDone, NothingDiscarded
<1>2. Taken = Settled \cup Queued \cup HeldBy(Workers)
  BY <1>1 DEF IInv, Conserved
<1>3. Queued \subseteq UNION {Elements(queue[f]) : f \in FPs}
  <2>1. \A q \in Queues : q = 0 \/ q \in LBs \/ q \in FPs
    BY Numbers DEF Queues, Workers
  <2>2. Elements(<< >>) = {}
    BY DEF Elements
  <2>3. \A q \in Queues \ FPs : Elements(queue[q]) = {}
    BY <2>1, <2>2
  <2>4. QED BY <2>3 DEF Queued
<1>4. HeldBy(Workers) \subseteq HeldBy(LBs) \cup HeldBy(FPs)
  BY Numbers DEF HeldBy
<1>5. Taken \ Settled \subseteq Fed(FPs) \cup HeldBy(FPs)
  BY <1>2, <1>3, <1>4 DEF Fed
<1> DEFINE A == Fed(FPs)  B == HeldBy(FPs)
<1>6. /\ A \in SUBSET Jobs /\ B \in SUBSET Jobs /\ A \cup B \in SUBSET Jobs
      /\ Cardinality(B) <= NumFPs
  BY <1>1, FedType, HeldByFPs
<1>7. Taken \ Settled \in SUBSET (A \cup B)
  BY <1>5
<1>8. Cardinality(A) <= NumLBs
  OBVIOUS
<1> HIDE DEF A, B
<1>9. IsFiniteSet(A) /\ IsFiniteSet(B) /\ Cardinality(A) \in Nat /\ Cardinality(B) \in Nat
  BY <1>6, JobsFinite
<1>10. A \cap B \in SUBSET Jobs
  BY <1>6
<1>11. Cardinality(A \cap B) \in Nat
  BY <1>10, JobsFinite
<1>12. Cardinality(A \cup B) = Cardinality(A) + Cardinality(B) - Cardinality(A \cap B)
  BY <1>9, FS_Union
<1>13. /\ Cardinality(Taken \ Settled) <= Cardinality(A \cup B)
       /\ Cardinality(A \cup B) \in Nat
  BY <1>6, <1>7, JobsFinite
<1>14. Cardinality(Taken \ Settled) \in Nat
  <2>1. Taken \ Settled \in SUBSET Jobs
    BY DEF Taken
  <2>2. QED BY <2>1, JobsFinite
<1>15. QED BY <1>6, <1>8, <1>9, <1>11, <1>12, <1>13, <1>14, Numbers

LEMMA ReadDepthScan == ASSUME IInv, ScanInv, ReadDepth PROVE ScanInv'
<1>1. /\ phase = "drain" /\ UNCHANGED <<gaveUp, rest>> /\ ~gaveUp
      /\ TypeOK /\ cursor \in Nat /\ streak \in Nat /\ cursor <= NumLBs + NumFPs
      /\ streak < IdleStreak
  BY DEF ReadDepth, ScanInv, Pace, IInv, StopOrder, TypeOK
<1>2. /\ LBsEmpty /\ FedFew /\ FewLeft
      /\ Taken' = Taken /\ Settled' = Settled /\ UNCHANGED queue
      /\ HeldBy(LBs)' = HeldBy(LBs)
  BY <1>1, RestStays DEF ScanInv
<1>3. \A fs : Fed(fs)' = Fed(fs)
  BY <1>2 DEF Fed, Elements
<1> DEFINE N == NumLBs + NumFPs
<1>4. CASE queue[cursor] # << >>
  <2>1. cursor' = 0 /\ streak' = 0 /\ phase' = phase
    BY <1>4 DEF ReadDepth
  <2>2. Pace'
    BY <1>1, <2>1 DEF Pace
  <2>3. QED BY <2>1, <2>2, NothingSeen DEF ScanInv
<1>5. CASE queue[cursor] = << >> /\ cursor < NumLBs + NumFPs
  <2>1. cursor' = cursor + 1 /\ UNCHANGED <<phase, streak>>
    BY <1>1, <1>5 DEF ReadDepth
  <2>2. Pace'
    BY <1>1, <2>1 DEF Pace
  <2>3. \A q \in Workers : Seen(q)' <=> Seen(q) \/ q = cursor
    BY <1>1, <2>1, Numbers DEF Seen, Workers
  <2>4. LBsEmpty'
    BY <1>2, <1>5, <2>3, Numbers DEF LBsEmpty
  <2>5. SeenFPs' = SeenFPs \/ SeenFPs' = SeenFPs \cup {cursor}
    BY <2>3, Numbers DEF SeenFPs
  <2>6. Fed(SeenFPs') = Fed(SeenFPs)
    <3>1. Elements(queue[cursor]) = {}
      BY <1>5 DEF Elements
    <3>2. QED BY <2>5, <3>1 DEF Fed
  <2>7. Cardinality(Fed({})) <= NumLBs
    BY <1>1, HeldByLBs DEF Fed
  <2>8. FedFew'
    <3>1. SUFFICES ASSUME Seen(NumLBs)' PROVE Cardinality(Fed(SeenFPs)') <= NumLBs
      BY DEF FedFew
    <3>2. Fed(SeenFPs)' = Fed(SeenFPs)
      BY <1>2, <2>6 DEF Fed, Elements
    <3>3. CASE Seen(NumLBs)
      BY <1>2, <3>2, <3>3 DEF FedFew
    <3>4. CASE ~Seen(NumLBs)
      <4>1. NumLBs = cursor /\ streak = 0
        BY <1>1, <2>3, <3>1, <3>4, Numbers DEF Seen, LBs
      <4>2. SeenFPs = {}
        BY <4>1, Numbers DEF SeenFPs, Seen, FPs
      <4>3. QED BY <2>7, <3>2, <4>2
    <3>5. QED BY <3>3, <3>4
  <2>9. FewLeft'
    <3>1. SUFFICES ASSUME SeenTwice' PROVE Cardinality(Taken \ Settled) <= NumLBs + NumFPs
      BY <1>2 DEF FewLeft
    <3>2. CASE SeenTwice
      BY <1>2, <3>2 DEF FewLeft
    <3>3. CASE ~SeenTwice
      <4>1. streak = 1 /\ cursor = 0
        BY <1>1, <2>1, <3>1, <3>3 DEF SeenTwice
      <4>2. \A q \in Workers : Seen(q)
        BY <4>1 DEF Seen
      <4>3. SeenFPs = FPs /\ Seen(NumLBs) /\ \A l \in LBs : queue[l] = << >>
        BY <1>2, <4>2, Numbers DEF SeenFPs, LBsEmpty, LBs
      <4>4. Cardinality(Fed(FPs)) <= NumLBs
        BY <1>2, <4>3 DEF FedFew
      <4>5. QED BY <1>1, <1>5, <4>1, <4>3, <4>4, SecondScan
    <3>4. QED BY <3>2, <3>3
  <2>10. QED BY <2>2, <2>4, <2>8, <2>9 DEF ScanInv
<1>6. CASE queue[cursor] = << >> /\ cursor = NumLBs + NumFPs
  <2>1. /\ streak' = streak + 1 /\ cursor' = 0
        /\ phase' = IF streak + 1 = IdleStreak THEN "stop" ELSE phase
    BY <1>1, <1>6, Numbers DEF ReadDepth
  <2>2. Pace'
    BY <1>1, <2>1 DEF Pace
  <2>3. cursor \in FPs /\ \A q \in Workers : Seen(q)' /\ (Seen(q) \/ q = cursor)
    BY <1>1, <1>6, <2>1, Numbers DEF Seen, Workers, FPs
  <2>4. LBsEmpty'
    BY <1>2, <1>6, <2>3, Numbers DEF LBsEmpty
  <2>5. SeenFPs' = FPs /\ FPs = SeenFPs \cup {cursor}
    BY <2>3, Numbers DEF SeenFPs
  <2>6. Fed(SeenFPs') = Fed(SeenFPs)
    <3>1. Elements(queue[cursor]) = {}
      BY <1>6 DEF Elements
    <3>2. QED BY <2>5, <3>1 DEF Fed
  <2>7. FedFew'
    <3>1. Seen(NumLBs)
      BY <1>1, <1>6, Numbers DEF Seen
    <3>2. Fed(SeenFPs)' = Fed(SeenFPs)
      BY <1>2, <2>6 DEF Fed, Elements
    <3>3. QED BY <1>2, <3>1, <3>2 DEF FedFew
  <2>8. FewLeft'
    <3>1. SUFFICES ASSUME SeenTwice' PROVE Cardinality(Taken \ Settled) <= NumLBs + NumFPs
      BY <1>2 DEF FewLeft
    <3>2. SeenTwice
      BY <1>1, <1>6, <2>1, <3>1, Numbers DEF SeenTwice
    <3>3. QED BY <1>2, <3>2 DEF FewLeft
  <2>9. QED BY <2>2, <2>4, <2>7, <2>8 DEF ScanInv
<1>7. QED BY <1>1, <1>4, <1>5, <1>6, Numbers

(* The steps of stop() move the cursor on, the streak stays.               *)
LEMMA StopScan ==
  ASSUME IInv, ScanInv, UNCHANGED <<streak, gaveUp, rest>>,
         phase \notin {"join", "drain"}, phase' \notin {"join", "drain"}
  PROVE  ScanInv'
<1>1. Pace'
  BY DEF ScanInv, Pace
<1>2. SUFFICES ASSUME ~gaveUp PROVE LBsEmpty' /\ FedFew' /\ FewLeft'
  BY <1>1 DEF ScanInv
<1>3. /\ streak = IdleStreak /\ streak > 0 /\ LBsEmpty /\ FedFew /\ FewLeft
  BY <1>2, Numbers DEF ScanInv, Pace
<1>4. /\ Taken' = Taken /\ Settled' = Settled /\ UNCHANGED queue
      /\ HeldBy(LBs)' = HeldBy(LBs)
  BY RestStays
<1>5. \A q : Seen(q) /\ Seen(q)'
  BY <1>3 DEF Seen
<1>6. SeenFPs' = SeenFPs
  BY <1>5 DEF SeenFPs
<1>7. Fed(SeenFPs)' = Fed(SeenFPs)
  BY <1>4, <1>6 DEF Fed, Elements
<1>8. LBsEmpty' /\ FedFew'
  BY <1>3, <1>4, <1>5, <1>7 DEF LBsEmpty, FedFew
<1>9. FewLeft'
  BY <1>3, <1>4 DEF FewLeft, SeenTwice
<1>10. QED BY <1>8, <1>9

LEMMA MainScan == ASSUME IInv, ScanInv, Main PROVE ScanInv'
<1>1. CASE JoinReader
  <2>1. phase = "join" /\ phase' = "drain" /\ UNCHANGED <<cursor, streak, gaveUp>>
    BY <1>1 DEF JoinReader
  <2>2. Pace' /\ cursor' = 0 /\ streak' = 0
    BY <2>1 DEF ScanInv, Pace
  <2>3. QED BY <2>2, NothingSeen DEF ScanInv
<1>2. CASE ReadDepth
  BY <1>2, ReadDepthScan
<1>3. CASE GiveUp
  BY <1>3 DEF GiveUp, ScanInv, Pace
<1>4. CASE ClearRunning \/ StopWorker \/ JoinWorker \/ ShutOutput \/ JoinWriter
  <2>1. /\ UNCHANGED <<streak, gaveUp, rest>>
        /\ phase \notin {"join", "drain"} /\ phase' \notin {"join", "drain"}
    BY <1>4 DEF ClearRunning, StopWorker, JoinWorker, ShutOutput, JoinWriter, mainVars
  <2>2. QED BY <2>1, StopScan
<1>5. QED BY <1>1, <1>2, <1>3, <1>4 DEF Main

LEMMA ScanInit == Init => ScanInv
<1> SUFFICES ASSUME Init PROVE ScanInv
  OBVIOUS
<1>1. Pace
  BY DEF Init, Pace
<1>2. \A q \in Workers : ~Seen(q)
  BY DEF Init, Seen, Workers
<1>3. NumLBs \in Workers /\ LBs \subseteq Workers
  BY Numbers DEF Workers
<1>4. ~SeenTwice
  BY DEF Init, SeenTwice
<1>5. QED BY <1>1, <1>2, <1>3, <1>4 DEF ScanInv, LBsEmpty, FedFew, FewLeft

LEMMA ScanStep == IInv /\ ScanInv /\ [Next]_vars => ScanInv'
<1> SUFFICES ASSUME IInv, ScanInv, [Next]_vars PROVE ScanInv'
  OBVIOUS
<1>1. CASE ReadPacket \/ ReaderPush
  BY <1>1, ReaderScan
<1>2. CASE \E w \in Workers : Work(w)
  <2>1. PICK w \in Workers : Work(w)
    BY <1>2
  <2>2. UNCHANGED mainVars
    BY <2>1 DEF Work, TestRunning, WorkerPop, WorkerPush, Drop, Forward
  <2>3. TestRunning(w) \/ Forward(w) => Feeds
    BY IdleFeeds DEF TestRunning, Forward
  <2>4. Feeds
    BY <2>1, <2>3, WorkerPopFeeds, WorkerPushFeeds, DropFeeds DEF Work
  <2>5. QED BY <2>2, <2>4, FeedsKeep
<1>3. CASE WriterTest
  BY <1>3, IdleFeeds, FeedsKeep DEF WriterTest
<1>4. CASE WriterPop
  <2>1. UNCHANGED mainVars
    BY <1>4 DEF WriterPop
  <2>2. QED BY <1>4, <2>1, WriterPopFeeds, FeedsKeep
<1>5. CASE Main
  BY <1>5, MainScan
<1>6. CASE UNCHANGED vars
  BY <1>6, IdleFeeds, FeedsKeep DEF vars, mainVars
<1>7. QED BY <1>1, <1>2, <1>3, <1>4, <1>5, <1>6 DEF Next

(* A drain that ends on idle scans, which read one queue at a time while   *)
(* the threads work on, leaves no LB with a backlog and no more packets    *)
(* unsettled than threads, for any number of threads and any capacities.   *)
THEOREM IdleScansDrain == Spec => []IdleScanDrained
<1>1. IInv /\ ScanInv => IdleScanDrained
  <2>1. SUFFICES ASSUME IInv, ScanInv, ~gaveUp, phase \in {"stop", "halt", "flush", "closed"}
                 PROVE  /\ \A q \in LBs : queue[q] = << >>
                        /\ Cardinality(Fed(FPs)) <= NumLBs
                        /\ IdleStreak > 1 => Cardinality(Taken \ Settled) <= NumLBs + NumFPs
    BY DEF IdleScanDrained, Fed
  <2>2. streak = IdleStreak /\ streak > 0 /\ LBsEmpty /\ FedFew /\ FewLeft
    BY <2>1, Numbers DEF ScanInv, Pace
  <2>3. \A q : Seen(q)
    BY <2>2 DEF Seen
  <2>4. SeenFPs = FPs
    BY <2>3 DEF SeenFPs
  <2>5. QED BY <2>2, <2>3, <2>4 DEF LBsEmpty, FedFew, FewLeft, SeenTwice
<1>2. Spec => [](IInv /\ ScanInv)
  BY IInvInit, IInvStep, ScanInit, ScanStep, PTL DEF Spec
<1>3. QED BY <1>1, <1>2, PTL
=============================================================================

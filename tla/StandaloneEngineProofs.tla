----------------------- MODULE StandaloneEngineProofs -----------------------
(***************************************************************************)
(* Proofs about StandaloneEngine, for any number of LBs and FPs, any       *)
(* capture, hash function, rules and capacities.                           *)
(***************************************************************************)
EXTENDS StandaloneEngine, LineProofs, TLAPS

(* What is judged, and what is on its way to be.                           *)
Done == dropped \cup Emitted

Unjudged(w) == at[w] = "judge" \/ (w \in LBs /\ at[w] = "push")

Waiting ==
  {i \in Jobs : \/ \E w \in Workers : i \in Elements(queue[w])
                \/ \E w \in Workers : Unjudged(w) /\ hand[w] = i
                \/ inHand = i}

(* How far process has come: the workers before the cursor have ended, the *)
(* ones after it are untouched, and the writer leaves an empty queue.      *)
StopOrder ==
  /\ phase = "read" => cursor = 1 /\ \A w \in Workers : alive[w]
  /\ phase # "read" => inHand = None /\ pos = NumPackets
  /\ phase = "halt" => /\ \A w \in Workers : w < cursor => at[w] = "done"
                       /\ \A w \in Workers : w > cursor => alive[w]
  /\ phase \in {"flush", "closed"} => \A w \in Workers : at[w] = "done"
  /\ \A w \in Workers : at[w] = "done" => ~alive[w]
  /\ writing <=> phase \in {"read", "halt"}
  /\ writer = "done" => ~writing /\ queue[0] = << >>
  /\ phase = "closed" => writer = "done"

(* Every packet taken waits or is judged, and no push loses one.           *)
Conserved == Taken = Waiting \cup Done /\ discarded = {}

(* The inductive invariant.                                                *)
IInv == TypeOK /\ StopOrder /\ Conserved
-----------------------------------------------------------------------------
(* The numbering of threads and queues.                                    *)
LEMMA Numbers ==
  /\ NumLBs \in Nat /\ NumLBs >= 1 /\ FPsPerLB \in Nat /\ FPsPerLB >= 1
  /\ NumFPs \in Nat /\ NumFPs >= 1 /\ NumPackets \in Nat
  /\ LBs \subseteq Workers /\ FPs \subseteq Workers
  /\ Workers \subseteq Queues /\ 0 \in Queues /\ 0 \notin Workers
  /\ \A w \in Workers : (w \in LBs \/ w \in FPs) /\ w # 0 /\ w \in Nat
  /\ \A l \in LBs, f \in FPs : l < f /\ l # f
  /\ \A q \in Queues : q = 0 \/ q \in Workers
<1>1. NumLBs \in Nat /\ NumLBs >= 1 /\ FPsPerLB \in Nat /\ FPsPerLB >= 1
  BY StandaloneAssumption
<1>2. NumFPs \in Nat /\ NumFPs >= 1
  BY <1>1 DEF NumFPs
<1> HIDE DEF NumFPs
<1>3. NumPackets \in Nat
  BY StandaloneAssumption
<1>4. QED BY <1>1, <1>2, <1>3 DEF LBs, FPs, Workers, Queues

\* The FP of a five-tuple: the one its LB picks.
Route(t) == NumLBs + (LBFor(t) - 1) * FPsPerLB + (Hash[t] % FPsPerLB) + 1

(* Hashing twice leads to an LB and to one of its FPs.                     *)
LEMMA RouteFacts ==
  ASSUME NEW t \in Tuples
  PROVE  /\ LBFor(t) \in LBs /\ Route(t) \in FPs
         /\ LBFor(t) \in Workers /\ Route(t) \in Workers
         /\ LBFor(t) \in Queues /\ Route(t) \in Queues
         /\ LBFor(t) \notin FPs /\ Route(t) \notin LBs
         /\ LBFor(t) # Route(t) /\ LBFor(t) # 0 /\ Route(t) # 0
<1> DEFINE h == Hash[t]  l == LBFor(t)  r == h % FPsPerLB
<1>1. h \in Nat /\ NumLBs \in Nat /\ NumLBs >= 1 /\ FPsPerLB \in Nat /\ FPsPerLB >= 1
  BY StandaloneAssumption
<1> HIDE DEF h
<1>2. h % NumLBs \in 0..(NumLBs - 1) /\ r \in 0..(FPsPerLB - 1)
  BY <1>1
<1>3. l \in 1..NumLBs
  BY <1>1, <1>2 DEF LBFor, h
<1> HIDE DEF l, r
<1>4. (l - 1) * FPsPerLB \in Nat
  BY <1>1, <1>3
<1>5. (l - 1) * FPsPerLB <= (NumLBs - 1) * FPsPerLB
  BY <1>1, <1>3
<1>6. (NumLBs - 1) * FPsPerLB = NumLBs * FPsPerLB - FPsPerLB /\ NumLBs * FPsPerLB \in Nat
  BY <1>1
<1>7. Route(t) = NumLBs + (l - 1) * FPsPerLB + r + 1
  BY DEF Route, l, r, h
<1> DEFINE x == (l - 1) * FPsPerLB  y == (NumLBs - 1) * FPsPerLB  z == NumLBs * FPsPerLB
<1>8. x \in Nat /\ x <= y /\ y = z - FPsPerLB /\ z \in Nat /\ Route(t) = NumLBs + x + r + 1
  BY <1>4, <1>5, <1>6, <1>7
<1> HIDE DEF x, y, z
<1>9. Route(t) \in (NumLBs + 1)..(NumLBs + z)
  BY <1>1, <1>2, <1>8
<1>10. LBFor(t) \in LBs /\ Route(t) \in FPs
  BY <1>3, <1>9 DEF LBs, FPs, NumFPs, l, z
<1>11. QED BY <1>10, Numbers

(* An FP belongs to one LB, so that it serves the five-tuples of one.      *)
LEMMA OnePool ==
  ASSUME NEW t \in Tuples, NEW u \in Tuples, Route(t) = Route(u)
  PROVE  LBFor(t) = LBFor(u)
<1>1. NumLBs \in Nat /\ FPsPerLB \in Nat /\ FPsPerLB >= 1
  BY Numbers
<1>2. \A v \in Tuples : /\ LBFor(v) \in Nat /\ LBFor(v) >= 1
                        /\ Hash[v] % FPsPerLB \in 0..(FPsPerLB - 1)
  BY <1>1, StandaloneAssumption, RouteFacts DEF LBs
<1>3. ASSUME NEW k \in Nat, NEW l \in Nat, k >= 1, l >= 1, k < l,
             NEW r \in 0..(FPsPerLB - 1), NEW z \in 0..(FPsPerLB - 1)
      PROVE  NumLBs + (k - 1) * FPsPerLB + r + 1 < NumLBs + (l - 1) * FPsPerLB + z + 1
  <2>1. (l - 1) * FPsPerLB >= k * FPsPerLB
    BY <1>1, <1>3
  <2>2. k * FPsPerLB = (k - 1) * FPsPerLB + FPsPerLB
    BY <1>1, <1>3
  <2> DEFINE x == (k - 1) * FPsPerLB  y == (l - 1) * FPsPerLB
  <2>3. x \in Nat /\ y \in Nat /\ y >= x + FPsPerLB
    BY <1>1, <1>3, <2>1, <2>2
  <2> HIDE DEF x, y
  <2>4. NumLBs + x + r + 1 < NumLBs + y + z + 1
    BY <1>1, <1>3, <2>3
  <2>5. QED BY <2>4 DEF x, y
<1> DEFINE r == Hash[t] % FPsPerLB  z == Hash[u] % FPsPerLB  k == LBFor(t)  l == LBFor(u)
<1>4. NumLBs + (k - 1) * FPsPerLB + r + 1 = NumLBs + (l - 1) * FPsPerLB + z + 1
  BY DEF Route
<1>5. /\ k \in Nat /\ k >= 1 /\ l \in Nat /\ l >= 1
      /\ r \in 0..(FPsPerLB - 1) /\ z \in 0..(FPsPerLB - 1)
      /\ (k - 1) * FPsPerLB \in Nat /\ (l - 1) * FPsPerLB \in Nat
  BY <1>1, <1>2
<1> HIDE DEF k, l, r, z
<1>6. ~(k < l)
  BY <1>1, <1>3, <1>4, <1>5
<1>7. ~(l < k)
  BY <1>1, <1>3, <1>4, <1>5
<1>8. k = l
  BY <1>5, <1>6, <1>7
<1>9. QED BY <1>8 DEF k, l

\* A packet that is passed on has a number and a five-tuple.
LEMMA JobFacts ==
  ASSUME NEW i \in Jobs
  PROVE  i \in Nat /\ i # None /\ i # 0 /\ i \in Packets /\ TupleOf[i] \in Tuples
BY StandaloneAssumption DEF Jobs, Packets, None

(* The queue a worker pushes to comes after the worker, or is the output.  *)
Target(w) == IF w \in LBs THEN FPFor(w, hand[w]) ELSE 0

\* An LB pushes to one of the FPs, an FP to the output.
LEMMA TargetFacts ==
  ASSUME TypeOK, NEW w \in Workers, hand[w] # None
  PROVE  /\ Target(w) \in Queues
         /\ w \in LBs => Target(w) \in FPs /\ Target(w) # 0 /\ w < Target(w)
         /\ w \notin LBs => Target(w) = 0 /\ w \in FPs
<1>1. hand[w] \in Jobs /\ TupleOf[hand[w]] \in Tuples
  BY JobFacts DEF TypeOK
<1>2. CASE w \in LBs
  <2> DEFINE r == Hash[TupleOf[hand[w]]] % FPsPerLB
  <2>1. NumLBs \in Nat /\ NumLBs >= 1 /\ FPsPerLB \in Nat /\ FPsPerLB >= 1
    BY Numbers
  <2>2. Hash[TupleOf[hand[w]]] \in Nat
    BY <1>1, StandaloneAssumption
  <2>3. r \in 0..(FPsPerLB - 1)
    BY <2>1, <2>2
  <2>4. Target(w) = NumLBs + (w - 1) * FPsPerLB + r + 1
    BY <1>2 DEF Target, FPFor
  <2> HIDE DEF r
  <2>5. w \in 1..NumLBs
    BY <1>2 DEF LBs
  <2>6. (w - 1) * FPsPerLB \in Nat /\ (w - 1) * FPsPerLB <= (NumLBs - 1) * FPsPerLB
    BY <2>1, <2>5
  <2>7. (NumLBs - 1) * FPsPerLB = NumLBs * FPsPerLB - FPsPerLB /\ NumLBs * FPsPerLB \in Nat
    BY <2>1
  <2> DEFINE x == (w - 1) * FPsPerLB  y == (NumLBs - 1) * FPsPerLB  z == NumLBs * FPsPerLB
  <2>8. x \in Nat /\ x <= y /\ y = z - FPsPerLB /\ z \in Nat /\ Target(w) = NumLBs + x + r + 1
    BY <2>4, <2>6, <2>7
  <2> HIDE DEF x, y, z
  <2>9. Target(w) \in (NumLBs + 1)..(NumLBs + z)
    BY <2>1, <2>3, <2>8
  <2>10. Target(w) \in FPs
    BY <2>9 DEF FPs, NumFPs, z
  <2>11. QED BY <1>2, <2>10, Numbers
<1>3. CASE w \notin LBs
  BY <1>3, Numbers DEF Target
<1>4. QED BY <1>2, <1>3
-----------------------------------------------------------------------------
(* The set of elements under the operations of a queue.                    *)
LEMMA AppendElements ==
  ASSUME NEW S, NEW s \in Seq(S), NEW e \in S
  PROVE  Elements(Append(s, e)) = Elements(s) \cup {e}
BY DEF Elements

\* The head and the tail make up the queue.
LEMMA HeadElements ==
  ASSUME NEW S, NEW s \in Seq(S), s # << >>
  PROVE  Elements(s) = {Head(s)} \cup Elements(Tail(s))
<1>1. /\ Head(s) = s[1] /\ Len(s) \in Nat /\ Len(s) >= 1
      /\ Tail(s) \in Seq(S) /\ Len(Tail(s)) = Len(s) - 1
      /\ \A k \in 1..(Len(s) - 1) : Tail(s)[k] = s[k + 1]
  OBVIOUS
<1>2. \A k \in 2..Len(s) : k - 1 \in 1..(Len(s) - 1) /\ s[k] = Tail(s)[k - 1]
  BY <1>1
<1>3. Elements(s) \subseteq {Head(s)} \cup Elements(Tail(s))
  <2>1. SUFFICES ASSUME NEW k \in 1..Len(s)
                 PROVE  s[k] \in {Head(s)} \cup Elements(Tail(s))
    BY DEF Elements
  <2>2. CASE k = 1 BY <1>1, <2>2
  <2>3. CASE k # 1
    <3>1. k \in 2..Len(s)
      BY <1>1, <2>3
    <3>2. k - 1 \in 1..Len(Tail(s)) /\ s[k] = Tail(s)[k - 1]
      BY <1>1, <1>2, <3>1
    <3>3. QED BY <3>2 DEF Elements
  <2>4. QED BY <2>2, <2>3
<1>4. {Head(s)} \cup Elements(Tail(s)) \subseteq Elements(s)
  BY <1>1 DEF Elements
<1>5. QED BY <1>3, <1>4

(* A push to a queue in service, and a pop.                                *)
LEMMA PushFacts ==
  ASSUME TypeOK, NEW q \in Queues, NEW i \in Jobs, PushTo(q, i), ~Shut(q)
  PROVE  /\ queue' \in [Queues -> Seq(Jobs)]
         /\ \A r \in Queues : Len(queue'[r]) <= Cap(r)
         /\ \A r \in Queues : queue'[r] = IF r = q THEN Append(queue[q], i) ELSE queue[r]
         /\ \A r \in Queues :
              Elements(queue'[r]) = IF r = q THEN Elements(queue[q]) \cup {i}
                                    ELSE Elements(queue[r])
         /\ discarded' = discarded
<1>1. /\ queue' = [queue EXCEPT ![q] = Append(queue[q], i)]
      /\ Len(queue[q]) < Cap(q) /\ discarded' = discarded
  BY DEF PushTo
<1>2. queue[q] \in Seq(Jobs) /\ Append(queue[q], i) \in Seq(Jobs)
  BY DEF TypeOK
<1>3. Len(Append(queue[q], i)) <= Cap(q)
  <2>1. Cap(q) \in Nat BY StandaloneAssumption DEF Cap
  <2>2. QED BY <1>1, <1>2, <2>1
<1>4. Elements(Append(queue[q], i)) = Elements(queue[q]) \cup {i}
  BY <1>2, AppendElements
<1>5. \A r \in Queues : queue'[r] = IF r = q THEN Append(queue[q], i) ELSE queue[r]
  BY <1>1 DEF TypeOK
<1>6. \A r \in Queues : Elements(queue'[r]) = IF r = q THEN Elements(queue[q]) \cup {i}
                                              ELSE Elements(queue[r])
  BY <1>4, <1>5
<1>7. QED BY <1>1, <1>2, <1>3, <1>5, <1>6 DEF TypeOK

\* A pop from a queue that is not empty.
LEMMA PopFacts ==
  ASSUME TypeOK, NEW q \in Queues, queue[q] # << >>,
         queue' = [queue EXCEPT ![q] = Tail(queue[q])]
  PROVE  /\ queue' \in [Queues -> Seq(Jobs)]
         /\ \A r \in Queues : Len(queue'[r]) <= Cap(r)
         /\ Head(queue[q]) \in Jobs /\ Head(queue[q]) # None
         /\ \A r \in Queues : queue'[r] = IF r = q THEN Tail(queue[q]) ELSE queue[r]
         /\ \A r \in Queues :
              Elements(queue[r]) = IF r = q THEN Elements(queue'[r]) \cup {Head(queue[q])}
                                   ELSE Elements(queue'[r])
<1>1. queue[q] \in Seq(Jobs) /\ Cap(q) \in Nat /\ Len(queue[q]) <= Cap(q)
  BY StandaloneAssumption DEF TypeOK, Cap
<1>2. /\ Head(queue[q]) \in Jobs /\ Tail(queue[q]) \in Seq(Jobs)
      /\ Len(Tail(queue[q])) = Len(queue[q]) - 1 /\ Len(queue[q]) \in Nat
  BY <1>1, TailFacts
<1>3. Elements(queue[q]) = Elements(Tail(queue[q])) \cup {Head(queue[q])}
  BY <1>1, HeadElements
<1>4. \A r \in Queues : queue'[r] = IF r = q THEN Tail(queue[q]) ELSE queue[r]
  BY DEF TypeOK
<1>5. \A r \in Queues :
        Elements(queue[r]) = IF r = q THEN Elements(queue'[r]) \cup {Head(queue[q])}
                             ELSE Elements(queue'[r])
  BY <1>3, <1>4
<1>6. \A r \in Queues : Len(queue'[r]) <= Cap(r)
  BY <1>1, <1>2, <1>4 DEF TypeOK
<1>7. queue' \in [Queues -> Seq(Jobs)]
  BY <1>2 DEF TypeOK
<1>8. QED BY <1>2, <1>4, <1>5, <1>6, <1>7, JobFacts

(* The sets after a step.                                                  *)
LEMMA SetsNext ==
  /\ Waiting' = {i \in Jobs : \/ \E w \in Workers : i \in Elements(queue'[w])
                              \/ \E w \in Workers :
                                   /\ at'[w] = "judge" \/ (w \in LBs /\ at'[w] = "push")
                                   /\ hand'[w] = i
                              \/ inHand' = i}
  /\ Emitted' = Elements(written') \cup Elements(queue'[0])
                  \cup {hand'[w] : w \in {w \in FPs : at'[w] = "push"}}
  /\ Done' = dropped' \cup Emitted'
  /\ Taken' = {i \in Jobs : i <= pos'}
BY DEF Waiting, Unjudged, Emitted, Elements, Done, Taken

(* A step that leaves packets and threads where they are.                  *)
LEMMA SetsKept ==
  ASSUME UNCHANGED <<queue, hand, at, inHand, written, dropped>>
  PROVE  Waiting' = Waiting /\ Emitted' = Emitted /\ Done' = Done
BY DEF Waiting, Unjudged, Emitted, Elements, Done
-----------------------------------------------------------------------------
(* The inductive invariant holds initially.                                *)
LEMMA IInvInit == Init => IInv
<1> SUFFICES ASSUME Init PROVE IInv
  OBVIOUS
<1>1. TypeOK
  <2>1. \A q \in Queues : queue[q] = << >> /\ Cap(q) \in Nat
    BY StandaloneAssumption DEF Init, Cap
  <2>2. queue \in [Queues -> Seq(Jobs)] /\ \A q \in Queues : Len(queue[q]) <= Cap(q)
    BY <2>1 DEF Init
  <2>3. QED BY <2>2, Numbers DEF Init, TypeOK, None
<1>2. StopOrder
  BY Numbers DEF Init, StopOrder
<1>3. Conserved
  <2>1. Taken = {}
    BY JobFacts DEF Init, Taken, Jobs, Packets
  <2>2. Waiting = {}
    BY JobFacts, Numbers DEF Init, Waiting, Unjudged, Elements
  <2>3. Done = {}
    BY Numbers DEF Init, Done, Emitted, Elements
  <2>4. QED BY <2>1, <2>2, <2>3 DEF Init, Conserved
<1>4. QED BY <1>1, <1>2, <1>3 DEF IInv

(* Reading a packet: the only step by which one comes in.                  *)
LEMMA ReadStep ==
  ASSUME IInv, ReadPacket
  PROVE  /\ IInv' /\ Done' = Done /\ Emitted' = Emitted
         /\ Waiting' = Waiting \cup ({inHand'} \ {None})
<1>1. /\ phase = "read" /\ inHand = None /\ pos < NumPackets /\ pos' = pos + 1
      /\ inHand' = IF TupleOf[pos + 1] = NoTuple THEN None ELSE pos + 1
      /\ UNCHANGED <<phase, cursor, writing, queue, alive, at, hand, flows, rules,
                     writer, written, dropped, discarded>>
  BY DEF ReadPacket
<1>2. pos \in Nat /\ pos + 1 \in Packets
  BY <1>1, Numbers DEF IInv, TypeOK, Packets
<1>3. inHand' \in Jobs \cup {None}
  BY <1>1, <1>2 DEF Jobs
<1>4. TypeOK'
  BY <1>1, <1>2, <1>3, Numbers DEF IInv, TypeOK, Packets
<1>5. StopOrder'
  BY <1>1 DEF IInv, StopOrder
<1>6. Done' = Done /\ Emitted' = Emitted
  BY <1>1 DEF Done, Emitted, Elements
<1>7. Waiting' = Waiting \cup ({inHand'} \ {None})
  BY <1>1, <1>3, SetsNext, JobFacts DEF Waiting, Unjudged
<1>8. Taken' = Taken \cup ({inHand'} \ {None})
  BY <1>1, <1>2, SetsNext, JobFacts DEF Taken, Jobs, None
<1>9. Conserved'
  BY <1>1, <1>6, <1>7, <1>8 DEF IInv, Conserved
<1>10. QED BY <1>4, <1>5, <1>6, <1>7, <1>9 DEF IInv

\* The main thread's push never meets a queue that was shut down.
LEMMA DispatchStep ==
  ASSUME IInv, Dispatch
  PROVE  IInv' /\ Done' = Done /\ Emitted' = Emitted /\ Waiting' = Waiting
<1> DEFINE q == LBFor(TupleOf[inHand])
<1>1. /\ inHand # None /\ PushTo(q, inHand) /\ inHand' = None
      /\ UNCHANGED <<phase, cursor, writing, pos, alive, at, hand, flows, rules,
                     writer, written, dropped>>
  BY DEF Dispatch
<1>2. /\ inHand \in Jobs /\ q \in LBs /\ q \in Workers /\ q \in Queues /\ q # 0
  BY <1>1, JobFacts, RouteFacts DEF IInv, TypeOK
<1>3. ~Shut(q)
  BY <1>1, <1>2 DEF IInv, StopOrder, Shut
<1> HIDE DEF q
<1>4. /\ queue' \in [Queues -> Seq(Jobs)]
      /\ \A r \in Queues : Len(queue'[r]) <= Cap(r)
      /\ \A r \in Queues : queue'[r] = IF r = q THEN Append(queue[q], inHand) ELSE queue[r]
      /\ \A r \in Queues : Elements(queue'[r]) = IF r = q THEN Elements(queue[q]) \cup {inHand}
                                                 ELSE Elements(queue[r])
      /\ discarded' = discarded
  BY <1>1, <1>2, <1>3, PushFacts DEF IInv
<1>5. queue'[0] = queue[0]
  BY <1>2, <1>4, Numbers
<1>6. TypeOK'
  BY <1>1, <1>4 DEF IInv, TypeOK
<1>7. StopOrder'
  BY <1>1, <1>5 DEF IInv, StopOrder
<1>8. Done' = Done /\ Emitted' = Emitted
  BY <1>1, <1>5, SetsNext DEF Done, Emitted
<1>9. Waiting' = Waiting
  BY <1>1, <1>2, <1>4, SetsNext, JobFacts, Numbers DEF Waiting, Unjudged
<1>10. Conserved'
  BY <1>1, <1>4, <1>8, <1>9, SetsNext DEF IInv, Conserved, Taken
<1>11. QED BY <1>6, <1>7, <1>8, <1>9, <1>10 DEF IInv

\* The test of a worker's flag moves no packet.
LEMMA TestRunningStep ==
  ASSUME IInv, NEW w \in Workers, TestRunning(w)
  PROVE  IInv' /\ Done' = Done /\ Emitted' = Emitted /\ Waiting' = Waiting
<1>1. /\ at[w] = "loop"
      /\ at' = [at EXCEPT ![w] = IF alive[w] THEN "pop" ELSE "done"]
      /\ UNCHANGED <<phase, cursor, writing, pos, inHand, queue, alive, hand, flows,
                     rules, writer, written, dropped, discarded>>
  BY DEF TestRunning
<1>2. \A v \in Workers : at'[v] = IF v = w THEN (IF alive[w] THEN "pop" ELSE "done") ELSE at[v]
  BY <1>1 DEF IInv, TypeOK
<1>3. TypeOK'
  BY <1>1, <1>2, Numbers DEF IInv, TypeOK
<1>4. StopOrder'
  BY <1>1, <1>2 DEF IInv, StopOrder
<1>5. \A v \in Workers : /\ at'[v] = "judge" <=> at[v] = "judge"
                         /\ at'[v] = "push" <=> at[v] = "push"
  BY <1>1, <1>2
<1>6. Waiting' = Waiting
  BY <1>1, <1>5, SetsNext DEF Waiting, Unjudged
<1>7. Done' = Done /\ Emitted' = Emitted
  BY <1>1, <1>5, SetsNext, Numbers DEF Done, Emitted
<1>8. Conserved'
  BY <1>1, <1>6, <1>7 DEF IInv, Conserved, Taken
<1>9. QED BY <1>3, <1>4, <1>6, <1>7, <1>8 DEF IInv

(* A worker goes on with its packet: it neither starts nor ends.           *)
LEMMA AtStep ==
  ASSUME TypeOK, StopOrder, NEW w \in Workers, at[w] # "done", NEW l, l # "done",
         at' = [at EXCEPT ![w] = l], queue'[0] = queue[0] \/ writer # "done",
         UNCHANGED <<phase, cursor, writing, pos, inHand, alive, writer>>
  PROVE  StopOrder'
<1>1. \A v \in Workers : at'[v] = IF v = w THEN l ELSE at[v]
  BY DEF TypeOK
<1>2. QED BY <1>1 DEF StopOrder

\* A pop moves a packet from a queue to a hand: it keeps waiting.
LEMMA PopStep ==
  ASSUME IInv, NEW w \in Workers, PopWithTimeout(w)
  PROVE  IInv' /\ Done' = Done /\ Emitted' = Emitted /\ Waiting' = Waiting
<1>1. /\ at[w] = "pop" /\ hand[w] = None /\ w \in Queues /\ w # 0
      /\ UNCHANGED <<phase, cursor, writing, pos, inHand, alive, flows, rules,
                     writer, written, dropped, discarded>>
  BY Numbers DEF PopWithTimeout, IInv, TypeOK
<1>2. CASE queue[w] = << >>
  <2>1. at' = [at EXCEPT ![w] = "loop"] /\ UNCHANGED <<queue, hand>>
    BY <1>2 DEF PopWithTimeout
  <2>2. \A v \in Workers : at'[v] = IF v = w THEN "loop" ELSE at[v]
    BY <2>1 DEF IInv, TypeOK
  <2>3. TypeOK'
    BY <1>1, <2>1, <2>2, Numbers DEF IInv, TypeOK
  <2>4. StopOrder'
    BY <1>1, <2>1, AtStep DEF IInv
  <2>5. \A v \in Workers : /\ at'[v] = "judge" <=> at[v] = "judge"
                           /\ at'[v] = "push" <=> at[v] = "push"
    BY <1>1, <2>2
  <2>6. Waiting' = Waiting
    BY <1>1, <2>1, <2>5, SetsNext DEF Waiting, Unjudged
  <2>7. Done' = Done /\ Emitted' = Emitted
    BY <1>1, <2>1, <2>5, SetsNext, Numbers DEF Done, Emitted
  <2>8. Conserved'
    BY <1>1, <2>6, <2>7 DEF IInv, Conserved, Taken
  <2>9. QED BY <2>3, <2>4, <2>6, <2>7, <2>8 DEF IInv
<1>3. CASE queue[w] # << >>
  <2> DEFINE i == Head(queue[w])
             l == IF w \in LBs THEN "push" ELSE "judge"
  <2>1. /\ hand' = [hand EXCEPT ![w] = i]
        /\ queue' = [queue EXCEPT ![w] = Tail(queue[w])]
        /\ at' = [at EXCEPT ![w] = l]
    BY <1>3 DEF PopWithTimeout
  <2>2. /\ queue' \in [Queues -> Seq(Jobs)]
        /\ \A r \in Queues : Len(queue'[r]) <= Cap(r)
        /\ i \in Jobs /\ i # None
        /\ \A r \in Queues : queue'[r] = IF r = w THEN Tail(queue[w]) ELSE queue[r]
        /\ \A r \in Queues : Elements(queue[r]) = IF r = w THEN Elements(queue'[r]) \cup {i}
                                                  ELSE Elements(queue'[r])
    BY <1>1, <1>3, <2>1, PopFacts DEF IInv
  <2> HIDE DEF i
  <2>3. \A v \in Workers : /\ at'[v] = IF v = w THEN l ELSE at[v]
                           /\ hand'[v] = IF v = w THEN i ELSE hand[v]
    BY <2>1 DEF IInv, TypeOK
  <2>4. TypeOK'
    <3>1. /\ at' \in [Workers -> {"loop", "pop", "judge", "push", "done"}]
          /\ hand' \in [Workers -> Jobs \cup {None}]
      BY <2>1, <2>2 DEF IInv, TypeOK
    <3>2. /\ \A v \in Workers : hand'[v] # None <=> at'[v] \in {"judge", "push"}
          /\ \A v \in LBs : at'[v] # "judge"
      BY <2>2, <2>3, Numbers DEF IInv, TypeOK
    <3>3. QED BY <1>1, <2>2, <3>1, <3>2 DEF IInv, TypeOK
  <2>5. queue'[0] = queue[0]
    BY <1>1, <2>2, Numbers
  <2>6. StopOrder'
    BY <1>1, <2>1, <2>5, AtStep DEF IInv
  <2>7. Waiting' = Waiting
    <3>1. /\ at'[w] = "judge" \/ (w \in LBs /\ at'[w] = "push")
          /\ hand'[w] = i /\ ~Unjudged(w)
      BY <1>1, <2>3 DEF Unjudged
    <3>2. \A v \in Workers \ {w} : at'[v] = at[v] /\ hand'[v] = hand[v]
      BY <2>3
    <3>3. \A j \in Jobs : (\E v \in Workers : j \in Elements(queue[v]))
                       <=> (\E v \in Workers : j \in Elements(queue'[v])) \/ j = i
      BY <2>2, Numbers
    <3>4. \A j \in Jobs :
            (\E v \in Workers : /\ at'[v] = "judge" \/ (v \in LBs /\ at'[v] = "push")
                                /\ hand'[v] = j)
              <=> (\E v \in Workers : Unjudged(v) /\ hand[v] = j) \/ j = i
      BY <3>1, <3>2 DEF Unjudged
    <3>5. QED BY <1>1, <3>3, <3>4, SetsNext DEF Waiting
  <2>8. Done' = Done /\ Emitted' = Emitted
    <3>1. \A f \in FPs : /\ at'[f] = "push" <=> at[f] = "push"
                         /\ at[f] = "push" => hand'[f] = hand[f]
      BY <1>1, <2>3, Numbers
    <3>2. Emitted' = Emitted
      BY <1>1, <2>5, <3>1, SetsNext DEF Emitted
    <3>3. QED BY <1>1, <3>2 DEF Done
  <2>9. Conserved'
    BY <1>1, <2>7, <2>8 DEF IInv, Conserved, Taken
  <2>10. QED BY <2>4, <2>6, <2>7, <2>8, <2>9 DEF IInv
<1>4. QED BY <1>2, <1>3

(* A worker gives its packet away.                                         *)
LEMMA GivenType ==
  ASSUME TypeOK, NEW w \in Workers,
         hand' = [hand EXCEPT ![w] = None], at' = [at EXCEPT ![w] = "loop"]
  PROVE  /\ at' \in [Workers -> {"loop", "pop", "judge", "push", "done"}]
         /\ hand' \in [Workers -> Jobs \cup {None}]
         /\ \A v \in Workers : hand'[v] # None <=> at'[v] \in {"judge", "push"}
         /\ \A v \in LBs : at'[v] # "judge"
         /\ \A v \in Workers : at'[v] = IF v = w THEN "loop" ELSE at[v]
         /\ \A v \in Workers : hand'[v] = IF v = w THEN None ELSE hand[v]
<1>1. \A v \in Workers : /\ at'[v] = IF v = w THEN "loop" ELSE at[v]
                         /\ hand'[v] = IF v = w THEN None ELSE hand[v]
  BY DEF TypeOK
<1>2. QED BY <1>1, Numbers DEF TypeOK

\* What waits apart from the packet a worker holds.
Others(w) ==
  {j \in Jobs : \/ \E v \in Workers : j \in Elements(queue[v])
                \/ \E v \in Workers \ {w} : Unjudged(v) /\ hand[v] = j
                \/ inHand = j}

(* The verdict: the packet of an FP is judged, dropped or kept to be sent. *)
LEMMA JudgeStep ==
  ASSUME IInv, NEW w \in Workers, Judge(w)
  PROVE  /\ IInv' /\ w \in FPs /\ at[w] = "judge" /\ hand[w] \in Jobs
         /\ Waiting' \subseteq Waiting /\ Waiting \subseteq Waiting' \cup {hand[w]}
         /\ Waiting' \subseteq Others(w) /\ hand[w] \in Waiting
         /\ Done' = Done \cup {hand[w]}
         /\ LET flow == Judged(flows[w][TupleOf[hand[w]]], hand[w])
            IN /\ flows' = [flows EXCEPT ![w][TupleOf[hand[w]]] = flow]
               /\ flow.blocked => dropped' = dropped \cup {hand[w]} /\ Emitted' = Emitted
               /\ ~flow.blocked => dropped' = dropped /\ Emitted' = Emitted \cup {hand[w]}
<1> DEFINE i == hand[w]
           flow == Judged(flows[w][TupleOf[i]], i)
<1>1. /\ at[w] = "judge"
      /\ flows' = [flows EXCEPT ![w][TupleOf[i]] = flow]
      /\ UNCHANGED <<phase, cursor, writing, pos, inHand, queue, alive, rules,
                     writer, written, discarded>>
  BY DEF Judge
<1>2. flow.blocked => /\ dropped' = dropped \cup {i} /\ hand' = [hand EXCEPT ![w] = None]
                      /\ at' = [at EXCEPT ![w] = "loop"]
  BY DEF Judge
<1>3. ~flow.blocked => at' = [at EXCEPT ![w] = "push"] /\ UNCHANGED <<dropped, hand>>
  BY DEF Judge
<1>4. i \in Jobs /\ i # None /\ w \in FPs /\ w \notin LBs
  BY <1>1, Numbers DEF IInv, TypeOK
<1>a. i \in Waiting
  BY <1>1, <1>4 DEF Waiting, Unjudged
<1> HIDE DEF flow
<1>5. CASE flow.blocked
  <2>1. /\ \A v \in Workers : at'[v] = IF v = w THEN "loop" ELSE at[v]
        /\ \A v \in Workers : hand'[v] = IF v = w THEN None ELSE hand[v]
    BY <1>2, <1>5, GivenType DEF IInv
  <2>2. TypeOK'
    BY <1>1, <1>2, <1>4, <1>5, GivenType DEF IInv, TypeOK
  <2>3. StopOrder'
    BY <1>1, <1>2, <1>5, AtStep DEF IInv
  <2>4. Emitted' = Emitted
    <3>1. \A f \in FPs : /\ at'[f] = "push" <=> at[f] = "push"
                         /\ at[f] = "push" => hand'[f] = hand[f]
      BY <1>1, <2>1, Numbers
    <3>2. QED BY <1>1, <3>1, SetsNext DEF Emitted
  <2>5. Done' = Done \cup {i}
    BY <1>2, <1>5, <2>4 DEF Done
  <2>6. /\ Waiting' \subseteq Waiting /\ Waiting \subseteq Waiting' \cup {i}
        /\ Waiting' \subseteq Others(w)
    <3>1. \A v \in Workers : v # w => at'[v] = at[v] /\ hand'[v] = hand[v]
      BY <2>1
    <3>2. at'[w] = "loop"
      BY <2>1
    <3>3. QED BY <1>1, <3>1, <3>2, SetsNext DEF Waiting, Unjudged, Others
  <2>7. Conserved'
    <3>1. Taken' = Taken
      BY <1>1 DEF Taken
    <3>2. QED BY <1>1, <1>a, <2>5, <2>6, <3>1 DEF IInv, Conserved
  <2>8. QED BY <1>a, <1>1, <1>2, <1>4, <1>5, <2>2, <2>3, <2>4, <2>5, <2>6, <2>7 DEF IInv, flow
<1>6. CASE ~flow.blocked
  <2>1. \A v \in Workers : at'[v] = IF v = w THEN "push" ELSE at[v]
    BY <1>3, <1>6 DEF IInv, TypeOK
  <2>2. TypeOK'
    BY <1>1, <1>3, <1>4, <1>6, <2>1, Numbers DEF IInv, TypeOK
  <2>3. StopOrder'
    BY <1>1, <1>3, <1>6, AtStep DEF IInv
  <2>4. Emitted' = Emitted \cup {i}
    <3>1. \A f \in FPs : at'[f] = "push" <=> at[f] = "push" \/ f = w
      BY <2>1, Numbers
    <3>2. QED BY <1>1, <1>3, <1>4, <1>6, <3>1, SetsNext DEF Emitted
  <2>5. Done' = Done \cup {i}
    BY <1>3, <1>6, <2>4 DEF Done
  <2>6. /\ Waiting' \subseteq Waiting /\ Waiting \subseteq Waiting' \cup {i}
        /\ Waiting' \subseteq Others(w)
    <3>1. \A v \in Workers : v # w => at'[v] = at[v]
      BY <2>1
    <3>2. at'[w] = "push" /\ hand' = hand
      BY <1>3, <1>6, <2>1
    <3>3. QED BY <1>1, <1>4, <3>1, <3>2, SetsNext DEF Waiting, Unjudged, Others
  <2>7. Conserved'
    <3>1. Taken' = Taken
      BY <1>1 DEF Taken
    <3>2. QED BY <1>1, <1>a, <2>5, <2>6, <3>1 DEF IInv, Conserved
  <2>8. QED BY <1>a, <1>1, <1>3, <1>4, <1>6, <2>2, <2>3, <2>4, <2>5, <2>6, <2>7 DEF IInv, flow
<1>7. QED BY <1>5, <1>6

\* A push never meets a queue that was shut down, and loses nothing.
LEMMA PushStep ==
  ASSUME IInv, NEW w \in Workers, WorkerPush(w)
  PROVE  /\ IInv' /\ Waiting' = Waiting /\ Done' = Done
         /\ dropped' = dropped /\ Emitted' = Emitted /\ flows' = flows
<1> DEFINE q == Target(w)  i == hand[w]
<1>1. /\ at[w] = "push" /\ PushTo(q, i)
      /\ hand' = [hand EXCEPT ![w] = None] /\ at' = [at EXCEPT ![w] = "loop"]
      /\ UNCHANGED <<phase, cursor, writing, pos, inHand, alive, flows, rules,
                     writer, written, dropped>>
  BY DEF WorkerPush, Target
<1>2. i # None /\ i \in Jobs
  BY <1>1 DEF IInv, TypeOK
<1>3. /\ q \in Queues
      /\ w \in LBs => q \in FPs /\ q # 0 /\ w < q
      /\ w \notin LBs => q = 0 /\ w \in FPs
  BY <1>2, TargetFacts DEF IInv
<1>4. i = hand[w]
  OBVIOUS
<1> HIDE DEF q, i
<1>5. phase \in {"read", "halt"} /\ writer # "done"
  BY <1>1 DEF IInv, StopOrder, TypeOK
<1>6. ~Shut(q)
  <2>1. CASE q = 0
    BY <1>5, <2>1 DEF Shut
  <2>2. CASE q # 0
    <3>1. q \in Workers /\ w < q /\ q \in Nat /\ w \in Nat
      BY <1>3, <2>2, Numbers
    <3>2. SUFFICES ASSUME ~alive[q] PROVE FALSE
      BY <2>2 DEF Shut
    <3>3. phase = "halt" /\ ~(q > cursor)
      BY <1>5, <3>1, <3>2 DEF IInv, StopOrder
    <3>4. cursor \in Nat
      BY Numbers DEF IInv, TypeOK
    <3>5. w < cursor
      BY <3>1, <3>3, <3>4
    <3>6. QED BY <1>1, <3>3, <3>5 DEF IInv, StopOrder
  <2>3. QED BY <2>1, <2>2
<1>7. /\ queue' \in [Queues -> Seq(Jobs)]
      /\ \A r \in Queues : Len(queue'[r]) <= Cap(r)
      /\ \A r \in Queues : Elements(queue'[r]) = IF r = q THEN Elements(queue[q]) \cup {i}
                                                 ELSE Elements(queue[r])
      /\ discarded' = discarded
  BY <1>1, <1>2, <1>3, <1>6, PushFacts DEF IInv
<1>8. /\ \A v \in Workers : at'[v] = IF v = w THEN "loop" ELSE at[v]
      /\ \A v \in Workers : hand'[v] = IF v = w THEN None ELSE hand[v]
  BY <1>1, GivenType DEF IInv
<1>9. TypeOK'
  BY <1>1, <1>7, GivenType DEF IInv, TypeOK
<1>10. StopOrder'
  BY <1>1, <1>5, AtStep DEF IInv
<1>11. \A v \in Workers : v # w => at'[v] = at[v] /\ hand'[v] = hand[v]
  BY <1>8
<1>12. at'[w] = "loop"
  BY <1>8
<1>13. CASE w \in LBs
  <2>1. q \in Workers /\ q # 0 /\ w \notin FPs
    BY <1>3, <1>13, Numbers
  <2>2. Waiting' = Waiting
    <3>1. \A j \in Jobs : (\E v \in Workers : j \in Elements(queue'[v]))
                       <=> (\E v \in Workers : j \in Elements(queue[v])) \/ j = i
      BY <1>7, <2>1, Numbers
    <3>2. Unjudged(w) /\ hand[w] = i
      BY <1>1, <1>4, <1>13 DEF Unjudged
    <3>3. \A j \in Jobs :
            (\E v \in Workers : Unjudged(v) /\ hand[v] = j)
              <=> \/ \E v \in Workers : /\ at'[v] = "judge" \/ (v \in LBs /\ at'[v] = "push")
                                        /\ hand'[v] = j
                  \/ j = i
      BY <1>11, <1>12, <3>2 DEF Unjudged
    <3>4. QED BY <1>1, <3>1, <3>3, SetsNext DEF Waiting
  <2>3. Emitted' = Emitted
    <3>1. \A f \in FPs : f # w /\ f \in Workers
      BY <2>1, Numbers
    <3>2. Elements(queue'[0]) = Elements(queue[0])
      BY <1>7, <2>1, Numbers
    <3>3. QED BY <1>1, <1>11, <3>1, <3>2, SetsNext DEF Emitted
  <2>4. QED
    BY <1>1, <1>7, <1>9, <1>10, <2>2, <2>3 DEF IInv, Conserved, Taken, Done
<1>14. CASE w \notin LBs
  <2>1. q = 0 /\ w \in FPs
    BY <1>3, <1>14
  <2>2. Waiting' = Waiting
    <3>1. \A v \in Workers : Elements(queue'[v]) = Elements(queue[v])
      BY <1>7, <2>1, Numbers
    <3>2. ~Unjudged(w)
      BY <1>1, <1>14 DEF Unjudged
    <3>3. QED BY <1>1, <1>11, <1>12, <3>1, <3>2, SetsNext DEF Waiting, Unjudged
  <2>3. Emitted' = Emitted
    <3>1. Elements(queue'[0]) = Elements(queue[0]) \cup {i}
      BY <1>7, <2>1, Numbers
    <3>2. \A f \in FPs : f # w => at'[f] = at[f] /\ hand'[f] = hand[f]
      BY <1>11, Numbers
    <3>3. {hand[f] : f \in {f \in FPs : at[f] = "push"}}
            = {hand'[f] : f \in {f \in FPs : at'[f] = "push"}} \cup {i}
      BY <1>1, <1>4, <1>12, <2>1, <3>2
    <3>4. QED BY <1>1, <3>1, <3>3, SetsNext DEF Emitted
  <2>4. QED
    BY <1>1, <1>7, <1>9, <1>10, <2>2, <2>3 DEF IInv, Conserved, Taken, Done
<1>15. QED BY <1>13, <1>14

(* The writer.                                                             *)
LEMMA WriterTestStep ==
  ASSUME IInv, WriterTest
  PROVE  IInv'
<1>1. /\ writer' = IF writing \/ queue[0] # << >> THEN "pop" ELSE "done"
      /\ UNCHANGED <<phase, cursor, writing, pos, inHand, queue, alive, at, hand,
                     flows, rules, written, dropped, discarded>>
      /\ writer = "loop"
  BY DEF WriterTest
<1>2. TypeOK'
  BY <1>1 DEF IInv, TypeOK
<1>3. StopOrder'
  BY <1>1 DEF IInv, StopOrder
<1>4. Conserved'
  BY <1>1, SetsKept DEF IInv, Conserved, Taken
<1>5. QED BY <1>2, <1>3, <1>4 DEF IInv

\* The writer moves a packet from the queue to the file.
LEMMA WriterPopStep ==
  ASSUME IInv, WriterPop
  PROVE  /\ IInv' /\ Waiting' = Waiting /\ Done' = Done
         /\ dropped' = dropped /\ Emitted' = Emitted /\ flows' = flows
<1>1. /\ writer = "pop" /\ writer' = "loop"
      /\ UNCHANGED <<phase, cursor, writing, pos, inHand, alive, at, hand, flows,
                     rules, dropped, discarded>>
  BY DEF WriterPop
<1>2. StopOrder'
  BY <1>1 DEF IInv, StopOrder
<1>3. CASE queue[0] = << >>
  <2>1. UNCHANGED <<queue, written>>
    BY <1>3 DEF WriterPop
  <2>2. TypeOK'
    BY <1>1, <2>1 DEF IInv, TypeOK
  <2>3. Waiting' = Waiting /\ Emitted' = Emitted /\ Done' = Done
    BY <1>1, <2>1, SetsKept
  <2>4. QED BY <1>1, <1>2, <2>2, <2>3 DEF IInv, Conserved, Taken
<1>4. CASE queue[0] # << >>
  <2> DEFINE i == Head(queue[0])
  <2>1. /\ written' = Append(written, i)
        /\ queue' = [queue EXCEPT ![0] = Tail(queue[0])]
    BY <1>4 DEF WriterPop
  <2>2. /\ queue' \in [Queues -> Seq(Jobs)]
        /\ \A r \in Queues : Len(queue'[r]) <= Cap(r)
        /\ i \in Jobs
        /\ \A r \in Queues : Elements(queue[r]) = IF r = 0 THEN Elements(queue'[r]) \cup {i}
                                                  ELSE Elements(queue'[r])
    BY <1>4, <2>1, Numbers, PopFacts DEF IInv
  <2> HIDE DEF i
  <2>3. written \in Seq(Jobs) /\ written' \in Seq(Jobs)
    BY <2>1, <2>2 DEF IInv, TypeOK
  <2>4. TypeOK'
    BY <1>1, <2>2, <2>3 DEF IInv, TypeOK
  <2>5. Elements(written') = Elements(written) \cup {i}
    BY <2>1, <2>2, <2>3, AppendElements
  <2>6. Emitted' = Emitted
    <3>1. Elements(queue[0]) = Elements(queue'[0]) \cup {i}
      BY <2>2, Numbers
    <3>2. QED BY <1>1, <2>5, <3>1, SetsNext DEF Emitted
  <2>7. Waiting' = Waiting
    <3>1. \A v \in Workers : Elements(queue'[v]) = Elements(queue[v])
      BY <2>2, Numbers
    <3>2. QED BY <1>1, <3>1, SetsNext DEF Waiting, Unjudged
  <2>8. QED BY <1>1, <1>2, <2>4, <2>6, <2>7 DEF IInv, Conserved, Taken, Done
<1>5. QED BY <1>3, <1>4
-----------------------------------------------------------------------------
(* The end of process moves no packet.                                     *)
Ending == Sleep \/ StopWorker \/ JoinWorker \/ ShutOutput \/ JoinWriter

\* The steps from the sleep to the join of the writer.
LEMMA EndingStep ==
  ASSUME IInv, Ending
  PROVE  IInv' /\ UNCHANGED rest
<1>1. UNCHANGED rest
  BY DEF Ending, Sleep, StopWorker, JoinWorker, ShutOutput, JoinWriter
<1>2. Conserved'
  BY <1>1, SetsKept DEF rest, IInv, Conserved, Taken
<1>3. CASE Sleep
  <2>1. TypeOK'
    BY <1>3 DEF Sleep, IInv, TypeOK, rest
  <2>2. StopOrder'
    <3>1. \A w \in Workers : ~(w < 1)
      BY Numbers DEF Workers
    <3>2. QED BY <1>3, <3>1 DEF Sleep, IInv, StopOrder, rest
  <2>3. QED BY <1>1, <1>2, <2>1, <2>2 DEF IInv
<1>4. CASE StopWorker
  <2>1. /\ phase = "halt" /\ cursor \in Workers
        /\ alive' = [alive EXCEPT ![cursor] = FALSE]
        /\ UNCHANGED <<phase, cursor, writing, rest>>
    BY <1>4 DEF StopWorker
  <2>2. \A w \in Workers : alive'[w] = IF w = cursor THEN FALSE ELSE alive[w]
    BY <2>1 DEF IInv, TypeOK
  <2>3. TypeOK'
    BY <2>1 DEF IInv, TypeOK, rest
  <2>4. StopOrder'
    BY <2>1, <2>2 DEF IInv, StopOrder, rest, Workers
  <2>5. QED BY <1>1, <1>2, <2>3, <2>4 DEF IInv
<1>5. CASE JoinWorker
  <2>1. /\ phase = "halt" /\ cursor \in Workers /\ at[cursor] = "done"
        /\ cursor' = cursor + 1
        /\ UNCHANGED <<phase, writing, alive, rest>>
    BY <1>5 DEF JoinWorker
  <2>2. TypeOK'
    BY <2>1, Numbers DEF IInv, TypeOK, rest, Workers
  <2>3. \A w \in Workers : w < cursor + 1 => w = cursor \/ w < cursor
    BY <2>1, Numbers
  <2>4. \A w \in Workers : w > cursor + 1 => w > cursor
    BY <2>1, Numbers
  <2>5. StopOrder'
    BY <2>1, <2>3, <2>4 DEF IInv, StopOrder, rest
  <2>6. QED BY <1>1, <1>2, <2>2, <2>5 DEF IInv
<1>6. CASE ShutOutput
  <2>1. /\ phase = "halt" /\ cursor \notin Workers
        /\ writing' = FALSE /\ phase' = "flush"
        /\ UNCHANGED <<cursor, alive, rest>>
    BY <1>6 DEF ShutOutput
  <2>2. \A w \in Workers : at[w] = "done"
    <3>1. cursor = NumLBs + NumFPs + 1
      BY <2>1, Numbers DEF IInv, TypeOK, Workers
    <3>2. \A w \in Workers : w < cursor
      BY <3>1, Numbers DEF Workers
    <3>3. QED BY <2>1, <3>2 DEF IInv, StopOrder
  <2>3. TypeOK'
    BY <2>1 DEF IInv, TypeOK, rest
  <2>4. StopOrder'
    BY <2>1, <2>2 DEF IInv, StopOrder, rest
  <2>5. QED BY <1>1, <1>2, <2>3, <2>4 DEF IInv
<1>7. CASE JoinWriter
  <2>1. TypeOK'
    BY <1>7 DEF JoinWriter, IInv, TypeOK, rest
  <2>2. StopOrder'
    BY <1>7 DEF JoinWriter, IInv, StopOrder, rest
  <2>3. QED BY <1>1, <1>2, <2>1, <2>2 DEF IInv
<1>8. QED BY <1>3, <1>4, <1>5, <1>6, <1>7 DEF Ending

\* Stuttering keeps the inductive invariant.
LEMMA StutterStep == IInv /\ UNCHANGED vars => IInv'
BY SetsKept DEF vars, IInv, TypeOK, StopOrder, Conserved, Taken

(* Every step keeps the inductive invariant.                               *)
LEMMA IInvStep == IInv /\ [Next]_vars => IInv'
<1> SUFFICES ASSUME IInv, [Next]_vars PROVE IInv'
  OBVIOUS
<1>1. CASE Main
  BY <1>1, ReadStep, DispatchStep, EndingStep DEF Main, Ending
<1>2. CASE \E w \in Workers : Work(w)
  BY <1>2, TestRunningStep, PopStep, JudgeStep, PushStep DEF Work
<1>3. CASE WriterTest \/ WriterPop
  BY <1>3, WriterTestStep, WriterPopStep
<1>4. CASE UNCHANGED vars
  BY <1>4, StutterStep
<1>5. QED BY <1>1, <1>2, <1>3, <1>4 DEF Next

(* The variables keep their types and no queue outgrows its capacity.      *)
THEOREM TypeCorrect == Spec => []TypeOK
<1>1. IInv => TypeOK
  BY DEF IInv
<1>2. Spec => []IInv
  BY IInvInit, IInvStep, PTL DEF Spec
<1>3. QED BY <1>1, <1>2, PTL
-----------------------------------------------------------------------------
(* The places a packet of a five-tuple passes, the last one first.         *)
Line(t) ==
  <<written, queue[0], Holding(hand[Route(t)]), queue[Route(t)],
    Holding(hand[LBFor(t)]), queue[LBFor(t)], Holding(inHand)>>

PacketsOf(t) == {i \in Jobs : TupleOf[i] = t}

TupleOrder == \A t \in Tuples : InOrder(Line(t), PacketsOf(t))

(* A packet is only ever with the LB and the FP of its five-tuple t, so    *)
(* that the line of t sees it move from place to place, and sees of other  *)
(* tuples only packets it need not order.                                  *)
With(q) == Elements(queue[q]) \cup ({hand[q]} \ {None})

Routed ==
  /\ \A l \in LBs : \A i \in With(l) : LBFor(TupleOf[i]) = l
  /\ \A f \in FPs : \A i \in With(f) : Route(TupleOf[i]) = f

OInv == IInv /\ Routed /\ TupleOrder

\* What a thread holds, as a sequence.
LEMMA HoldingType ==
  ASSUME NEW i \in Jobs \cup {None}
  PROVE  /\ Holding(i) \in Seq(Nat)
         /\ i = None => Holding(i) = << >>
         /\ i # None => Holding(i) = <<i>> /\ Elements(Holding(i)) = {i}
<1>1. CASE i = None
  BY <1>1 DEF Holding, None
<1>2. CASE i \in Jobs
  <2>1. i \in Nat /\ i # None /\ i # 0
    BY <1>2, JobFacts
  <2>2. Holding(i) = <<i>>
    BY <2>1 DEF Holding
  <2>3. Elements(<<i>>) = {i}
    BY DEF Elements
  <2>4. QED BY <2>1, <2>2, <2>3
<1>3. QED BY <1>1, <1>2

\* Packets are numbers.
LEMMA JobsAreNat == \A s : s \in Seq(Jobs) => s \in Seq(Nat)
<1>1. SUFFICES ASSUME NEW s \in Seq(Jobs) PROVE s \in Seq(Nat)
  OBVIOUS
<1>2. Len(s) \in Nat /\ \A k \in 1..Len(s) : s[k] \in Jobs
  OBVIOUS
<1>3. s = [k \in 1..Len(s) |-> s[k]]
  OBVIOUS
<1>4. \A k \in 1..Len(s) : s[k] \in Nat
  BY <1>2, JobFacts
<1>5. QED BY <1>2, <1>3, <1>4

(* The places of a line, one by one.                                       *)
LEMMA LineFacts ==
  ASSUME TypeOK, NEW t \in Tuples
  PROVE  /\ IsLine(Line(t), 7)
         /\ Line(t)[1] = written /\ Line(t)[2] = queue[0]
         /\ Line(t)[3] = Holding(hand[Route(t)])
         /\ Line(t)[4] = queue[Route(t)]
         /\ Line(t)[5] = Holding(hand[LBFor(t)])
         /\ Line(t)[6] = queue[LBFor(t)]
         /\ Line(t)[7] = Holding(inHand)
<1>1. /\ written \in Seq(Nat) /\ queue[0] \in Seq(Nat)
      /\ queue[Route(t)] \in Seq(Nat) /\ queue[LBFor(t)] \in Seq(Nat)
  BY RouteFacts, JobsAreNat, Numbers DEF TypeOK
<1>2. /\ hand[Route(t)] \in Jobs \cup {None} /\ hand[LBFor(t)] \in Jobs \cup {None}
      /\ inHand \in Jobs \cup {None}
  BY RouteFacts DEF TypeOK
<1>3. /\ Holding(hand[Route(t)]) \in Seq(Nat) /\ Holding(hand[LBFor(t)]) \in Seq(Nat)
      /\ Holding(inHand) \in Seq(Nat)
  BY <1>2, HoldingType
<1>4. QED BY <1>1, <1>3 DEF Line, IsLine

(* What lies on a line was taken from the capture.                         *)
LEMMA LineTaken ==
  ASSUME IInv, NEW t \in Tuples, NEW p \in 1..7, NEW j \in 1..Len(Line(t)[p])
  PROVE  Line(t)[p][j] \in Taken
<1>1. Line(t)[p][j] \in Elements(Line(t)[p])
  BY DEF Elements
<1>2. TypeOK /\ Taken = Waiting \cup Done
  BY DEF IInv, Conserved
<1>3. Elements(<< >>) = {}
  BY DEF Elements
<1>4. \A w \in Workers : hand[w] # None => hand[w] \in Taken
  <2>1. SUFFICES ASSUME NEW w \in Workers, hand[w] # None PROVE hand[w] \in Taken
    OBVIOUS
  <2>2. hand[w] \in Jobs /\ at[w] \in {"judge", "push"}
    BY <1>2, <2>1 DEF TypeOK
  <2>3. CASE Unjudged(w)
    BY <1>2, <2>2, <2>3 DEF Waiting
  <2>4. CASE ~Unjudged(w)
    <3>1. w \in FPs /\ at[w] = "push"
      BY <2>2, <2>4, Numbers DEF Unjudged
    <3>2. QED BY <1>2, <3>1 DEF Done, Emitted
  <2>5. QED BY <2>3, <2>4
<1>5. \A w \in Workers : Elements(Holding(hand[w])) \subseteq Taken
  <2>1. SUFFICES ASSUME NEW w \in Workers PROVE Elements(Holding(hand[w])) \subseteq Taken
    OBVIOUS
  <2>2. hand[w] \in Jobs \cup {None}
    BY <1>2 DEF TypeOK
  <2>3. QED BY <1>3, <1>4, <2>2, HoldingType
<1>6. Elements(Holding(inHand)) \subseteq Taken
  <2>1. inHand \in Jobs \cup {None}
    BY <1>2 DEF TypeOK
  <2>2. inHand # None => inHand \in Waiting
    BY <2>1 DEF Waiting
  <2>3. QED BY <1>2, <1>3, <2>1, <2>2, HoldingType
<1>7. \A w \in Workers : Elements(queue[w]) \subseteq Taken
  <2>1. SUFFICES ASSUME NEW w \in Workers, NEW i \in Elements(queue[w]) PROVE i \in Taken
    OBVIOUS
  <2>2. queue[w] \in Seq(Jobs)
    BY <1>2, Numbers DEF TypeOK
  <2>3. i \in Jobs
    BY <2>1, <2>2 DEF Elements
  <2>4. QED BY <1>2, <2>1, <2>3 DEF Waiting
<1>8. Elements(written) \subseteq Taken /\ Elements(queue[0]) \subseteq Taken
  BY <1>2 DEF Done, Emitted
<1>9. Elements(Line(t)[p]) \subseteq Taken
  <2>1. p = 1 \/ p = 2 \/ p = 3 \/ p = 4 \/ p = 5 \/ p = 6 \/ p = 7
    OBVIOUS
  <2>2. CASE p \in {1, 2, 7}
    BY <1>2, <1>6, <1>8, <2>2, LineFacts
  <2>3. CASE p \in {3, 5}
    <3>1. \/ Line(t)[p] = Holding(hand[Route(t)])
          \/ Line(t)[p] = Holding(hand[LBFor(t)])
      BY <1>2, <2>3, LineFacts
    <3>2. QED BY <1>5, <3>1, RouteFacts
  <2>4. CASE p \in {4, 6}
    <3>1. Line(t)[p] = queue[Route(t)] \/ Line(t)[p] = queue[LBFor(t)]
      BY <1>2, <2>4, LineFacts
    <3>2. QED BY <1>7, <3>1, RouteFacts
  <2>5. QED BY <2>1, <2>2, <2>3, <2>4
<1>10. QED BY <1>1, <1>9

(* Steps that leave every place as it is.                                  *)
LEMMA PlacesKept ==
  ASSUME Routed, TupleOrder, UNCHANGED <<written, queue, hand, inHand>>
  PROVE  Routed' /\ TupleOrder'
<1>1. Routed'
  BY DEF Routed, With, Elements
<1>2. TupleOrder'
  <2>1. \A t \in Tuples : Line(t)' = Line(t)
    BY DEF Line, Holding
  <2>2. SUFFICES ASSUME NEW t \in Tuples PROVE InOrder(Line(t)', PacketsOf(t))
    BY DEF TupleOrder, PacketsOf
  <2>3. QED BY <2>1 DEF TupleOrder
<1>3. QED BY <1>1, <1>2

\* The places of a line after a step.
LEMMA LineFactsNext ==
  ASSUME TypeOK', NEW t \in Tuples
  PROVE  /\ IsLine(Line(t)', 7)
         /\ Line(t)'[1] = written' /\ Line(t)'[2] = queue'[0]
         /\ Line(t)'[3] = Holding(hand'[Route(t)])
         /\ Line(t)'[4] = queue'[Route(t)]
         /\ Line(t)'[5] = Holding(hand'[LBFor(t)])
         /\ Line(t)'[6] = queue'[LBFor(t)]
         /\ Line(t)'[7] = Holding(inHand')
<1>1. /\ written' \in Seq(Nat) /\ queue'[0] \in Seq(Nat)
      /\ queue'[Route(t)] \in Seq(Nat) /\ queue'[LBFor(t)] \in Seq(Nat)
  BY RouteFacts, JobsAreNat, Numbers DEF TypeOK
<1>2. /\ hand'[Route(t)] \in Jobs \cup {None} /\ hand'[LBFor(t)] \in Jobs \cup {None}
      /\ inHand' \in Jobs \cup {None}
  BY RouteFacts DEF TypeOK
<1>3. /\ Holding(hand'[Route(t)]) \in Seq(Nat) /\ Holding(hand'[LBFor(t)]) \in Seq(Nat)
      /\ Holding(inHand') \in Seq(Nat)
  BY <1>2, HoldingType
<1>4. Line(t)' = <<written', queue'[0], Holding(hand'[Route(t)]), queue'[Route(t)],
                      Holding(hand'[LBFor(t)]), queue'[LBFor(t)], Holding(inHand')>>
  BY DEF Line
<1>5. QED BY <1>1, <1>3, <1>4 DEF IsLine

(* At most one worker gains a packet, and it is one that is routed to it.  *)
LEMMA RoutedBy ==
  ASSUME Routed, NEW q, NEW i,
         \A w \in Workers : With(w)' \subseteq With(w) \cup (IF w = q THEN {i} ELSE {}),
         q \in LBs => LBFor(TupleOf[i]) = q,
         q \in FPs => Route(TupleOf[i]) = q
  PROVE  Routed'
<1>1. \A l \in LBs : \A j \in With(l)' : LBFor(TupleOf[j]) = l
  BY Numbers DEF Routed
<1>2. \A f \in FPs : \A j \in With(f)' : Route(TupleOf[j]) = f
  BY Numbers DEF Routed
<1>3. QED BY <1>1, <1>2 DEF Routed, LBFor

(* A thread that is given packet i where it held none, or gives it away.   *)
LEMMA Held ==
  ASSUME NEW i \in Jobs
  PROVE  /\ Holding(i) # << >> /\ Head(Holding(i)) = i /\ Tail(Holding(i)) = Holding(None)
         /\ Holding(i) = Append(Holding(None), i)
         /\ Holding(None) = << >>
<1>1. i # 0
  BY JobFacts
<1>2. Holding(i) = <<i>> /\ Holding(None) = << >>
  BY <1>1 DEF Holding, None
<1>3. QED BY <1>2

(* No worker gains a packet.                                               *)
LEMMA RoutedKept ==
  ASSUME Routed, \A w \in Workers : With(w)' \subseteq With(w)
  PROVE  Routed'
<1>1. \A l \in LBs : \A j \in With(l)' : LBFor(TupleOf[j]) = l
  BY Numbers DEF Routed
<1>2. \A f \in FPs : \A j \in With(f)' : Route(TupleOf[j]) = f
  BY Numbers DEF Routed
<1>3. QED BY <1>1, <1>2 DEF Routed, LBFor

\* A packet enters its line behind all others.
LEMMA ReadPacketOrder == ASSUME OInv, ReadPacket PROVE Routed' /\ TupleOrder'
<1>1. /\ inHand = None /\ pos < NumPackets
      /\ inHand' = IF TupleOf[pos + 1] = NoTuple THEN None ELSE pos + 1
      /\ UNCHANGED <<written, queue, hand>>
  BY DEF ReadPacket
<1>2. TypeOK /\ TypeOK'
  BY ReadStep DEF OInv, IInv
<1>3. Routed'
  BY <1>1 DEF OInv, Routed, With, Elements
<1>4. CASE inHand' = None
  BY <1>1, <1>4, PlacesKept DEF OInv
<1>5. CASE inHand' # None
  <2>0. /\ inHand' = pos + 1 /\ inHand' \in Jobs /\ inHand' \in Nat /\ pos \in Nat
        /\ TupleOf[inHand'] \in Tuples
    BY <1>1, <1>2, <1>5, JobFacts, Numbers DEF TypeOK
  <2>1. SUFFICES ASSUME NEW t \in Tuples PROVE InOrder(Line(t)', PacketsOf(t))
    BY <1>3 DEF TupleOrder, PacketsOf
  <2>2. \A p \in 1..7 : \A j \in 1..Len(Line(t)[p]) : Line(t)[p][j] < inHand'
    <3>1. \A p \in 1..7 : \A j \in 1..Len(Line(t)[p]) : Line(t)[p][j] \in Taken
      BY LineTaken DEF OInv
    <3>2. \A i \in Taken : i \in Nat /\ i <= pos
      BY JobFacts DEF Taken
    <3>3. \A i \in Taken : i < inHand'
      BY <2>0, <3>2
    <3>4. QED BY <3>1, <3>3
  <2> DEFINE L == Line(t)  M == Line(t)'
  <2>a. IsLine(L, 7) /\ IsLine(M, 7) /\ InOrder(L, PacketsOf(t))
    BY <1>2, LineFacts, LineFactsNext DEF OInv, TupleOrder
  <2>b. /\ L[1] = written /\ L[2] = queue[0] /\ L[3] = Holding(hand[Route(t)])
        /\ L[4] = queue[Route(t)] /\ L[5] = Holding(hand[LBFor(t)])
        /\ L[6] = queue[LBFor(t)] /\ L[7] = Holding(inHand)
    BY <1>2, LineFacts
  <2>c. /\ M[1] = written' /\ M[2] = queue'[0] /\ M[3] = Holding(hand'[Route(t)])
        /\ M[4] = queue'[Route(t)] /\ M[5] = Holding(hand'[LBFor(t)])
        /\ M[6] = queue'[LBFor(t)] /\ M[7] = Holding(inHand')
    BY <1>2, LineFactsNext
  <2>d. SUFFICES InOrder(M, PacketsOf(t))
    OBVIOUS
  <2> HIDE DEF L, M
  <2>5. /\ M[1] = L[1] /\ M[2] = L[2] /\ M[3] = L[3] /\ M[4] = L[4] /\ M[5] = L[5]
        /\ M[6] = L[6] /\ M[7] = Append(L[7], inHand')
    BY <1>1, <2>0, <2>b, <2>c, Held
  <2>6. Entered(L, M, 7, 7, inHand')
    BY <2>0, <2>5 DEF Entered
  <2>7. \A p \in 1..7 : \A j \in 1..Len(L[p]) : L[p][j] < inHand'
    BY <2>2 DEF L
  <2>8. QED BY <2>a, <2>6, <2>7, EntersLine
<1>6. QED BY <1>3, <1>4, <1>5

\* The main thread's push moves a packet one place on.
LEMMA DispatchOrder == ASSUME OInv, Dispatch PROVE Routed' /\ TupleOrder'
<1> DEFINE i == inHand  q == LBFor(TupleOf[i])
<1>1. /\ inHand # None /\ PushTo(q, i) /\ inHand' = None
      /\ UNCHANGED <<written, hand>>
  BY DEF Dispatch
<1>2. TypeOK /\ TypeOK' /\ discarded' = {}
  BY DispatchStep DEF OInv, IInv, Conserved
<1>3. i \in Jobs /\ TupleOf[i] \in Tuples /\ q \in LBs /\ q \in Workers /\ q \in Queues
  BY <1>1, <1>2, JobFacts, RouteFacts, Numbers DEF TypeOK
<1>4. queue' = [queue EXCEPT ![q] = Append(queue[q], i)]
  BY <1>1, <1>2 DEF PushTo
<1>5. inHand = i /\ LBFor(TupleOf[i]) = q
  OBVIOUS
<1> HIDE DEF i, q
<1>6. \A r \in Queues : queue'[r] = IF r = q THEN Append(queue[q], i) ELSE queue[r]
  BY <1>2, <1>4 DEF TypeOK
<1>7. Routed'
  <2>1. Elements(Append(queue[q], i)) = Elements(queue[q]) \cup {i}
    BY <1>2, <1>3, AppendElements DEF TypeOK
  <2>2. \A w \in Workers : With(w)' = Elements(queue'[w]) \cup ({hand[w]} \ {None})
    BY <1>1 DEF With, Elements
  <2>3. \A w \in Workers : With(w)' \subseteq With(w) \cup (IF w = q THEN {i} ELSE {})
    BY <1>6, <2>1, <2>2, Numbers DEF With
  <2>4. q \notin FPs
    BY <1>3, Numbers DEF LBs, FPs
  <2>5. QED BY <1>5, <2>3, <2>4, RoutedBy DEF OInv
<1>8. TupleOrder'
  <2>1. SUFFICES ASSUME NEW t \in Tuples PROVE InOrder(Line(t)', PacketsOf(t))
    BY DEF TupleOrder, PacketsOf
  <2> DEFINE L == Line(t)  M == Line(t)'
  <2>a. IsLine(L, 7) /\ IsLine(M, 7) /\ InOrder(L, PacketsOf(t))
    BY <1>2, LineFacts, LineFactsNext DEF OInv, TupleOrder
  <2>b. /\ L[1] = written /\ L[2] = queue[0] /\ L[3] = Holding(hand[Route(t)])
        /\ L[4] = queue[Route(t)] /\ L[5] = Holding(hand[LBFor(t)])
        /\ L[6] = queue[LBFor(t)] /\ L[7] = Holding(inHand)
    BY <1>2, LineFacts
  <2>c. /\ M[1] = written' /\ M[2] = queue'[0] /\ M[3] = Holding(hand'[Route(t)])
        /\ M[4] = queue'[Route(t)] /\ M[5] = Holding(hand'[LBFor(t)])
        /\ M[6] = queue'[LBFor(t)] /\ M[7] = Holding(inHand')
    BY <1>2, LineFactsNext
  <2>d. SUFFICES InOrder(M, PacketsOf(t))
    OBVIOUS
  <2> HIDE DEF L, M
  <2>2. Route(t) # q /\ 0 # q /\ Route(t) \in Queues /\ LBFor(t) \in Queues /\ 0 \in Queues
    BY <1>3, RouteFacts, Numbers
  <2>3. /\ M[1] = L[1] /\ M[2] = L[2] /\ M[3] = L[3] /\ M[4] = L[4] /\ M[5] = L[5]
    BY <1>1, <1>6, <2>2, <2>b, <2>c
  <2>4. L[7] # << >> /\ Head(L[7]) = i /\ M[7] = Tail(L[7])
    BY <1>1, <1>3, <1>5, <2>b, <2>c, Held
  <2>5. CASE LBFor(t) = q
    <3>1. M[6] = Append(L[6], Head(L[7]))
      BY <1>6, <2>2, <2>4, <2>5, <2>b, <2>c
    <3>2. MovedOn(L, M, 7, 7, 6)
      BY <2>3, <2>4, <3>1 DEF MovedOn
    <3>3. QED BY <2>a, <3>2, MovesOn
  <2>6. CASE LBFor(t) # q
    <3>1. M[6] = L[6]
      BY <1>6, <2>2, <2>6, <2>b, <2>c
    <3>2. Left(L, M, 7, 7)
      BY <2>3, <2>4, <3>1 DEF Left
    <3>3. QED BY <2>a, <3>2, LeavesLine
  <2>7. QED BY <2>5, <2>6
<1>9. QED BY <1>7, <1>8

\* A pop moves a packet one place on.
LEMMA PopOrder == ASSUME OInv, NEW w \in Workers, PopWithTimeout(w) PROVE Routed' /\ TupleOrder'
<1>1. UNCHANGED <<written, inHand>> /\ w \in Queues /\ hand[w] = None /\ w # 0
  BY Numbers DEF PopWithTimeout, OInv, IInv, TypeOK
<1>2. TypeOK /\ TypeOK'
  BY PopStep DEF OInv, IInv
<1>3. CASE queue[w] = << >>
  BY <1>1, <1>3, PlacesKept DEF PopWithTimeout, OInv
<1>4. CASE queue[w] # << >>
  <2> DEFINE i == Head(queue[w])
  <2>1. /\ hand' = [hand EXCEPT ![w] = i]
        /\ queue' = [queue EXCEPT ![w] = Tail(queue[w])]
    BY <1>4 DEF PopWithTimeout
  <2>2. queue[w] \in Seq(Jobs)
    BY <1>1, <1>2 DEF TypeOK
  <2>3. i \in Jobs /\ Elements(queue[w]) = {i} \cup Elements(Tail(queue[w]))
    BY <1>4, <2>2, HeadElements
  <2>4. Head(queue[w]) = i
    OBVIOUS
  <2> HIDE DEF i
  <2>5. /\ \A v \in Workers : hand'[v] = IF v = w THEN i ELSE hand[v]
        /\ \A r \in Queues : queue'[r] = IF r = w THEN Tail(queue[w]) ELSE queue[r]
    BY <1>2, <2>1 DEF TypeOK
  <2>6. Routed'
    <3>1. \A v \in Workers : With(v)' = Elements(queue'[v]) \cup ({hand'[v]} \ {None})
      BY DEF With, Elements
    <3>2. \A v \in Workers : With(v)' \subseteq With(v)
      BY <2>3, <2>5, <3>1, Numbers DEF With
    <3>3. QED BY <3>2, RoutedKept DEF OInv
  <2>7. TupleOrder'
    <3>1. SUFFICES ASSUME NEW t \in Tuples PROVE InOrder(Line(t)', PacketsOf(t))
      BY DEF TupleOrder, PacketsOf
    <3> DEFINE L == Line(t)  M == Line(t)'
    <3>a. IsLine(L, 7) /\ IsLine(M, 7) /\ InOrder(L, PacketsOf(t))
      BY <1>2, LineFacts, LineFactsNext DEF OInv, TupleOrder
    <3>b. /\ L[1] = written /\ L[2] = queue[0] /\ L[3] = Holding(hand[Route(t)])
          /\ L[4] = queue[Route(t)] /\ L[5] = Holding(hand[LBFor(t)])
          /\ L[6] = queue[LBFor(t)] /\ L[7] = Holding(inHand)
      BY <1>2, LineFacts
    <3>c. /\ M[1] = written' /\ M[2] = queue'[0] /\ M[3] = Holding(hand'[Route(t)])
          /\ M[4] = queue'[Route(t)] /\ M[5] = Holding(hand'[LBFor(t)])
          /\ M[6] = queue'[LBFor(t)] /\ M[7] = Holding(inHand')
      BY <1>2, LineFactsNext
    <3>d. SUFFICES InOrder(M, PacketsOf(t))
      OBVIOUS
    <3> HIDE DEF L, M
    <3>2. /\ Route(t) \in Queues /\ Route(t) \in Workers
          /\ LBFor(t) \in Queues /\ LBFor(t) \in Workers
          /\ 0 \in Queues /\ LBFor(t) # Route(t)
      BY RouteFacts, Numbers
    <3>3. Holding(i) = Append(Holding(None), i)
      BY <2>3, Held
    <3>4. M[1] = L[1] /\ M[2] = L[2] /\ M[7] = L[7]
      BY <1>1, <2>5, <3>2, <3>b, <3>c
    <3>5. CASE w = LBFor(t)
      <4>1. /\ M[3] = L[3] /\ M[4] = L[4] /\ L[6] # << >> /\ M[6] = Tail(L[6])
            /\ M[5] = Append(L[5], Head(L[6]))
        BY <1>1, <1>4, <2>4, <2>5, <3>2, <3>3, <3>5, <3>b, <3>c
      <4>2. MovedOn(L, M, 7, 6, 5)
        BY <3>4, <4>1 DEF MovedOn
      <4>3. QED BY <3>a, <4>2, MovesOn
    <3>6. CASE w = Route(t)
      <4>1. /\ M[5] = L[5] /\ M[6] = L[6] /\ L[4] # << >> /\ M[4] = Tail(L[4])
            /\ M[3] = Append(L[3], Head(L[4]))
        BY <1>1, <1>4, <2>4, <2>5, <3>2, <3>3, <3>6, <3>b, <3>c
      <4>2. MovedOn(L, M, 7, 4, 3)
        BY <3>4, <4>1 DEF MovedOn
      <4>3. QED BY <3>a, <4>2, MovesOn
    <3>7. CASE w # LBFor(t) /\ w # Route(t)
      <4>1. M[3] = L[3] /\ M[4] = L[4] /\ M[5] = L[5] /\ M[6] = L[6]
        BY <2>5, <3>2, <3>7, <3>b, <3>c
      <4>2. \A p \in 1..7 : M[p] = L[p]
        BY <3>4, <4>1
      <4>3. QED BY <3>a, <4>2, StaysInOrder
    <3>8. QED BY <3>5, <3>6, <3>7
  <2>8. QED BY <2>6, <2>7
<1>5. QED BY <1>3, <1>4

\* A push moves a packet one place on, or off the lines it is no part of.
LEMMA PushOrder == ASSUME OInv, NEW w \in Workers, WorkerPush(w) PROVE Routed' /\ TupleOrder'
<1> DEFINE i == hand[w]  q == Target(w)
<1>1. /\ at[w] = "push" /\ PushTo(q, i)
      /\ hand' = [hand EXCEPT ![w] = None]
      /\ UNCHANGED <<written, inHand>>
  BY DEF WorkerPush, Target
<1>2. TypeOK /\ TypeOK' /\ discarded' = {} /\ Routed
  BY PushStep DEF OInv, IInv, Conserved
<1>3. i \in Jobs /\ i # None /\ TupleOf[i] \in Tuples
  BY <1>1, <1>2, JobFacts DEF TypeOK
<1>4. q \in Queues
  BY <1>2, <1>3, TargetFacts
<1>5. /\ w \in LBs => q = Route(TupleOf[i]) /\ LBFor(TupleOf[i]) = w
      /\ w \notin LBs => q = 0 /\ w \in FPs /\ Route(TupleOf[i]) = w
  <2>1. i \in With(w)
    BY <1>3 DEF With
  <2>2. QED BY <1>2, <2>1, Numbers DEF Routed, Target, FPFor, Route
<1>6. queue' = [queue EXCEPT ![q] = Append(queue[q], i)]
  BY <1>1, <1>2 DEF PushTo
<1>7. hand[w] = i
  OBVIOUS
<1> HIDE DEF i, q
<1>8. /\ \A v \in Workers : hand'[v] = IF v = w THEN None ELSE hand[v]
      /\ \A r \in Queues : queue'[r] = IF r = q THEN Append(queue[q], i) ELSE queue[r]
  BY <1>1, <1>2, <1>6 DEF TypeOK
<1>9. Routed'
  <2>1. Elements(Append(queue[q], i)) = Elements(queue[q]) \cup {i}
    BY <1>2, <1>3, <1>4, AppendElements DEF TypeOK
  <2>2. \A v \in Workers : With(v)' = Elements(queue'[v]) \cup ({hand'[v]} \ {None})
    BY DEF With, Elements
  <2>3. \A v \in Workers : With(v)' \subseteq With(v) \cup (IF v = q THEN {i} ELSE {})
    BY <1>8, <2>1, <2>2, Numbers DEF With
  <2>4. q \notin LBs /\ (q \in FPs => Route(TupleOf[i]) = q)
    <3>1. CASE w \in LBs
      BY <1>3, <1>5, <3>1, RouteFacts
    <3>2. CASE w \notin LBs
      BY <1>5, <3>2, Numbers
    <3>3. QED BY <3>1, <3>2
  <2>5. QED BY <1>2, <2>3, <2>4, RoutedBy
<1>10. TupleOrder'
  <2>1. SUFFICES ASSUME NEW t \in Tuples PROVE InOrder(Line(t)', PacketsOf(t))
    BY DEF TupleOrder, PacketsOf
  <2> DEFINE L == Line(t)  M == Line(t)'
  <2>a. IsLine(L, 7) /\ IsLine(M, 7) /\ InOrder(L, PacketsOf(t))
    BY <1>2, LineFacts, LineFactsNext DEF OInv, TupleOrder
  <2>b. /\ L[1] = written /\ L[2] = queue[0] /\ L[3] = Holding(hand[Route(t)])
        /\ L[4] = queue[Route(t)] /\ L[5] = Holding(hand[LBFor(t)])
        /\ L[6] = queue[LBFor(t)] /\ L[7] = Holding(inHand)
    BY <1>2, LineFacts
  <2>c. /\ M[1] = written' /\ M[2] = queue'[0] /\ M[3] = Holding(hand'[Route(t)])
        /\ M[4] = queue'[Route(t)] /\ M[5] = Holding(hand'[LBFor(t)])
        /\ M[6] = queue'[LBFor(t)] /\ M[7] = Holding(inHand')
    BY <1>2, LineFactsNext
  <2>d. SUFFICES InOrder(M, PacketsOf(t))
    OBVIOUS
  <2> HIDE DEF L, M
  <2>2. /\ Route(t) \in Queues /\ Route(t) \in Workers /\ Route(t) # 0
        /\ Route(t) \notin LBs /\ LBFor(t) \in LBs
        /\ LBFor(t) \in Queues /\ LBFor(t) \in Workers
        /\ 0 \in Queues /\ LBFor(t) # Route(t)
    BY RouteFacts, Numbers
  <2>3. Holding(i) # << >> /\ Head(Holding(i)) = i /\ Tail(Holding(i)) = Holding(None)
    BY <1>3, Held
  <2>4. q # LBFor(t)
    BY <1>3, <1>5, RouteFacts
  <2>5. M[1] = L[1] /\ M[7] = L[7] /\ M[6] = L[6]
    BY <1>1, <1>8, <2>2, <2>4, <2>b, <2>c
  <2>6. CASE w = Route(t)
    <3>1. q = 0
      BY <1>5, <2>2, <2>6
    <3>2. /\ M[4] = L[4] /\ M[5] = L[5] /\ L[3] # << >> /\ M[3] = Tail(L[3])
          /\ M[2] = Append(L[2], Head(L[3]))
      <4>1. M[4] = L[4] /\ M[5] = L[5]
        BY <1>7, <1>8, <2>2, <2>6, <2>b, <2>c, <3>1
      <4>2. L[3] = Holding(i) /\ M[3] = Holding(None)
        BY <1>7, <1>8, <2>2, <2>6, <2>b, <2>c
      <4>3. M[2] = Append(L[2], i)
        BY <1>7, <1>8, <2>2, <2>b, <2>c, <3>1
      <4>4. QED BY <2>3, <4>1, <4>2, <4>3
    <3>3. MovedOn(L, M, 7, 3, 2)
      BY <2>5, <3>2 DEF MovedOn
    <3>4. QED BY <2>a, <3>3, MovesOn
  <2>7. CASE w = LBFor(t)
    <3>1. q # 0
      BY <1>3, <1>5, <2>2, <2>7, RouteFacts
    <3>2. /\ M[2] = L[2] /\ M[3] = L[3]
          /\ L[5] # << >> /\ Head(L[5]) = i /\ M[5] = Tail(L[5])
      BY <1>7, <1>8, <2>2, <2>3, <2>7, <2>b, <2>c, <3>1
    <3>3. CASE q = Route(t)
      <4>1. M[4] = Append(L[4], Head(L[5]))
        BY <1>4, <1>8, <2>b, <2>c, <3>2, <3>3
      <4>2. MovedOn(L, M, 7, 5, 4)
        BY <2>5, <3>2, <4>1 DEF MovedOn
      <4>3. QED BY <2>a, <4>2, MovesOn
    <3>4. CASE q # Route(t)
      <4>1. M[4] = L[4]
        BY <1>8, <2>2, <2>b, <2>c, <3>4
      <4>2. Left(L, M, 7, 5)
        BY <2>5, <3>2, <4>1 DEF Left
      <4>3. QED BY <2>a, <4>2, LeavesLine
    <3>5. QED BY <3>3, <3>4
  <2>8. CASE w # Route(t) /\ w # LBFor(t)
    <3>1. q # Route(t)
      <4>1. CASE w \in LBs
        BY <1>3, <1>5, <2>8, <4>1, OnePool
      <4>2. CASE w \notin LBs
        BY <1>5, <2>2, <4>2
      <4>3. QED BY <4>1, <4>2
    <3>2. M[3] = L[3] /\ M[5] = L[5] /\ M[4] = L[4]
      BY <1>8, <2>2, <2>8, <2>b, <2>c, <3>1
    <3>3. CASE q = 0
      <4>1. i \notin PacketsOf(t) /\ i \in Nat
        BY <1>3, <1>5, <2>8, <3>3, JobFacts, RouteFacts DEF PacketsOf
      <4>2. M[2] = Append(L[2], i)
        BY <1>8, <2>2, <2>b, <2>c, <3>3
      <4>3. Entered(L, M, 7, 2, i)
        BY <2>5, <3>2, <4>1, <4>2 DEF Entered
      <4>4. QED BY <2>a, <4>1, <4>3, EntersLine
    <3>4. CASE q # 0
      <4>1. M[2] = L[2]
        BY <1>8, <2>2, <2>b, <2>c, <3>4
      <4>2. \A p \in 1..7 : M[p] = L[p]
        BY <2>5, <3>2, <4>1
      <4>3. QED BY <2>a, <4>2, StaysInOrder
    <3>5. QED BY <3>3, <3>4
  <2>9. QED BY <2>6, <2>7, <2>8
<1>11. QED BY <1>9, <1>10

\* A dropped packet leaves its line.
LEMMA DropOrder == ASSUME OInv, NEW w \in Workers, Judge(w), hand' # hand PROVE Routed' /\ TupleOrder'
<1> DEFINE i == hand[w]
<1>1. /\ at[w] = "judge" /\ hand' = [hand EXCEPT ![w] = None]
      /\ UNCHANGED <<written, inHand, queue>>
  BY DEF Judge
<1>2. TypeOK /\ TypeOK'
  BY JudgeStep DEF OInv, IInv
<1>3. i \in Jobs /\ w \in FPs
  BY <1>1, <1>2, Numbers DEF TypeOK
<1>4. hand[w] = i
  OBVIOUS
<1> HIDE DEF i
<1>5. \A v \in Workers : hand'[v] = IF v = w THEN None ELSE hand[v]
  BY <1>1, <1>2 DEF TypeOK
<1>6. Routed'
  <2>1. \A v \in Workers : With(v)' = Elements(queue[v]) \cup ({hand'[v]} \ {None})
    BY <1>1 DEF With, Elements
  <2>2. \A v \in Workers : With(v)' \subseteq With(v)
    BY <1>5, <2>1 DEF With
  <2>3. QED BY <2>2, RoutedKept DEF OInv
<1>7. TupleOrder'
  <2>1. SUFFICES ASSUME NEW t \in Tuples PROVE InOrder(Line(t)', PacketsOf(t))
    BY DEF TupleOrder, PacketsOf
  <2> DEFINE L == Line(t)  M == Line(t)'
  <2>a. IsLine(L, 7) /\ IsLine(M, 7) /\ InOrder(L, PacketsOf(t))
    BY <1>2, LineFacts, LineFactsNext DEF OInv, TupleOrder
  <2>b. /\ L[1] = written /\ L[2] = queue[0] /\ L[3] = Holding(hand[Route(t)])
        /\ L[4] = queue[Route(t)] /\ L[5] = Holding(hand[LBFor(t)])
        /\ L[6] = queue[LBFor(t)] /\ L[7] = Holding(inHand)
    BY <1>2, LineFacts
  <2>c. /\ M[1] = written' /\ M[2] = queue'[0] /\ M[3] = Holding(hand'[Route(t)])
        /\ M[4] = queue'[Route(t)] /\ M[5] = Holding(hand'[LBFor(t)])
        /\ M[6] = queue'[LBFor(t)] /\ M[7] = Holding(inHand')
    BY <1>2, LineFactsNext
  <2>d. SUFFICES InOrder(M, PacketsOf(t))
    OBVIOUS
  <2> HIDE DEF L, M
  <2>2. /\ w # LBFor(t) /\ Route(t) \in Workers /\ LBFor(t) \in Workers
    BY <1>3, RouteFacts
  <2>3. M[1] = L[1] /\ M[2] = L[2] /\ M[4] = L[4] /\ M[5] = L[5] /\ M[6] = L[6] /\ M[7] = L[7]
    BY <1>1, <1>5, <2>2, <2>b, <2>c
  <2>4. CASE w = Route(t)
    <3>1. L[3] # << >> /\ M[3] = Tail(L[3])
      BY <1>3, <1>4, <1>5, <2>2, <2>4, <2>b, <2>c, Held
    <3>2. Left(L, M, 7, 3)
      BY <2>3, <3>1 DEF Left
    <3>3. QED BY <2>a, <3>2, LeavesLine
  <2>5. CASE w # Route(t)
    <3>1. M[3] = L[3]
      BY <1>5, <2>2, <2>5, <2>b, <2>c
    <3>2. \A p \in 1..7 : M[p] = L[p]
      BY <2>3, <3>1
    <3>3. QED BY <2>a, <3>2, StaysInOrder
  <2>6. QED BY <2>4, <2>5
<1>8. QED BY <1>6, <1>7

\* The writer moves a packet to the end of the line.
LEMMA WriterPopOrder == ASSUME OInv, WriterPop PROVE Routed' /\ TupleOrder'
<1>1. UNCHANGED <<inHand, hand>>
  BY DEF WriterPop
<1>2. TypeOK /\ TypeOK'
  BY WriterPopStep DEF OInv, IInv
<1>3. CASE queue[0] = << >>
  BY <1>1, <1>3, PlacesKept DEF WriterPop, OInv
<1>4. CASE queue[0] # << >>
  <2>1. /\ written' = Append(written, Head(queue[0]))
        /\ queue' = [queue EXCEPT ![0] = Tail(queue[0])]
    BY <1>4 DEF WriterPop
  <2>2. \A r \in Queues : queue'[r] = IF r = 0 THEN Tail(queue[0]) ELSE queue[r]
    BY <1>2, <2>1 DEF TypeOK
  <2>3. Routed'
    <3>1. \A v \in Workers : With(v)' \subseteq With(v)
      BY <1>1, <2>2, Numbers DEF With, Elements
    <3>2. QED BY <3>1, RoutedKept DEF OInv
  <2>4. TupleOrder'
    <3>1. SUFFICES ASSUME NEW t \in Tuples PROVE InOrder(Line(t)', PacketsOf(t))
      BY DEF TupleOrder, PacketsOf
    <3> DEFINE L == Line(t)  M == Line(t)'
    <3>a. IsLine(L, 7) /\ IsLine(M, 7) /\ InOrder(L, PacketsOf(t))
      BY <1>2, LineFacts, LineFactsNext DEF OInv, TupleOrder
    <3>b. /\ L[1] = written /\ L[2] = queue[0] /\ L[3] = Holding(hand[Route(t)])
          /\ L[4] = queue[Route(t)] /\ L[5] = Holding(hand[LBFor(t)])
          /\ L[6] = queue[LBFor(t)] /\ L[7] = Holding(inHand)
      BY <1>2, LineFacts
    <3>c. /\ M[1] = written' /\ M[2] = queue'[0] /\ M[3] = Holding(hand'[Route(t)])
          /\ M[4] = queue'[Route(t)] /\ M[5] = Holding(hand'[LBFor(t)])
          /\ M[6] = queue'[LBFor(t)] /\ M[7] = Holding(inHand')
      BY <1>2, LineFactsNext
    <3>d. SUFFICES InOrder(M, PacketsOf(t))
      OBVIOUS
    <3> HIDE DEF L, M
    <3>2. /\ Route(t) \in Queues /\ Route(t) # 0
          /\ LBFor(t) \in Queues /\ LBFor(t) # 0 /\ 0 \in Queues
      BY RouteFacts, Numbers
    <3>3. M[3] = L[3] /\ M[4] = L[4] /\ M[5] = L[5] /\ M[6] = L[6] /\ M[7] = L[7]
      BY <1>1, <2>2, <3>2, <3>b, <3>c
    <3>4. L[2] # << >> /\ M[2] = Tail(L[2]) /\ M[1] = Append(L[1], Head(L[2]))
      BY <1>4, <2>1, <2>2, <3>2, <3>b, <3>c
    <3>5. MovedOn(L, M, 7, 2, 1)
      BY <3>3, <3>4 DEF MovedOn
    <3>6. QED BY <3>a, <3>5, MovesOn
  <2>5. QED BY <2>3, <2>4
<1>5. QED BY <1>3, <1>4

-----------------------------------------------------------------------------
(* Initially nothing is with anybody, and every line is empty.             *)
LEMMA OInvInit == Init => OInv
<1> SUFFICES ASSUME Init PROVE OInv
  OBVIOUS
<1>1. IInv
  BY IInvInit
<1>2. \A w \in Workers : With(w) = {}
  BY Numbers DEF Init, With, Elements
<1>3. Routed
  BY <1>2, Numbers DEF Routed
<1>4. TupleOrder
  <2>1. SUFFICES ASSUME NEW t \in Tuples PROVE InOrder(Line(t), PacketsOf(t))
    BY DEF TupleOrder
  <2>2. \A p \in 1..7 : Line(t)[p] = << >>
    <3>1. TypeOK
      BY <1>1 DEF IInv
    <3>2. /\ written = << >> /\ queue[0] = << >> /\ queue[Route(t)] = << >>
          /\ queue[LBFor(t)] = << >> /\ Holding(hand[Route(t)]) = << >>
          /\ Holding(hand[LBFor(t)]) = << >> /\ Holding(inHand) = << >>
      BY RouteFacts, Numbers DEF Init, Holding, None
    <3>3. QED BY <3>1, <3>2, LineFacts
  <2>3. DOMAIN Line(t) = 1..7
    BY DEF Line
  <2>4. QED BY <2>2, <2>3 DEF InOrder
<1>5. QED BY <1>1, <1>3, <1>4 DEF OInv

(* Every step keeps the routing and the order, on top of IInv.             *)
LEMMA OInvStep == OInv /\ [Next]_vars => OInv'
<1> SUFFICES ASSUME OInv, [Next]_vars PROVE OInv'
  OBVIOUS
<1>1. IInv'
  BY IInvStep DEF OInv
<1>2. CASE Main
  <2>1. CASE ReadPacket
    BY <1>1, <2>1, ReadPacketOrder DEF OInv
  <2>2. CASE Dispatch
    BY <1>1, <2>2, DispatchOrder DEF OInv
  <2>3. CASE Ending
    <3>1. UNCHANGED rest
      BY <2>3, EndingStep DEF OInv
    <3>2. QED BY <1>1, <3>1, PlacesKept DEF OInv, rest
  <2>4. QED BY <1>2, <2>1, <2>2, <2>3 DEF Main, Ending
<1>3. CASE \E w \in Workers : Work(w)
  <2>1. PICK w \in Workers : Work(w)
    BY <1>3
  <2>2. CASE TestRunning(w)
    BY <1>1, <2>2, PlacesKept DEF TestRunning, OInv
  <2>3. CASE PopWithTimeout(w)
    BY <1>1, <2>3, PopOrder DEF OInv
  <2>4. CASE WorkerPush(w)
    BY <1>1, <2>4, PushOrder DEF OInv
  <2>5. CASE Judge(w)
    <3>1. CASE hand' = hand
      BY <1>1, <2>5, <3>1, PlacesKept DEF Judge, OInv
    <3>2. CASE hand' # hand
      BY <1>1, <2>5, <3>2, DropOrder DEF OInv
    <3>3. QED BY <3>1, <3>2
  <2>6. QED BY <2>1, <2>2, <2>3, <2>4, <2>5 DEF Work
<1>4. CASE WriterTest
  BY <1>1, <1>4, PlacesKept DEF WriterTest, OInv
<1>5. CASE WriterPop
  BY <1>1, <1>5, WriterPopOrder DEF OInv
<1>6. CASE UNCHANGED vars
  BY <1>1, <1>6, PlacesKept DEF OInv, vars
<1>7. QED BY <1>2, <1>3, <1>4, <1>5, <1>6 DEF Next

(* Stopping loses packets only in front of an FP, and the file keeps the   *)
(* order of each five-tuple, for any number of threads and any capacities. *)
THEOREM OutputIsComplete == Spec => []OutputComplete
<1>1. OInv => OutputComplete
  <2> SUFFICES ASSUME OInv PROVE OutputComplete
    OBVIOUS
  <2>1. TypeOK /\ StopOrder /\ Taken = Waiting \cup Done
    BY DEF OInv, IInv, Conserved
  <2>2. ASSUME NEW j \in 1..Len(written), NEW k \in 1..Len(written), j < k,
               TupleOf[written[j]] = TupleOf[written[k]]
        PROVE  written[j] < written[k]
    <3>1. written[j] \in Jobs /\ written[k] \in Jobs
      BY <2>1 DEF TypeOK
    <3> DEFINE t == TupleOf[written[k]]
    <3>2. t \in Tuples /\ written[j] \in PacketsOf(t) /\ written[k] \in PacketsOf(t)
      BY <2>2, <3>1, JobFacts DEF PacketsOf
    <3> HIDE DEF t
    <3>3. InOrder(Line(t), PacketsOf(t)) /\ Line(t)[1] = written
      BY <2>1, <3>2, LineFacts DEF OInv, TupleOrder
    <3>4. 1 \in DOMAIN Line(t) /\ Ahead(1, j, 1, k)
      BY <2>2 DEF Line, Ahead
    <3>5. QED BY <3>2, <3>3, <3>4 DEF InOrder
  <2>3. ASSUME phase = "closed"
        PROVE  /\ queue[0] = << >> /\ \A w \in Workers : at[w] = "done"
               /\ Taken = Elements(written) \cup dropped
                            \cup UNION {Elements(queue[q]) : q \in LBs \cup FPs}
    <3>1. queue[0] = << >> /\ inHand = None /\ \A w \in Workers : at[w] = "done"
      BY <2>1, <2>3 DEF StopOrder
    <3>2. Done = Elements(written) \cup dropped
      BY <3>1, Numbers DEF Done, Emitted, Elements
    <3>3. Waiting = UNION {Elements(queue[q]) : q \in LBs \cup FPs}
      <4>1. \A w : w \in Workers <=> w \in LBs \cup FPs
        BY Numbers
      <4>2. \A q \in LBs \cup FPs : Elements(queue[q]) \subseteq Jobs
        <5>1. \A q \in LBs \cup FPs : queue[q] \in Seq(Jobs)
          BY <2>1, Numbers DEF TypeOK
        <5>2. QED BY <5>1 DEF Elements
      <4>3. \A i \in Jobs : i \in Waiting <=> \E w \in Workers : i \in Elements(queue[w])
        BY <3>1, JobFacts DEF Waiting, Unjudged
      <4>4. Waiting \subseteq Jobs
        BY DEF Waiting
      <4>5. QED BY <4>1, <4>2, <4>3, <4>4
    <3>4. QED BY <2>1, <3>1, <3>2, <3>3
  <2>4. QED BY <2>2, <2>3 DEF OutputComplete
<1>2. Spec => []OInv
  BY OInvInit, OInvStep, PTL DEF Spec
<1>3. QED BY <1>1, <1>2, PTL
-----------------------------------------------------------------------------
(* The verdicts.  What a single thread makes of a flow is defined by a     *)
(* recursion over its packets, which is well founded.                      *)
MaxOf(S) == CHOOSE j \in S : \A k \in S : k <= j

Latest(f, S) == IF S = {} THEN NoFlow ELSE f[MaxOf(S)]

Step(f, i) == Judged(Latest(f, Before(i) \ {i}), i)

(* Every non-empty set of packets has a last one.                          *)
LEMMA MaxFacts ==
  ASSUME NEW S, S \subseteq Packets, S # {}
  PROVE  MaxOf(S) \in S /\ \A k \in S : k <= MaxOf(S)
<1> DEFINE T == {NumPackets - k : k \in S}
<1>1. \A k \in S : k \in Nat /\ NumPackets \in Nat /\ k <= NumPackets
  BY Numbers DEF Packets
<1>2. T \subseteq Nat /\ T # {}
  BY <1>1
<1>3. PICK x \in T : \A y \in T : x <= y
  BY <1>2, LeastNatural
<1>4. PICK j \in S : x = NumPackets - j
  BY <1>3
<1>5. \A k \in S : k <= j
  <2>1. SUFFICES ASSUME NEW k \in S PROVE k <= j
    OBVIOUS
  <2>2. NumPackets - j <= NumPackets - k
    BY <1>3, <1>4
  <2>3. QED BY <1>1, <1>4, <2>2
<1>6. QED BY <1>4, <1>5 DEF MaxOf

\* Recursion goes from a packet to an earlier one.
LEMMA BeforeFacts ==
  ASSUME NEW i \in Packets
  PROVE  /\ Before(i) \subseteq Packets
         /\ Before(i) \ {i} # {} => /\ MaxOf(Before(i) \ {i}) \in Packets
                                   /\ MaxOf(Before(i) \ {i}) < i
<1>1. \A j \in Before(i) : j \in Packets /\ j <= i
  BY DEF Before, Jobs
<1>2. ASSUME Before(i) \ {i} # {}
      PROVE  MaxOf(Before(i) \ {i}) \in Before(i) \ {i}
  BY <1>1, <1>2, MaxFacts
<1>3. \A j \in Before(i) \ {i} : j < i
  BY <1>1, Numbers DEF Packets
<1>4. QED BY <1>1, <1>2, <1>3

(* A step needs no more than the packets before it.                        *)
LEMMA StepLocal ==
  ASSUME NEW i \in Packets, NEW f, NEW g,
         \A m \in Packets : m < i => f[m] = g[m]
  PROVE  Step(f, i) = Step(g, i)
BY BeforeFacts DEF Step, Latest

Unfolds(n, f) == f = [i \in 1..n |-> Step(f, i)]

\* The recursion unfolds over any number of packets.
LEMMA Unfolding == \E f : Unfolds(NumPackets, f)
<1> DEFINE T == {n \in 0..NumPackets : ~ \E f : Unfolds(n, f)}
<1>1. NumPackets \in Nat
  BY Numbers
<1>2. SUFFICES ASSUME T # {} PROVE FALSE
  BY <1>1
<1>3. PICK n \in T : \A m \in T : n <= m
  <2>1. T \subseteq Nat
    BY <1>1
  <2> HIDE DEF T
  <2>2. QED BY <1>2, <2>1, LeastNatural
<1>4. n \in Nat /\ n <= NumPackets /\ ~ \E f : Unfolds(n, f)
  BY <1>1
<1>5. n # 0
  <2>1. SUFFICES ASSUME n = 0 PROVE FALSE
    OBVIOUS
  <2> DEFINE f == [i \in 1..0 |-> NoFlow]
  <2>2. f = [i \in 1..0 |-> Step(f, i)]
    OBVIOUS
  <2>3. Unfolds(0, f)
    BY <2>2 DEF Unfolds
  <2>4. QED BY <1>4, <2>1, <2>3
<1>6. \E f : Unfolds(n - 1, f)
  <2>1. n - 1 \in 0..NumPackets /\ ~(n <= n - 1)
    BY <1>1, <1>4, <1>5
  <2>2. n - 1 \notin T
    BY <1>3, <2>1
  <2>3. QED BY <2>1, <2>2
<1>7. PICK f : Unfolds(n - 1, f)
  BY <1>6
<1> DEFINE g == [i \in 1..n |-> Step(f, i)]
<1>8. \A m \in 1..(n - 1) : f[m] = g[m]
  <2>1. \A m \in 1..(n - 1) : f[m] = Step(f, m)
    BY <1>7 DEF Unfolds
  <2>2. \A m \in 1..(n - 1) : m \in 1..n
    BY <1>4, <1>5
  <2>3. QED BY <2>1, <2>2
<1> HIDE DEF T
<1>9. \A i \in 1..n : Step(f, i) = Step(g, i)
  <2>1. SUFFICES ASSUME NEW i \in 1..n PROVE Step(f, i) = Step(g, i)
    OBVIOUS
  <2>2. i \in Packets
    BY <1>1, <1>4 DEF Packets
  <2>3. \A m \in Packets : m < i => m \in 1..(n - 1)
    BY <1>1, <1>4 DEF Packets
  <2> HIDE DEF g
  <2>4. \A m \in Packets : m < i => f[m] = g[m]
    BY <1>8, <2>3
  <2>5. QED BY <2>2, <2>4, StepLocal
<1>10. g = [i \in 1..n |-> Step(g, i)]
  <2> DEFINE h == [i \in 1..n |-> Step(g, i)]
  <2>1. \A i \in 1..n : g[i] = h[i]
    BY <1>9
  <2>2. g = [i \in 1..n |-> g[i]] /\ h = [i \in 1..n |-> h[i]]
    OBVIOUS
  <2> HIDE DEF g, h
  <2>3. g = h
    BY <2>1, <2>2
  <2>4. QED BY <2>3 DEF h
<1> HIDE DEF g
<1>11. Unfolds(n, g)
  BY <1>10 DEF Unfolds
<1>12. QED BY <1>4, <1>11

\* FlowAfter is what its recursive definition says.
LEMMA FlowAfterIs == \A i \in Packets : FlowAfter[i] = Step(FlowAfter, i)
<1> DEFINE P(f) == f = [i \in Packets |-> Step(f, i)]
<1>1. FlowAfter = CHOOSE f : P(f)
  BY DEF FlowAfter, Step, Latest, MaxOf
<1>2. \E f : P(f)
  BY Unfolding DEF Unfolds, Packets
<1>3. P(FlowAfter)
  <2> HIDE DEF P
  <2>1. P(CHOOSE f : P(f))
    BY <1>2
  <2>2. QED BY <1>1, <2>1
<1>4. QED BY <1>3
-----------------------------------------------------------------------------
(* Of one five-tuple, what is judged comes before what waits, and the FP's *)
(* entry is what a single thread would have after the packets judged.      *)
Cut == \A i \in Done, j \in Waiting : TupleOf[i] = TupleOf[j] => i < j

DoneOf(t) == {i \in Done : TupleOf[i] = t}

FlowsTyped == flows = [f \in FPs |-> [t \in Tuples |-> flows[f][t]]]

InStep == \A t \in Tuples : flows[Route(t)][t] = Latest(FlowAfter, DoneOf(t))

VInv == OInv /\ Cut /\ FlowsTyped /\ InStep /\ VerdictsAreSequential

(* The packet an FP is about to judge is the first of its tuple to wait.   *)
LEMMA FirstWaiting ==
  ASSUME OInv, NEW w \in Workers, at[w] = "judge",
         NEW j \in Others(w), TupleOf[j] = TupleOf[hand[w]]
  PROVE  hand[w] < j
<1> DEFINE i == hand[w]  t == TupleOf[hand[w]]
<1>1. TypeOK /\ Routed /\ TupleOrder
  BY DEF OInv, IInv
<1>2. i \in Jobs /\ i # None /\ w \in FPs /\ t \in Tuples /\ j \in Jobs /\ j # None
  BY <1>1, Numbers, JobFacts DEF TypeOK, Others
<1>3. w = Route(t) /\ TupleOf[j] = t
  BY <1>1, <1>2 DEF Routed, With
<1>4. /\ InOrder(Line(t), PacketsOf(t))
      /\ Line(t)[3] = Holding(i) /\ Line(t)[4] = queue[Route(t)]
      /\ Line(t)[5] = Holding(hand[LBFor(t)]) /\ Line(t)[6] = queue[LBFor(t)]
      /\ Line(t)[7] = Holding(inHand)
  BY <1>1, <1>2, <1>3, LineFacts DEF TupleOrder
<1>5. /\ Holding(i) = <<i>> /\ Holding(j) = <<j>>
      /\ i \in PacketsOf(t) /\ j \in PacketsOf(t)
  BY <1>2, <1>3, HoldingType DEF PacketsOf
<1>6. DOMAIN Line(t) = 1..7
  BY DEF Line
<1> HIDE DEF i, t
<1>7. \A p \in 4..7 : \A k \in 1..Len(Line(t)[p]) : Line(t)[p][k] = j => i < j
  <2>1. SUFFICES ASSUME NEW p \in 4..7, NEW k \in 1..Len(Line(t)[p]), Line(t)[p][k] = j
                 PROVE  i < j
    OBVIOUS
  <2>2. /\ 3 \in DOMAIN Line(t) /\ p \in DOMAIN Line(t)
        /\ 1 \in 1..Len(Line(t)[3]) /\ Line(t)[3][1] = i /\ Ahead(3, 1, p, k)
    BY <1>4, <1>5, <1>6, <2>1 DEF Ahead
  <2>3. QED BY <1>4, <1>5, <2>1, <2>2 DEF InOrder
<1>8. ASSUME NEW v \in Workers, j \in Elements(queue[v])
      PROVE  i < j
  <2>1. PICK k \in 1..Len(queue[v]) : queue[v][k] = j
    BY <1>8 DEF Elements
  <2>2. (v = LBFor(t) /\ Line(t)[6] = queue[v]) \/ (v = Route(t) /\ Line(t)[4] = queue[v])
    BY <1>1, <1>3, <1>4, <1>8, Numbers DEF Routed, With
  <2>3. QED BY <1>7, <2>1, <2>2
<1>9. ASSUME NEW v \in Workers \ {w}, hand[v] = j
      PROVE  i < j
  <2>1. v = LBFor(t)
    BY <1>1, <1>2, <1>3, <1>9, Numbers DEF Routed, With
  <2>2. Line(t)[5] = <<j>> /\ 5 \in 4..7
    BY <1>4, <1>5, <1>9, <2>1
  <2>3. 1 \in 1..Len(Line(t)[5]) /\ Line(t)[5][1] = j
    BY <2>2
  <2>4. QED BY <1>7, <2>2, <2>3
<1>10. ASSUME inHand = j PROVE i < j
  BY SMTT(60), <1>4, <1>5, <1>7, <1>10
<1>11. i < j
  BY <1>8, <1>9, <1>10 DEF Others
<1>12. QED BY <1>11 DEF i

(* The rules never change, and with them the verdicts of a single thread.  *)
LEMMA SameVerdicts == ASSUME rules' = rules PROVE FlowAfter' = FlowAfter
BY DEF FlowAfter, Judged, IsBlocked, ClassifyFlow, Before, Jobs, NoFlow

\* No step changes the rules.
LEMMA RulesKept == [Next]_vars => rules' = rules
BY DEF Next, Main, Work, vars, rest, ReadPacket, Dispatch, Sleep, StopWorker, JoinWorker,
       ShutOutput, JoinWriter, TestRunning, PopWithTimeout, Judge, WorkerPush,
       WriterTest, WriterPop

(* A step that judges nothing.                                             *)
LEMMA QuietStep ==
  ASSUME VInv, OInv', rules' = rules, flows' = flows, dropped' = dropped,
         Emitted' = Emitted, Done' = Done,
         \A j \in Waiting' : j \in Waiting \/ \A i \in Done : i < j
  PROVE  VInv'
<1>1. Cut'
  BY DEF VInv, Cut
<1>2. FlowsTyped'
  BY DEF VInv, FlowsTyped
<1>3. InStep'
  <2>1. \A t \in Tuples : DoneOf(t)' = DoneOf(t)
    BY DEF DoneOf
  <2>2. FlowAfter' = FlowAfter
    BY SameVerdicts
  <2>3. SUFFICES ASSUME NEW t \in Tuples
                 PROVE  flows'[Route(t)][t] = Latest(FlowAfter', DoneOf(t)')
    BY DEF InStep, Latest, MaxOf, NoFlow, Route, LBFor
  <2>4. flows'[Route(t)][t] = Latest(FlowAfter, DoneOf(t))
    BY DEF VInv, InStep
  <2>5. QED BY <2>1, <2>2, <2>4
<1>4. VerdictsAreSequential'
  BY SameVerdicts DEF VInv, VerdictsAreSequential, Before
<1>5. QED BY <1>1, <1>2, <1>3, <1>4 DEF VInv
(* Judging packet i: its flow is where the packets before it leave it.     *)
LEMMA JudgedInOrder ==
  ASSUME VInv, NEW w \in Workers, Judge(w)
  PROVE  /\ DoneOf(TupleOf[hand[w]]) = Before(hand[w]) \ {hand[w]}
         /\ Judged(flows[w][TupleOf[hand[w]]], hand[w]) = FlowAfter[hand[w]]
         /\ w = Route(TupleOf[hand[w]])
<1> DEFINE i == hand[w]  t == TupleOf[hand[w]]
<1>1. i \in Jobs /\ w \in FPs /\ at[w] = "judge" /\ i \in Waiting
  BY JudgeStep DEF VInv, OInv
<1>2. t \in Tuples /\ i \in Nat /\ i # None /\ i \in Packets /\ Done \subseteq Taken
  BY <1>1, JobFacts DEF VInv, OInv, IInv, Conserved
<1>3. w = Route(t)
  BY <1>1, <1>2 DEF VInv, OInv, Routed, With
<1>4. DoneOf(t) \subseteq Before(i) \ {i}
  <2>1. SUFFICES ASSUME NEW d \in DoneOf(t) PROVE d \in Before(i) \ {i}
    OBVIOUS
  <2>2. d \in Done /\ TupleOf[d] = t /\ d < i /\ d \in Jobs
    BY <1>1, <1>2 DEF DoneOf, VInv, Cut, Taken
  <2>3. d \in Nat
    BY <2>2, JobFacts
  <2>4. QED BY <1>2, <2>2, <2>3 DEF Before
<1>5. Before(i) \ {i} \subseteq DoneOf(t)
  <2>1. SUFFICES ASSUME NEW d \in Before(i) \ {i} PROVE d \in DoneOf(t)
    OBVIOUS
  <2>2. d \in Jobs /\ TupleOf[d] = t /\ d <= i /\ d # i /\ d \in Nat
    BY JobFacts DEF Before
  <2>3. d \in Taken
    <3>1. i \in Taken /\ pos \in Nat
      BY <1>1, Numbers DEF VInv, OInv, IInv, TypeOK, Conserved
    <3>2. QED BY <1>2, <2>2, <3>1 DEF Taken
  <2>4. d \notin Waiting
    <3>1. SUFFICES ASSUME d \in Waiting PROVE FALSE
      OBVIOUS
    <3>2. d \in Others(w)
      BY <2>2, <3>1 DEF Waiting, Others
    <3>3. i < d
      BY <1>1, <2>2, <3>2, FirstWaiting DEF VInv
    <3>4. QED BY <1>2, <2>2, <3>3
  <2>5. QED BY <2>2, <2>3, <2>4 DEF DoneOf, VInv, OInv, IInv, Conserved
<1>6. Judged(flows[w][t], i) = FlowAfter[i]
  <2>1. flows[w][t] = Latest(FlowAfter, Before(i) \ {i})
    BY <1>2, <1>3, <1>4, <1>5 DEF VInv, InStep
  <2>2. QED BY <1>2, <2>1, FlowAfterIs DEF Step
<1>7. QED BY <1>3, <1>4, <1>5, <1>6

\* Judging a packet keeps the verdicts.
LEMMA VerdictStep ==
  ASSUME VInv, OInv', NEW w \in Workers, Judge(w)
  PROVE  VInv'
<1> DEFINE i == hand[w]  t == TupleOf[hand[w]]
<1>1. /\ i \in Jobs /\ w \in FPs /\ at[w] = "judge"
      /\ Waiting' \subseteq Waiting /\ Waiting' \subseteq Others(w)
      /\ Done' = Done \cup {i}
  BY JudgeStep DEF VInv, OInv
<1>2. rules' = rules
  BY DEF Judge
<1>3. /\ DoneOf(t) = Before(i) \ {i} /\ w = Route(t)
      /\ Judged(flows[w][t], i) = FlowAfter[i]
  BY JudgedInOrder
<1>4. /\ flows' = [flows EXCEPT ![w][t] = FlowAfter[i]]
      /\ FlowAfter[i].blocked => dropped' = dropped \cup {i} /\ Emitted' = Emitted
      /\ ~FlowAfter[i].blocked => dropped' = dropped /\ Emitted' = Emitted \cup {i}
  BY <1>3, JudgeStep DEF VInv, OInv
<1>5. t \in Tuples /\ i \in Nat /\ i \in Packets
  BY <1>1, JobFacts
<1>6. /\ FlowAfter' = FlowAfter
      /\ \A j : Before(j)' = Before(j)
  BY <1>2, SameVerdicts DEF Before
<1>7. \A j \in Others(w) : TupleOf[j] = t => i < j
  BY <1>1, FirstWaiting DEF VInv
<1> HIDE DEF i, t
<1>t. t = TupleOf[i]
  BY DEF i, t
<1>8. Cut'
  BY <1>1, <1>7, <1>t DEF VInv, Cut
<1>9. /\ FlowsTyped'
      /\ flows'[w][t] = FlowAfter[i]
      /\ \A f \in FPs, u \in Tuples : u # t => flows'[f][u] = flows[f][u]
  <2> DEFINE g == [f \in FPs |-> [u \in Tuples |-> IF f = w /\ u = t THEN FlowAfter[i]
                                                   ELSE flows[f][u]]]
  <2>1. flows = [f \in FPs |-> [u \in Tuples |-> flows[f][u]]]
    BY DEF VInv, FlowsTyped
  <2>2. flows' = g
    BY <1>1, <1>4, <1>5, <2>1
  <2>3. \A f \in FPs, u \in Tuples : g[f][u] = IF f = w /\ u = t THEN FlowAfter[i]
                                               ELSE flows[f][u]
    OBVIOUS
  <2>4. g = [f \in FPs |-> [u \in Tuples |-> g[f][u]]]
    OBVIOUS
  <2> HIDE DEF g
  <2>5. QED BY <1>1, <1>5, <2>2, <2>3, <2>4 DEF FlowsTyped
<1>11. i \in Before(i)
  BY <1>1, <1>5 DEF Before
<1>10. InStep'
  <2>1. SUFFICES ASSUME NEW u \in Tuples
                 PROVE  flows'[Route(u)][u] = Latest(FlowAfter, DoneOf(u)')
    BY <1>6 DEF InStep, Latest, MaxOf, NoFlow, Route, LBFor
  <2>2. CASE u = t
    <3>1. DoneOf(u)' = Before(i)
      <4>1. DoneOf(u)' = DoneOf(u) \cup {i}
        BY <1>1, <1>t, <2>2 DEF DoneOf
      <4>2. QED BY <1>3, <1>11, <2>2, <4>1
    <3>2. MaxOf(Before(i)) = i
      <4>1. Before(i) \subseteq Packets
        BY <1>5, BeforeFacts
      <4>2. MaxOf(Before(i)) \in Before(i) /\ i <= MaxOf(Before(i))
        BY <1>11, <4>1, MaxFacts
      <4>3. MaxOf(Before(i)) <= i /\ MaxOf(Before(i)) \in Nat
        BY <4>1, <4>2, JobFacts DEF Before
      <4>4. QED BY <1>5, <4>2, <4>3
    <3>3. Latest(FlowAfter, Before(i)) = FlowAfter[i]
      BY <1>11, <3>2 DEF Latest
    <3>4. flows'[Route(u)][u] = FlowAfter[i]
      BY <1>3, <1>9, <2>2
    <3>5. QED BY <3>1, <3>3, <3>4
  <2>3. CASE u # t
    <3>1. DoneOf(u)' = DoneOf(u)
      BY <1>1, <1>t, <2>3 DEF DoneOf
    <3>2. flows'[Route(u)][u] = flows[Route(u)][u]
      BY <1>9, <2>3, RouteFacts
    <3>3. QED BY <3>1, <3>2 DEF VInv, InStep
  <2>4. QED BY <2>2, <2>3
<1>12. VerdictsAreSequential'
  <2>1. \A j \in dropped' : FlowAfter[j].blocked
    BY <1>4 DEF VInv, VerdictsAreSequential
  <2>2. \A j \in Emitted' : ~FlowAfter[j].blocked
    BY <1>4 DEF VInv, VerdictsAreSequential
  <2>3. \A j \in Done' : Before(j) \subseteq Done'
    <3>1. Before(i) \subseteq Done'
      BY <1>1, <1>3 DEF DoneOf
    <3>2. QED BY <1>1, <3>1 DEF VInv, VerdictsAreSequential, Done
  <2>4. QED BY <1>6, <2>1, <2>2, <2>3 DEF VerdictsAreSequential, Done
<1>13. QED BY <1>8, <1>9, <1>10, <1>12 DEF VInv
\* Nothing is judged initially.
LEMMA VInvInit == Init => VInv
<1> SUFFICES ASSUME Init PROVE VInv
  OBVIOUS
<1>1. OInv
  BY OInvInit
<1>2. Emitted = {} /\ Done = {}
  BY Numbers DEF Init, Done, Emitted, Elements
<1>3. Cut /\ VerdictsAreSequential
  BY <1>2 DEF Init, Cut, VerdictsAreSequential, Done
<1>4. flows = [f \in FPs |-> [t \in Tuples |-> NoFlow]]
  BY DEF Init
<1>5. \A f \in FPs, t \in Tuples : flows[f][t] = NoFlow
  BY <1>4
<1>6. FlowsTyped
  BY <1>4 DEF FlowsTyped
<1>7. InStep
  BY <1>2, <1>5, RouteFacts DEF InStep, Latest, DoneOf
<1>8. QED BY <1>1, <1>3, <1>6, <1>7 DEF VInv

(* Every step keeps the verdicts, on top of the order.                     *)
LEMMA VInvStep == VInv /\ [Next]_vars => VInv'
<1> SUFFICES ASSUME VInv, [Next]_vars PROVE VInv'
  OBVIOUS
<1>1. OInv' /\ rules' = rules
  BY OInvStep, RulesKept DEF VInv
<1>2. IInv
  BY DEF VInv, OInv
<1>3. CASE Waiting' = Waiting /\ Done' = Done /\ Emitted' = Emitted
           /\ dropped' = dropped /\ flows' = flows
  BY <1>1, <1>3, QuietStep
<1>4. CASE Main
  <2>1. CASE ReadPacket
    <3>1. /\ Done' = Done /\ Emitted' = Emitted /\ dropped' = dropped /\ flows' = flows
          /\ Waiting' = Waiting \cup ({inHand'} \ {None})
      BY <1>2, <2>1, ReadStep DEF ReadPacket
    <3>2. inHand' # None => \A i \in Done : i < inHand'
      <4>1. inHand' # None => inHand' = pos + 1
        BY <2>1 DEF ReadPacket
      <4>2. \A i \in Done : i \in Nat /\ i <= pos /\ pos \in Nat
        BY <1>2, JobFacts, Numbers DEF IInv, TypeOK, Conserved, Taken
      <4>3. QED BY <4>1, <4>2
    <3>3. QED BY <1>1, <3>1, <3>2, QuietStep
  <2>2. CASE Dispatch
    BY <1>2, <1>3, <2>2, DispatchStep DEF Dispatch
  <2>3. CASE Ending
    <3>1. UNCHANGED rest
      BY <1>2, <2>3, EndingStep
    <3>2. QED BY <1>3, <3>1, SetsKept DEF rest
  <2>4. QED BY <1>4, <2>1, <2>2, <2>3 DEF Main, Ending
<1>5. CASE \E w \in Workers : Work(w)
  <2>1. PICK w \in Workers : Work(w)
    BY <1>5
  <2>2. CASE TestRunning(w)
    BY <1>2, <1>3, <2>2, TestRunningStep DEF TestRunning
  <2>3. CASE PopWithTimeout(w)
    BY <1>2, <1>3, <2>3, PopStep DEF PopWithTimeout
  <2>4. CASE WorkerPush(w)
    BY <1>2, <1>3, <2>4, PushStep
  <2>5. CASE Judge(w)
    BY <1>1, <2>5, VerdictStep
  <2>6. QED BY <2>1, <2>2, <2>3, <2>4, <2>5 DEF Work
<1>6. CASE WriterTest
  BY <1>3, <1>6, SetsKept DEF WriterTest
<1>7. CASE WriterPop
  BY <1>2, <1>3, <1>7, WriterPopStep
<1>8. CASE UNCHANGED vars
  BY <1>3, <1>8, SetsKept DEF vars
<1>9. QED BY <1>4, <1>5, <1>6, <1>7, <1>8 DEF Next

(* Whatever the schedule, every packet gets the verdict a single thread    *)
(* reading the capture in order would have given it, for any number of     *)
(* threads, any capture, hash, rules and capacities.                       *)
THEOREM VerdictsSequential == Spec => []VerdictsAreSequential
<1>1. VInv => VerdictsAreSequential
  BY DEF VInv
<1>2. Spec => []VInv
  BY VInvInit, VInvStep, PTL DEF Spec
<1>3. QED BY <1>1, <1>2, PTL
=============================================================================
